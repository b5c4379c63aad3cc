SPECIFICATION Spec
CONSTANT Interval <- Intervals
INVARIANTS Validates SearchExact
PROPERTIES ImplementsIntervalSet FixupEnds
