---------------------------- MODULE IntervalSet ----------------------------
(***************************************************************************)
(* What an rb_tree promises its callers: a set of disjoint intervals.  An  *)
(* insertion is refused exactly when it overlaps a member, a removal takes *)
(* the member that contains the key.                                       *)
(***************************************************************************)
EXTENDS Integers

CONSTANT Interval       \* the pairs <<start, end>> callers insert

VARIABLES
    members,    \* the intervals in the tree
    ret         \* what the last call returned

svars == <<members, ret>>

Overlap(a, b) == a[1] <= b[2] /\ b[1] <= a[2]
Contains(a, key) == a[1] <= key /\ key <= a[2]

SInit == members = {} /\ ret = "ok"

Add(a) ==
    /\ \A b \in members : ~Overlap(a, b)
    /\ members' = members \cup {a} /\ ret' = "ok"

Refuse(a) ==
    /\ \E b \in members : Overlap(a, b)
    /\ ret' = "overlap" /\ UNCHANGED members

NoMemory == ret' = "nomem" /\ UNCHANGED members

Drop(a) ==
    /\ a \in members
    /\ members' = members \ {a} /\ ret' = "ok"

Missing(key) ==
    /\ \A b \in members : ~Contains(b, key)
    /\ ret' = "missing" /\ UNCHANGED members

SNext ==
    \/ NoMemory
    \/ \E a \in Interval : Add(a) \/ Refuse(a) \/ Drop(a)
    \/ \E a \in Interval : \E key \in a[1] .. a[2] : Missing(key)

SSpec == SInit /\ [][SNext]_svars
=============================================================================
