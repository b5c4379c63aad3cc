SPECIFICATION Spec
CONSTANTS
    p1 = p1
    p2 = p2
    p3 = p3
    Page = {p1, p2, p3}
    PageSize = 20
    Size = 4
    Width = 4
SYMMETRY Pages
INVARIANTS FreeStackExact PagesAccounted DistinctObjects
CHECK_DEADLOCK FALSE
