------------------------------- MODULE RbTree -------------------------------
(***************************************************************************)
(* The red-black tree of intervals of libs/rb_tree.c.                      *)
(*                                                                         *)
(* A node is named by the start of its interval (members are disjoint, so  *)
(* no two nodes share one); Nil is the NULL pointer.  The source writes    *)
(* every case twice, once for each side; here the side is a parameter.     *)
(* Each case of the two fixup loops is a step; callers hold a lock, so one *)
(* operation is in flight at a time.                                       *)
(***************************************************************************)
EXTENDS Integers, FiniteSets

CONSTANT Interval       \* the pairs <<start, end>> callers insert

ASSUME IntervalAssumption ==
    \A a \in Interval : /\ a \in (Nat \ {0}) \X (Nat \ {0})
                        /\ a[1] <= a[2]

Nil == 0
RbNode == {a[1] : a \in Interval}
Key == UNION {a[1] .. a[2] : a \in Interval}
Side == {"left", "right"}
Other(d) == IF d = "left" THEN "right" ELSE "left"

VARIABLES
    tree,   \* the root and the fields of all nodes
    pc,     \* "idle", or the fixup loop that runs
    x, up,  \* nodex and parent of the loops
    ret     \* what the last call returned

vars == <<tree, pc, x, up, ret>>

\* A node that is not in the tree keeps this content.
Fresh == [end |-> 0, red |-> FALSE, parent |-> Nil, left |-> Nil, right |-> Nil]

\* rb_tree_create
Init ==
    /\ tree = [root |-> Nil, node |-> [n \in RbNode |-> Fresh]]
    /\ pc = "idle" /\ x = Nil /\ up = Nil
    /\ ret = "ok"

is_red(t, n) == n # Nil /\ t.node[n].red
is_black(t, n) == ~is_red(t, n)

\* node->field = v, skipped for NULL
Set(t, n, field, v) ==
    IF n = Nil THEN t ELSE [t EXCEPT !.node[n] = [@ EXCEPT ![field] = v]]

set_red(t, n) == Set(t, n, "red", TRUE)
set_black(t, n) == Set(t, n, "red", FALSE)

\* The pointer to n, in its parent or in the tree, becomes m.
Replace(t, n, m) ==
    LET p == t.node[n].parent
    IN  IF p = Nil THEN [t EXCEPT !.root = m]
        ELSE Set(t, p, IF t.node[p].left = n THEN "left" ELSE "right", m)

\* rotate_left and rotate_right: n goes down on side d
rotate(t, d, n) ==
    LET y == t.node[n][Other(d)]
        inner == t.node[y][d]
        t1 == Set(Set(t, n, Other(d), inner), inner, "parent", n)
        t2 == Set(t1, y, "parent", t.node[n].parent)
        t3 == Replace(t2, n, y)
    IN  Set(Set(t3, y, d, n), n, "parent", y)

\* The pairs <<parent, node>> of a descent from the root that goes to the side
\* goes(n), or ends at n if goes(n) is "here".
Descent(goes(_)) ==
    LET w[k \in 0 .. Cardinality(RbNode)] ==
          IF k = 0 THEN <<Nil, tree.root>>
          ELSE LET at == w[k - 1]
                   n == at[2]
               IN  IF n = Nil \/ goes(n) = "here" THEN at
                   ELSE <<n, tree.node[n][goes(n)]>>
    IN  w[Cardinality(RbNode)]

rb_tree_search(key) ==
    LET goes(n) == IF key < n THEN "left"
                   ELSE IF key > tree.node[n].end THEN "right" ELSE "here"
    IN  Descent(goes)[2]

----------------------------------------------------------------------------
(* rb_tree_insert *)

\* mutant of Place: an interval that starts where another ends goes to its right
PlaceTouching(a) ==
    LET goes(n) == IF a[1] >= tree.node[n].end THEN "right"
                   ELSE IF a[2] < n THEN "left" ELSE "here"
    IN  Descent(goes)

\* Where the descent of rb_tree_insert for interval a ends
Place(a) ==
    LET goes(n) == IF a[1] > tree.node[n].end THEN "right"
                   ELSE IF a[2] < n THEN "left" ELSE "here"
    IN  Descent(goes)

InsertRefused(a) ==
    /\ pc = "idle" /\ Place(a)[2] # Nil
    /\ ret' = "overlap"
    /\ UNCHANGED <<tree, pc, x, up>>

\* kmalloc returns NULL
InsertNoMemory(a) ==
    /\ pc = "idle" /\ Place(a)[2] = Nil
    /\ ret' = "nomem"
    /\ UNCHANGED <<tree, pc, x, up>>

Insert(a) ==
    /\ pc = "idle" /\ Place(a)[2] = Nil
    /\ LET p == Place(a)[1]
           new == [Fresh EXCEPT !.end = a[2], !.red = TRUE, !.parent = p]
           t == [tree EXCEPT !.node[a[1]] = new]
       IN  tree' = IF p = Nil THEN [t EXCEPT !.root = a[1]]
                   ELSE Set(t, p, IF a[2] < p THEN "left" ELSE "right", a[1])
    /\ pc' = "insert" /\ x' = a[1] /\ ret' = "ok"
    /\ UNCHANGED up

\* insert_fixup runs while nodex has a red parent.  p is the parent, g the
\* grandparent, d the side of p.
InsertLoop(p, g, d) ==
    /\ pc = "insert" /\ x # tree.root /\ p = tree.node[x].parent /\ is_red(tree, p)
    /\ g = tree.node[p].parent
    /\ d = IF tree.node[g].left = p THEN "left" ELSE "right"

\* a red uncle: recolour and go on from the grandparent
InsertRecolour(p, g, d) ==
    LET uncle == tree.node[g][Other(d)] IN
    /\ InsertLoop(p, g, d) /\ is_red(tree, uncle)
    /\ tree' = set_red(set_black(set_black(tree, uncle), p), g)
    /\ x' = g
    /\ UNCHANGED <<pc, up, ret>>

\* an inner child: the first rotation, which makes it an outer one
InsertInner(p, g, d) ==
    /\ InsertLoop(p, g, d) /\ is_black(tree, tree.node[g][Other(d)])
    /\ x = tree.node[p][Other(d)]
    /\ tree' = rotate(tree, d, p)
    /\ x' = p
    /\ UNCHANGED <<pc, up, ret>>

\* an outer child: the second rotation
InsertOuter(p, g, d) ==
    /\ InsertLoop(p, g, d) /\ is_black(tree, tree.node[g][Other(d)])
    /\ x # tree.node[p][Other(d)]
    /\ tree' = rotate(set_red(set_black(tree, p), g), Other(d), g)
    /\ UNCHANGED <<pc, x, up, ret>>

InsertDone ==
    /\ pc = "insert" /\ (x = tree.root \/ is_black(tree, tree.node[x].parent))
    /\ tree' = set_black(tree, tree.root)
    /\ pc' = "idle" /\ x' = Nil
    /\ UNCHANGED <<up, ret>>

----------------------------------------------------------------------------
(* rb_tree_remove *)

RemoveMissing(key) ==
    /\ pc = "idle" /\ rb_tree_search(key) = Nil
    /\ ret' = "missing"
    /\ UNCHANGED <<tree, pc, x, up>>

\* mutant of Successor: the right child, not the leftmost node under it
RightChild(z) ==
    IF tree.node[z].left = Nil \/ tree.node[z].right = Nil THEN z ELSE tree.node[z].right

\* nodey: the node that is taken out of its place
Successor(z) ==
    IF tree.node[z].left = Nil \/ tree.node[z].right = Nil THEN z
    ELSE LET w[k \in 0 .. Cardinality(RbNode)] ==
               IF k = 0 THEN tree.node[z].right
               ELSE LET n == w[k - 1]
                    IN  IF tree.node[n].left = Nil THEN n ELSE tree.node[n].left
         IN  w[Cardinality(RbNode)]

\* nodey moves to the place of nodez: its links, its colour and its children
TakePlace(t, y, z) ==
    LET zn == t.node[z]
        t1 == Replace(Set(t, y, "parent", zn.parent), z, y)
        t2 == Set(Set(Set(t1, y, "red", zn.red), y, "left", zn.left), y, "right", zn.right)
    IN  Set(Set(t2, zn.left, "parent", y), zn.right, "parent", y)

Remove(key) ==
    /\ pc = "idle" /\ rb_tree_search(key) # Nil
    /\ LET z == rb_tree_search(key)
           y == Successor(z)
           c == IF tree.node[y].left # Nil THEN tree.node[y].left ELSE tree.node[y].right
           p == tree.node[y].parent
           t1 == Replace(Set(tree, c, "parent", p), y, c)
           t2 == IF y = z THEN t1 ELSE TakePlace(t1, y, z)
       IN  /\ tree' = [t2 EXCEPT !.node[z] = Fresh]
           /\ IF is_black(tree, y)
              THEN pc' = "remove" /\ x' = c /\ up' = IF p = z /\ y # z THEN y ELSE p
              ELSE pc' = "idle" /\ x' = Nil /\ up' = Nil
    /\ ret' = "ok"

\* mutant of Unbalanced: the loop does not end at the root
UnbalancedAtRoot == is_black(tree, x)

\* remove_fixup runs while nodex, NULL or black, is not the root
Unbalanced == x # tree.root /\ is_black(tree, x)

\* one turn of the loop: d is the side of nodex, s (nodey) its sibling.  Without a
\* parent the loop would turn forever.
RemoveLoop(d, s) ==
    /\ pc = "remove" /\ Unbalanced /\ up # Nil
    /\ d = IF tree.node[up].left = x THEN "left" ELSE "right"
    /\ s = tree.node[up][Other(d)]

near(d, s) == tree.node[s][d]
far(d, s) == tree.node[s][Other(d)]

\* a red sibling is rotated away; the new one was its child
RemoveRedSibling(d, s) ==
    /\ RemoveLoop(d, s) /\ is_red(tree, s)
    /\ tree' = rotate(set_red(set_black(tree, s), up), d, up)
    /\ UNCHANGED <<pc, x, up, ret>>

\* no sibling, or no red child of it: recolour and go on from the parent
RemoveRecolour(d, s) ==
    /\ RemoveLoop(d, s) /\ is_black(tree, s)
    /\ s = Nil \/ (is_black(tree, near(d, s)) /\ is_black(tree, far(d, s)))
    /\ tree' = set_red(tree, s)
    /\ x' = up /\ up' = tree.node[up].parent
    /\ UNCHANGED <<pc, ret>>

\* only the near child is red: a rotation makes the far one red
RemoveNear(d, s) ==
    /\ RemoveLoop(d, s) /\ is_black(tree, s) /\ s # Nil
    /\ is_red(tree, near(d, s)) /\ is_black(tree, far(d, s))
    /\ tree' = rotate(set_black(set_red(tree, s), near(d, s)), Other(d), s)
    /\ UNCHANGED <<pc, x, up, ret>>

\* the far child is red: the last rotation, nodex = *root ends the loop
RemoveFar(d, s) ==
    /\ RemoveLoop(d, s) /\ is_black(tree, s) /\ s # Nil
    /\ is_red(tree, far(d, s))
    /\ LET t == Set(tree, s, "red", tree.node[up].red) IN
        /\ tree' = rotate(set_black(set_black(t, up), far(d, s)), d, up)
        /\ x' = tree'.root
    /\ up' = tree'.node[x'].parent
    /\ UNCHANGED <<pc, ret>>

\* mutant of RemoveDone: the node the loop ended at keeps its colour
RemoveDoneRed ==
    /\ pc = "remove" /\ ~Unbalanced
    /\ pc' = "idle" /\ x' = Nil /\ up' = Nil
    /\ UNCHANGED <<tree, ret>>

RemoveDone ==
    /\ pc = "remove" /\ ~Unbalanced
    /\ tree' = set_black(tree, x)
    /\ pc' = "idle" /\ x' = Nil /\ up' = Nil
    /\ UNCHANGED ret

Fixup ==
    \/ InsertDone \/ RemoveDone
    \/ \E p, g \in RbNode, d \in Side :
          InsertRecolour(p, g, d) \/ InsertInner(p, g, d) \/ InsertOuter(p, g, d)
    \/ \E d \in Side, s \in RbNode \cup {Nil} :
          RemoveRedSibling(d, s) \/ RemoveRecolour(d, s) \/ RemoveNear(d, s) \/ RemoveFar(d, s)

Next ==
    \/ \E a \in Interval : Insert(a) \/ InsertRefused(a) \/ InsertNoMemory(a)
    \/ \E key \in Key : Remove(key) \/ RemoveMissing(key)
    \/ Fixup

\* The loops of a CPU that holds the caller's lock go on.
Spec == Init /\ [][Next]_vars /\ WF_vars(Fixup)

----------------------------------------------------------------------------
(* Properties *)

\* The nodes on the path of parents from n up to the root, n included
Path(n) ==
    LET w[k \in 0 .. Cardinality(RbNode)] ==
          IF k = 0 THEN {n}
          ELSE LET s == w[k - 1]
               IN  s \cup ({tree.node[m].parent : m \in s} \ {Nil})
    IN  w[Cardinality(RbNode)]

\* The nodes that were inserted and not removed since
Allocated == {n \in RbNode : tree.node[n] # Fresh}

\* Every pointer is NULL or a node, and the variable parent of remove_fixup stays
\* the parent of nodex.
TypeOK ==
    /\ tree.root \in RbNode \cup {Nil}
    /\ tree.node \in [RbNode -> [end : Nat, red : BOOLEAN, parent : RbNode \cup {Nil},
                                 left : RbNode \cup {Nil}, right : RbNode \cup {Nil}]]
    /\ pc \in {"idle", "insert", "remove"}
    /\ x \in RbNode \cup {Nil} /\ up \in RbNode \cup {Nil}
    /\ pc = "remove" /\ x # Nil => tree.node[x].parent = up
    /\ ret \in {"ok", "overlap", "nomem", "missing"}

\* The asserts of rb_tree_validate, node_validate and tree_validate, which each
\* operation runs before it returns: ordered, linked both ways, a black root,
\* no red child of a red node, and as many black nodes on each path.  In between
\* every variable keeps its type.
Validates == TypeOK /\ (pc = "idle" =>
    /\ is_black(tree, tree.root)
    /\ tree.root # Nil => tree.node[tree.root].parent = Nil
    /\ \A n \in Allocated : tree.root \in Path(n)
    /\ \A n \in Allocated, d \in Side :
          LET c == tree.node[n][d] IN
          c # Nil => /\ tree.node[c].parent = n
                     /\ IF d = "left" THEN n > tree.node[c].end ELSE tree.node[n].end < c
                     /\ ~(tree.node[n].red /\ tree.node[c].red)
    /\ \A m, n \in Allocated :
          (\E d, e \in Side : tree.node[m][d] = Nil /\ tree.node[n][e] = Nil) =>
             Cardinality({k \in Path(m) : ~tree.node[k].red})
           = Cardinality({k \in Path(n) : ~tree.node[k].red}))

\* rb_tree_search finds the interval that contains the key, and finds nothing
\* when there is none, in the middle of a fixup too: no rotation cuts off a
\* node.
SearchExact ==
    \A key \in Key :
        LET r == rb_tree_search(key)
            hits == {n \in Allocated : n <= key /\ key <= tree.node[n].end}
        IN  IF r = Nil THEN hits = {} ELSE hits = {r}

\* The tree implements a set of disjoint intervals: rb_tree_insert refuses
\* overlaps and nothing else, and neither a rotation nor a fixup loses, adds or
\* changes a member.
Abstract == INSTANCE IntervalSet WITH
    members <- {<<n, tree.node[n].end>> : n \in Allocated}
ImplementsIntervalSet == Abstract!SSpec

\* Both fixup loops end, so that vma_lock, which callers hold meanwhile, is
\* released.
FixupEnds == pc # "idle" ~> pc = "idle"
=============================================================================
