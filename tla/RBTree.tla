------------------------------ MODULE RBTree ------------------------------
(***************************************************************************)
(* The intrusive red-black tree of src/src/rbtree.c, as operators on an   *)
(* explicit node store.  A store is a record of one function per field of  *)
(* struct rbnode (color, left, right, parent) over every pointer the code  *)
(* can hold: the nodes, the static sentinel RBNIL and NULL, plus the root  *)
(* and each node's payload (the bytes after the rbnode header, which       *)
(* rbtree_delete copies with memcpy).  Every operator returns the store as *)
(* the C function leaves it, writing fields in the order the code does, so *)
(* the sentinel's fields are written exactly when the code writes them.    *)
(*                                                                         *)
(* Loops carry fuel: a walk longer than there are nodes can only be a      *)
(* cycle, and marks the store broken, as does following a NULL link.       *)
(***************************************************************************)
EXTENDS Integers, FiniteSets

CONSTANTS
    Nodes,    \* the nodes (struct timer of each connection)
    NIL,      \* RBNIL: the one static sentinel node
    NULL,     \* the NULL pointer (the root's parent)
    Key(_)    \* the comparison key of a payload (timer_cmp compares it)

Ptrs == Nodes \cup {NIL, NULL}
Fuel == Cardinality(Nodes) + 2

Opp(d) == IF d = "left" THEN "right" ELSE "left"

\* timer_cmp: -1, 0 or 1 as a's key is below, equal to or above b's.
Cmp(s, a, b) ==
    IF Key(s.pay[a]) < Key(s.pay[b]) THEN -1
    ELSE IF Key(s.pay[a]) = Key(s.pay[b]) THEN 0 ELSE 1

\* rbtree_init, with the sentinel's static initialiser
\* { RBBLK, RBNIL, RBNIL, NULL }; `blank` is the payload of unused memory.
EmptyTree(blank) ==
    [root   |-> NIL,
     color  |-> [p \in Ptrs |-> "B"],
     left   |-> [p \in Ptrs |-> NIL],
     right  |-> [p \in Ptrs |-> NIL],
     parent |-> [p \in Ptrs |-> NULL],
     pay    |-> [p \in Ptrs |-> blank],
     broken |-> FALSE]

Break(s) == [s EXCEPT !.broken = TRUE]

\* The side of its parent x hangs on.
Side(s, x) == IF x = s.left[s.parent[x]] THEN "left" ELSE "right"

\* rotate_left (d = "left") and rotate_right (d = "right") of x, whose child
\* y on the other side takes x's place, one step per statement group.
\* x's o-link takes y's d-child, which learns its new parent.
RotateChild(s, x, y, d) ==
    LET b == s[d][y]
    IN  IF b # NIL THEN [s EXCEPT ![Opp(d)][x] = b, !.parent[b] = x]
        ELSE [s EXCEPT ![Opp(d)][x] = b]
\* y takes x's parent.
RotateParent(s, x, y) ==
    IF y # NIL THEN [s EXCEPT !.parent[y] = s.parent[x]] ELSE s
\* x's parent (or the root) points at y.
RotateHook(s, x, y, d) ==
    LET px == s.parent[x]
    IN  IF px = NULL THEN [s EXCEPT !.root = y]
        ELSE IF x = s[d][px] THEN [s EXCEPT ![d][px] = y]
        ELSE [s EXCEPT ![Opp(d)][px] = y]
\* x becomes y's d-child.  (Variant: x's parent link is not updated.)
RotateDownNoParent(s, x, y, d) == [s EXCEPT ![d][y] = x]
RotateDown(s, x, y, d) ==
    IF x # NIL THEN [s EXCEPT ![d][y] = x, !.parent[x] = y]
    ELSE [s EXCEPT ![d][y] = x]
RotateAt(s, x, y, d) ==
    RotateDown(RotateHook(RotateParent(RotateChild(s, x, y, d), x, y), x, y, d),
               x, y, d)
Rotate(s, x, d) == RotateAt(s, x, s[Opp(d)][x], d)

\* rbtree_insert's descent: the parent x is attached under and the last
\* comparison (cmp <= 0 goes left).
RECURSIVE Descend(_, _, _, _, _, _)
Descend(s, x, cur, par, c, f) ==
    IF cur = NIL THEN [ok |-> TRUE, par |-> par, cmp |-> c]
    ELSE IF cur = NULL \/ f = 0 THEN [ok |-> FALSE, par |-> par, cmp |-> c]
    ELSE LET c2 == Cmp(s, x, cur)
         IN  Descend(s, x, IF c2 <= 0 THEN s.left[cur] ELSE s.right[cur],
                     cur, c2, f - 1)

\* insert_fixup: while x's parent is red, recolour when the uncle is red,
\* otherwise rotate; d is the side of the grandparent x's parent is on.
RECURSIVE InsertFixup(_, _, _), InsertStep(_, _, _, _), InsertRotate(_, _, _, _)
InsertFixup(s, x, f) ==
    IF f = 0 THEN Break(s)
    ELSE IF x # s.root /\ s.color[s.parent[x]] = "R"
         THEN InsertStep(s, x, Side(s, s.parent[x]), f)
    ELSE [s EXCEPT !.color[s.root] = "B"]
InsertStep(s, x, d, f) ==
    LET p == s.parent[x]
        g == s.parent[p]
        y == s[Opp(d)][g]
    IN  IF s.color[y] = "R"
        THEN InsertFixup([s EXCEPT !.color[p] = "B", !.color[y] = "B",
                                   !.color[g] = "R"], g, f - 1)
        ELSE IF x = s[Opp(d)][p] THEN InsertRotate(Rotate(s, p, d), p, d, f)
        ELSE InsertRotate(s, x, d, f)
\* x's parent turns black, its grandparent red and rotates the other way.
InsertRotate(s, x, d, f) ==
    LET p == s.parent[x]
        g == s.parent[p]
    IN  InsertFixup(Rotate([s EXCEPT !.color[p] = "B", !.color[g] = "R"],
                           g, Opp(d)), x, f - 1)

\* rbtree_insert of node x, whose payload the caller has set.
Attach(s, x, w) ==
    LET s1 == [s EXCEPT !.color[x] = "R", !.left[x] = NIL, !.right[x] = NIL,
                        !.parent[x] = w.par]
    IN  IF w.par = NULL THEN [s1 EXCEPT !.root = x]
        ELSE IF w.cmp <= 0 THEN [s1 EXCEPT !.left[w.par] = x]
        ELSE [s1 EXCEPT !.right[w.par] = x]
RbInsertAt(s, x, w) ==
    IF w.ok THEN InsertFixup(Attach(s, x, w), x, Fuel) ELSE Break(s)
RbInsert(s, x) == RbInsertAt(s, x, Descend(s, x, s.root, NULL, 0, Fuel))

\* rbtree_leftmost: NULL for an empty tree.
RECURSIVE LeftmostFrom(_, _, _)
LeftmostFrom(s, x, f) ==
    IF s.left[x] = NIL \/ f = 0 THEN x ELSE LeftmostFrom(s, s.left[x], f - 1)
Leftmost(s, x) == IF x = NIL THEN NULL ELSE LeftmostFrom(s, x, Fuel)

\* delete_fixup: x carries an extra black up the tree; d is x's side and w
\* its sibling.  First a red sibling is rotated into the parent's place.
DeleteRedSibling(s, x, d) ==
    LET p == s.parent[x]
        w == s[Opp(d)][p]
    IN  IF s.color[w] = "R"
        THEN Rotate([s EXCEPT !.color[w] = "B", !.color[p] = "R"], p, d)
        ELSE s
\* A black sibling whose far child is black is rotated away from x.
DeleteNearChild(s, x, d) ==
    LET w == s[Opp(d)][s.parent[x]]
    IN  IF s.color[s[Opp(d)][w]] = "B"
        THEN Rotate([s EXCEPT !.color[s[d][w]] = "B", !.color[w] = "R"],
                    w, Opp(d))
        ELSE s
\* The sibling takes the parent's colour and the parent rotates towards x.
DeleteFarChild(s, x, d) ==
    LET p == s.parent[x]
        w == s[Opp(d)][p]
    IN  Rotate([s EXCEPT !.color[w] = s.color[p], !.color[p] = "B",
                         !.color[s[Opp(d)][w]] = "B"], p, d)
RECURSIVE DeleteFixup(_, _, _), DeleteStep(_, _, _, _), DeleteFromRoot(_, _)
DeleteFixup(s, x, f) ==
    IF f = 0 THEN Break(s)
    ELSE IF x # s.root /\ s.color[x] = "B"
         THEN DeleteStep(DeleteRedSibling(s, x, Side(s, x)), x, Side(s, x), f)
    ELSE [s EXCEPT !.color[x] = "B"]
DeleteStep(s, x, d, f) ==
    LET w == s[Opp(d)][s.parent[x]]
    IN  IF s.color[s.left[w]] = "B" /\ s.color[s.right[w]] = "B"
        THEN DeleteFixup([s EXCEPT !.color[w] = "R"], s.parent[x], f - 1)
        ELSE DeleteFromRoot(DeleteFarChild(DeleteNearChild(s, x, d), x, d), f - 1)
DeleteFromRoot(s, f) == DeleteFixup(s, s.root, f)

\* rbtree_delete of node z: the node y spliced out is z itself when z has
\* an empty side, else z's successor, whose payload is then copied into z.
Spliced(s, z) ==
    IF s.left[z] = NIL \/ s.right[z] = NIL THEN z
    ELSE LeftmostFrom(s, s.right[z], Fuel)
\* y's only child x takes y's place under y's parent.
Splice(s, y, x) ==
    LET py == s.parent[y]
    IN  IF py = NULL THEN [s EXCEPT !.parent[x] = py, !.root = x]
        ELSE IF y = s.left[py] THEN [s EXCEPT !.parent[x] = py, !.left[py] = x]
        ELSE [s EXCEPT !.parent[x] = py, !.right[py] = x]
\* memcpy(z+1, y+1, ...).  (Variant: the payload is not copied.)
CopyPayloadNone(s, y, z) == s
CopyPayload(s, y, z) == IF y # z THEN [s EXCEPT !.pay[z] = s.pay[y]] ELSE s
RbDeleteAt(s, z, y, x) ==
    LET s1 == CopyPayload(Splice(s, y, x), y, z)
    IN  IF s.color[y] = "B" THEN DeleteFixup(s1, x, Fuel) ELSE s1
RbDeleteFrom(s, z, y) ==
    RbDeleteAt(s, z, y, IF s.left[y] # NIL THEN s.left[y] ELSE s.right[y])
RbDelete(s, z) == RbDeleteFrom(s, z, Spliced(s, z))


-----------------------------------------------------------------------------
(* Reading a store *)

\* The nodes reachable from x by child links (fuel-bounded).
RECURSIVE Reach(_, _, _)
Reach(s, x, f) ==
    IF x \in {NIL, NULL} \/ f = 0 THEN {}
    ELSE {x} \cup Reach(s, s.left[x], f - 1) \cup Reach(s, s.right[x], f - 1)
InTree(s) == Reach(s, s.root, Fuel)

\* Black nodes on every path from x down to the sentinel, or -1 when two
\* paths disagree.
RECURSIVE BlackHeight(_, _, _)
BlackHeight(s, x, f) ==
    IF x = NIL \/ f = 0 THEN 1
    ELSE LET l == BlackHeight(s, s.left[x], f - 1)
             r == BlackHeight(s, s.right[x], f - 1)
         IN  IF l = -1 \/ l # r THEN -1
             ELSE l + (IF s.color[x] = "B" THEN 1 ELSE 0)

\* The red-black shape: a black root, no red node with a red child, the
\* same number of black nodes on every path.
RedBlack(s) ==
    /\ s.color[s.root] = "B"
    /\ \A n \in InTree(s) :
          s.color[n] = "R" => s.color[s.left[n]] = "B" /\ s.color[s.right[n]] = "B"
    /\ BlackHeight(s, s.root, Fuel) # -1

\* Links agree: each child's parent is the node it hangs from, the root's
\* parent is NULL, and no walk ran out of fuel or followed NULL.
Linked(s) ==
    /\ ~s.broken
    /\ s.root # NULL
    /\ s.root # NIL => s.parent[s.root] = NULL
    /\ \A n \in InTree(s) :
          \A d \in {"left", "right"} :
             s[d][n] # NULL /\ (s[d][n] # NIL => s.parent[s[d][n]] = n)

\* Search-tree order: keys on the left are at most, on the right at least,
\* the node's key (equal keys go left on insert, either way after rotations).
Ordered(s) ==
    \A n \in InTree(s) :
       /\ \A m \in Reach(s, s.left[n], Fuel) : Key(s.pay[m]) <= Key(s.pay[n])
       /\ \A m \in Reach(s, s.right[n], Fuel) : Key(s.pay[n]) <= Key(s.pay[m])

=============================================================================
