--------------------------- MODULE SharedSentinel ---------------------------
(***************************************************************************)
(* The timer trees of several workers in one address space.  Every worker  *)
(* has its own struct rbtree (its root), and its timers are nodes of its   *)
(* own connections, but RBNIL is one static node (rbtree.c:6-7) that every *)
(* tree uses as its leaf.  rbtree_delete writes the sentinel's parent      *)
(* (x->parent = y->parent with x = RBNIL) and delete_fixup then reads it   *)
(* back to find x's parent and sibling; the workers run these on their own *)
(* threads with no lock between them.                                      *)
(*                                                                         *)
(* The memory is one RBTree node store; a worker's view of it is the store *)
(* with that worker's root.  rbtree_insert runs as one step (it never      *)
(* writes the sentinel); rbtree_delete runs as two, the splice up to line  *)
(* 74 and delete_fixup, so that another worker's steps can come between.   *)
(***************************************************************************)
EXTENDS Integers, FiniteSets

CONSTANTS
    Workers,   \* the worker threads
    Nodes,     \* the timer nodes of all connections
    NodesOf,   \* worker -> the nodes of its connections (disjoint)
    NIL,       \* RBNIL
    NULL,      \* NULL
    KeyOf      \* node -> the trigger add_timer gives its timer

\* A payload is the timer's trigger.
PayKey(p) == p

INSTANCE RBTree WITH Key <- PayKey

VARIABLES
    mem,    \* all nodes, RBNIL included: one node store
    root,   \* worker -> its base->timers.root
    pc,     \* worker -> "idle", or "fixup" inside rbtree_delete
    fx      \* worker -> the x rbtree_delete passes to delete_fixup

vars == <<mem, root, pc, fx>>

\* The tree of worker w as its own code sees it.
View(w) == [mem EXCEPT !.root = root[w]]

\* Worker w leaves the store as s.
Store(w, s) ==
    /\ mem' = s
    /\ root' = [root EXCEPT ![w] = s.root]

\* add_timer: the trigger is set, then rbtree_insert.
Insert(w, x) ==
    /\ pc[w] = "idle"
    /\ x \in NodesOf[w] \ InTree(View(w))
    /\ Store(w, RbInsert([View(w) EXCEPT !.pay[x] = KeyOf[x]], x))
    /\ UNCHANGED <<pc, fx>>

\* rbtree_delete up to delete_fixup: pick the node y to splice out and its
\* child x, write x->parent (the sentinel's when x is RBNIL), hang x under
\* y's parent, copy y's payload into z; a black y leaves a fixup to do.
DeleteSplice(w, z) ==
    LET s == View(w)
        y == Spliced(s, z)
        x == IF s.left[y] # NIL THEN s.left[y] ELSE s.right[y]
    IN  /\ pc[w] = "idle"
        /\ z \in NodesOf[w] \cap InTree(s)
        /\ Store(w, CopyPayload(Splice(s, y, x), y, z))
        /\ pc' = [pc EXCEPT ![w] = IF s.color[y] = "B" THEN "fixup" ELSE "idle"]
        /\ fx' = [fx EXCEPT ![w] = x]

\* delete_fixup(t, x), reading x->parent from the shared memory.
DeleteFix(w) ==
    /\ pc[w] = "fixup"
    /\ Store(w, DeleteFixup(View(w), fx[w], Fuel))
    /\ pc' = [pc EXCEPT ![w] = "idle"]
    /\ UNCHANGED fx

\* Every worker's rbtree_init on an empty tree.
Init ==
    /\ mem = EmptyTree(0)
    /\ root = [w \in Workers |-> NIL]
    /\ pc = [w \in Workers |-> "idle"]
    /\ fx = [w \in Workers |-> NIL]

Next ==
    \E w \in Workers :
        \/ \E x \in Nodes : Insert(w, x)
        \/ \E z \in Nodes : DeleteSplice(w, z)
        \/ DeleteFix(w)

Spec == Init /\ [][Next]_vars

-----------------------------------------------------------------------------
(* Properties *)

\* Each worker's timer tree stays its own and stays a red-black tree
\* whenever that worker is between timer calls, whatever the other workers
\* do to theirs: run_timers and add_timer rely on it for the next
\* rbtree_leftmost and rbtree_insert.
TreesIntact ==
    \A w \in Workers :
        pc[w] = "idle" =>
            LET s == View(w)
            IN  Linked(s) /\ RedBlack(s) /\ InTree(s) \subseteq NodesOf[w]

=============================================================================
