----------------------------- MODULE RBTreeOps -----------------------------
(***************************************************************************)
(* rbtree.c used as a container: any sequence of rbtree_insert of a node   *)
(* not in the tree and rbtree_delete of a node in it, checked against a    *)
(* multiset of keys.  The payload of a node is its key.                    *)
(***************************************************************************)
EXTENDS Naturals, FiniteSets, Bags, BagsExt

CONSTANTS Nodes, NIL, NULL, Keys

Key(p) == p

INSTANCE RBTree

VARIABLES
    tree,   \* the node store
    bag     \* the reference: the multiset of keys inserted and not deleted

vars == <<tree, bag>>

Init ==
    /\ tree = EmptyTree(0)
    /\ bag = EmptyBag

\* The caller sets the node's key (update_trigger), then rbtree_insert.
Insert(n, k) ==
    /\ n \notin InTree(tree)
    /\ tree' = RbInsert([tree EXCEPT !.pay[n] = k], n)
    /\ bag' = BagAdd(bag, k)

\* rbtree_delete of a node in the tree: its key leaves the multiset.
Delete(n) ==
    /\ n \in InTree(tree)
    /\ tree' = RbDelete(tree, n)
    /\ bag' = BagRemove(bag, tree.pay[n])

Next ==
    \/ \E n \in Nodes, k \in Keys : Insert(n, k)
    \/ \E n \in Nodes : Delete(n)

Spec == Init /\ [][Next]_vars

\* What later steps can observe: the nodes in the tree and the reference.
\* rbtree_insert writes every link and the colour of the node it inserts,
\* and rbtree_delete writes the sentinel's parent before it reads it, so
\* nodes outside the tree and the sentinel's parent never matter.
TreeView ==
    <<tree.root, tree.broken, bag,
      [n \in InTree(tree) |->
         <<tree.color[n], tree.left[n], tree.right[n], tree.parent[n], tree.pay[n]>>]>>

-----------------------------------------------------------------------------

\* The keys the tree holds, as a multiset.
Contents(s) ==
    [k \in {s.pay[n] : n \in InTree(s)} |->
        Cardinality({n \in InTree(s) : s.pay[n] = k})]

\* After every insert and delete the tree is a red-black tree whose links
\* agree: insert_fixup, delete_fixup and the rotations restore the colour
\* rules and rewire parent, child and root pointers consistently.
TreeShape == RedBlack(tree) /\ Linked(tree)

\* The tree holds exactly the keys inserted and not deleted, in search
\* order, and rbtree_leftmost finds a smallest one: what run_timers relies
\* on to fire the earliest timer.
TreeContents ==
    /\ Ordered(tree)
    /\ Contents(tree) = bag
    /\ bag # EmptyBag =>
          \A k \in BagToSet(bag) : Key(tree.pay[Leftmost(tree, tree.root)]) <= k

=============================================================================
