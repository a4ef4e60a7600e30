------------------------- MODULE MCSharedSentinel -------------------------
(* Two workers: one with four connections, enough for a black leaf whose  *)
(* delete needs delete_fixup; one with two, enough to delete a red leaf.  *)
EXTENDS SharedSentinel, TLC

CONSTANTS wa, wb, a1, a2, a3, a4, b1, b2

MCWorkers == {wa, wb}
MCNodes   == {a1, a2, a3, a4, b1, b2}
MCNodesOf == (wa :> {a1, a2, a3, a4}) @@ (wb :> {b1, b2})
MCKeyOf   == (a1 :> 1) @@ (a2 :> 2) @@ (a3 :> 3) @@ (a4 :> 4)
               @@ (b1 :> 1) @@ (b2 :> 2)

=============================================================================
