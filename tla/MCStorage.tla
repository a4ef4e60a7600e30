----------------------------- MODULE MCStorage -----------------------------
(* Model-checking instance of Storage: threads and values are model values. *)
EXTENDS Storage

CONSTANTS w1, w2, r1, r2, v1, v2, v3

MCWriters == {w1, w2}
MCReaders == {r1, r2}

\* "hello" of spec section 8 (5 bytes: the patch reaches the next record's
\* vlen), a 2-byte body (it reaches the next record's id as well) and an
\* 8-byte one (the patch stays inside the value).
MCValues   == {v1, v2, v3}
MCValueLen == (v1 :> 5) @@ (v2 :> 2) @@ (v3 :> 8)

\* For the run with faults: the two values whose patch reaches the next
\* record, "hello" and the 2-byte one.
MCShortValues == {v1, v2}

\* GET targets: the index page, "//" (rejected only by the length test),
\* ids in both buckets, one with a trailing '/'.
MCUris == {<<"/">>, <<"/", "/">>, <<"/", "0">>, <<"/", "1", "/">>, <<"/", "2">>}

\* Threads of one role are interchangeable; values are not (their lengths
\* differ).
MCSymmetry == Permutations(MCWriters) \cup Permutations(MCReaders)

=============================================================================
