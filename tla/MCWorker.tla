----------------------------- MODULE MCWorker -----------------------------
(* Worker with two clients and a small set of request shapes.              *)
EXTENDS Worker, TLC

CONSTANTS c1, c2, L

MCClients == {c1, c2}

\* A two-segment HTTP/1.1 request, a one-segment HTTP/1.0 request and a
\* malformed request line.
MCRequests == {[ver |-> "1.1", parts |-> 2, bad |-> FALSE],
               [ver |-> "1.0", parts |-> 1, bad |-> FALSE],
               [ver |-> "1.1", parts |-> 1, bad |-> TRUE]}

\* For the liveness runs: a two-segment HTTP/1.1 request only.
MCLiveRequests == {[ver |-> "1.1", parts |-> 2, bad |-> FALSE]}

MCSymmetry == Permutations(MCClients)
=============================================================================
