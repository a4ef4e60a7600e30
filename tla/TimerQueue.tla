----------------------------- MODULE TimerQueue -----------------------------
(***************************************************************************)
(* The timer queue of one worker (src/src/event.c) as the connections of  *)
(* src/src/connection.c use it: each struct connection embeds a struct     *)
(* timer whose rbnode header is linked into the event base's red-black     *)
(* tree (RBTree).  The node store's nodes are the connections' memory; a   *)
(* payload is the part of struct timer after the header: the trigger, the  *)
(* ACTIVE flag and the data pointer (the owning connection).               *)
(*                                                                         *)
(* All of it runs on the worker thread: between two rounds of run_timers   *)
(* the I/O callbacks accept, reset or close connections; run_timers reads  *)
(* the clock once and then walks the leftmost timers, one loop iteration   *)
(* per step.                                                               *)
(***************************************************************************)
EXTENDS Naturals, FiniteSets

CONSTANTS
    Conns,     \* addresses a struct connection can be allocated at
    NIL,       \* RBNIL
    NULL,      \* NULL
    Timeout,   \* TIMEOUT, in clock ticks
    MaxTime    \* bound on the clock

\* calloc'ed memory: every field of struct timer after its header is zero.
Zeroed == [trig |-> 0, active |-> FALSE, owner |-> NULL]

TimerKey(p) == p.trig

INSTANCE RBTree WITH Nodes <- Conns, Key <- TimerKey

VARIABLES
    tree,    \* the node store: the timer tree and every connection's timer
    live,    \* connections allocated and not yet freed
    now,     \* get_time()
    phase,   \* "io" between rounds of run_timers, "timers" inside one
    snap     \* the clock as run_timers read it on entry

vars == <<tree, live, now, phase, snap>>

-----------------------------------------------------------------------------
(* The timer calls, as functions of the store *)

\* del_timer: an ACTIVE timer is deleted from the tree, then its flag is
\* cleared in its own struct (which rbtree_delete may just have overwritten
\* with its successor's payload); an inactive one is left alone (ERR).
DelTimer(s, t) ==
    IF s.pay[t].active
    THEN LET s1 == RbDelete(s, t) IN [s1 EXCEPT !.pay[t].active = FALSE]
    ELSE s

\* c->timer = make_timer(TIMEOUT, TIMER_FLAG_ONESHOT, timeout_callback, c):
\* the whole struct, rbnode header included, is overwritten with zeroes
\* but for interval, flags (ONESHOT only), callback and data.
MakeTimer(s, c) ==
    [s EXCEPT !.color[c] = "B", !.left[c] = NULL, !.right[c] = NULL,
              !.parent[c] = NULL,
              !.pay[c] = [trig |-> 0, active |-> FALSE, owner |-> c]]

\* add_timer: ERR for an ACTIVE timer; else update_trigger, set ACTIVE and
\* rbtree_insert.
AddTimer(s, t, clock) ==
    IF s.pay[t].active THEN s
    ELSE RbInsert([s EXCEPT !.pay[t].trig = clock + Timeout,
                            !.pay[t].active = TRUE], t)

\* reset_connection's timer part: delete the timer if it is ACTIVE, remake
\* it and add it again.
ResetTimer(s, c, clock) ==
    AddTimer(MakeTimer(IF s.pay[c].active THEN DelTimer(s, c) ELSE s, c),
             c, clock)

-----------------------------------------------------------------------------
(* The worker's steps *)

\* accept_connection: calloc zeroes the struct, timer header included (the
\* address may be that of a connection freed earlier), then begin_read
\* resets the connection, which arms its timer.
Accept(c) ==
    /\ phase = "io"
    /\ c \notin live
    /\ LET s1 == [tree EXCEPT !.color[c] = "B", !.left[c] = NULL,
                              !.right[c] = NULL, !.parent[c] = NULL,
                              !.pay[c] = Zeroed]
       IN  tree' = ResetTimer(s1, c, now)
    /\ live' = live \cup {c}
    /\ UNCHANGED <<now, phase, snap>>

\* begin_read or begin_send after a request or a response: reset_connection.
Reset(c) ==
    /\ phase = "io"
    /\ c \in live
    /\ tree' = ResetTimer(tree, c, now)
    /\ UNCHANGED <<live, now, phase, snap>>

\* close_connection: del_timer, then free.
CloseConn(c) ==
    /\ phase = "io"
    /\ c \in live
    /\ tree' = DelTimer(tree, c)
    /\ live' = live \ {c}
    /\ UNCHANGED <<now, phase, snap>>

\* event_base_iter enters run_timers, which reads the clock once.
RunTimers ==
    /\ phase = "io"
    /\ phase' = "timers"
    /\ snap' = now
    /\ UNCHANGED <<tree, live, now>>

\* One iteration of run_timers' loop on the leftmost timer t.  The loop
\* ends on an empty tree or a timer not yet due.  A due ACTIVE timer (all
\* are ONESHOT) is deleted and its callback, timeout_callback, closes the
\* connection its data points at.  A due timer that is not ACTIVE makes
\* del_timer fail and leaves the tree as it was: the loop takes it again
\* forever, so no step is enabled.
TimerStep ==
    /\ phase = "timers"
    /\ LET t == Leftmost(tree, tree.root)
       IN  \/ /\ t = NULL \/ snap < tree.pay[t].trig
              /\ phase' = "io"
              /\ UNCHANGED <<tree, live>>
           \/ /\ t # NULL /\ snap >= tree.pay[t].trig /\ tree.pay[t].active
              /\ LET s1 == DelTimer(tree, t)
                 IN  tree' = DelTimer(s1, s1.pay[t].owner)
              /\ live' = live \ {tree.pay[t].owner}
              /\ UNCHANGED phase
    /\ UNCHANGED <<now, snap>>

\* The clock advances, up to MaxTime.
Tick ==
    /\ now < MaxTime
    /\ now' = now + 1
    /\ UNCHANGED <<tree, live, phase, snap>>

\* create_event_base: an empty tree; no connection allocated yet.
Init ==
    /\ tree = EmptyTree(Zeroed)
    /\ live = {}
    /\ now = 0
    /\ phase = "io"
    /\ snap = 0

Next ==
    \/ \E c \in Conns : Accept(c) \/ Reset(c) \/ CloseConn(c)
    \/ RunTimers
    \/ TimerStep
    \/ Tick

Spec == Init /\ [][Next]_vars

-----------------------------------------------------------------------------
(* Properties *)

\* The timer queue tracks the connections exactly: the store is intact
\* (no walk followed a NULL link or ran in a cycle), the nodes in the tree
\* are exactly the live connections whose timer is ACTIVE, and each of
\* them carries its own connection as data, so run_timers closes the
\* connection whose timer expired.  reset_connection, close_connection and
\* run_timers all rely on this when they call del_timer and add_timer.
TimersOwnTheirNodes ==
    /\ ~tree.broken
    /\ InTree(tree) = {c \in live : tree.pay[c].active}
    /\ \A c \in InTree(tree) : tree.pay[c].owner = c

=============================================================================
