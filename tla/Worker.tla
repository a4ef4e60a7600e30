------------------------------ MODULE Worker ------------------------------
(***************************************************************************)
(* One worker thread of src/src/worker.c: its reactor (src/src/event.c),  *)
(* its listening socket and the connections it accepts, each driven by     *)
(* the state machine of src/src/connection.c.  Clients are the             *)
(* environment: they connect, send requests in one or two segments, read   *)
(* responses, and may half-close or reset at any time.                     *)
(*                                                                         *)
(* The worker runs event_base_iter in a loop: run_timers fires every due   *)
(* timer, then run_io waits for readiness and dispatches each ready event  *)
(* to its callback, which runs to completion.  Readiness is edge-triggered *)
(* (EPOLLET): a registration sits on epoll's ready list once something     *)
(* happens on its socket (or when it is added while the socket is ready),  *)
(* and epoll_wait reports and removes it if the socket is still ready.     *)
(*                                                                         *)
(* Data is abstracted: a request is a shape (version, number of segments,  *)
(* well-formed or not) and parse_request's answer is computed from the     *)
(* segments buffered so far; a response is a number of chunks and the      *)
(* socket's send buffer holds SndCap chunks.  Time is a countdown on each  *)
(* armed timer; TIMEOUT is Timeout ticks.                                  *)
(***************************************************************************)
EXTENDS Naturals, Sequences, FiniteSets

CONSTANTS
    Clients,     \* client connections (model values)
    Listen,      \* the worker's listening socket
    Requests,    \* request shapes clients send
    RespSizes,   \* sizes, in chunks, of the responses handlers produce
    SndCap,      \* chunks the socket send buffer holds
    Timeout,     \* TIMEOUT, in ticks
    MaxRequests, \* bound: requests a client sends on its connection
    Faults       \* whether realloc in resize_buffer and epoll_ctl ADD may fail

Versions == {"1.0", "1.1", "2.0"}
Shape == [ver : Versions, parts : 1..2, bad : BOOLEAN]
NoRequest == [ver |-> "none", parts |-> 0, bad |-> FALSE]

ASSUME Listen \notin Clients
ASSUME Requests \subseteq Shape
ASSUME RespSizes \subseteq 1..3 /\ SndCap \in 1..3 /\ Timeout \in 1..3
ASSUME Faults \in BOOLEAN

VARIABLES
    \* the reactor (struct event_base) and the worker loop
    wpc,         \* "timers" (run_timers), "poll" (epoll_wait), "dispatch"
                 \* (run_io's callback loop) or "spin" (inside read_data)
    batch,       \* events epoll_wait returned, not yet dispatched
    spinc,       \* the connection read_data is looping on
    timers,      \* connections whose timer is in the timer tree
    deadline,    \* connection -> ticks until its timer is due
    interest,    \* fd -> "none", "IN" or "OUT": its epoll registration
    ready,       \* connections on epoll's ready list
    aedge,       \* the listening socket is on epoll's ready list
    \* the worker's connections (struct connection)
    conns,       \* open connections (worker->conns)
    conn,        \* connection -> [state, ka, rbuf, wleft, ver, rest]; rest
                 \* counts segments of an answered request still to come
    num_conns,   \* worker->num_conns, reported over IPC
    \* the kernel
    backlog,     \* connections waiting in the listen queue, oldest first
    sock,        \* client -> [inq, outq, peer]: segments not yet received,
                 \* chunks not yet read by the client, the client's end
    \* the clients
    cphase,      \* "new" or "connected"
    creq,        \* the request the client is sending or waiting on
    csent,       \* segments of it sent
    nreq,        \* requests started
    crecv,       \* chunks of the response read
    rlen         \* length of the response the client is reading

reactorVars == <<wpc, batch, spinc, timers, deadline, interest, ready, aedge>>
connVars    == <<conns, conn, num_conns>>
kernelVars  == <<backlog, sock, rlen>>
clientVars  == <<cphase, creq, csent, nreq, crecv>>
vars == <<reactorVars, connVars, kernelVars, clientVars>>

Fds == Clients \cup {Listen}
FreshConn == [state |-> "IN", ka |-> FALSE, rbuf |-> 0, wleft |-> 0, ver |-> "none",
              rest |-> 0]
FreshSock == [inq |-> 0, outq |-> 0, peer |-> "open"]

Min2(a, b) == IF a < b THEN a ELSE b

\* Back to run_io's loop once a callback returns; to run_timers when the
\* batch is done.
AfterCallback == wpc' = IF batch' = {} THEN "timers" ELSE "dispatch"

\* Readiness of a socket for the interest registered on it.  A reset peer
\* raises EPOLLERR, which epoll reports whatever the interest.
InReady(s)  == s.inq > 0 \/ s.peer # "open"
OutReady(s) == s.outq < SndCap \/ s.peer = "rst"
Ready(c) ==
    \/ interest[c] = "IN" /\ InReady(sock[c])
    \/ interest[c] = "OUT" /\ OutReady(sock[c])

\* The socket is open on the client's side (accepted or still queued).
Alive(c) == c \in conns \/ c \in {backlog[i] : i \in 1..Len(backlog)}

\* Something happened on c's socket: its registration joins the ready list.
Notify(c) == ready' = IF interest[c] # "none" THEN ready \cup {c} ELSE ready

-----------------------------------------------------------------------------
(* Connection operations.  Each sets conns, conn, the timer and the epoll  *)
(* registration of c to what the whole call chain leaves them as.          *)

\* close_connection: del_event, del_timer, close, list_del, free.
\* (Variant: the timer is left in the tree.)
CloseConnKeepTimer(c) ==
    /\ conns' = conns \ {c}
    /\ num_conns' = num_conns - 1
    /\ conn' = [conn EXCEPT ![c] = FreshConn]
    /\ interest' = [interest EXCEPT ![c] = "none"]
    /\ ready' = ready \ {c}
    /\ UNCHANGED <<timers, deadline>>
CloseConn(c) ==
    /\ conns' = conns \ {c}
    /\ num_conns' = num_conns - 1
    /\ conn' = [conn EXCEPT ![c] = FreshConn]
    /\ timers' = timers \ {c}
    /\ deadline' = [deadline EXCEPT ![c] = 0]
    /\ interest' = [interest EXCEPT ![c] = "none"]
    /\ ready' = ready \ {c}

\* (Variant: the timer is deleted and not added again.)
RearmNoTimer(c, dir, isReady) ==
    /\ timers' = timers \ {c}
    /\ deadline' = [deadline EXCEPT ![c] = 0]
    /\ interest' = [interest EXCEPT ![c] = dir]
    /\ ready' = IF isReady THEN ready \cup {c} ELSE ready \ {c}
Rearm(c, dir, isReady) ==
    /\ timers' = timers \cup {c}
    /\ deadline' = [deadline EXCEPT ![c] = Timeout]
    /\ interest' = [interest EXCEPT ![c] = dir]
    /\ ready' = IF isReady THEN ready \cup {c} ELSE ready \ {c}

\* begin_read: reset, clear the buffer, state IN, register EPOLLIN.
BeginRead(c, k, s) ==
    /\ Rearm(c, "IN", InReady(s))
    /\ conn' = [conn EXCEPT ![c] = [k EXCEPT !.state = "IN", !.rbuf = 0, !.wleft = 0]]

\* The end of send_data: the whole buffer is sent.  With the keep-alive
\* flag the connection goes back to reading (and is closed when begin_read's
\* add_event fails), otherwise it is closed.
SendDone(c, k, s) ==
    \/ k.ka /\ BeginRead(c, k, s) /\ UNCHANGED <<conns, num_conns>>
    \/ k.ka /\ Faults /\ CloseConn(c)
    \/ ~k.ka /\ CloseConn(c)

\* parse_request's answer for c's buffer once recv would block.  The first
\* segment of a request is its request line, which parse_status_line
\* checks; segments left over from a request answered early come first
\* in the buffer, and their header line is no request line (REQ_ERR).
ParseErr(c, buf) == creq[c].bad \/ (conn[c].rest > 0 /\ buf > 0)
\* A request is complete once all its segments are in the buffer, or when
\* parse_headers, right after the request line, tests data[read_bytes]
\* and data[read_bytes+1] for the blank line: with nothing more received
\* those bytes are past buf->size, left by the previous response or never
\* written since realloc, and `stale` is whether they read CR LF.
RequestComplete(c, buf, stale) == buf >= creq[c].parts \/ (stale /\ buf >= 1)

\* A complete request: parse_request sets the keep-alive flag for
\* HTTP/1.1, the route's handler calls send_response, which fills the
\* buffer with a response of `size` chunks and calls begin_send: reset,
\* state OUT, register EPOLLOUT, and send_data at once.  When begin_send's
\* add_event fails the connection is closed with nothing sent.
Respond(c, buf, size) ==
    LET k  == [conn[c] EXCEPT !.ka = @ \/ creq[c].ver = "1.1", !.ver = creq[c].ver,
                              !.rbuf = buf, !.rest = creq[c].parts - buf]
        s  == [sock[c] EXCEPT !.inq = 0]
        n  == Min2(size, SndCap - s.outq)
        s2 == [s EXCEPT !.outq = @ + n]
    IN  \/ /\ Faults
           /\ sock' = [sock EXCEPT ![c] = s]
           /\ CloseConn(c)
           /\ UNCHANGED rlen
        \/ /\ sock' = [sock EXCEPT ![c] = s2]
           /\ rlen' = [rlen EXCEPT ![c] = size]
           /\ \/ /\ n = size
                 /\ SendDone(c, k, s2)
              \/ /\ n < size
                 /\ Rearm(c, "OUT", OutReady(s))
                 /\ conn' = [conn EXCEPT ![c] = [k EXCEPT !.state = "OUT",
                                                          !.wleft = size - n]]
                 /\ UNCHANGED <<conns, num_conns>>

\* read_data: recv until it would block, then parse.  A reset peer makes
\* recv fail and a closed one makes it return 0: both close the
\* connection, whatever is buffered.  On underflow the loop goes back to
\* recv and parses again, never returning to the reactor until more data,
\* an EOF or an error arrives.  With Faults the realloc before any recv
\* may fail, which closes the connection.
ReadData(c) ==
    LET buf == conn[c].rbuf + sock[c].inq IN
    /\ \/ /\ sock[c].peer # "open"
          /\ CloseConn(c)
          /\ UNCHANGED <<sock, rlen, spinc>>
          /\ AfterCallback
       \/ /\ Faults  \* resize_buffer before a recv fails
          /\ CloseConn(c)
          /\ UNCHANGED <<sock, rlen, spinc>>
          /\ AfterCallback
       \/ /\ sock[c].peer = "open"
          /\ ParseErr(c, buf)
          /\ CloseConn(c)
          /\ sock' = [sock EXCEPT ![c].inq = 0]
          /\ UNCHANGED <<rlen, spinc>>
          /\ AfterCallback
       \/ /\ sock[c].peer = "open"
          /\ ~ParseErr(c, buf) /\ ~RequestComplete(c, buf, FALSE)
          /\ conn' = [conn EXCEPT ![c].rbuf = buf]
          /\ sock' = [sock EXCEPT ![c].inq = 0]
          /\ wpc' = "spin" /\ spinc' = c
          /\ UNCHANGED <<conns, num_conns, timers, deadline, interest, ready, rlen>>
       \/ /\ sock[c].peer = "open"
          /\ ~ParseErr(c, buf) /\ \E stale \in BOOLEAN : RequestComplete(c, buf, stale)
          /\ \E size \in RespSizes : Respond(c, buf, size)
          /\ UNCHANGED spinc
          /\ AfterCallback
    /\ UNCHANGED <<aedge, backlog, clientVars>>

\* send_data on EPOLLOUT: send until the buffer is sent or send would block.
SendData(c) ==
    LET k  == conn[c]
        n  == Min2(k.wleft, SndCap - sock[c].outq)
        s2 == [sock[c] EXCEPT !.outq = @ + n]
    IN
    /\ \/ /\ sock[c].peer = "rst"
          /\ CloseConn(c)
          /\ UNCHANGED sock
       \/ /\ sock[c].peer # "rst"
          /\ n = k.wleft
          /\ sock' = [sock EXCEPT ![c] = s2]
          /\ SendDone(c, k, s2)
       \/ /\ sock[c].peer # "rst"
          /\ n < k.wleft
          /\ sock' = [sock EXCEPT ![c] = s2]
          /\ conn' = [conn EXCEPT ![c].wleft = k.wleft - n]
          /\ UNCHANGED <<conns, num_conns, timers, deadline, interest, ready>>
    /\ UNCHANGED <<rlen, spinc, aedge, backlog, clientVars>>

-----------------------------------------------------------------------------
(* The worker thread *)

\* run_timers: the earliest timer is due; a oneshot timer is deleted
\* before its callback runs, and timeout_callback closes the connection.
RunTimer(c) ==
    /\ wpc = "timers"
    /\ c \in timers /\ deadline[c] = 0
    /\ CloseConn(c)
    /\ UNCHANGED <<wpc, batch, spinc, aedge, kernelVars, clientVars>>

\* run_timers returns when no timer is due.
\* (Variant: it may return with a timer due.)
TimersDoneAnyway ==
    /\ wpc = "timers"
    /\ wpc' = "poll"
    /\ UNCHANGED <<batch, spinc, timers, deadline, interest, ready, aedge,
                   connVars, kernelVars, clientVars>>
TimersDone ==
    /\ wpc = "timers"
    /\ \A c \in timers : deadline[c] > 0
    /\ wpc' = "poll"
    /\ UNCHANGED <<batch, spinc, timers, deadline, interest, ready, aedge,
                   connVars, kernelVars, clientVars>>

\* run_io: epoll_wait takes every registration on the ready list whose
\* socket is still ready (at most 64 of them); if none, it times out.
Poll ==
    LET got == {c \in ready : Ready(c)} \cup
               (IF aedge /\ backlog # <<>> THEN {Listen} ELSE {})
    IN
    /\ wpc = "poll"
    /\ batch' = got
    /\ ready' = {}
    /\ aedge' = FALSE
    /\ wpc' = IF got = {} THEN "timers" ELSE "dispatch"
    /\ UNCHANGED <<spinc, timers, deadline, interest, connVars, kernelVars,
                   clientVars>>

\* begin_read fails inside accept_connection: close_connection decrements
\* num_conns, accept_connection still returns OK, and on_accept increments.
\* (Variant: on_accept does not count the connection.)
AcceptClosedUncounted == num_conns' = num_conns - 1
AcceptClosed == num_conns' = (num_conns - 1) + 1

\* accept_connection returns ERR (fcntl, calloc or create_buffer failed,
\* the descriptor closed): on_accept does not count it.
\* (Variant: it counts the connection whatever accept_connection returns.)
AcceptFailedCounted == num_conns' = num_conns + 1
AcceptFailed == num_conns' = num_conns

\* on_accept: one accept per EPOLLIN on the listening socket, then
\* accept_connection creates the connection and calls begin_read, and
\* on_accept counts it.  With Faults: accept fails (EMFILE, ENOBUFS) and
\* the connection stays queued; fcntl, calloc or create_buffer fails and
\* the new descriptor is closed; or begin_read's add_event fails.
OnAccept ==
    LET c == Head(backlog) IN
    /\ wpc = "dispatch" /\ Listen \in batch
    /\ batch' = batch \ {Listen}
    /\ \/ /\ backlog' = Tail(backlog)
          /\ conns' = conns \cup {c}
          /\ num_conns' = num_conns + 1
          /\ BeginRead(c, FreshConn, sock[c])
       \/ /\ Faults
          /\ UNCHANGED <<backlog, conns, conn, num_conns, timers, deadline,
                         interest, ready>>
       \/ /\ Faults
          /\ backlog' = Tail(backlog)
          /\ AcceptFailed
          /\ UNCHANGED <<conns, conn, timers, deadline, interest, ready>>
       \/ /\ Faults
          /\ backlog' = Tail(backlog)
          /\ AcceptClosed
          /\ UNCHANGED <<conns, conn, timers, deadline, interest, ready>>
    /\ AfterCallback
    /\ UNCHANGED <<spinc, aedge, sock, rlen, clientVars>>

\* io_callback: read_data in state IN, send_data in state OUT.
IoCallback(c) ==
    /\ wpc = "dispatch" /\ c \in batch
    /\ batch' = batch \ {c}
    /\ \/ conn[c].state = "IN" /\ ReadData(c)
       \/ /\ conn[c].state = "OUT" /\ SendData(c)
          /\ AfterCallback

\* read_data's loop, spinning on underflow, sees new data, EOF or an error.
ReadAgain ==
    /\ wpc = "spin"
    /\ InReady(sock[spinc])
    /\ UNCHANGED batch
    /\ ReadData(spinc)

WorkerStep ==
    \/ \E c \in Clients : RunTimer(c)
    \/ TimersDone
    \/ Poll
    \/ OnAccept
    \/ \E c \in Clients : IoCallback(c)
    \/ ReadAgain

-----------------------------------------------------------------------------
(* Time and the clients *)

\* Time passes: every armed timer comes one tick closer to due.
Tick ==
    /\ \E c \in timers : deadline[c] > 0
    /\ deadline' = [c \in Clients |->
                      IF c \in timers /\ deadline[c] > 0 THEN deadline[c] - 1
                      ELSE deadline[c]]
    /\ UNCHANGED <<wpc, batch, spinc, timers, interest, ready, aedge,
                   connVars, kernelVars, clientVars>>

\* A client connects: the kernel queues it and the listening socket
\* goes on the ready list.
Connect(c) ==
    /\ cphase[c] = "new"
    /\ cphase' = [cphase EXCEPT ![c] = "connected"]
    /\ backlog' = Append(backlog, c)
    /\ aedge' = TRUE
    /\ UNCHANGED <<wpc, batch, spinc, timers, deadline, interest, ready,
                   connVars, sock, creq, csent, nreq, crecv, rlen>>

\* The client sends the first segment of a new request, once it has read
\* the whole response to the previous one.
StartRequest(c, q) ==
    /\ Alive(c) /\ sock[c].peer = "open"
    /\ creq[c] = NoRequest /\ nreq[c] < MaxRequests
    /\ creq' = [creq EXCEPT ![c] = q]
    /\ csent' = [csent EXCEPT ![c] = 1]
    /\ nreq' = [nreq EXCEPT ![c] = @ + 1]
    /\ sock' = [sock EXCEPT ![c].inq = @ + 1]
    /\ Notify(c)
    /\ UNCHANGED <<wpc, batch, spinc, timers, deadline, interest, aedge,
                   connVars, backlog, cphase, crecv, rlen>>

\* The client sends the next segment of its request.
SendPart(c) ==
    /\ Alive(c) /\ sock[c].peer = "open"
    /\ creq[c] # NoRequest /\ csent[c] < creq[c].parts
    /\ csent' = [csent EXCEPT ![c] = @ + 1]
    /\ sock' = [sock EXCEPT ![c].inq = @ + 1]
    /\ Notify(c)
    /\ UNCHANGED <<wpc, batch, spinc, timers, deadline, interest, aedge,
                   connVars, backlog, cphase, creq, nreq, crecv, rlen>>

\* The client reads what the server sent; with the whole response read
\* and the whole request sent it is done with the request (a response that
\* came early leaves it sending the rest).  The send buffer drains: EPOLLOUT.
ClientRead(c) ==
    LET got == crecv[c] + sock[c].outq IN
    /\ sock[c].outq > 0
    /\ sock' = [sock EXCEPT ![c].outq = 0]
    /\ IF got = rlen[c]
         THEN /\ crecv' = [crecv EXCEPT ![c] = 0]
              /\ creq' = IF csent[c] = creq[c].parts
                          THEN [creq EXCEPT ![c] = NoRequest] ELSE creq
         ELSE /\ crecv' = [crecv EXCEPT ![c] = got]
              /\ UNCHANGED creq
    /\ Notify(c)
    /\ UNCHANGED <<wpc, batch, spinc, timers, deadline, interest, aedge,
                   connVars, backlog, cphase, csent, nreq, rlen>>

\* The client half-closes (FIN) or resets (RST) its end.
ClientClose(c, how) ==
    /\ Alive(c) /\ sock[c].peer = "open"
    /\ sock' = [sock EXCEPT ![c].peer = how]
    /\ Notify(c)
    /\ UNCHANGED <<wpc, batch, spinc, timers, deadline, interest, aedge,
                   connVars, backlog, rlen, clientVars>>

ClientStep(c) ==
    \/ Connect(c)
    \/ \E q \in Requests : StartRequest(c, q)
    \/ SendPart(c)
    \/ ClientRead(c)
    \/ \E how \in {"fin", "rst"} : ClientClose(c, how)

-----------------------------------------------------------------------------

Init ==
    /\ wpc = "timers"
    /\ batch = {}
    /\ spinc = CHOOSE c \in Clients : TRUE
    /\ timers = {}
    /\ deadline = [c \in Clients |-> 0]
    /\ interest = [c \in Clients |-> "none"]
    /\ ready = {}
    /\ aedge = FALSE
    /\ conns = {}
    /\ num_conns = 0
    /\ conn = [c \in Clients |-> FreshConn]
    /\ backlog = <<>>
    /\ sock = [c \in Clients |-> FreshSock]
    /\ cphase = [c \in Clients |-> "new"]
    /\ creq = [c \in Clients |-> NoRequest]
    /\ csent = [c \in Clients |-> 0]
    /\ nreq = [c \in Clients |-> 0]
    /\ crecv = [c \in Clients |-> 0]
    /\ rlen = [c \in Clients |-> 0]

Next ==
    \/ WorkerStep
    \/ Tick
    \/ \E c \in Clients : ClientStep(c)

\* The worker thread keeps running and time keeps passing; clients owe
\* nothing.
Spec == Init /\ [][Next]_vars /\ WF_vars(WorkerStep) /\ WF_vars(Tick)

\* In addition, a client that has begun a request sends all of it.
FairSpec == Spec /\ \A c \in Clients : WF_vars(SendPart(c))

-----------------------------------------------------------------------------
(* Properties *)

ConnRec == [state : {"IN", "OUT"}, ka : BOOLEAN, rbuf : 0..2,
            wleft : 0..3, ver : Versions \cup {"none"}, rest : 0..1]

TypeOK ==
    /\ wpc \in {"timers", "poll", "dispatch", "spin"}
    /\ batch \subseteq Fds /\ spinc \in Clients
    /\ timers \subseteq Clients /\ deadline \in [Clients -> 0..Timeout]
    /\ interest \in [Clients -> {"none", "IN", "OUT"}]
    /\ ready \subseteq Clients /\ aedge \in BOOLEAN
    /\ conns \subseteq Clients /\ conn \in [Clients -> ConnRec]
    /\ num_conns \in Nat
    /\ sock \in [Clients -> [inq : 0..3, outq : 0..SndCap,
                             peer : {"open", "fin", "rst"}]]
    /\ cphase \in [Clients -> {"new", "connected"}]
    /\ creq \in [Clients -> Requests \cup {NoRequest}]
    /\ nreq \in [Clients -> 0..MaxRequests]

\* Nothing the reactor holds refers to a freed connection: every timer in
\* the tree, every epoll registration, every event on the ready list or in
\* the batch being dispatched, and the connection read_data loops on,
\* belong to an open connection.  close_connection is reached from deep
\* in nested calls (send_data, begin_read, read_data, timeout_callback)
\* and must remove both the timer and the event; a leftover one fires on
\* freed memory.
RegistrationsLive ==
    /\ timers \cup ready \cup (batch \ {Listen}) \subseteq conns
    /\ \A c \in Clients : interest[c] # "none" => c \in conns
    /\ wpc = "spin" => spinc \in conns

Expired(c) == c \in timers /\ deadline[c] = 0
TimerEventuallyHandled == \A c \in Clients : Expired(c) ~> ~Expired(c)

\* Every accepted connection is eventually closed, even one whose client
\* stays silent after a keep-alive response: reset_connection re-adds the
\* idle timer each time the connection goes back to reading, so no
\* connection, and no slot of the worker's list, is held for ever.
ConnectionReleased == \A c \in Clients : c \in conns ~> c \notin conns

\* worker->num_conns, which handle_ipc reports, is the number of open
\* connections: every path to close_connection (EOF, reset, parse error,
\* timeout, a failed realloc or epoll_ctl, the end of a response without
\* keep-alive) decrements it once, and on_accept counts exactly the
\* connections accept_connection reports accepted, including one that
\* begin_read already closed.
NumConnsCounts == num_conns = Cardinality(conns)

=============================================================================
