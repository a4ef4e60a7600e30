------------------------------ MODULE Registry ------------------------------
(***************************************************************************)
(* The main thread of src/src/cask.c and the lifecycle of the worker       *)
(* threads of src/src/worker.c: start_worker, worker_proc, destroy_worker, *)
(* shutdown_worker, the monitor loop with SIGINT and handle_ipc, and the   *)
(* shutdown sequence after the label out:.  The worker list is the         *)
(* intrusive circular list of src/src/list.h, kept as prev/next pointers   *)
(* so that list_del's NULLs and list_for_each_safe's saved pointer are     *)
(* what the main thread really follows.                                    *)
(*                                                                         *)
(* A worker's request handling is abstracted to entering and leaving a     *)
(* database call (db_insert or db_get through a handler); the reactor      *)
(* itself is the Worker module.                                            *)
(***************************************************************************)
EXTENDS Naturals

CONSTANTS
    N,       \* num_workers: workers main starts (-w)
    Head,    \* &cask.workers, the list head
    NULL     \* NULL

Workers == 1..N                \* worker ids, in the order start_worker gives them
Links == Workers \cup {Head}

VARIABLES
    mpc,         \* main: "start", "loop", "ipc_read", "ipc_reply", "out",
                 \*       "shutdown", "join", "done" (returned), "crash"
    started,     \* the startup loop's index i
    sig,         \* a SIGINT is pending (blocked outside pselect)
    crunning,    \* cask.running
    wpc,         \* worker thread: "none", "created", "loop", "db", "exit",
                 \*                "locked", "gone" (freed)
    running,     \* worker->running
    lnext,       \* list node next pointers (cask.workers and every worker)
    lprev,       \* list node prev pointers
    numWorkers,  \* cask.num_workers
    lock,        \* holder of worker_lock: "none", "main" or a worker
    lockInit,    \* worker_lock initialised (FALSE after pthread_mutex_destroy)
    dbOpen,      \* the struct db main opened is not yet closed
    p, n,        \* list_for_each_safe's cursor and saved next
    ipc          \* the IPC client: "none", "connected", "sent", "closed"

mainVars == <<mpc, started, crunning, p, n>>
listVars == <<lnext, lprev, numWorkers>>
vars == <<mpc, started, sig, crunning, wpc, running, lnext, lprev,
          numWorkers, lock, lockInit, dbOpen, p, n, ipc>>

-----------------------------------------------------------------------------
(* list.h *)

\* list_add_tail(&cask.workers, &w->node)
ListAddTail(w) ==
    LET last == lprev[Head]
    IN  /\ lnext' = [lnext EXCEPT ![last] = w, ![w] = Head]
        /\ lprev' = [lprev EXCEPT ![Head] = w, ![w] = last]

\* list_del(&w->node): unlink, then NULL both of w's pointers.
ListDel(w) ==
    /\ lnext' = [[lnext EXCEPT ![lprev[w]] = lnext[w]] EXCEPT ![w] = NULL]
    /\ lprev' = [[lprev EXCEPT ![lnext[w]] = lprev[w]] EXCEPT ![w] = NULL]

\* The process is alive until main returns or crashes.
Alive == mpc \notin {"done", "crash"}

-----------------------------------------------------------------------------
(* Main thread *)

\* start_worker under worker_lock: it fails before touching the list
\* (socket, bind, listen, calloc, create_event_base, add_event), or adds the
\* worker and creates its thread, or adds it, fails pthread_create and
\* removes it again but still counts it (num_workers++).  A failure sends
\* main to out:; after the last worker, cask.running is set.
StartWorker ==
    /\ mpc = "start"
    /\ lock = "none"
    /\ LET w == started + 1 IN
       \/ /\ mpc' = "out"
          /\ UNCHANGED <<started, crunning, wpc, lnext, lprev, numWorkers>>
       \/ /\ ListAddTail(w)
          /\ wpc' = [wpc EXCEPT ![w] = "created"]
          /\ numWorkers' = numWorkers + 1
          /\ started' = w
          /\ mpc' = IF w = N THEN "loop" ELSE "start"
          /\ crunning' = (w = N)
       \/ /\ lnext' = [lnext EXCEPT ![w] = NULL]
          /\ lprev' = [lprev EXCEPT ![w] = NULL]
          /\ numWorkers' = numWorkers + 1
          /\ mpc' = "out"
          /\ UNCHANGED <<started, crunning, wpc>>
    /\ UNCHANGED <<sig, running, lock, lockInit, dbOpen, p, n, ipc>>

\* pselect with SIGINT unblocked: a pending signal runs sighandler, which
\* clears cask.running, and the loop breaks; a readable IPC socket makes
\* main call handle_ipc, which accepts and then blocks in read.
MainLoop ==
    /\ mpc = "loop"
    /\ \/ /\ sig
          /\ crunning' = FALSE
          /\ mpc' = "out"
          /\ sig' = FALSE
       \/ /\ ~sig
          /\ ipc # "none"
          /\ mpc' = "ipc_read"
          /\ UNCHANGED <<crunning, sig>>
    /\ UNCHANGED <<started, wpc, running, lnext, lprev, numWorkers, lock,
                   lockInit, dbOpen, p, n, ipc>>

\* handle_ipc's read: a full request goes on to the reply; a short read
\* (the client closed) returns at once, without closing the descriptor.
IpcRead ==
    /\ mpc = "ipc_read"
    /\ \/ ipc = "sent" /\ mpc' = "ipc_reply" /\ UNCHANGED ipc
       \/ ipc = "closed" /\ mpc' = "loop" /\ ipc' = "none"
    /\ UNCHANGED <<started, sig, crunning, wpc, running, lnext, lprev,
                   numWorkers, lock, lockInit, dbOpen, p, n>>

\* The IPC_CMD_STATUS reply, written under worker_lock, then close(fd).
IpcReply ==
    /\ mpc = "ipc_reply"
    /\ lock = "none"
    /\ mpc' = "loop"
    /\ ipc' = "none"
    /\ UNCHANGED <<started, sig, crunning, wpc, running, lnext, lprev,
                   numWorkers, lock, lockInit, dbOpen, p, n>>

\* out: freeaddrinfo, pthread_mutex_destroy (EBUSY, leaving it usable,
\* while a worker holds it), close and unlink the IPC socket, unmap the
\* index, close_db; then list_for_each_safe starts: p = head->next,
\* n = p->next.
Out ==
    /\ mpc = "out"
    /\ lockInit' = (lock # "none")
    /\ dbOpen' = FALSE
    /\ p' = lnext[Head]
    /\ n' = lnext[lnext[Head]]
    /\ mpc' = "shutdown"
    /\ UNCHANGED <<started, sig, crunning, wpc, running, lnext, lprev,
                   numWorkers, lock, ipc>>

\* One iteration of the shutdown loop: at the head it ends and main
\* returns; on NULL (a node list_del has cleared) list_entry faults;
\* otherwise shutdown_worker(p) joins p if p->running, and the loop moves
\* to the saved n and saves n->next.  A worker that destroy_worker has
\* already freed is read after free: the read may fault, or see the
\* stale running = false and a stale next (the one list_del cleared).
Shutdown ==
    /\ mpc = "shutdown"
    /\ \/ p = Head /\ mpc' = "done" /\ UNCHANGED <<running, p, n>>
       \/ /\ p = NULL \/ (p \in Workers /\ wpc[p] = "gone")
          /\ mpc' = "crash"
          /\ UNCHANGED <<running, p, n>>
       \/ /\ p \in Workers /\ running[p]
          /\ running' = [running EXCEPT ![p] = FALSE]
          /\ mpc' = "join"
          /\ UNCHANGED <<p, n>>
       \/ /\ p \in Workers /\ ~running[p]
          /\ p' = n
          /\ n' = IF n \in Links THEN lnext[n] ELSE NULL
          /\ UNCHANGED <<running, mpc>>
    /\ UNCHANGED <<started, sig, crunning, wpc, lnext, lprev, numWorkers,
                   lock, lockInit, dbOpen, ipc>>

\* pthread_join returns once the thread has finished destroy_worker.
Join ==
    /\ mpc = "join"
    /\ wpc[p] = "gone"
    /\ mpc' = "shutdown"
    /\ p' = n
    /\ n' = IF n \in Links THEN lnext[n] ELSE NULL
    /\ UNCHANGED <<started, sig, crunning, wpc, running, lnext, lprev,
                   numWorkers, lock, lockInit, dbOpen, ipc>>

-----------------------------------------------------------------------------
(* Worker threads (they run until main returns) *)

\* worker_proc sets running itself, once the thread is scheduled.
WorkerStart(w) ==
    /\ Alive /\ wpc[w] = "created"
    /\ wpc' = [wpc EXCEPT ![w] = "loop"]
    /\ running' = [running EXCEPT ![w] = TRUE]
    /\ UNCHANGED <<mainVars, sig, listVars, lock, lockInit, dbOpen, ipc>>

\* An event_base_iter that calls a handler which enters the database, and
\* its return.
WorkerDb(w) ==
    /\ Alive /\ wpc[w] = "loop" /\ running[w]
    /\ wpc' = [wpc EXCEPT ![w] = "db"]
    /\ UNCHANGED <<mainVars, sig, running, listVars, lock, lockInit, dbOpen, ipc>>
WorkerDbDone(w) ==
    /\ Alive /\ wpc[w] = "db"
    /\ wpc' = [wpc EXCEPT ![w] = "loop"]
    /\ UNCHANGED <<mainVars, sig, running, listVars, lock, lockInit, dbOpen, ipc>>

\* The loop ends when running is false, or when event_base_iter fails
\* (which clears running).
WorkerExit(w) ==
    /\ Alive /\ wpc[w] = "loop"
    /\ \/ ~running[w] /\ UNCHANGED running
       \/ running[w] /\ running' = [running EXCEPT ![w] = FALSE]
    /\ wpc' = [wpc EXCEPT ![w] = "exit"]
    /\ UNCHANGED <<mainVars, sig, listVars, lock, lockInit, dbOpen, ipc>>

\* destroy_worker, after closing its connections and event base, locks
\* worker_lock.  Locking the mutex main has destroyed is undefined: the
\* call may act on it as before or return at once without it.
WorkerLock(w) ==
    /\ Alive /\ wpc[w] = "exit"
    /\ \/ lockInit /\ lock = "none" /\ lock' = w
       \/ ~lockInit /\ lock = "none" /\ lock' = w
       \/ ~lockInit /\ UNCHANGED lock
    /\ wpc' = [wpc EXCEPT ![w] = "locked"]
    /\ UNCHANGED <<mainVars, sig, running, listVars, lockInit, dbOpen, ipc>>

\* num_workers--, list_del, unlock, free.
WorkerUnlink(w) ==
    /\ Alive /\ wpc[w] = "locked"
    /\ numWorkers' = numWorkers - 1
    /\ ListDel(w)
    /\ lock' = IF lock = w THEN "none" ELSE lock
    /\ wpc' = [wpc EXCEPT ![w] = "gone"]
    /\ UNCHANGED <<mainVars, sig, running, lockInit, dbOpen, ipc>>

-----------------------------------------------------------------------------
(* Environment *)

\* SIGINT arrives; it stays pending while blocked.
Signal ==
    /\ Alive
    /\ ~sig
    /\ sig' = TRUE
    /\ UNCHANGED <<mainVars, wpc, running, listVars, lock, lockInit, dbOpen, ipc>>

\* An IPC client (caskmon) connects, then sends its request or hangs up.
IpcClient ==
    /\ Alive
    /\ \/ ipc = "none" /\ ipc' = "connected"
       \/ ipc = "connected" /\ ipc' \in {"sent", "closed"}
    /\ UNCHANGED <<mainVars, sig, wpc, running, listVars, lock, lockInit, dbOpen>>

\* After pthread_mutex_init, open_db and setup_ipc: no worker yet.
Init ==
    /\ mpc = "start"
    /\ started = 0
    /\ sig = FALSE
    /\ crunning = FALSE
    /\ wpc = [w \in Workers |-> "none"]
    /\ running = [w \in Workers |-> FALSE]
    /\ lnext = [x \in Links |-> IF x = Head THEN Head ELSE NULL]
    /\ lprev = [x \in Links |-> IF x = Head THEN Head ELSE NULL]
    /\ numWorkers = 0
    /\ lock = "none"
    /\ lockInit = TRUE
    /\ dbOpen = TRUE
    /\ p = Head
    /\ n = Head
    /\ ipc = "none"

Next ==
    \/ StartWorker \/ MainLoop \/ IpcRead \/ IpcReply \/ Out \/ Shutdown \/ Join
    \/ \E w \in Workers :
          \/ WorkerStart(w) \/ WorkerDb(w) \/ WorkerDbDone(w) \/ WorkerExit(w)
          \/ WorkerLock(w) \/ WorkerUnlink(w)
    \/ Signal \/ IpcClient

Spec == Init /\ [][Next]_vars

-----------------------------------------------------------------------------
(* Properties *)

\* The database outlives its users: no worker is inside a database call
\* (a handler's db_insert or db_get) once main has called close_db, which
\* frees the struct db and unmaps the buckets.  main's shutdown relies on
\* this when it closes the database before shutdown_worker joins anyone.
DbOpenWhileInUse == \A w \in Workers : wpc[w] = "db" => dbOpen

=============================================================================
