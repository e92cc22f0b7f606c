------------------------------ MODULE Shutdown ------------------------------
(***************************************************************************)
(* Graceful shutdown of the daemon (daemon/src/main.rs, queue.rs,          *)
(* handlers.rs).  The worker ends when recv returns None, which the        *)
(* channel answers once it is empty and every Sender is dropped.  One      *)
(* Sender is main's local `tx`; the other is AppState.queue_tx, alive as   *)
(* long as anyone holds the shared AppState: main, the router, a running   *)
(* handler, the worker task itself.  Envelopes are counted, not named.     *)
(***************************************************************************)
EXTENDS Naturals

CONSTANTS
    Client,         \* concurrent requests
    QueueCap,       \* capacity of the channel, positive
    BatchSize,      \* BATCH_SIZE, positive
    MaxPosts        \* bound: POST requests

VARIABLES
    main,       \* where main is
    mainTx,     \* main's local Sender is alive
    arcs,       \* who holds the shared AppState
    sending,    \* requests whose handler awaits room in the channel
    queue,      \* envelopes in the channel
    buf,        \* envelopes in the worker's buffer
    running,    \* the worker task has not returned
    posts       \* POST requests so far

vars == <<main, mainTx, arcs, sending, queue, buf, running, posts>>

Init ==
    /\ main = "serve"
    /\ mainTx = TRUE
    /\ arcs = {"main", "worker", "router"}
    /\ sending = {}
    /\ queue = 0 /\ buf = 0
    /\ running = TRUE
    /\ posts = 0

\* A Sender is alive: the channel is not closed.
Open == mainTx \/ arcs # {} \/ sending # {}

\* A request is routed to post_event while the server accepts connections.
Post(c) ==
    /\ main = "serve"
    /\ posts < MaxPosts
    /\ c \notin sending
    /\ sending' = sending \cup {c}
    /\ posts' = posts + 1
    /\ UNCHANGED <<main, mainTx, arcs, queue, buf, running>>

\* There is room: send completes and 202 is answered.
Sent(c) ==
    /\ c \in sending
    /\ queue < QueueCap
    /\ queue' = queue + 1
    /\ sending' = sending \ {c}
    /\ UNCHANGED <<main, mainTx, arcs, buf, running, posts>>

\* shutdown_signal returns: no more connections are accepted.
Signal ==
    /\ main = "serve"
    /\ main' = "graceful"
    /\ UNCHANGED <<mainTx, arcs, sending, queue, buf, running, posts>>

\* serve returns once the running requests are answered, dropping the router.
\* The builds for Windows, for sockets and for TCP differ in the listener only.
Served ==
    /\ main = "graceful"
    /\ sending = {}
    /\ arcs' = arcs \ {"router"}
    /\ main' = "drop"
    /\ UNCHANGED <<mainTx, sending, queue, buf, running, posts>>

\* drop(app_state)
DropState ==
    /\ main = "drop"
    /\ arcs' = arcs \ {"main"}
    /\ main' = "await"
    /\ UNCHANGED <<mainTx, sending, queue, buf, running, posts>>

\* worker.await returns; main logs that the worker drained, flushes the
\* vector index (a stub) and returns, dropping its locals.
Exit ==
    /\ main = "await"
    /\ ~running
    /\ main' = "exited"
    /\ mainTx' = FALSE
    /\ UNCHANGED <<arcs, sending, queue, buf, running, posts>>

\* The worker receives one envelope and flushes a full buffer.
Receive ==
    /\ running
    /\ queue > 0
    /\ queue' = queue - 1
    /\ buf' = IF buf + 1 >= BatchSize THEN 0 ELSE buf + 1
    /\ UNCHANGED <<main, mainTx, arcs, sending, running, posts>>

\* The flush interval passed.
FlushTimer ==
    /\ running
    /\ buf' = 0
    /\ UNCHANGED <<main, mainTx, arcs, sending, queue, running, posts>>

\* recv returns None: the worker flushes, breaks and drops its AppState.
Closed ==
    /\ running
    /\ queue = 0
    /\ ~Open
    /\ buf' = 0
    /\ running' = FALSE
    /\ arcs' = arcs \ {"worker"}
    /\ UNCHANGED <<main, mainTx, sending, queue, posts>>

Next ==
    \/ \E c \in Client : Post(c) \/ Sent(c)
    \/ Signal \/ Served \/ DropState \/ Exit
    \/ Receive \/ FlushTimer \/ Closed

\* Handlers, main and the worker are tasks of one runtime: each runs on when
\* it can.  Requests and the signal come when they like.
Fairness ==
    /\ \A c \in Client : WF_vars(Sent(c))
    /\ WF_vars(Served \/ DropState \/ Exit)
    /\ WF_vars(Receive)
    /\ WF_vars(FlushTimer)
    /\ WF_vars(Closed)

FairSpec == Init /\ [][Next]_vars /\ Fairness

\* main.rs: after the signal the server stops, the worker drains and main
\* returns.
ShutdownCompletes == main = "graceful" ~> main = "exited"
=============================================================================
