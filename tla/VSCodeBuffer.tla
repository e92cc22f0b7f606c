---------------------------- MODULE VSCodeBuffer ----------------------------
(***************************************************************************)
(* The VS Code connector (connectors/vscode/src/extension.ts, buffer.ts):  *)
(* the browser extension's capture and retry logic, but the buffer is one  *)
(* file, buffer.json, that every put and delete reads, changes and         *)
(* rewrites.  Within a window a rewrite runs synchronously, so no other    *)
(* coroutine of that window sees its middle.  Windows are processes of     *)
(* their own and share the file: their reads, truncations and writes       *)
(* interleave, and a window may be closed, or its disk fill up, between    *)
(* truncating the file and writing it.                                     *)
(***************************************************************************)
EXTENDS Naturals, FiniteSets

CONSTANTS
    Window,         \* VS Code windows
    Event,          \* selections and saves, by event_id
    Loop,           \* calls of retryBuffer that may run at the same time
    WindowOf,       \* the window each handler and loop runs in
    NoItem,         \* what a loop holds that posts no item
    AnswersLost,    \* whether an accepted post's answer may be lost
    MaxFaults,      \* bound: failed requests
    MaxBreaks       \* bound: closed windows and failed writes

ASSUME VSCodeAssumption ==
    /\ WindowOf \in [Event \cup Loop -> Window]
    /\ Event \cap Loop = {}
    /\ NoItem \notin Event \cup Loop
    /\ AnswersLost \in BOOLEAN
    /\ MaxFaults \in Nat /\ MaxBreaks \in Nat

VARIABLES
    capture,    \* where the handler of each selection or save is
    items,      \* ids in buffer.json; those before a rewrite until it ends
    torn,       \* buffer.json is truncated or garbled: it does not parse
    due,        \* items whose nextDue has come
    healthy,    \* windows whose cachedHealthy is true
    stale,      \* windows whose health cooldown is over
    pc, todo, cur,  \* each retryBuffer call, as in BrowserBuffer
    writer,     \* the task each window's file operation runs for, or NoItem
    truncated,  \* windows whose operation has truncated the file
    next,       \* the contents each window is about to write
    delivered,  \* how often the daemon accepted each event
    faults, breaks

loops == <<pc, todo, cur>>
file  == <<items, torn, writer, truncated, next>>
vars  == <<capture, due, healthy, stale, loops, file, delivered, faults, breaks>>

Init ==
    /\ capture = [e \in Event |-> "none"]
    /\ items = {} /\ torn = FALSE /\ due = {}
    /\ healthy = {} /\ stale = Window
    /\ pc = [l \in Loop |-> "idle"]
    /\ todo = [l \in Loop |-> {}]
    /\ cur = [l \in Loop |-> NoItem]
    /\ writer = [w \in Window |-> NoItem]
    /\ truncated = {}
    /\ next = [w \in Window |-> {}]
    /\ delivered = [e \in Event |-> 0]
    /\ faults = 0 /\ breaks = 0

\* The window's thread is not inside a file operation.
Free(w) == writer[w] = NoItem

\* A file that is missing, or does not parse, reads as no items.
ReadAll == IF torn THEN {} ELSE items

\* The same connector on a transactional store; a window that is open runs.
Tx == INSTANCE BrowserBuffer WITH
          awake <- TRUE,
          store <- items,
          healthy <- healthy # {},
          stale <- stale # {},
          faults <- faults + breaks,
          MaxFaults <- MaxFaults + MaxBreaks

-----------------------------------------------------------------------------
(* Requests: postEnvelope is true only for a 202 that arrives.              *)

Accepted(e) == delivered' = [delivered EXCEPT ![e] = @ + 1]

Fault ==
    /\ faults < MaxFaults
    /\ faults' = faults + 1

Answered(e) == Accepted(e) /\ UNCHANGED faults

NotAnswered(e) ==
    /\ Fault
    /\ UNCHANGED delivered \/ (AnswersLost /\ Accepted(e))

-----------------------------------------------------------------------------
(* vyaso.sendSelection and the save hook                                    *)

Capture(e) ==
    /\ capture[e] = "none"
    /\ Free(WindowOf[e])
    /\ capture' = [capture EXCEPT ![e] = "posting"]
    /\ UNCHANGED <<due, healthy, stale, loops, file, delivered, faults, breaks>>

Post(e) ==
    /\ capture[e] = "posting"
    /\ Free(WindowOf[e])
    /\ \/ Answered(e) /\ capture' = [capture EXCEPT ![e] = "done"]
       \/ NotAnswered(e) /\ capture' = [capture EXCEPT ![e] = "failed"]
    /\ UNCHANGED <<due, healthy, stale, loops, file, breaks>>

-----------------------------------------------------------------------------
(* retryBuffer, as in the browser extension                                 *)

Goto(l, where) == pc' = [pc EXCEPT ![l] = where]

\* Mutant of NeedsCheck: a daemon found unhealthy is not asked again.
ChecksWhileHealthy(w) == w \in stale \cap healthy

NeedsCheck(w) == w \in stale

StartLoop(l) ==
    /\ pc[l] = "idle"
    /\ Free(WindowOf[l])
    /\ \/ NeedsCheck(WindowOf[l]) /\ Goto(l, "health")
       \/ ~NeedsCheck(WindowOf[l]) /\ WindowOf[l] \in healthy /\ Goto(l, "read")
    /\ UNCHANGED <<capture, due, healthy, stale, todo, cur, file, delivered,
                   faults, breaks>>

CheckHealth(l) ==
    /\ pc[l] = "health"
    /\ Free(WindowOf[l])
    /\ stale' = stale \ {WindowOf[l]}
    /\ \/ /\ healthy' = healthy \cup {WindowOf[l]}
          /\ Goto(l, "read")
          /\ UNCHANGED faults
       \/ /\ healthy' = healthy \ {WindowOf[l]}
          /\ Goto(l, "idle")
          /\ Fault
    /\ UNCHANGED <<capture, due, todo, cur, file, delivered, breaks>>

ReadDue(l) ==
    /\ pc[l] = "read"
    /\ Free(WindowOf[l])
    /\ LET found == ReadAll \cap due
       IN  /\ todo' = [todo EXCEPT ![l] = found]
           /\ Goto(l, IF found = {} THEN "idle" ELSE "post")
    /\ UNCHANGED <<capture, due, healthy, stale, cur, file, delivered, faults,
                   breaks>>

PostItem(l, e) ==
    /\ pc[l] = "post"
    /\ Free(WindowOf[l])
    /\ e \in todo[l]
    /\ todo' = [todo EXCEPT ![l] = @ \ {e}]
    /\ cur' = [cur EXCEPT ![l] = e]
    /\ \/ Answered(e) /\ Goto(l, "accepted")
       \/ NotAnswered(e) /\ Goto(l, "refused")
    /\ UNCHANGED <<capture, due, healthy, stale, file, breaks>>

-----------------------------------------------------------------------------
(* putEvent, updateEvent and deleteEvent: read, change, truncate, write.    *)

\* The task t is about to change the file.
Ready(t) ==
    IF t \in Event THEN capture[t] = "failed"
    ELSE pc[t] \in {"accepted", "refused"}

\* The item a task's operation is about.
ItemOf(t) == IF t \in Event THEN t ELSE cur[t]

Deletes(t) == t \in Loop /\ pc[t] = "accepted"

\* Mutant of Changed: the operation starts from an empty list.
ChangedAlone(t) == IF Deletes(t) THEN {} ELSE {ItemOf(t)}

\* The contents after t's operation on the file as it reads now.
Changed(t) ==
    IF Deletes(t) THEN ReadAll \ {ItemOf(t)} ELSE ReadAll \cup {ItemOf(t)}

\* readAll, and the change in memory.
ReadFile(t) ==
    /\ Ready(t)
    /\ Free(WindowOf[t])
    /\ writer' = [writer EXCEPT ![WindowOf[t]] = t]
    /\ next' = [next EXCEPT ![WindowOf[t]] = Changed(t)]
    /\ UNCHANGED <<capture, due, healthy, stale, loops, items, torn, truncated,
                   delivered, faults, breaks>>

\* writeFileSync opens the file and truncates it ...
TruncateFile(w) ==
    /\ ~Free(w)
    /\ w \notin truncated
    /\ truncated' = truncated \cup {w}
    /\ torn' = TRUE
    /\ UNCHANGED <<capture, due, healthy, stale, loops, items, writer, next,
                   delivered, faults, breaks>>

\* Mutant of EndOperation: the window does not notice that it has finished.
EndKeepsHandle(w) ==
    /\ writer' = [writer EXCEPT ![w] = NoItem]
    /\ next' = [next EXCEPT ![w] = {}]
    /\ UNCHANGED truncated

EndOperation(w) ==
    /\ writer' = [writer EXCEPT ![w] = NoItem]
    /\ truncated' = truncated \ {w}
    /\ next' = [next EXCEPT ![w] = {}]

\* A handler is done, a loop goes on with its next item.
Continue(t) ==
    IF t \in Event
    THEN capture' = [capture EXCEPT ![t] = "done"] /\ UNCHANGED loops
    ELSE /\ Goto(t, IF todo[t] = {} THEN "idle" ELSE "post")
         /\ cur' = [cur EXCEPT ![t] = NoItem]
         /\ UNCHANGED <<capture, todo>>

\* ... and writes it from its start.  If another window wrote since this one
\* truncated, the end of the longer text may remain and the file not parse.
WriteFile(w) ==
    /\ w \in truncated
    /\ torn' \in {FALSE, ~torn}
    /\ items' = IF torn' THEN {} ELSE next[w]
    /\ due' = due \ {ItemOf(writer[w])}
    /\ Continue(writer[w])
    /\ EndOperation(w)
    /\ UNCHANGED <<healthy, stale, delivered, faults, breaks>>

-----------------------------------------------------------------------------
(* Broken windows, and time.                                                *)

Break ==
    /\ breaks < MaxBreaks
    /\ breaks' = breaks + 1

\* Tasks that end without finishing: a handler loses its envelope, a loop is
\* simply over.
Abandon(T) ==
    /\ capture' = [e \in Event |-> IF e \in T /\ capture[e] \in {"posting", "failed"}
                                   THEN "lost" ELSE capture[e]]
    /\ pc' = [l \in Loop |-> IF l \in T THEN "idle" ELSE pc[l]]
    /\ todo' = [l \in Loop |-> IF l \in T THEN {} ELSE todo[l]]
    /\ cur' = [l \in Loop |-> IF l \in T THEN NoItem ELSE cur[l]]

\* A file truncated and not written stays empty.
BreakOff(w) == items' = IF w \in truncated /\ torn THEN {} ELSE items

\* Opening or writing the file throws: the task ends, the file stays as it is.
WriteFails(w) ==
    /\ ~Free(w)
    /\ Break
    /\ Abandon({writer[w]})
    /\ BreakOff(w)
    /\ EndOperation(w)
    /\ UNCHANGED <<due, healthy, stale, torn, delivered, faults>>

\* The window is closed and opened again.
CloseWindow(w) ==
    /\ Break
    /\ Abandon({t \in Event \cup Loop : WindowOf[t] = w})
    /\ BreakOff(w)
    /\ EndOperation(w)
    /\ healthy' = healthy \ {w}
    /\ stale' = stale \cup {w}
    /\ UNCHANGED <<due, torn, delivered, faults>>

BackoffEnds(e) ==
    /\ e \in items \ due
    /\ due' = due \cup {e}
    /\ UNCHANGED <<capture, healthy, stale, loops, file, delivered, faults, breaks>>

CooldownEnds(w) ==
    /\ w \notin stale
    /\ stale' = stale \cup {w}
    /\ UNCHANGED <<capture, due, healthy, loops, file, delivered, faults, breaks>>

-----------------------------------------------------------------------------
Operate(w) == TruncateFile(w) \/ WriteFile(w)

Handle(e) == Post(e) \/ ReadFile(e)

Retry(l) ==
    \/ StartLoop(l) \/ CheckHealth(l) \/ ReadDue(l)
    \/ \E e \in Event : PostItem(l, e)
    \/ ReadFile(l)

Next ==
    \/ \E e \in Event : Capture(e) \/ Handle(e) \/ BackoffEnds(e)
    \/ \E l \in Loop : Retry(l)
    \/ \E w \in Window :
          Operate(w) \/ WriteFails(w) \/ CloseWindow(w) \/ CooldownEnds(w)

Spec == Init /\ [][Next]_vars

\* Operations run to their end; a coroutine that waits for its window's thread
\* gets it again and again and is not passed over for ever; time passes.
Fairness ==
    /\ \A w \in Window : WF_vars(Operate(w)) /\ WF_vars(CooldownEnds(w))
    /\ \A e \in Event : SF_vars(Handle(e)) /\ WF_vars(BackoffEnds(e))
    /\ \A l \in Loop : SF_vars(Retry(l))

FairSpec == Spec /\ Fairness

-----------------------------------------------------------------------------
TypeOK ==
    /\ capture \in [Event -> Tx!CapturePC]
    /\ items \subseteq Event /\ due \subseteq Event
    /\ torn \in BOOLEAN
    /\ healthy \subseteq Window /\ stale \subseteq Window
    /\ pc \in [Loop -> Tx!LoopPC]
    /\ todo \in [Loop -> SUBSET Event]
    /\ cur \in [Loop -> Event \cup {NoItem}]
    /\ writer \in [Window -> Event \cup Loop \cup {NoItem}]
    /\ truncated \subseteq {w \in Window : ~Free(w)}
    /\ next \in [Window -> SUBSET Event]
    /\ delivered \in [Event -> Nat]
    /\ faults \in 0 .. MaxFaults /\ breaks \in 0 .. MaxBreaks

\* An event whose handler finished was accepted by the daemon, can be read
\* from the buffer, or is in the contents a window is about to write.
Safe(e) ==
    capture[e] = "done" =>
        \/ delivered[e] > 0
        \/ e \in ReadAll
        \/ \E w \in truncated : e \in next[w]

\* A rewrite breaks off after the file was truncated.
Tears == breaks' > breaks /\ truncated # {}

\* In one window, whatever handlers and loops overlap, a buffered event is
\* lost only if a rewrite of buffer.json breaks off midway.
KeptUnlessTorn == [][\A e \in Event : Safe(e) /\ ~Safe(e)' => Tears]_vars

\* With one window, rewriting the file is as good as a transaction of the
\* browser's object store: every step, closed windows and failed writes
\* included, is a step of BrowserBuffer, except a rewrite broken off midway.
TransactionalSpec == Tx!Init /\ [][Tx!Next \/ Tears]_(Tx!vars)

\* Once failures stop, the buffer drains and stays empty.
BufferDrains == <>[](items = {})

\* docs/architecture/index.html: "Every envelope lands in a local inbox first;
\* nothing is lost".  Checked with several windows and MaxBreaks = 0.
NothingIsLost == \A e \in Event : Safe(e)
=============================================================================
