---------------------------- MODULE BrowserBuffer ----------------------------
(***************************************************************************)
(* The browser extension's background worker                               *)
(* (connectors/browser-extension/src/background.ts, db.ts): selections are *)
(* posted to the daemon at once, the ones it did not accept are kept in    *)
(* IndexedDB, and retry loops post them again.                             *)
(*                                                                         *)
(* The worker is one thread, but every await lets other coroutines run: a  *)
(* selection's handler, and any number of retryBuffer calls, since the     *)
(* interval timer and force-drain start one without looking for another.   *)
(* The browser stops a worker that is idle, as often as it likes, and may  *)
(* stop one at an await; only IndexedDB survives.  The interval stops with *)
(* it, and nothing but a message from a page starts it again.              *)
(* Clocks are abstracted: an item becomes due, and the health check's      *)
(* cooldown ends, at some later moment.                                    *)
(***************************************************************************)
EXTENDS Naturals, FiniteSets

CONSTANTS
    Event,      \* selections, by the event_id made for each
    Loop,       \* calls of retryBuffer that may run at the same time
    NoItem,     \* what a loop holds that posts no item
    AnswersLost,    \* whether an accepted post's answer may be lost
    MaxFaults   \* bound: failed requests and transactions, workers stopped
                \* while they work

ASSUME BrowserAssumption ==
    /\ NoItem \notin Event
    /\ AnswersLost \in BOOLEAN
    /\ MaxFaults \in Nat

VARIABLES
    awake,      \* the worker runs
    capture,    \* where handleSelection is, for each selection
    store,      \* ids of the items in the object store
    due,        \* items whose nextDue has come
    healthy,    \* cachedHealthy
    stale,      \* HEALTH_COOLDOWN_MS passed since lastHealth
    pc,         \* where each retryBuffer call is
    todo,       \* the due items it read and has not posted yet
    cur,        \* the item it is posting or settling
    delivered,  \* how often the daemon accepted each selection
    faults

loops == <<pc, todo, cur>>
vars  == <<awake, capture, store, due, healthy, stale, loops, delivered, faults>>

CapturePC == {"none", "posting", "failed", "done", "lost"}
LoopPC    == {"idle", "health", "read", "post", "accepted", "refused"}

\* Installing the extension starts its worker.
Init ==
    /\ awake = TRUE
    /\ capture = [e \in Event |-> "none"]
    /\ store = {} /\ due = {}
    /\ healthy = FALSE /\ stale = TRUE
    /\ pc = [l \in Loop |-> "idle"]
    /\ todo = [l \in Loop |-> {}]
    /\ cur = [l \in Loop |-> NoItem]
    /\ delivered = [e \in Event |-> 0]
    /\ faults = 0

-----------------------------------------------------------------------------
(* A request and its answer.  postEnvelope is true only for a 202 that     *)
(* arrives; the daemon may have accepted an envelope whose answer is lost.  *)

Accepted(e) == delivered' = [delivered EXCEPT ![e] = @ + 1]

Fault ==
    /\ faults < MaxFaults
    /\ faults' = faults + 1

Answered(e) == Accepted(e) /\ UNCHANGED faults

NotAnswered(e) ==
    /\ Fault
    /\ UNCHANGED delivered \/ (AnswersLost /\ Accepted(e))

-----------------------------------------------------------------------------
(* handleSelection                                                          *)

\* The message of a non-empty selection, which gets an id and is posted.
Select(e) ==
    /\ capture[e] = "none"
    /\ capture' = [capture EXCEPT ![e] = "posting"]
    /\ awake' = TRUE
    /\ UNCHANGED <<store, due, healthy, stale, loops, delivered, faults>>

PostSelection(e) ==
    /\ capture[e] = "posting"
    /\ \/ Answered(e) /\ capture' = [capture EXCEPT ![e] = "done"]
       \/ NotAnswered(e) /\ capture' = [capture EXCEPT ![e] = "failed"]
    /\ UNCHANGED <<awake, store, due, healthy, stale, loops>>

\* Mutant of KeepIn: the record is written in a transaction that is dropped.
KeepNowhere(e) == store

KeepIn(e) == store \cup {e}

\* putEvent: the selection is kept with the first backoff.
KeepSelection(e) ==
    /\ capture[e] = "failed"
    /\ store' = KeepIn(e)
    /\ due' = due \ {e}
    /\ capture' = [capture EXCEPT ![e] = "done"]
    /\ UNCHANGED <<awake, healthy, stale, loops, delivered, faults>>

\* The transaction aborts; nobody handles the rejected promise.
KeepFails(e) ==
    /\ capture[e] = "failed"
    /\ Fault
    /\ capture' = [capture EXCEPT ![e] = "lost"]
    /\ UNCHANGED <<awake, store, due, healthy, stale, loops, delivered>>

-----------------------------------------------------------------------------
(* retryBuffer                                                              *)

Goto(l, where) == pc' = [pc EXCEPT ![l] = where]

\* Mutant of NeedsCheck: a daemon found unhealthy is not asked again.
ChecksWhileHealthy == stale /\ healthy

NeedsCheck == stale

\* The interval fires or force-drain asks: the cached health decides until
\* its cooldown is over.
StartLoop(l) ==
    /\ awake
    /\ pc[l] = "idle"
    /\ \/ NeedsCheck /\ Goto(l, "health")
       \/ ~NeedsCheck /\ healthy /\ Goto(l, "read")
    /\ UNCHANGED <<awake, capture, store, due, healthy, stale, todo, cur, delivered,
                   faults>>

\* healthOk: its answer is cached, and lastHealth set, either way.
CheckHealth(l) ==
    /\ pc[l] = "health"
    /\ stale' = FALSE
    /\ \/ healthy' = TRUE /\ Goto(l, "read") /\ UNCHANGED faults
       \/ healthy' = FALSE /\ Goto(l, "idle") /\ Fault
    /\ UNCHANGED <<awake, capture, store, due, todo, cur, delivered>>

\* getAll, and the items that are due.  The code compares with the time the
\* loop started; a moment more or less is part of the clock's abstraction.
ReadDue(l) ==
    /\ pc[l] = "read"
    /\ LET found == store \cap due
       IN  /\ todo' = [todo EXCEPT ![l] = found]
           /\ Goto(l, IF found = {} THEN "idle" ELSE "post")
    /\ UNCHANGED <<awake, capture, store, due, healthy, stale, cur, delivered, faults>>

\* The next item is posted as it was read, whatever became of it meanwhile.
\* Items come in the order of their random ids.
PostItem(l, e) ==
    /\ pc[l] = "post"
    /\ e \in todo[l]
    /\ todo' = [todo EXCEPT ![l] = @ \ {e}]
    /\ cur' = [cur EXCEPT ![l] = e]
    /\ \/ Answered(e) /\ Goto(l, "accepted")
       \/ NotAnswered(e) /\ Goto(l, "refused")
    /\ UNCHANGED <<awake, capture, store, due, healthy, stale>>

\* Mutant of NextItem: the settled item stays at hand.
NextItemOnly(l) ==
    /\ Goto(l, IF todo[l] = {} THEN "idle" ELSE "post")
    /\ UNCHANGED cur

\* The loop goes on with the next item or ends.
NextItem(l) ==
    /\ Goto(l, IF todo[l] = {} THEN "idle" ELSE "post")
    /\ cur' = [cur EXCEPT ![l] = NoItem]

\* Mutant of Settles: any answer, or none, settles the item.
AnythingSettles(l) == pc[l] \in {"accepted", "refused"}

Settles(l) == pc[l] = "accepted"

\* deleteEvent
DeleteItem(l) ==
    /\ Settles(l)
    /\ store' = store \ {cur[l]}
    /\ due' = due \ {cur[l]}
    /\ NextItem(l)
    /\ UNCHANGED <<awake, capture, healthy, stale, todo, delivered, faults>>

\* updateEvent puts the item read before the post, with the next backoff,
\* also when another loop has deleted it meanwhile.
UpdateItem(l) ==
    /\ pc[l] = "refused"
    /\ store' = KeepIn(cur[l])
    /\ due' = due \ {cur[l]}
    /\ NextItem(l)
    /\ UNCHANGED <<awake, capture, healthy, stale, todo, delivered, faults>>

\* A transaction aborts: the rejection ends the loop.
LoopFails(l) ==
    /\ pc[l] \in {"read", "accepted", "refused"}
    /\ Fault
    /\ Goto(l, "idle")
    /\ todo' = [todo EXCEPT ![l] = {}]
    /\ cur' = [cur EXCEPT ![l] = NoItem]
    /\ UNCHANGED <<awake, capture, store, due, healthy, stale, delivered>>

-----------------------------------------------------------------------------
(* Time and the browser.                                                    *)

\* An item's backoff, RETRY_MAX_MS and its jitter at most, is over.
BackoffEnds(e) ==
    /\ e \in store \ due
    /\ due' = due \cup {e}
    /\ UNCHANGED <<awake, capture, store, healthy, stale, loops, delivered, faults>>

CooldownEnds ==
    /\ ~stale
    /\ stale' = TRUE
    /\ UNCHANGED <<awake, capture, store, due, healthy, loops, delivered, faults>>

\* Any other message starts the worker, too: content.ts sends one at every
\* mouseup, mostly with an empty selection.
Wake ==
    /\ ~awake
    /\ awake' = TRUE
    /\ UNCHANGED <<capture, store, due, healthy, stale, loops, delivered, faults>>

\* Coroutines and the cached health are gone, and so are selections not posted
\* or kept yet.
Forget ==
    /\ capture' = [e \in Event |-> IF capture[e] \in {"posting", "failed"}
                                   THEN "lost" ELSE capture[e]]
    /\ healthy' = FALSE /\ stale' = TRUE
    /\ pc' = [l \in Loop |-> "idle"]
    /\ todo' = [l \in Loop |-> {}]
    /\ cur' = [l \in Loop |-> NoItem]
    /\ UNCHANGED <<store, due, delivered>>

Idle ==
    /\ \A e \in Event : capture[e] \notin {"posting", "failed"}
    /\ \A l \in Loop : pc[l] = "idle"

\* The browser stops the worker some time after the last message.
StopIdle ==
    /\ awake /\ Idle
    /\ awake' = FALSE
    /\ Forget
    /\ UNCHANGED faults

\* The worker is stopped at an await, since that takes too long, or the
\* extension is reloaded, which starts it again.
StopWorker ==
    /\ Fault
    /\ Forget
    /\ awake' \in BOOLEAN

-----------------------------------------------------------------------------
(* Messages start handlers; force-drain and the interval each start a loop. *)

Handle(e) == PostSelection(e) \/ KeepSelection(e)

\* A loop that was started goes on.
Proceed(l) ==
    \/ CheckHealth(l) \/ ReadDue(l)
    \/ \E e \in Event : PostItem(l, e)
    \/ DeleteItem(l) \/ UpdateItem(l)

Next ==
    \/ \E e \in Event : Select(e) \/ Handle(e) \/ KeepFails(e) \/ BackoffEnds(e)
    \/ \E l \in Loop : StartLoop(l) \/ Proceed(l) \/ LoopFails(l)
    \/ CooldownEnds
    \/ Wake \/ StopIdle \/ StopWorker

Spec == Init /\ [][Next]_vars

\* Coroutines run on and time passes; a request without an answer fails in the
\* end, as the browser stops a worker that waits too long for one.  An idle
\* worker is kept for half a minute, and the interval is one second: if the
\* worker is awake again and again, its interval fires again and again.  Nobody
\* owes it a message.
Fairness ==
    /\ \A e \in Event : WF_vars(Handle(e)) /\ WF_vars(BackoffEnds(e))
    /\ \A l \in Loop : WF_vars(Proceed(l))
    /\ SF_vars(\E l \in Loop : StartLoop(l))
    /\ WF_vars(CooldownEnds)

FairSpec == Spec /\ Fairness

-----------------------------------------------------------------------------
TypeOK ==
    /\ awake \in BOOLEAN
    /\ capture \in [Event -> CapturePC]
    /\ store \subseteq Event /\ due \subseteq Event
    /\ healthy \in BOOLEAN /\ stale \in BOOLEAN
    /\ pc \in [Loop -> LoopPC]
    /\ todo \in [Loop -> SUBSET Event]
    /\ cur \in [Loop -> Event \cup {NoItem}]
    /\ \A l \in Loop : cur[l] \in Event <=> pc[l] \in {"accepted", "refused"}
    /\ delivered \in [Event -> Nat]
    /\ faults \in 0 .. MaxFaults

\* At least once: a selection whose handler finished was accepted by the
\* daemon or waits in the buffer, through lost answers, overlapping loops that
\* delete and update the same item, aborted transactions and stopped workers.
DeliveredOrKept ==
    \A e \in Event : capture[e] = "done" => delivered[e] > 0 \/ e \in store

\* An item leaves the buffer only after the daemon accepted it.
RemovedWhenDelivered ==
    [][\A e \in store \ store' : delivered[e] > 0]_vars

\* While pages wake the worker again and again, however often it is stopped in
\* between, the buffer drains once failures stop, and stays empty, although an
\* overlapping loop's update may bring a delivered item back.
DrainsWhileUsed == []<>awake => <>[](store = {})

\* e2e/extension.spec.ts: "buffers when daemon down then drains when up".
DrainsWhenUp == <>[](store = {})
=============================================================================
