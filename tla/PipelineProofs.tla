--------------------------- MODULE PipelineProofs ---------------------------
(***************************************************************************)
(* Proofs about the extension and about the pipeline it is part of.        *)
(* BrowserBuffer keeps or delivers what was captured, for any set of       *)
(* selections and any number of overlapping retry loops.  In Pipeline each *)
(* side is what its own module says it is, and between them nothing that   *)
(* was captured vanishes.                                                  *)
(***************************************************************************)
EXTENDS Pipeline, TLAPS

-----------------------------------------------------------------------------
(* The extension.                                                           *)

\* At first no handler and no loop runs and the buffer is empty.
THEOREM InitTyped == Init => TypeOK
<1> SUFFICES ASSUME Init PROVE TypeOK
  OBVIOUS
<1>1. 0 \in 0 .. MaxFaults
  BY BrowserAssumption
<1>2. \A l \in Loop : cur[l] \in Event <=> pc[l] \in {"accepted", "refused"}
  BY BrowserAssumption DEF Init
<1> QED
  BY <1>1, <1>2 DEF Init, TypeOK, CapturePC, LoopPC

\* A fault is counted within the bound.
LEMMA FaultTyped ==
    ASSUME TypeOK, Fault \/ UNCHANGED faults
    PROVE  faults' \in 0 .. MaxFaults
BY BrowserAssumption DEF TypeOK, Fault

\* A loop that settled its item holds none and goes on or ends.
LEMMA NextItemTyped ==
    ASSUME TypeOK, NEW l \in Loop, NextItem(l), UNCHANGED todo
    PROVE  /\ pc' \in [Loop -> LoopPC]
           /\ cur' \in [Loop -> Event \cup {NoItem}]
           /\ \A k \in Loop : cur'[k] \in Event <=> pc'[k] \in {"accepted", "refused"}
BY BrowserAssumption DEF TypeOK, NextItem, Goto, LoopPC

\* A worker that was stopped leaves the buffer and the daemon as they are.
LEMMA ForgetTyped ==
    ASSUME TypeOK, Forget
    PROVE  /\ capture' \in [Event -> CapturePC]
           /\ healthy' \in BOOLEAN /\ stale' \in BOOLEAN
           /\ pc' \in [Loop -> LoopPC]
           /\ todo' \in [Loop -> SUBSET Event]
           /\ cur' \in [Loop -> Event \cup {NoItem}]
           /\ \A l \in Loop : cur'[l] \in Event <=> pc'[l] \in {"accepted", "refused"}
           /\ store' \subseteq Event /\ due' \subseteq Event
           /\ delivered' \in [Event -> Nat]
<1>1. capture' \in [Event -> CapturePC]
  BY DEF TypeOK, Forget, CapturePC
<1>2. \A l \in Loop : cur'[l] \in Event <=> pc'[l] \in {"accepted", "refused"}
  BY BrowserAssumption DEF Forget
<1> QED
  BY <1>1, <1>2 DEF TypeOK, Forget, LoopPC

\* Every await-to-await step of background.ts keeps the types; NextItem is
\* where a loop's item and its pc change together.
THEOREM NextTyped == TypeOK /\ [Next]_vars => TypeOK'
<1> SUFFICES ASSUME TypeOK, [Next]_vars PROVE TypeOK'
  OBVIOUS
<1> USE BrowserAssumption
<1>1. ASSUME NEW e \in Event, Select(e) PROVE TypeOK'
  BY <1>1 DEF TypeOK, Select, CapturePC, loops
<1>2. ASSUME NEW e \in Event, PostSelection(e) PROVE TypeOK'
  BY <1>2 DEF TypeOK, PostSelection, Answered, NotAnswered, Accepted, Fault,
              CapturePC, loops
<1>3. ASSUME NEW e \in Event, KeepSelection(e) PROVE TypeOK'
  BY <1>3 DEF TypeOK, KeepSelection, KeepIn, CapturePC, loops
<1>4. ASSUME NEW e \in Event, KeepFails(e) PROVE TypeOK'
  BY <1>4 DEF TypeOK, KeepFails, Fault, CapturePC, loops
<1>5. ASSUME NEW e \in Event, BackoffEnds(e) PROVE TypeOK'
  BY <1>5 DEF TypeOK, BackoffEnds, loops
<1>6. ASSUME NEW l \in Loop, StartLoop(l) PROVE TypeOK'
  BY <1>6 DEF TypeOK, StartLoop, Goto, LoopPC
<1>7. ASSUME NEW l \in Loop, CheckHealth(l) PROVE TypeOK'
  <2>1. faults' \in 0 .. MaxFaults
    BY <1>7, FaultTyped DEF CheckHealth
  <2>2. \/ pc' = [pc EXCEPT ![l] = "read"] /\ healthy' = TRUE
        \/ pc' = [pc EXCEPT ![l] = "idle"] /\ healthy' = FALSE
    BY <1>7 DEF CheckHealth, Goto
  <2>3. pc[l] = "health" /\ stale' = FALSE
        /\ UNCHANGED <<awake, capture, store, due, todo, cur, delivered>>
    BY <1>7 DEF CheckHealth
  <2> QED
    BY <2>1, <2>2, <2>3 DEF TypeOK, LoopPC
<1>8. ASSUME NEW l \in Loop, ReadDue(l) PROVE TypeOK'
  BY <1>8 DEF TypeOK, ReadDue, Goto, LoopPC
<1>9. ASSUME NEW l \in Loop, NEW e \in Event, PostItem(l, e) PROVE TypeOK'
  <2>1. /\ todo' = [todo EXCEPT ![l] = todo[l] \ {e}]
        /\ cur' = [cur EXCEPT ![l] = e]
        /\ UNCHANGED <<awake, capture, store, due, healthy, stale>>
    BY <1>9 DEF PostItem
  <2>2. /\ pc' = [pc EXCEPT ![l] = "accepted"] \/ pc' = [pc EXCEPT ![l] = "refused"]
        /\ UNCHANGED delivered \/ Accepted(e)
        /\ UNCHANGED faults \/ Fault
    BY <1>9 DEF PostItem, Goto, Answered, NotAnswered
  <2>3. delivered' \in [Event -> Nat] /\ faults' \in 0 .. MaxFaults
    BY <2>2, FaultTyped DEF TypeOK, Accepted
  <2>4. /\ pc' \in [Loop -> LoopPC]
        /\ \A k \in Loop : cur'[k] \in Event <=> pc'[k] \in {"accepted", "refused"}
    BY <2>1, <2>2 DEF TypeOK, LoopPC
  <2> QED
    BY <2>1, <2>3, <2>4 DEF TypeOK
<1>10. ASSUME NEW l \in Loop, DeleteItem(l) PROVE TypeOK'
  <2>1. UNCHANGED <<awake, capture, healthy, stale, todo, delivered, faults>>
        /\ store' \subseteq store /\ due' \subseteq due
    BY <1>10 DEF DeleteItem
  <2>2. NextItem(l)
    BY <1>10 DEF DeleteItem
  <2> QED
    BY <2>1, <2>2, NextItemTyped DEF TypeOK
<1>11. ASSUME NEW l \in Loop, UpdateItem(l) PROVE TypeOK'
  <2>1. cur[l] \in Event
    BY <1>11 DEF TypeOK, UpdateItem
  <2>2. UNCHANGED <<awake, capture, healthy, stale, todo, delivered, faults>>
        /\ store' \subseteq Event /\ due' \subseteq due
    BY <1>11, <2>1 DEF TypeOK, UpdateItem, KeepIn
  <2>3. NextItem(l)
    BY <1>11 DEF UpdateItem
  <2> QED
    BY <2>2, <2>3, NextItemTyped DEF TypeOK
<1>12. ASSUME NEW l \in Loop, LoopFails(l) PROVE TypeOK'
  BY <1>12 DEF TypeOK, LoopFails, Fault, Goto, LoopPC
<1>13. CASE CooldownEnds
  BY <1>13 DEF TypeOK, CooldownEnds, loops
<1>14. CASE Wake
  BY <1>14 DEF TypeOK, Wake, loops
<1>15. CASE StopIdle
  BY <1>15, ForgetTyped DEF TypeOK, StopIdle
<1>16. CASE StopWorker
  <2>1. faults' \in 0 .. MaxFaults
    BY <1>16, FaultTyped DEF StopWorker
  <2> QED
    BY <1>16, <2>1, ForgetTyped DEF TypeOK, StopWorker
<1>17. CASE UNCHANGED vars
  BY <1>17 DEF TypeOK, vars, loops
<1> QED
  BY <1>1, <1>2, <1>3, <1>4, <1>5, <1>6, <1>7, <1>8, <1>9, <1>10, <1>11,
     <1>12, <1>13, <1>14, <1>15, <1>16, <1>17 DEF Next, Handle, Proceed

\* Every variable of the extension keeps its type.
THEOREM TypeCorrect == Spec => []TypeOK
BY InitTyped, NextTyped, PTL DEF Spec

-----------------------------------------------------------------------------
(* At least once.                                                           *)

\* A loop that is about to delete an item saw the daemon accept it.
AcceptedIsDelivered ==
    \A l \in Loop : pc[l] = "accepted" => delivered[cur[l]] > 0

\* Acceptances are never taken back.
LEMMA DeliveredGrows ==
    ASSUME TypeOK, [Next]_vars, NEW e \in Event, delivered[e] > 0
    PROVE  delivered'[e] > 0
<1>1. ASSUME NEW f \in Event, Accepted(f) PROVE delivered'[e] > 0
  BY <1>1 DEF TypeOK, Accepted
<1>2. ASSUME UNCHANGED delivered PROVE delivered'[e] > 0
  BY <1>2
<1> QED
  BY <1>1, <1>2
     DEF Next, Handle, Proceed, Select, PostSelection, KeepSelection, KeepFails,
         BackoffEnds, StartLoop, CheckHealth, ReadDue, PostItem, DeleteItem,
         UpdateItem, LoopFails, CooldownEnds, Wake, StopIdle, StopWorker, Forget,
         Answered, NotAnswered, vars

\* Only a 202 brings a loop to "accepted", and delivered never decreases.
THEOREM AcceptedStep ==
    TypeOK /\ AcceptedIsDelivered /\ [Next]_vars => AcceptedIsDelivered'
<1> SUFFICES ASSUME TypeOK, AcceptedIsDelivered, [Next]_vars,
                    NEW l \in Loop, pc'[l] = "accepted"
             PROVE  delivered'[cur'[l]] > 0
  BY DEF AcceptedIsDelivered
<1>1. ASSUME pc[l] = "accepted", cur'[l] = cur[l]
      PROVE  delivered'[cur'[l]] > 0
  <2>1. cur[l] \in Event /\ delivered[cur[l]] > 0
    BY <1>1 DEF TypeOK, AcceptedIsDelivered
  <2> QED
    BY <1>1, <2>1, DeliveredGrows
<1>2. ASSUME NEW k \in Loop, NEW e \in Event, PostItem(k, e)
      PROVE  delivered'[cur'[l]] > 0
  <2>1. CASE k = l
    BY <1>2, <2>1 DEF TypeOK, PostItem, Goto, Answered, Accepted
  <2>2. CASE k # l
    BY <1>1, <1>2, <2>2 DEF TypeOK, PostItem, Goto
  <2> QED
    BY <2>1, <2>2
<1>3. ASSUME NEW k \in Loop, NextItem(k) PROVE delivered'[cur'[l]] > 0
  BY <1>1, <1>3 DEF TypeOK, NextItem, Goto
<1>4. ASSUME NEW k \in Loop, StartLoop(k) \/ CheckHealth(k) \/ ReadDue(k) \/ LoopFails(k)
      PROVE  delivered'[cur'[l]] > 0
  BY <1>1, <1>4 DEF TypeOK, StartLoop, CheckHealth, ReadDue, LoopFails, Goto
<1>5. CASE Forget
  BY <1>5 DEF Forget
<1>6. CASE UNCHANGED <<pc, cur>>
  BY <1>1, <1>6
<1> QED
  BY <1>2, <1>3, <1>4, <1>5, <1>6
     DEF Next, Handle, Proceed, Select, PostSelection, KeepSelection, KeepFails,
         BackoffEnds, DeleteItem, UpdateItem, CooldownEnds, Wake, StopIdle,
         StopWorker, vars, loops

\* An item leaves the buffer only after the daemon accepted it.
LEMMA RemovalStep ==
    ASSUME TypeOK, AcceptedIsDelivered, [Next]_vars, NEW e \in store \ store'
    PROVE  delivered[e] > 0
<1>1. ASSUME NEW l \in Loop, DeleteItem(l) PROVE delivered[e] > 0
  BY <1>1 DEF DeleteItem, Settles, AcceptedIsDelivered
<1>2. ASSUME store \subseteq store' PROVE FALSE
  BY <1>2
<1> QED
  BY <1>1, <1>2
     DEF Next, Handle, Proceed, Select, PostSelection, KeepSelection, KeepFails,
         BackoffEnds, StartLoop, CheckHealth, ReadDue, PostItem, UpdateItem,
         LoopFails, CooldownEnds, Wake, StopIdle, StopWorker, Forget, KeepIn,
         vars

\* A handler ends by a 202 or by putEvent, and only DeleteItem, after a 202,
\* takes an item out of the buffer.
THEOREM KeptStep ==
    TypeOK /\ AcceptedIsDelivered /\ DeliveredOrKept /\ [Next]_vars
    => DeliveredOrKept'
<1> SUFFICES ASSUME TypeOK, AcceptedIsDelivered, DeliveredOrKept, [Next]_vars,
                    NEW e \in Event, capture'[e] = "done"
             PROVE  delivered'[e] > 0 \/ e \in store'
  BY DEF DeliveredOrKept
<1>1. CASE capture[e] = "done"
  <2>1. CASE delivered[e] > 0
    BY <2>1, DeliveredGrows
  <2>2. CASE e \in store /\ e \notin store'
    BY <2>2, RemovalStep, DeliveredGrows
  <2> QED
    BY <1>1, <2>1, <2>2 DEF DeliveredOrKept
<1>2. CASE capture[e] # "done"
  <2>1. ASSUME NEW f \in Event, PostSelection(f) PROVE delivered'[e] > 0
    BY <1>2, <2>1 DEF TypeOK, PostSelection, Answered, Accepted
  <2>2. ASSUME NEW f \in Event, KeepSelection(f) PROVE e \in store'
    BY <1>2, <2>2 DEF TypeOK, KeepSelection, KeepIn
  <2>3. ASSUME NEW f \in Event, Select(f) \/ KeepFails(f) PROVE FALSE
    BY <1>2, <2>3 DEF TypeOK, Select, KeepFails
  <2>4. CASE Forget
    BY <1>2, <2>4 DEF Forget
  <2>5. CASE UNCHANGED capture
    BY <1>2, <2>5
  <2> QED
    BY <2>1, <2>2, <2>3, <2>4, <2>5
       DEF Next, Handle, Proceed, BackoffEnds, StartLoop, CheckHealth, ReadDue,
           PostItem, DeleteItem, UpdateItem, LoopFails, CooldownEnds, Wake,
           StopIdle, StopWorker, vars
<1> QED
  BY <1>1, <1>2

\* A selection whose handler finished was accepted by the daemon or is kept,
\* whatever loops overlap, answers are lost or workers are stopped.
THEOREM AtLeastOnce == Spec => []DeliveredOrKept
<1>1. Init => AcceptedIsDelivered /\ DeliveredOrKept
  BY DEF Init, AcceptedIsDelivered, DeliveredOrKept
<1> QED
  BY <1>1, AcceptedStep, KeptStep, TypeCorrect, PTL DEF Spec

\* Items are removed from the buffer only after the daemon accepted them.
THEOREM RemovalsAreDelivered == Spec => RemovedWhenDelivered
<1>1. Init => AcceptedIsDelivered
  BY DEF Init, AcceptedIsDelivered
<1>2. TypeOK /\ AcceptedIsDelivered /\ [Next]_vars
      => [\A e \in store \ store' : delivered[e] > 0]_vars
  BY RemovalStep
<1> QED
  BY <1>1, <1>2, AcceptedStep, TypeCorrect, PTL DEF Spec, RemovedWhenDelivered

-----------------------------------------------------------------------------
(* The pipeline.                                                            *)

\* Each step of the pipeline is one of the extension, or leaves it alone.
LEMMA StepOfExtension == [PipelineNext]_pipeline_vars => [Next]_vars
BY DEF PipelineNext, Exchange, Store, Purge, DaemonFails, pipeline_vars

\* Posting to this daemon, the extension does nothing that BrowserBuffer does
\* not let it do, so its theorems hold here.
THEOREM ImplementsExtension == PipelineSpec => Spec
<1>1. PipelineInit => Init
  BY DEF PipelineInit
<1> QED
  BY <1>1, StepOfExtension, PTL DEF PipelineSpec, Spec

\* Each step of the pipeline is one of the daemon's timeline, or leaves it
\* alone.
LEMMA StepOfDaemon ==
    [PipelineNext]_pipeline_vars => [Service!Next]_(Service!tvars)
BY DEF PipelineNext, Exchange, Receive, Store, Purge, DaemonFails,
       Service!Next, Service!tvars, pipeline_vars, daemon_vars

\* The daemon serves this client as Timeline promises.
THEOREM ImplementsTimeline == PipelineSpec => Service!Spec
<1>1. PipelineInit => Service!Init
  BY DEF PipelineInit
<1> QED
  BY <1>1, StepOfDaemon, PTL DEF PipelineSpec, Service!Spec

-----------------------------------------------------------------------------
(* Accepted envelopes.                                                      *)

\* What the daemon accepted waits in it or is stored, or was destroyed or
\* purged after it was last accepted.
AcceptedAccounted ==
    /\ inbox \in Seq(Event)
    /\ \A e \in Event : delivered[e] > 0 => e \in Waiting \cup stored \cup gone

\* An accepted envelope waits, with those that waited before.
LEMMA ReceiveWaits ==
    ASSUME inbox \in Seq(Event), NEW e \in Event, Receive(e)
    PROVE  inbox' \in Seq(Event) /\ Waiting' = Waiting \cup {e}
<1>1. inbox' = Append(inbox, e)
  BY DEF Receive, Service!Accept
<1>2. /\ inbox' \in Seq(Event)
      /\ Len(inbox') = Len(inbox) + 1 /\ Len(inbox) \in Nat
      /\ inbox'[Len(inbox) + 1] = e
      /\ \A k \in 1 .. Len(inbox) : inbox'[k] = inbox[k]
      /\ DOMAIN inbox = 1 .. Len(inbox) /\ DOMAIN inbox' = 1 .. Len(inbox')
  BY <1>1
<1> QED
  BY <1>2 DEF Waiting

\* Only the oldest envelope leaves with a step of the worker.
LEMMA TailWaits ==
    ASSUME inbox \in Seq(Event), inbox # <<>>, inbox' = Tail(inbox)
    PROVE  /\ inbox' \in Seq(Event)
           /\ Waiting \subseteq Waiting' \cup {Head(inbox)}
<1>1. /\ inbox' \in Seq(Event)
      /\ Len(inbox') = Len(inbox) - 1 /\ Len(inbox) \in Nat
      /\ \A k \in 1 .. Len(inbox') : inbox'[k] = inbox[k + 1]
      /\ DOMAIN inbox = 1 .. Len(inbox) /\ DOMAIN inbox' = 1 .. Len(inbox')
  OBVIOUS
<1>2. ASSUME NEW k \in DOMAIN inbox, k # 1 PROVE inbox[k] \in Waiting'
  <2>1. k - 1 \in DOMAIN inbox' /\ inbox'[k - 1] = inbox[k]
    BY <1>1, <1>2
  <2> QED
    BY <2>1 DEF Waiting
<1> QED
  BY <1>1, <1>2 DEF Waiting

\* Every step of either side.
LEMMA AccountedStep ==
    ASSUME TypeOK, AcceptedAccounted, [PipelineNext]_pipeline_vars
    PROVE  AcceptedAccounted'
<1> USE DEF AcceptedAccounted
<1>1. ASSUME NEW e \in Event, Accepted(e), Receive(e)
      PROVE  AcceptedAccounted'
  <2>1. inbox' \in Seq(Event) /\ Waiting' = Waiting \cup {e}
    BY <1>1, ReceiveWaits
  <2>2. stored' = stored /\ gone' = gone \ {e}
    BY <1>1 DEF Receive, Service!Accept
  <2>3. \A f \in Event : f # e => delivered'[f] = delivered[f]
    BY <1>1 DEF Accepted, TypeOK
  <2> QED
    BY <2>1, <2>2, <2>3
<1>2. CASE UNCHANGED <<delivered, daemon_vars>>
  BY <1>2 DEF daemon_vars, Waiting
<1>3. CASE Store
  <2>1. /\ inbox # <<>> /\ inbox' = Tail(inbox)
        /\ stored' = stored \cup {Head(inbox)}
        /\ UNCHANGED <<delivered, gone>>
    BY <1>3 DEF Store, Service!Store, vars
  <2>2. /\ inbox' \in Seq(Event)
        /\ Waiting \subseteq Waiting' \cup {Head(inbox)}
    BY <2>1, TailWaits
  <2> QED
    BY <2>1, <2>2
<1>4. CASE Purge
  BY <1>4 DEF Purge, Service!Purge, vars, Waiting
<1>5. CASE DaemonFails
  <2>1. gone' = gone \cup (Waiting \ Waiting') /\ UNCHANGED <<stored, delivered>>
    BY <1>5 DEF DaemonFails, Service!Fault, vars
  <2>2. inbox' \in Seq(Event)
    <3>1. \/ inbox' = inbox
          \/ inbox' = <<>>
          \/ inbox # <<>> /\ inbox' = Tail(inbox)
      BY <1>5 DEF DaemonFails, Service!Fault
    <3>2. <<>> \in Seq(Event) /\ inbox \in Seq(Event)
      OBVIOUS
    <3>3. CASE inbox # <<>> /\ inbox' = Tail(inbox)
      BY <3>2, <3>3, TailWaits
    <3> QED
      BY <3>1, <3>2, <3>3
  <2> QED
    BY <2>1, <2>2
<1>6. CASE UNCHANGED pipeline_vars
  BY <1>2, <1>6 DEF pipeline_vars, vars
<1> QED
  BY <1>1, <1>2, <1>3, <1>4, <1>5, <1>6 DEF PipelineNext, Exchange

\* What the daemon accepted is accounted for, through any purges and faults.
THEOREM AcceptedIsAccounted == PipelineSpec => []AcceptedAccounted
<1>1. PipelineInit => AcceptedAccounted
  BY DEF PipelineInit, Init, Service!Init, AcceptedAccounted
<1> QED
  BY <1>1, AccountedStep, ImplementsExtension, TypeCorrect, PTL DEF PipelineSpec

\* What was captured is in the buffer, waits, is stored, or was destroyed or
\* purged: at least once on one side, accounted for on the other.
THEOREM NothingEverVanishes == PipelineSpec => []NothingVanishes
<1>1. DeliveredOrKept /\ AcceptedAccounted => NothingVanishes
  BY DEF DeliveredOrKept, AcceptedAccounted, NothingVanishes
<1> QED
  BY <1>1, AtLeastOnce, ImplementsExtension, AcceptedIsAccounted, PTL
=============================================================================
