---------------------------- MODULE VSCodeProofs ----------------------------
(***************************************************************************)
(* Proofs about VSCodeBuffer: its types for any number of windows, and for *)
(* one window that rewriting buffer.json is a transaction, as long as no   *)
(* rewrite breaks off midway.                                              *)
(***************************************************************************)
EXTENDS VSCodeBuffer, TLAPS

\* A loop holds an item exactly while it settles it.
HoldsItem ==
    \A l \in Loop : cur[l] \in Event <=> pc[l] \in {"accepted", "refused"}

TypeInv == TypeOK /\ HoldsItem

\* At first nothing runs and the file does not exist.
LEMMA InitTyped == Init => TypeInv
<1> SUFFICES ASSUME Init PROVE TypeInv
  OBVIOUS
<1>1. 0 \in 0 .. MaxFaults /\ 0 \in 0 .. MaxBreaks /\ NoItem \notin Event
  BY VSCodeAssumption
<1>2. HoldsItem
  BY <1>1 DEF Init, HoldsItem
<1> QED
  BY <1>1, <1>2
     DEF Init, TypeInv, TypeOK, Tx!CapturePC, Tx!LoopPC, Free

\* A failed request is counted within its bound.
LEMMA FaultTyped ==
    ASSUME TypeOK, Fault \/ UNCHANGED faults
    PROVE  faults' \in 0 .. MaxFaults
BY VSCodeAssumption DEF TypeOK, Fault

\* A post leaves the number of acceptances a number.
LEMMA PostTyped ==
    ASSUME TypeOK, NEW e \in Event, Answered(e) \/ NotAnswered(e)
    PROVE  delivered' \in [Event -> Nat] /\ faults' \in 0 .. MaxFaults
<1>1. (UNCHANGED delivered \/ Accepted(e)) /\ (Fault \/ UNCHANGED faults)
  BY DEF Answered, NotAnswered
<1> QED
  BY <1>1, FaultTyped DEF TypeOK, Accepted

\* Ending some tasks keeps the types of what is left.
LEMMA AbandonTyped ==
    ASSUME TypeInv, NEW T, Abandon(T)
    PROVE  /\ capture' \in [Event -> Tx!CapturePC]
           /\ pc' \in [Loop -> Tx!LoopPC]
           /\ todo' \in [Loop -> SUBSET Event]
           /\ cur' \in [Loop -> Event \cup {NoItem}]
           /\ HoldsItem'
BY VSCodeAssumption
   DEF TypeInv, TypeOK, HoldsItem, Abandon, Tx!CapturePC, Tx!LoopPC

\* A broken operation is counted, leaves the window's thread free and the file
\* with no more items than before.
LEMMA BreakTyped ==
    ASSUME TypeInv, NEW w \in Window, Break, BreakOff(w), EndOperation(w)
    PROVE  /\ items' \subseteq Event
           /\ writer' \in [Window -> Event \cup Loop \cup {NoItem}]
           /\ truncated' \subseteq {v \in Window : writer'[v] # NoItem}
           /\ next' \in [Window -> SUBSET Event]
           /\ breaks' \in 0 .. MaxBreaks
<1>1. breaks' \in 0 .. MaxBreaks
  BY VSCodeAssumption DEF TypeInv, TypeOK, Break
<1> QED
  BY <1>1 DEF TypeInv, TypeOK, BreakOff, EndOperation, Free

\* A task that ends its operation is done or goes on with what it read.
LEMMA ContinueTyped ==
    ASSUME TypeInv, NEW t \in Event \cup Loop, Continue(t)
    PROVE  /\ capture' \in [Event -> Tx!CapturePC]
           /\ pc' \in [Loop -> Tx!LoopPC]
           /\ todo' \in [Loop -> SUBSET Event]
           /\ cur' \in [Loop -> Event \cup {NoItem}]
           /\ HoldsItem'
<1>1. CASE t \in Event
  BY <1>1 DEF TypeInv, TypeOK, HoldsItem, Continue, loops, Tx!CapturePC
<1>2. CASE t \notin Event
  BY <1>2, VSCodeAssumption
     DEF TypeInv, TypeOK, HoldsItem, Continue, Goto, Tx!LoopPC
<1> QED
  BY <1>1, <1>2

\* Every step of every window keeps the types.
LEMMA NextTyped == TypeInv /\ [Next]_vars => TypeInv'
<1> SUFFICES ASSUME TypeInv, [Next]_vars PROVE TypeInv'
  OBVIOUS
<1> USE VSCodeAssumption
<1>1. ASSUME NEW e \in Event, Capture(e) PROVE TypeInv'
  BY <1>1 DEF TypeInv, TypeOK, HoldsItem, Capture, Free, Tx!CapturePC, loops, file
<1>2. ASSUME NEW e \in Event, Post(e) PROVE TypeInv'
  <2>1. delivered' \in [Event -> Nat] /\ faults' \in 0 .. MaxFaults
    BY <1>2, PostTyped DEF Post, TypeInv
  <2>2. capture' \in [Event -> Tx!CapturePC]
    BY <1>2 DEF TypeInv, TypeOK, Post, Tx!CapturePC
  <2>3. UNCHANGED <<due, healthy, stale, loops, file, breaks>>
    BY <1>2 DEF Post
  <2> QED
    BY <2>1, <2>2, <2>3 DEF TypeInv, TypeOK, HoldsItem, Free, loops, file
<1>3. ASSUME NEW e \in Event, BackoffEnds(e) PROVE TypeInv'
  BY <1>3 DEF TypeInv, TypeOK, HoldsItem, BackoffEnds, Free, loops, file
<1>4. ASSUME NEW l \in Loop, StartLoop(l) PROVE TypeInv'
  <2>1. /\ pc' = [pc EXCEPT ![l] = "health"] \/ pc' = [pc EXCEPT ![l] = "read"]
        /\ pc[l] = "idle"
        /\ UNCHANGED <<capture, due, healthy, stale, todo, cur, file,
                       delivered, faults, breaks>>
    BY <1>4 DEF StartLoop, Goto
  <2>2. pc' \in [Loop -> Tx!LoopPC] /\ HoldsItem'
    BY <2>1 DEF TypeInv, TypeOK, HoldsItem, Tx!LoopPC
  <2> QED
    BY <2>1, <2>2 DEF TypeInv, TypeOK, Free, file
<1>5. ASSUME NEW l \in Loop, CheckHealth(l) PROVE TypeInv'
  <2>1. faults' \in 0 .. MaxFaults
    BY <1>5, FaultTyped DEF CheckHealth, TypeInv
  <2>2. \/ pc' = [pc EXCEPT ![l] = "read"]
        \/ pc' = [pc EXCEPT ![l] = "idle"]
    BY <1>5 DEF CheckHealth, Goto
  <2>3. /\ pc[l] = "health"
        /\ UNCHANGED <<capture, due, todo, cur, file, delivered, breaks>>
    BY <1>5 DEF CheckHealth
  <2>4. healthy' \subseteq Window /\ stale' \subseteq Window
    BY <1>5 DEF CheckHealth, TypeInv, TypeOK
  <2>5. pc' \in [Loop -> Tx!LoopPC] /\ HoldsItem'
    BY <2>2, <2>3 DEF TypeInv, TypeOK, HoldsItem, Tx!LoopPC
  <2> QED
    BY <2>1, <2>3, <2>4, <2>5 DEF TypeInv, TypeOK, Free, file
<1>6. ASSUME NEW l \in Loop, ReadDue(l) PROVE TypeInv'
  <2>1. ReadAll \cap due \subseteq Event
    BY DEF TypeInv, TypeOK
  <2> QED
    BY <1>6, <2>1
       DEF TypeInv, TypeOK, HoldsItem, ReadDue, Goto, Free, Tx!LoopPC, file
<1>7. ASSUME NEW l \in Loop, NEW e \in Event, PostItem(l, e) PROVE TypeInv'
  <2>1. delivered' \in [Event -> Nat] /\ faults' \in 0 .. MaxFaults
    BY <1>7, PostTyped DEF PostItem, TypeInv
  <2>2. /\ todo' = [todo EXCEPT ![l] = todo[l] \ {e}]
        /\ cur' = [cur EXCEPT ![l] = e]
        /\ UNCHANGED <<capture, due, healthy, stale, file, breaks>>
    BY <1>7 DEF PostItem
  <2>3. \/ pc' = [pc EXCEPT ![l] = "accepted"]
        \/ pc' = [pc EXCEPT ![l] = "refused"]
    BY <1>7 DEF PostItem, Goto
  <2> QED
    BY <2>1, <2>2, <2>3 DEF TypeInv, TypeOK, HoldsItem, Free, Tx!LoopPC, file
<1>8. ASSUME NEW t \in Event \cup Loop, ReadFile(t) PROVE TypeInv'
  <2>1. WindowOf[t] \in Window /\ t # NoItem
    OBVIOUS
  <2>2. Changed(t) \subseteq Event
    <3>1. Deletes(t) => Changed(t) \subseteq items
      BY DEF Changed, ReadAll
    <3>2. ItemOf(t) \in Event
      BY <1>8 DEF ReadFile, Ready, ItemOf, TypeInv, HoldsItem
    <3> QED
      BY <3>1, <3>2 DEF Changed, ReadAll, TypeInv, TypeOK
  <2>3. /\ writer' = [writer EXCEPT ![WindowOf[t]] = t]
        /\ next' = [next EXCEPT ![WindowOf[t]] = Changed(t)]
        /\ UNCHANGED <<capture, due, healthy, stale, loops, items, torn,
                       truncated, delivered, faults, breaks>>
    BY <1>8 DEF ReadFile
  <2> QED
    BY <2>1, <2>2, <2>3 DEF TypeInv, TypeOK, HoldsItem, Free, loops
<1>9. ASSUME NEW w \in Window, TruncateFile(w) PROVE TypeInv'
  BY <1>9 DEF TypeInv, TypeOK, HoldsItem, TruncateFile, Free, loops
<1>10. ASSUME NEW w \in Window, WriteFile(w) PROVE TypeInv'
  <2>1. writer[w] \in Event \cup Loop
    BY <1>10 DEF WriteFile, TypeInv, TypeOK, Free
  <2>2. /\ Continue(writer[w])
        /\ EndOperation(w)
        /\ torn' \in {FALSE, ~torn}
        /\ items' = IF torn' THEN {} ELSE next[w]
        /\ due' = due \ {ItemOf(writer[w])}
        /\ UNCHANGED <<healthy, stale, delivered, faults, breaks>>
    BY <1>10 DEF WriteFile
  <2>3. /\ items' \subseteq Event
        /\ due' \subseteq Event
        /\ torn' \in BOOLEAN
    BY <2>2 DEF TypeInv, TypeOK
  <2>4. /\ writer' \in [Window -> Event \cup Loop \cup {NoItem}]
        /\ truncated' \subseteq {v \in Window : writer'[v] # NoItem}
        /\ next' \in [Window -> SUBSET Event]
    BY <2>2 DEF TypeInv, TypeOK, EndOperation, Free
  <2> QED
    BY <2>1, <2>2, <2>3, <2>4, ContinueTyped DEF TypeInv, TypeOK, Free
<1>11. ASSUME NEW w \in Window, WriteFails(w) \/ CloseWindow(w) PROVE TypeInv'
  <2>1. PICK T : Abandon(T)
    BY <1>11 DEF WriteFails, CloseWindow
  <2>2. Break /\ BreakOff(w) /\ EndOperation(w)
        /\ UNCHANGED <<due, torn, delivered, faults>>
    BY <1>11 DEF WriteFails, CloseWindow
  <2>3. healthy' \subseteq Window /\ stale' \subseteq Window
    BY <1>11 DEF WriteFails, CloseWindow, TypeInv, TypeOK
  <2> QED
    BY <2>1, <2>2, <2>3, AbandonTyped, BreakTyped DEF TypeInv, TypeOK, Free
<1>12. ASSUME NEW w \in Window, CooldownEnds(w) PROVE TypeInv'
  BY <1>12 DEF TypeInv, TypeOK, HoldsItem, CooldownEnds, Free, loops, file
<1>13. CASE UNCHANGED vars
  BY <1>13 DEF TypeInv, TypeOK, HoldsItem, Free, vars, loops, file
<1> QED
  BY <1>1, <1>2, <1>3, <1>4, <1>5, <1>6, <1>7, <1>8, <1>9, <1>10, <1>11,
     <1>12, <1>13 DEF Next, Handle, Retry, Operate

\* Types and items at hand, for any windows, loops and bounds.
LEMMA AllTyped == Spec => []TypeInv
BY InitTyped, NextTyped, PTL DEF Spec

\* Every variable of the connector keeps its type.
THEOREM TypeCorrect == Spec => []TypeOK
<1>1. TypeInv => TypeOK
  BY DEF TypeInv
<1> QED
  BY <1>1, AllTyped, PTL

-----------------------------------------------------------------------------
(* One window.                                                              *)

\* What w is about to write is what the file held when its task read it, with
\* the task's change; a file that does not parse counts as empty.
OperationInv(w) ==
    /\ w \in truncated => torn
    /\ torn /\ w \notin truncated => items = {}
    /\ writer[w] # NoItem =>
          /\ Ready(writer[w])
          /\ next[w] = IF Deletes(writer[w]) THEN items \ {ItemOf(writer[w])}
                       ELSE items \cup {ItemOf(writer[w])}

\* While the only window's thread is busy with the file, nothing else changes
\* what its operation read.
LEMMA OperationStep ==
    ASSUME NEW w, Window = {w}, TypeInv, OperationInv(w), [Next]_vars
    PROVE  OperationInv(w)'
<1> USE VSCodeAssumption
<1>1. /\ \A t \in Event \cup Loop : WindowOf[t] = w /\ t # NoItem
      /\ w \in Window
      /\ truncated \subseteq {w}
      /\ w \in truncated => writer[w] # NoItem
  BY DEF TypeInv, TypeOK, Free
<1>2. ASSUME Free(w), UNCHANGED file PROVE OperationInv(w)'
  BY <1>2 DEF OperationInv, Free, file
<1>3. ASSUME UNCHANGED <<capture, pc, cur, file>> PROVE OperationInv(w)'
  BY <1>3 DEF OperationInv, Ready, Deletes, ItemOf, file
<1>4. ASSUME NEW t \in Event \cup Loop, ReadFile(t) PROVE OperationInv(w)'
  <2>1. Free(w) /\ w \notin truncated /\ ReadAll = items
    BY <1>1, <1>4 DEF ReadFile, Free, ReadAll, OperationInv
  <2>2. /\ writer'[w] = t /\ next'[w] = Changed(t)
        /\ Ready(t)
        /\ UNCHANGED <<capture, pc, cur, items, torn, truncated>>
    BY <1>1, <1>4 DEF ReadFile, TypeInv, TypeOK, loops
  <2> QED
    BY <2>1, <2>2 DEF OperationInv, Changed, Ready, Deletes, ItemOf
<1>5. CASE TruncateFile(w)
  BY <1>5 DEF TruncateFile, OperationInv, Ready, Deletes, ItemOf, loops
<1>6. ASSUME EndOperation(w), torn' => items' = {} PROVE OperationInv(w)'
  BY <1>1, <1>6 DEF EndOperation, OperationInv, TypeInv, TypeOK
<1>7. CASE WriteFile(w)
  BY <1>6, <1>7 DEF WriteFile
<1>8. CASE WriteFails(w) \/ CloseWindow(w)
  <2>1. torn' = torn /\ BreakOff(w) /\ EndOperation(w)
    BY <1>8 DEF WriteFails, CloseWindow
  <2> QED
    BY <1>6, <2>1 DEF BreakOff, OperationInv
<1>9. ASSUME NEW e \in Event, Capture(e) \/ Post(e) PROVE OperationInv(w)'
  BY <1>1, <1>2, <1>9 DEF Capture, Post
<1>10. ASSUME NEW l \in Loop,
              \/ StartLoop(l) \/ CheckHealth(l) \/ ReadDue(l)
              \/ \E e \in Event : PostItem(l, e)
       PROVE  OperationInv(w)'
  BY <1>1, <1>2, <1>10 DEF StartLoop, CheckHealth, ReadDue, PostItem
<1>11. ASSUME NEW e \in Event, BackoffEnds(e) PROVE OperationInv(w)'
  BY <1>3, <1>11 DEF BackoffEnds, loops
<1>12. CASE CooldownEnds(w)
  BY <1>3, <1>12 DEF CooldownEnds, loops
<1>13. CASE UNCHANGED vars
  BY <1>3, <1>13 DEF vars, loops
<1> QED
  BY <1>4, <1>5, <1>7, <1>8, <1>9, <1>10, <1>11, <1>12, <1>13
     DEF Next, Handle, Retry, Operate

\* The conditions and effects that both connectors share.
LEMMA OneWindow ==
    ASSUME NEW w, Window = {w}, TypeInv, OperationInv(w)
    PROVE  /\ \A t \in Event \cup Loop : WindowOf[t] = w /\ t # NoItem
           /\ w \in stale <=> stale # {}
           /\ w \in healthy <=> healthy # {}
           /\ truncated \subseteq {w}
           /\ w \in truncated <=> truncated # {}
           /\ Free(w) => ReadAll = items
           /\ w \in truncated => torn /\ ~Free(w)
BY VSCodeAssumption DEF TypeInv, TypeOK, OperationInv, Free, ReadAll

\* A failed request is a fault of either connector, and so is a break.
LEMMA FaultsAdd ==
    ASSUME TypeInv
    PROVE  /\ Fault /\ UNCHANGED breaks =>
                /\ faults + breaks < MaxFaults + MaxBreaks
                /\ (faults + breaks)' = faults + breaks + 1
           /\ Break /\ UNCHANGED faults =>
                /\ faults + breaks < MaxFaults + MaxBreaks
                /\ (faults + breaks)' = faults + breaks + 1
BY VSCodeAssumption DEF TypeInv, TypeOK, Fault, Break

\* Posts are the same in both connectors.
LEMMA SamePosts ==
    ASSUME TypeInv, NEW e \in Event, UNCHANGED breaks
    PROVE  /\ Answered(e) => Tx!Answered(e)
           /\ NotAnswered(e) => Tx!NotAnswered(e)
BY FaultsAdd DEF Answered, NotAnswered, Accepted, Tx!Answered, Tx!NotAnswered,
                 Tx!Accepted, Tx!Fault

\* Handlers of captures.
LEMMA CaptureRefines ==
    ASSUME NEW w, Window = {w}, TypeInv, OperationInv(w), NEW e \in Event
    PROVE  /\ Capture(e) => Tx!Select(e)
           /\ Post(e) => Tx!PostSelection(e)
           /\ BackoffEnds(e) => Tx!BackoffEnds(e)
<1>1. Capture(e) => Tx!Select(e)
  BY DEF Capture, Tx!Select, Tx!loops, loops, file
<1>2. Post(e) => Tx!PostSelection(e)
  BY SamePosts DEF Post, Tx!PostSelection, Tx!loops, loops, file
<1>3. BackoffEnds(e) => Tx!BackoffEnds(e)
  BY DEF BackoffEnds, Tx!BackoffEnds, Tx!loops, loops, file
<1> QED
  BY <1>1, <1>2, <1>3

\* Steps of a loop up to its post.
LEMMA LoopRefines ==
    ASSUME NEW w, Window = {w}, TypeInv, OperationInv(w), NEW l \in Loop
    PROVE  /\ StartLoop(l) => Tx!StartLoop(l)
           /\ CheckHealth(l) => Tx!CheckHealth(l)
           /\ ReadDue(l) => Tx!ReadDue(l)
           /\ \A e \in Event : PostItem(l, e) => Tx!PostItem(l, e)
<1>1. StartLoop(l) => Tx!StartLoop(l)
  BY OneWindow DEF StartLoop, NeedsCheck, Goto, Tx!StartLoop, Tx!NeedsCheck,
                   Tx!Goto, file
<1>2. ASSUME CheckHealth(l) PROVE Tx!CheckHealth(l)
  <2>1. stale' = {} /\ WindowOf[l] = w
    BY <1>2, OneWindow DEF CheckHealth, TypeInv, TypeOK
  <2>2. \/ /\ healthy' # {} /\ Tx!Goto(l, "read") /\ UNCHANGED (faults + breaks)
        \/ /\ healthy' = {} /\ Tx!Goto(l, "idle") /\ Tx!Fault
    BY <1>2, <2>1, FaultsAdd
       DEF CheckHealth, Goto, TypeInv, TypeOK, Tx!Goto, Tx!Fault
  <2>3. pc[l] = "health" /\ UNCHANGED <<capture, items, due, todo, cur, delivered>>
    BY <1>2 DEF CheckHealth, file
  <2> QED
    BY <2>1, <2>2, <2>3 DEF Tx!CheckHealth
<1>3. ReadDue(l) => Tx!ReadDue(l)
  BY OneWindow DEF ReadDue, Goto, Tx!ReadDue, Tx!Goto, file
<1>4. ASSUME NEW e \in Event, PostItem(l, e) PROVE Tx!PostItem(l, e)
  BY <1>4, SamePosts DEF PostItem, Goto, Tx!PostItem, Tx!Goto, file
<1> QED
  BY <1>1, <1>2, <1>3, <1>4

\* The end of a rewrite is the transaction's commit.
LEMMA WriteRefines ==
    ASSUME NEW w, Window = {w}, TypeInv, OperationInv(w), WriteFile(w)
    PROVE  \/ \E e \in Event : Tx!KeepSelection(e)
           \/ \E l \in Loop : Tx!DeleteItem(l) \/ Tx!UpdateItem(l)
<1> DEFINE t == writer[w]
<1>1. t \in Event \cup Loop /\ Ready(t)
  BY DEF WriteFile, TypeInv, TypeOK, OperationInv, Free
<1>2. /\ items' = IF Deletes(t) THEN items \ {ItemOf(t)}
                  ELSE items \cup {ItemOf(t)}
      /\ due' = due \ {ItemOf(t)}
      /\ Continue(t)
      /\ UNCHANGED <<healthy, stale, delivered, faults, breaks>>
  <2>1. torn
    BY DEF WriteFile, OperationInv
  <2>2. torn' = FALSE
    BY <2>1 DEF WriteFile
  <2>3. next[w] = IF Deletes(t) THEN items \ {ItemOf(t)}
                  ELSE items \cup {ItemOf(t)}
    BY <1>1, VSCodeAssumption DEF OperationInv
  <2> QED
    BY <2>2, <2>3 DEF WriteFile
<1> HIDE DEF t
<1>3. CASE t \in Event
  <2>1. ~Deletes(t) /\ ItemOf(t) = t /\ capture[t] = "failed"
    BY <1>1, <1>3, VSCodeAssumption DEF Deletes, ItemOf, Ready
  <2>2. capture' = [capture EXCEPT ![t] = "done"] /\ UNCHANGED loops
    BY <1>2, <1>3 DEF Continue
  <2>3. Tx!KeepSelection(t)
    BY <1>2, <2>1, <2>2 DEF Tx!KeepSelection, Tx!KeepIn, Tx!loops, loops
  <2> QED
    BY <1>3, <2>3
<1>4. CASE t \notin Event
  <2>1. t \in Loop /\ ItemOf(t) = cur[t] /\ pc[t] \in {"accepted", "refused"}
    BY <1>1, <1>4 DEF ItemOf, Ready
  <2>2. Tx!NextItem(t) /\ UNCHANGED <<capture, todo>>
    BY <1>2, <1>4 DEF Continue, Goto, Tx!NextItem, Tx!Goto
  <2>3. CASE pc[t] = "accepted"
    <3>1. Deletes(t)
      BY <2>1, <2>3 DEF Deletes
    <3> QED
      BY <1>2, <2>1, <2>2, <2>3, <3>1 DEF Tx!DeleteItem, Tx!Settles
  <2>4. CASE pc[t] = "refused"
    <3>1. ~Deletes(t)
      BY <2>4 DEF Deletes
    <3> QED
      BY <1>2, <2>1, <2>2, <2>4, <3>1 DEF Tx!UpdateItem, Tx!KeepIn
  <2> QED
    BY <2>1, <2>3, <2>4
<1> QED
  BY <1>3, <1>4

\* An operation that fails before it truncates the file is an aborted
\* transaction.
LEMMA FailureRefines ==
    ASSUME NEW w, Window = {w}, TypeInv, OperationInv(w), WriteFails(w),
           truncated = {}
    PROVE  \/ \E e \in Event : Tx!KeepFails(e)
           \/ \E l \in Loop : Tx!LoopFails(l)
<1> DEFINE t == writer[w]
<1>1. t \in Event \cup Loop /\ Ready(t)
  BY DEF WriteFails, TypeInv, TypeOK, OperationInv, Free
<1>2. /\ Abandon({t})
      /\ UNCHANGED <<items, due, healthy, stale, delivered>>
      /\ Tx!Fault
  BY FaultsAdd DEF WriteFails, BreakOff, Tx!Fault
<1> HIDE DEF t
<1>3. CASE t \in Event
  <2>1. t \notin Loop /\ capture[t] = "failed"
    BY <1>1, <1>3, VSCodeAssumption DEF Ready
  <2>2. capture' = [capture EXCEPT ![t] = "lost"]
    BY <1>2, <1>3, <2>1 DEF Abandon, TypeInv, TypeOK
  <2>3. UNCHANGED <<pc, todo, cur>>
    BY <1>2, <2>1 DEF Abandon, TypeInv, TypeOK
  <2>4. Tx!KeepFails(t)
    BY <1>2, <2>1, <2>2, <2>3 DEF Tx!KeepFails, Tx!loops
  <2> QED
    BY <1>3, <2>4
<1>4. CASE t \notin Event
  <2>1. t \in Loop /\ pc[t] \in {"accepted", "refused"}
    BY <1>1, <1>4 DEF Ready
  <2>2. UNCHANGED capture
    BY <1>2, <1>4 DEF Abandon, TypeInv, TypeOK
  <2>3. /\ pc' = [pc EXCEPT ![t] = "idle"]
        /\ todo' = [todo EXCEPT ![t] = {}]
        /\ cur' = [cur EXCEPT ![t] = NoItem]
    BY <1>2, <2>1 DEF Abandon, TypeInv, TypeOK
  <2>4. Tx!LoopFails(t)
    BY <1>2, <2>1, <2>2, <2>3 DEF Tx!LoopFails, Tx!Goto
  <2> QED
    BY <2>1, <2>4
<1> QED
  BY <1>3, <1>4

\* Closing the window between rewrites is the browser stopping its worker.
LEMMA CloseRefines ==
    ASSUME NEW w, Window = {w}, TypeInv, OperationInv(w), CloseWindow(w),
           truncated = {}
    PROVE  Tx!StopWorker
<1>1. {t \in Event \cup Loop : WindowOf[t] = w} = Event \cup Loop
  BY OneWindow
<1>2. /\ Abandon(Event \cup Loop)
      /\ UNCHANGED <<items, due, delivered>>
      /\ Tx!Fault
  BY <1>1, FaultsAdd DEF CloseWindow, BreakOff, Tx!Fault
<1>3. healthy' = {} /\ stale' # {}
  BY DEF CloseWindow, TypeInv, TypeOK
<1>4. /\ capture' = [e \in Event |-> IF capture[e] \in {"posting", "failed"}
                                    THEN "lost" ELSE capture[e]]
      /\ pc' = [l \in Loop |-> "idle"]
      /\ todo' = [l \in Loop |-> {}]
      /\ cur' = [l \in Loop |-> NoItem]
  BY <1>2 DEF Abandon
<1> QED
  BY <1>2, <1>3, <1>4 DEF Tx!StopWorker, Tx!Forget

\* Every step of the window is one of BrowserBuffer's, or none, or a rewrite
\* broken off midway.
LEMMA StepRefines ==
    ASSUME NEW w, Window = {w}, TypeInv, OperationInv(w), [Next]_vars
    PROVE  [Tx!Next \/ Tears]_(Tx!vars)
<1>1. ASSUME NEW e \in Event, Capture(e) \/ Post(e) \/ BackoffEnds(e)
      PROVE  Tx!Next
  BY <1>1, CaptureRefines DEF Tx!Next, Tx!Handle
<1>2. ASSUME NEW l \in Loop,
             \/ StartLoop(l) \/ CheckHealth(l) \/ ReadDue(l)
             \/ \E e \in Event : PostItem(l, e)
      PROVE  Tx!Next
  BY <1>2, LoopRefines DEF Tx!Next, Tx!Proceed
<1>3. ASSUME NEW t, ReadFile(t) PROVE UNCHANGED Tx!vars
  BY <1>3 DEF ReadFile, Tx!vars, Tx!loops, loops
<1>4. ASSUME TruncateFile(w) PROVE UNCHANGED Tx!vars
  BY <1>4 DEF TruncateFile, Tx!vars, Tx!loops, loops
<1>5. ASSUME WriteFile(w) PROVE Tx!Next
  BY <1>5, WriteRefines DEF Tx!Next, Tx!Handle, Tx!Proceed
<1>6. ASSUME WriteFails(w) \/ CloseWindow(w) PROVE Tx!Next \/ Tears
  <2>1. CASE truncated = {}
    BY <1>6, <2>1, FailureRefines, CloseRefines DEF Tx!Next
  <2>2. CASE truncated # {}
    <3>1. breaks \in Nat /\ breaks' = breaks + 1
      BY <1>6, VSCodeAssumption
         DEF WriteFails, CloseWindow, Break, TypeInv, TypeOK
    <3> QED
      BY <2>2, <3>1 DEF Tears
  <2> QED
    BY <2>1, <2>2
<1>7. ASSUME CooldownEnds(w) PROVE Tx!CooldownEnds
  BY <1>7, OneWindow
     DEF CooldownEnds, Tx!CooldownEnds, Tx!loops, loops, file
<1>8. CASE UNCHANGED vars
  BY <1>8 DEF vars, Tx!vars, Tx!loops, loops, file
<1> QED
  BY <1>1, <1>2, <1>3, <1>4, <1>5, <1>6, <1>7, <1>8
     DEF Next, Handle, Retry, Operate, Tx!Next

\* With one window buffer.json is as good as the browser's object store: the
\* connector implements BrowserBuffer but for rewrites broken off midway.
THEOREM OneWindowIsTransactional ==
    ASSUME NEW w, Window = {w}
    PROVE  Spec => TransactionalSpec
<1>1. Init => Tx!Init /\ OperationInv(w)
  BY DEF Init, Tx!Init, OperationInv
<1>2. TypeInv /\ OperationInv(w) /\ [Next]_vars => OperationInv(w)'
  BY OperationStep
<1>3. TypeInv /\ OperationInv(w) /\ [Next]_vars => [Tx!Next \/ Tears]_(Tx!vars)
  BY StepRefines
<1> QED
  BY <1>1, <1>2, <1>3, AllTyped, PTL DEF Spec, TransactionalSpec

-----------------------------------------------------------------------------
(* What was captured is kept.                                               *)

\* A loop that is about to delete an item saw the daemon accept it.
AcceptedIsDelivered ==
    \A l \in Loop : pc[l] = "accepted" => delivered[cur[l]] > 0

\* Acceptances are never taken back.
LEMMA DeliveredGrows ==
    ASSUME TypeInv, [Next]_vars, NEW e \in Event, delivered[e] > 0
    PROVE  delivered'[e] > 0
<1>1. ASSUME NEW f \in Event, Accepted(f) PROVE delivered'[e] > 0
  BY <1>1 DEF TypeInv, TypeOK, Accepted
<1>2. ASSUME UNCHANGED delivered PROVE delivered'[e] > 0
  BY <1>2
<1> QED
  BY <1>1, <1>2
     DEF Next, Handle, Retry, Operate, Capture, Post, BackoffEnds, StartLoop,
         CheckHealth, ReadDue, PostItem, ReadFile, TruncateFile, WriteFile,
         WriteFails, CloseWindow, CooldownEnds, Answered, NotAnswered, vars

\* Only a 202 brings a loop to "accepted".
LEMMA AcceptedStep ==
    TypeInv /\ AcceptedIsDelivered /\ [Next]_vars => AcceptedIsDelivered'
<1> SUFFICES ASSUME TypeInv, AcceptedIsDelivered, [Next]_vars,
                    NEW l \in Loop, pc'[l] = "accepted"
             PROVE  delivered'[cur'[l]] > 0
  BY DEF AcceptedIsDelivered
<1>1. ASSUME pc[l] = "accepted", cur'[l] = cur[l]
      PROVE  delivered'[cur'[l]] > 0
  <2>1. cur[l] \in Event /\ delivered[cur[l]] > 0
    BY <1>1 DEF TypeInv, HoldsItem, AcceptedIsDelivered
  <2> QED
    BY <1>1, <2>1, DeliveredGrows
<1>2. ASSUME NEW k \in Loop, NEW e \in Event, PostItem(k, e)
      PROVE  delivered'[cur'[l]] > 0
  <2>1. CASE k = l
    BY <1>2, <2>1 DEF TypeInv, TypeOK, PostItem, Goto, Answered, Accepted
  <2>2. CASE k # l
    BY <1>1, <1>2, <2>2 DEF TypeInv, TypeOK, PostItem, Goto
  <2> QED
    BY <2>1, <2>2
<1>3. ASSUME NEW t \in Event \cup Loop, Continue(t)
      PROVE  delivered'[cur'[l]] > 0
  <2>1. CASE t = l /\ t \notin Event
    BY <1>3, <2>1 DEF TypeInv, TypeOK, Continue, Goto
  <2>2. CASE t # l \/ t \in Event
    BY <1>1, <1>3, <2>2 DEF TypeInv, TypeOK, Continue, Goto, loops
  <2> QED
    BY <2>1, <2>2
<1>4. ASSUME NEW k \in Loop, StartLoop(k) \/ CheckHealth(k) \/ ReadDue(k)
      PROVE  delivered'[cur'[l]] > 0
  BY <1>1, <1>4 DEF TypeInv, TypeOK, StartLoop, CheckHealth, ReadDue, Goto
<1>5. ASSUME NEW T, Abandon(T) PROVE delivered'[cur'[l]] > 0
  BY <1>1, <1>5 DEF Abandon
<1>6. CASE UNCHANGED <<pc, cur>>
  BY <1>1, <1>6
<1>7. ASSUME NEW w \in Window, WriteFile(w) PROVE delivered'[cur'[l]] > 0
  BY <1>3, <1>7 DEF WriteFile, TypeInv, TypeOK, Free
<1> QED
  BY <1>2, <1>4, <1>5, <1>6, <1>7
     DEF Next, Handle, Retry, Operate, Capture, Post, BackoffEnds, ReadFile,
         TruncateFile, WriteFails, CloseWindow, CooldownEnds, vars, loops

\* While a rewrite is under way, its contents hold what the file held and the
\* task's own event, except an event the daemon accepted.
LEMMA RewriteKeeps ==
    ASSUME NEW w, Window = {w}, TypeInv, OperationInv(w), AcceptedIsDelivered,
           writer[w] # NoItem, NEW e \in Event,
           e \in items \/ e = ItemOf(writer[w]), e \notin next[w]
    PROVE  delivered[e] > 0
BY VSCodeAssumption DEF OperationInv, Deletes, ItemOf, AcceptedIsDelivered

\* What a handler's event is safe by, the file's contents before a rewrite
\* included.
Kept(w, e) ==
    capture[e] = "done" =>
        delivered[e] > 0 \/ e \in items \/ (w \in truncated /\ e \in next[w])

KeptInv(w) == TypeInv /\ OperationInv(w) /\ AcceptedIsDelivered

\* With one window, Safe says the same.
LEMMA SafeIsKept ==
    ASSUME NEW w, Window = {w}, NEW e \in Event
    PROVE  KeptInv(w) => (Safe(e) <=> Kept(w, e))
<1> SUFFICES ASSUME KeptInv(w) PROVE Safe(e) <=> Kept(w, e)
  OBVIOUS
<1>1. TypeInv /\ OperationInv(w) /\ AcceptedIsDelivered
  BY DEF KeptInv
<1>2. \/ ReadAll = items
      \/ ReadAll = {} /\ w \in truncated /\ writer[w] # NoItem
  BY <1>1, OneWindow DEF ReadAll, OperationInv, Free
<1>3. CASE ReadAll = items
  BY <1>3, <1>1, OneWindow DEF Safe, Kept
<1>4. CASE ReadAll = {} /\ w \in truncated /\ writer[w] # NoItem
  <2>1. e \in items => e \in next[w] \/ delivered[e] > 0
    BY <1>1, <1>4, RewriteKeeps
  <2> QED
    BY <1>1, <1>4, <2>1, OneWindow DEF Safe, Kept
<1> QED
  BY <1>2, <1>3, <1>4

\* A step loses no event that was kept, unless it breaks off a rewrite.
LEMMA KeptStep ==
    ASSUME NEW w, Window = {w}, KeptInv(w), [Next]_vars, ~Tears,
           NEW e \in Event, Kept(w, e)
    PROVE  Kept(w, e)'
<1> SUFFICES ASSUME capture'[e] = "done", ~(delivered'[e] > 0)
             PROVE  e \in items' \/ (w \in truncated' /\ e \in next'[w])
  BY DEF Kept
<1> USE VSCodeAssumption
<1>1. /\ TypeInv /\ OperationInv(w) /\ AcceptedIsDelivered
      /\ ~(delivered[e] > 0)
  BY DeliveredGrows DEF KeptInv
<1>2. ASSUME NEW f \in Event, Post(f), capture[e] # "done" PROVE FALSE
  BY <1>1, <1>2 DEF Post, Answered, Accepted, TypeInv, TypeOK
<1>3. ASSUME capture' = capture, items' = items,
             w \in truncated => w \in truncated' /\ next' = next
      PROVE  e \in items' \/ (w \in truncated' /\ e \in next'[w])
  BY <1>1, <1>3 DEF Kept
<1>4. CASE WriteFile(w)
  <2>1. torn' = FALSE /\ items' = next[w] /\ Continue(writer[w])
    BY <1>1, <1>4 DEF WriteFile, OperationInv
  <2>2. writer[w] # NoItem /\ writer[w] \in Event \cup Loop
    BY <1>1, <1>4 DEF WriteFile, TypeInv, TypeOK, Free
  <2>3. CASE capture[e] = "done"
    <3>1. e \in items => e \in next[w]
      BY <1>1, <2>2, RewriteKeeps
    <3> QED
      BY <1>1, <2>1, <2>3, <3>1 DEF Kept
  <2>4. CASE capture[e] # "done"
    <3>1. writer[w] = e
      BY <1>1, <2>1, <2>2, <2>4 DEF Continue, TypeInv, TypeOK
    <3>2. e \in next[w]
      BY <1>1, <2>2, <3>1, RewriteKeeps DEF ItemOf
    <3> QED
      BY <2>1, <3>2
  <2> QED
    BY <2>3, <2>4
<1>5. CASE WriteFails(w) \/ CloseWindow(w)
  <2>1. truncated = {}
    BY <1>1, <1>5 DEF Tears, WriteFails, CloseWindow, Break, TypeInv, TypeOK
  <2>2. items' = items
    BY <1>5, <2>1 DEF WriteFails, CloseWindow, BreakOff
  <2>3. capture[e] = "done"
    BY <1>5 DEF WriteFails, CloseWindow, Abandon
  <2> QED
    BY <1>1, <2>1, <2>2, <2>3 DEF Kept
<1>6. ASSUME NEW f \in Event, Capture(f) \/ Post(f)
      PROVE  e \in items' \/ (w \in truncated' /\ e \in next'[w])
  <2>1. capture[e] = "done"
    BY <1>1, <1>2, <1>6 DEF Capture, TypeInv, TypeOK
  <2>2. UNCHANGED file
    BY <1>6 DEF Capture, Post
  <2> QED
    BY <1>1, <2>1, <2>2 DEF Kept, file
<1>7. ASSUME NEW t \in Event \cup Loop, ReadFile(t)
      PROVE  e \in items' \/ (w \in truncated' /\ e \in next'[w])
  <2>1. w \notin truncated
    BY <1>1, <1>7, OneWindow DEF ReadFile
  <2> QED
    BY <1>3, <1>7, <2>1 DEF ReadFile
<1>8. CASE TruncateFile(w)
  BY <1>3, <1>8 DEF TruncateFile
<1>9. CASE UNCHANGED <<capture, file>>
  BY <1>3, <1>9 DEF file
<1>10. ASSUME NEW l \in Loop,
              \/ StartLoop(l) \/ CheckHealth(l) \/ ReadDue(l)
              \/ \E f \in Event : PostItem(l, f)
       PROVE  UNCHANGED <<capture, file>>
  BY <1>10 DEF StartLoop, CheckHealth, ReadDue, PostItem
<1> QED
  BY <1>4, <1>5, <1>6, <1>7, <1>8, <1>9, <1>10
     DEF Next, Handle, Retry, Operate, BackoffEnds, CooldownEnds, vars

\* With one window a captured event is lost only by a rewrite that breaks off
\* midway, whatever handlers and loops overlap and answers are lost.
THEOREM OneWindowKeeps ==
    ASSUME NEW w, Window = {w}
    PROVE  Spec => KeptUnlessTorn
<1>1. Init => KeptInv(w)
  BY InitTyped DEF Init, KeptInv, OperationInv, AcceptedIsDelivered
<1>2. KeptInv(w) /\ [Next]_vars => KeptInv(w)'
  BY NextTyped, OperationStep, AcceptedStep DEF KeptInv
<1>3. ASSUME NEW e \in Event
      PROVE  KeptInv(w)' => (Safe(e)' <=> Kept(w, e)')
  BY SafeIsKept, PTL
<1>4. KeptInv(w) /\ KeptInv(w)' /\ [Next]_vars
      => [\A e \in Event : Safe(e) /\ ~Safe(e)' => Tears]_vars
  BY <1>3, SafeIsKept, KeptStep
<1> QED
  BY <1>1, <1>2, <1>4, PTL DEF Spec, KeptUnlessTorn
=============================================================================
