--------------------------- MODULE TimelineProofs ---------------------------
(***************************************************************************)
(* Daemon implements Timeline: the channel, the buffer, the batch and the  *)
(* insert in two statements are one FIFO inbox whose envelopes are stored  *)
(* in order, for every capacity, batch size and number of faults.          *)
(***************************************************************************)
EXTENDS DaemonProofs

-----------------------------------------------------------------------------
(* Concatenation and its ends.                                              *)

\* Appending to the last part appends to the whole.
LEMMA ConcatAppend ==
    ASSUME NEW S, NEW s \in Seq(S), NEW t \in Seq(S), NEW e \in S
    PROVE  s \o Append(t, e) = Append(s \o t, e)
<1>1. <<e>> \in Seq(S) /\ s \o t \in Seq(S)
  BY ConcatProperties
<1>2. Append(t, e) = t \o <<e>> /\ Append(s \o t, e) = (s \o t) \o <<e>>
  BY <1>1, AppendIsConcat
<1>3. (s \o t) \o <<e>> = s \o (t \o <<e>>)
  BY <1>1, ConcatAssociative
<1> QED
  BY <1>2, <1>3

\* A non-empty sequence is its head followed by its tail.
LEMMA HeadTailConcat ==
    ASSUME NEW S, NEW s \in Seq(S), s # <<>>
    PROVE  s = <<Head(s)>> \o Tail(s)
<1>1. /\ Head(s) \in S /\ Tail(s) \in Seq(S) /\ Len(Tail(s)) = Len(s) - 1
      /\ \A i \in 1 .. Len(Tail(s)) : Tail(s)[i] = s[i + 1]
  BY HeadTailProperties
<1> DEFINE h == <<Head(s)>>
           r == h \o Tail(s)
<1>2. h \in Seq(S) /\ Len(h) = 1 /\ h[1] = s[1]
  BY <1>1
<1>3. /\ r \in Seq(S) /\ Len(r) = Len(h) + Len(Tail(s))
      /\ \A i \in 1 .. Len(h) + Len(Tail(s)) :
             r[i] = IF i <= Len(h) THEN h[i] ELSE Tail(s)[i - Len(h)]
  BY <1>1, <1>2, ConcatProperties
<1>4. Len(s) \in Nat /\ Len(s) >= 1
  BY EmptySeq
<1> HIDE DEF h, r
<1>5. Len(r) = Len(s)
  BY <1>1, <1>2, <1>3, <1>4
<1>6. ASSUME NEW i \in 1 .. Len(s) PROVE r[i] = s[i]
  <2>1. CASE i = 1
    BY <1>1, <1>2, <1>3, <1>4, <2>1
  <2>2. CASE i # 1
    <3>1. r[i] = Tail(s)[i - 1] /\ i - 1 \in 1 .. Len(Tail(s))
      BY <1>1, <1>2, <1>3, <1>4, <2>2
    <3> QED
      BY <1>1, <3>1
  <2> QED
    BY <2>1, <2>2
<1>7. r = s
  BY <1>3, <1>4, <1>5, <1>6, SeqEqual
<1> QED
  BY <1>7 DEF h, r

\* Taking the head of the first part takes the head of the whole.
LEMMA ConcatTail ==
    ASSUME NEW S, NEW s \in Seq(S), NEW t \in Seq(S), s # <<>>
    PROVE  /\ s \o t # <<>>
           /\ Head(s \o t) = Head(s)
           /\ Tail(s \o t) = Tail(s) \o t
<1>1. Head(s) \in S /\ Tail(s) \in Seq(S) /\ <<Head(s)>> \in Seq(S)
  BY HeadTailProperties
<1>2. s \o t \in Seq(S) /\ s \o t # <<>>
  BY ConcatProperties, ConcatEqualIffEmpty
<1>3. Len(s) \in Nat /\ Len(t) \in Nat /\ Len(s) >= 1
  BY EmptySeq, LenProperties
<1>4. (s \o t)[1] = s[1]
  BY <1>3, ConcatProperties
<1>5. Head(s \o t) = Head(s)
  BY <1>2, <1>4
<1>6. <<Head(s)>> \o (Tail(s) \o t) = s \o t
  BY <1>1, HeadTailConcat, ConcatAssociative
<1>7. <<Head(s)>> \o Tail(s \o t) = s \o t
  BY <1>2, <1>5, HeadTailConcat
<1>8. Tail(s) \o t \in Seq(S) /\ Tail(s \o t) \in Seq(S)
  BY <1>1, <1>2, ConcatProperties, HeadTailProperties
<1> QED
  BY <1>1, <1>2, <1>5, <1>6, <1>7, <1>8, ConcatSimplifications

\* Moving the head of the second part to the end of the first changes nothing.
LEMMA ConcatShift ==
    ASSUME NEW S, NEW s \in Seq(S), NEW t \in Seq(S), t # <<>>
    PROVE  Append(s, Head(t)) \o Tail(t) = s \o t
<1>1. Head(t) \in S /\ Tail(t) \in Seq(S) /\ <<Head(t)>> \in Seq(S)
  BY HeadTailProperties
<1>2. Append(s, Head(t)) = s \o <<Head(t)>>
  BY <1>1, AppendIsConcat
<1>3. (s \o <<Head(t)>>) \o Tail(t) = s \o (<<Head(t)>> \o Tail(t))
  BY <1>1, ConcatAssociative
<1> QED
  BY <1>2, <1>3, HeadTailConcat

-----------------------------------------------------------------------------
(* The steps of Daemon, seen through the mapping.                           *)

\* What is left of the batch once the current envelope's row is settled.
Settled == {"intel", "job", "chunks"}
undecided == IF pc \in Settled THEN Tail(batch) ELSE batch

\* The mapping of Daemon, in terms of undecided.
LEMMA InboxIs == inbox = (undecided \o buf) \o queue
BY DEF inbox, undecided, Settled

\* The parts of the inbox are sequences of events, and their total length
\* leaves room for one more envelope whenever the channel has room.
LEMMA InboxParts ==
    ASSUME TypeOK, BoundInv
    PROVE  /\ undecided \in Seq(Event) /\ buf \in Seq(Event) /\ queue \in Seq(Event)
           /\ undecided \o buf \in Seq(Event)
           /\ inbox \in Seq(Event)
           /\ Len(queue) < QueueCap => Len(inbox) < QueueCap + BatchSize
<1>1. /\ queue \in Seq(Event) /\ buf \in Seq(Event) /\ batch \in Seq(Event)
      /\ pc = "receive" <=> batch = <<>>
  BY DEF TypeOK
<1>2. undecided \in Seq(Event) /\ Len(undecided) <= Len(batch)
  <2>1. CASE pc \in Settled
    <3>1. batch # <<>>
      BY <1>1, <2>1 DEF Settled
    <3>2. Tail(batch) \in Seq(Event) /\ Len(Tail(batch)) = Len(batch) - 1
      BY <1>1, <3>1, HeadTailProperties
    <3>3. Len(batch) \in Nat
      BY <1>1, LenProperties
    <3> QED
      BY <2>1, <3>2, <3>3 DEF undecided
  <2>2. CASE pc \notin Settled
    <3>1. Len(batch) \in Nat
      BY <1>1, LenProperties
    <3> QED
      BY <1>1, <2>2, <3>1 DEF undecided
  <2> QED
    BY <2>1, <2>2
<1>3. undecided \o buf \in Seq(Event)
      /\ Len(undecided \o buf) = Len(undecided) + Len(buf)
  BY <1>1, <1>2, ConcatProperties
<1>4. inbox \in Seq(Event) /\ Len(inbox) = Len(undecided) + Len(buf) + Len(queue)
  BY <1>1, <1>3, ConcatProperties, InboxIs
<1>5. Len(queue) \in Nat /\ Len(buf) \in Nat /\ Len(batch) \in Nat
      /\ Len(undecided) \in Nat /\ Len(<<>>) = 0
  BY <1>1, <1>2, LenProperties, EmptySeq
<1>6. Len(batch) + Len(buf) <= BatchSize
  <2>1. CASE pc = "receive"
    <3>1. Len(batch) = 0
      BY <1>1, <1>5, <2>1
    <3> QED
      BY <1>5, <3>1, DaemonAssumption DEF BoundInv
  <2>2. CASE pc # "receive"
    <3>1. Len(buf) = 0
      BY <1>5, <2>2 DEF BoundInv
    <3> QED
      BY <1>5, <3>1, DaemonAssumption DEF BoundInv
  <2> QED
    BY <2>1, <2>2
<1>7. Len(queue) < QueueCap => Len(inbox) < QueueCap + BatchSize
  BY <1>2, <1>4, <1>5, <1>6, DaemonAssumption
<1> QED
  BY <1>1, <1>2, <1>3, <1>4, <1>7

\* A POST appends to the inbox.
LEMMA PostAppends ==
    ASSUME TypeOK, BoundInv, NEW e \in Event, PostEvent(e)
    PROVE  TL!Accept(e)
<1>1. queue' = Append(queue, e) /\ undecided' = undecided /\ buf' = buf
      /\ UNCHANGED <<events, faults>> /\ Len(queue) < QueueCap
  BY DEF PostEvent, undecided, Settled, tables
<1>2. inbox' = (undecided \o buf) \o Append(queue, e)
  BY <1>1, InboxIs DEF inbox, undecided, Settled
<1>3. inbox' = Append(inbox, e)
  BY <1>2, InboxIs, InboxParts, ConcatAppend
<1> QED
  BY <1>1, <1>3, InboxParts DEF TL!Accept

\* Receiving and flushing move envelopes along inside the inbox.
LEMMA ReceiveStutters ==
    ASSUME TypeOK, BoundInv, Receive \/ FlushTimer
    PROVE  UNCHANGED <<inbox, events, faults>>
<1>1. /\ pc = "receive" /\ batch = <<>> /\ undecided = <<>>
      /\ UNCHANGED <<events, faults>>
  BY DEF TypeOK, Receive, FlushTimer, undecided, Settled, tables
<1>2. queue \in Seq(Event) /\ buf \in Seq(Event)
  BY DEF TypeOK
<1>3. inbox = buf \o queue
  BY <1>1, <1>2, InboxIs, ConcatEmptySeq
<1>4. CASE Receive
  <2> DEFINE b == Append(buf, Head(queue))
  <2>1. queue # <<>> /\ queue' = Tail(queue) /\ Tail(queue) \in Seq(Event)
        /\ b \in Seq(Event)
    BY <1>2, <1>4, HeadTailProperties, AppendProperties DEF Receive
  <2>2. \/ batch' = b /\ buf' = <<>> /\ pc' = "event"
        \/ batch' = <<>> /\ buf' = b /\ pc' = "receive"
    BY <1>1, <1>4 DEF Receive, TakeBatch
  <2>3. inbox' = b \o Tail(queue)
    BY <2>1, <2>2, ConcatEmptySeq DEF inbox
  <2> QED
    BY <1>1, <1>2, <1>3, <2>1, <2>3, ConcatShift
<1>5. CASE FlushTimer
  <2>1. /\ queue' = queue
        /\ \/ batch' = buf /\ buf' = <<>> /\ pc' = "event"
           \/ batch' = <<>> /\ buf' = buf /\ pc' = "receive"
    BY <1>1, <1>5 DEF FlushTimer, TakeBatch
  <2>2. inbox' = buf \o queue
    BY <1>2, <2>1, ConcatEmptySeq DEF inbox
  <2> QED
    BY <1>1, <1>3, <2>2
<1> QED
  BY <1>4, <1>5

\* Settling the current envelope takes the head off the inbox.
LEMMA SettleTakesHead ==
    ASSUME TypeOK, BoundInv, pc \notin Settled, pc # "receive",
           UNCHANGED <<queue, buf>>,
           Finish \/ (pc' \in Settled /\ batch' = batch)
    PROVE  inbox # <<>> /\ Head(inbox) = Current /\ inbox' = Tail(inbox)
<1>1. batch \in Seq(Event) /\ batch # <<>> /\ undecided = batch
  BY DEF TypeOK, undecided
<1>2. buf \in Seq(Event) /\ queue \in Seq(Event)
  BY DEF TypeOK
<1>3. undecided' = Tail(batch)
  BY DEF Finish, undecided, Settled
<1>4. /\ batch \o buf \in Seq(Event) /\ batch \o buf # <<>>
      /\ Head(batch \o buf) = Head(batch)
      /\ Tail(batch \o buf) = Tail(batch) \o buf
  BY <1>1, <1>2, ConcatTail, ConcatProperties
<1> DEFINE front == batch \o buf
<1>5. front \in Seq(Event) /\ front # <<>>
  BY <1>4
<1> HIDE DEF front
<1>6. /\ front \o queue # <<>>
      /\ Head(front \o queue) = Head(front)
      /\ Tail(front \o queue) = Tail(front) \o queue
  BY <1>2, <1>5, ConcatTail
<1>7. inbox = (batch \o buf) \o queue
  BY <1>1, InboxIs
<1>8. inbox' = (Tail(batch) \o buf) \o queue
  BY <1>3, InboxIs DEF inbox, undecided, Settled
<1> QED
  BY <1>4, <1>6, <1>7, <1>8 DEF Current, front

\* Steps within one envelope before or after its row leave the inbox alone.
LEMMA InboxKept ==
    ASSUME UNCHANGED <<queue, buf>>,
           \/ UNCHANGED batch /\ (pc' \in Settled <=> pc \in Settled)
           \/ pc \in Settled /\ Finish
    PROVE  inbox' = inbox
<1>1. undecided' = undecided
  BY DEF undecided, Finish, Settled
<1> QED
  BY <1>1 DEF inbox, undecided, Settled

-----------------------------------------------------------------------------
(* The refinement.                                                          *)

\* Every step of the daemon is a step of the timeline or leaves it alone.
LEMMA StepIsTimeline ==
    TypeOK /\ BoundInv /\ [Next]_vars => [TL!Next]_(TL!tvars)
<1> SUFFICES ASSUME TypeOK, BoundInv, [Next]_vars
             PROVE  TL!Next \/ UNCHANGED <<inbox, events, faults>>
  BY DEF TL!tvars
<1>1. ASSUME NEW e \in Event, PostEvent(e) PROVE TL!Next
  BY <1>1, PostAppends DEF TL!Next
<1>2. CASE Receive \/ FlushTimer
  BY <1>2, ReceiveStutters
<1>3. CASE SkipBlob \/ SaveCreate \/ SaveWrite \/ UpsertIndex \/ ResolveBlob
  <2>1. UNCHANGED <<queue, buf, batch, events, faults>>
        /\ (pc' \in Settled <=> pc \in Settled)
    BY <1>3 DEF SkipBlob, SaveCreate, SaveWrite, UpsertIndex, ResolveBlob,
                Settled, tables
  <2> QED
    BY <2>1, InboxKept
<1>4. CASE InsertRow
  <2>1. /\ pc = "row" /\ UNCHANGED <<queue, buf, faults>>
        /\ events' = events \cup {Current}
    BY <1>4 DEF InsertRow, Release
  <2>2. Finish \/ (pc' \in Settled /\ batch' = batch)
    BY <1>4 DEF InsertRow, Release, Settled
  <2>3. inbox # <<>> /\ Head(inbox) = Current /\ inbox' = Tail(inbox)
    BY <2>1, <2>2, SettleTakesHead DEF Settled
  <2> QED
    BY <2>1, <2>3 DEF TL!Next, TL!Store
<1>5. CASE JobSucceeds \/ JobFails \/ InsertChunks
  <2>1. /\ pc \in Settled /\ UNCHANGED <<queue, buf, events, faults>>
        /\ Finish \/ (pc' \in Settled /\ batch' = batch)
    BY <1>5 DEF JobSucceeds, JobFails, InsertChunks, Settled, tables
  <2> QED
    BY <2>1, InboxKept
<1>6. ASSUME NEW c \in Criteria, PurgeNothing(c) \/ PurgeRefused(c) \/ PurgeBegin(c)
      PROVE  UNCHANGED <<inbox, events, faults>>
  BY <1>6 DEF PurgeNothing, PurgeRefused, PurgeBegin, worker, tables, inbox
<1>7. ASSUME NEW h \in Hash, PurgeHash(h) PROVE UNCHANGED <<inbox, events, faults>>
  BY <1>7 DEF PurgeHash, worker, tables, inbox
<1>8. CASE PurgeCommit
  <2>1. UNCHANGED <<inbox, faults>> /\ events' = Remaining(crit, events)
    BY <1>8 DEF PurgeCommit, worker, inbox
  <2>2. Doomed(crit, events) \in SUBSET events
    BY DoomedStored
  <2> QED
    BY <2>1, <2>2 DEF Remaining, TL!Next, TL!Purge
<1>9. CASE ProcessFails
  <2>1. /\ faults < MaxFaults /\ faults' = faults + 1
        /\ UNCHANGED <<queue, buf, events>> /\ Finish /\ pc # "receive"
    BY <1>9 DEF ProcessFails, tables
  <2>2. CASE pc \in Settled
    <3>1. inbox' = inbox
      BY <2>1, <2>2, InboxKept
    <3> QED
      BY <2>1, <3>1 DEF TL!Next, TL!Fault
  <2>3. CASE pc \notin Settled
    <3>1. inbox # <<>> /\ inbox' = Tail(inbox)
      BY <2>1, <2>3, SettleTakesHead
    <3> QED
      BY <2>1, <3>1 DEF TL!Next, TL!Fault
  <2> QED
    BY <2>2, <2>3
<1>10. CASE PurgeFails
  <2>1. /\ faults < MaxFaults /\ faults' = faults + 1
        /\ UNCHANGED <<inbox, events>>
    BY <1>10 DEF PurgeFails, worker, tables, inbox
  <2> QED
    BY <2>1 DEF TL!Next, TL!Fault
<1>11. CASE Crash
  <2>1. /\ faults < MaxFaults /\ faults' = faults + 1 /\ events' = events
        /\ queue' = <<>> /\ buf' = <<>> /\ batch' = <<>> /\ pc' = "receive"
    BY <1>11 DEF Crash, tables
  <2>2. inbox' = <<>>
    BY <2>1, ConcatEmptySeq DEF inbox
  <2> QED
    BY <2>1, <2>2 DEF TL!Next, TL!Fault
<1>12. CASE NextDay
  BY <1>12 DEF NextDay, worker, tables, inbox
<1>13. CASE UNCHANGED vars
  BY <1>13 DEF vars, worker, tables, inbox
<1> QED
  BY <1>1, <1>2, <1>3, <1>4, <1>5, <1>6, <1>7, <1>8, <1>9, <1>10, <1>11,
     <1>12, <1>13 DEF Next, Process

\* The daemon keeps its promise to clients: accepted envelopes are stored in
\* order, none skipped or stored out of turn, except through a counted fault,
\* and stored events leave only through a purge.
THEOREM DaemonImplementsTimeline == Spec => TimelineSpec
<1>1. Init => TL!Init
  BY ConcatEmptySeq DEF Init, inbox, TL!Init
<1> QED
  BY <1>1, StepIsTimeline, TypeCorrect, BoundsKept, PTL
     DEF Spec, TimelineSpec, TL!Spec
=============================================================================
