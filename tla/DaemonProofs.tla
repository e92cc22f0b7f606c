---------------------------- MODULE DaemonProofs ----------------------------
(***************************************************************************)
(* Proofs about Daemon, for every value of its constants.                  *)
(***************************************************************************)
EXTENDS Daemon, FiniteSetTheorems, SequenceTheorems, TLAPS

-----------------------------------------------------------------------------
(* Counting the events that share a hash.                                   *)

\* COUNT is a natural number: there are finitely many events.
LEMMA CountType ==
    ASSUME NEW E \in SUBSET Event, NEW h
    PROVE  IsFiniteSet(RowsOf(E, h)) /\ Count(E, h) \in Nat
<1>1. RowsOf(E, h) \subseteq Event
  BY DEF RowsOf
<1>2. IsFiniteSet(RowsOf(E, h))
  BY <1>1, FS_Subset, TablesAssumption
<1> QED
  BY <1>2, FS_CardinalityType DEF Count

\* Deleting events never raises a count.
LEMMA CountMonotone ==
    ASSUME NEW E \in SUBSET Event, NEW D \in SUBSET E, NEW h
    PROVE  Count(D, h) <= Count(E, h)
<1>1. RowsOf(D, h) \subseteq RowsOf(E, h)
  BY DEF RowsOf
<1> QED
  BY <1>1, CountType, FS_Subset DEF Count

\* Inserting an event raises the count of its own hash by at most one and
\* leaves the other counts alone.
LEMMA CountInsert ==
    ASSUME NEW E \in SUBSET Event, NEW e \in Event, NEW h
    PROVE  Count(E \cup {e}, h) <= Count(E, h) + (IF HashOf[e] = h THEN 1 ELSE 0)
<1>1. IsFiniteSet(RowsOf(E, h)) /\ Count(E, h) \in Nat
  BY CountType
<1>2. CASE HashOf[e] = h
  <2>1. RowsOf(E \cup {e}, h) = RowsOf(E, h) \cup {e}
    BY <1>2 DEF RowsOf
  <2>2. Cardinality(RowsOf(E, h)) \in Nat
    BY <1>1 DEF Count
  <2>3. CASE e \in RowsOf(E, h)
    <3>1. RowsOf(E \cup {e}, h) = RowsOf(E, h)
      BY <2>1, <2>3
    <3> QED
      BY <1>2, <2>2, <3>1 DEF Count
  <2>4. CASE e \notin RowsOf(E, h)
    <3>1. Cardinality(RowsOf(E \cup {e}, h)) = Cardinality(RowsOf(E, h)) + 1
      BY <1>1, <2>1, <2>4, FS_AddElement
    <3> QED
      BY <1>2, <2>2, <3>1 DEF Count
  <2> QED
    BY <2>3, <2>4
<1>3. CASE HashOf[e] # h
  <2>1. RowsOf(E \cup {e}, h) = RowsOf(E, h)
    BY <1>3 DEF RowsOf
  <2> QED
    BY <1>1, <1>3, <2>1 DEF Count
<1> QED
  BY <1>2, <1>3

-----------------------------------------------------------------------------
(* Type correctness.                                                        *)

\* When an envelope is finished the worker's variables keep their types: the
\* rest of the batch is processed or the worker receives again.
LEMMA FinishTyped ==
    ASSUME TypeOK, pc # "receive", Finish
    PROVE  /\ batch' \in Seq(Event)
           /\ pc' \in WorkerPC
           /\ pc' = "receive" <=> batch' = <<>>
           /\ blobDay' \in Day \cup {NoDay}
           /\ attempts' \in 0 .. MaxRetries - 1
<1>1. batch \in Seq(Event) /\ batch # <<>>
  BY DEF TypeOK
<1> DEFINE rest == Tail(batch)
<1>2. rest \in Seq(Event) /\ Len(rest) = Len(batch) - 1
  BY <1>1
<1> HIDE DEF rest
<1>3. rest = <<>> <=> Len(batch) = 1
  <2>1. Len(<<>>) = 0 /\ (rest # <<>> => Len(rest) \in Nat \ {0})
    BY <1>2, EmptySeq
  <2>2. Len(batch) \in Nat
    BY <1>1, LenProperties
  <2>3. ASSUME rest = <<>> PROVE Len(batch) = 1
    <3>1. Len(rest) = 0
      BY <2>1, <2>3
    <3> QED
      BY <1>2, <2>2, <3>1
  <2>4. ASSUME Len(batch) = 1 PROVE rest = <<>>
    BY <1>2, <2>1, <2>4
  <2> QED
    BY <2>3, <2>4
<1>4. 0 \in 0 .. MaxRetries - 1
  BY DaemonAssumption
<1> QED
  BY <1>2, <1>3, <1>4 DEF Finish, WorkerPC, rest

\* main starts with empty tables, an empty channel and no purge.
THEOREM InitTyped == Init => TypeOK
<1> SUFFICES ASSUME Init PROVE TypeOK
  OBVIOUS
<1>1. 0 \in Day /\ 0 \in 0 .. MaxRetries - 1 /\ 0 \in 0 .. MaxPosts
      /\ 0 \in 0 .. MaxPurges /\ 0 \in 0 .. MaxFaults
  BY DaemonAssumption DEF Day
<1>2. NoCriteria \in PurgeCriteria
  BY DEF NoCriteria, PurgeCriteria
<1> QED
  BY <1>1, <1>2 DEF Init, TypeOK, WorkerPC

\* Every step of the worker, the handlers, the faults and the calendar keeps
\* the types of queue.rs and db.rs' state.
THEOREM NextTyped == TypeOK /\ [Next]_vars => TypeOK'
<1> SUFFICES ASSUME TypeOK, [Next]_vars PROVE TypeOK'
  OBVIOUS
<1> USE DaemonAssumption, TablesAssumption
<1>1. ASSUME NEW e \in Event, PostEvent(e) PROVE TypeOK'
  BY <1>1 DEF TypeOK, PostEvent, tables, purging
<1>2. CASE Receive
  <2>1. Append(buf, Head(queue)) \in Seq(Event) /\ Append(buf, Head(queue)) # <<>>
    BY <1>2 DEF TypeOK, Receive
  <2>2. Tail(queue) \in Seq(Event)
    BY <1>2 DEF TypeOK, Receive
  <2> QED
    BY <1>2, <2>1, <2>2 DEF TypeOK, Receive, TakeBatch, WorkerPC, tables, purging
<1>3. CASE FlushTimer
  BY <1>3 DEF TypeOK, FlushTimer, Buffered, TakeBatch, WorkerPC, tables, purging
<1>4. CASE SkipBlob
  BY <1>4 DEF TypeOK, SkipBlob, WorkerPC, tables, purging
<1>5. CASE SaveCreate
  BY <1>5 DEF TypeOK, SaveCreate, WorkerPC, tables, purging
<1>6. CASE SaveWrite
  BY <1>6 DEF TypeOK, SaveWrite, WorkerPC, tables, purging
<1>7. CASE UpsertIndex
  <2>1. Current \in Event /\ CurrentHash \in Hash
    BY <1>7 DEF TypeOK, UpsertIndex, Current, CurrentHash
  <2>2. Recount(CurrentHash) \in Nat
    BY <2>1 DEF Recount, TypeOK
  <2> QED
    BY <1>7, <2>1, <2>2 DEF TypeOK, UpsertIndex, IndexAll, WorkerPC, purging
<1>8. CASE InsertRow
  <2>1. Current \in Event
    BY <1>8 DEF TypeOK, InsertRow, Release, Current
  <2>2. CASE Current \in events \/ Current \in NeverStore
    BY <1>8, <2>1, <2>2, FinishTyped DEF TypeOK, InsertRow, Release, purging
  <2>3. CASE ~(Current \in events \/ Current \in NeverStore)
    BY <1>8, <2>1, <2>3 DEF TypeOK, InsertRow, Release, WorkerPC, purging
  <2> QED
    BY <2>2, <2>3
<1>9. CASE ResolveBlob
  <2>1. Current \in Event /\ CurrentHash \in Hash
    BY <1>9 DEF TypeOK, ResolveBlob, Current, CurrentHash
  <2> QED
    BY <1>9, <2>1 DEF TypeOK, ResolveBlob, WorkerPC, tables, purging
<1>10. CASE JobSucceeds
  <2>1. CASE Finish
    BY <1>10, <2>1, FinishTyped DEF TypeOK, JobSucceeds, tables, purging
  <2>2. CASE ~Finish
    BY <1>10, <2>2 DEF TypeOK, JobSucceeds, WorkerPC, tables, purging
  <2> QED
    BY <2>1, <2>2
<1>11. CASE JobFails
  <2>1. CASE AttemptsLeft
    BY <1>11, <2>1 DEF TypeOK, JobFails, AttemptsLeft, WorkerPC, tables, purging
  <2>2. CASE ~AttemptsLeft
    BY <1>11, <2>2, FinishTyped DEF TypeOK, JobFails, tables, purging
  <2> QED
    BY <2>1, <2>2
<1>12. CASE InsertChunks
  <2>1. chunks' \subseteq Event
    BY <1>12 DEF TypeOK, InsertChunks, ChunkRows
  <2>2. Finish /\ pc # "receive"
    BY <1>12 DEF InsertChunks
  <2>3. UNCHANGED <<queue, buf, lock, events, indexed, path, refs, files, today,
                    crit, todo, unlinked, reply, purges, posts, faults>>
    BY <1>12 DEF InsertChunks, purging
  <2> QED
    BY <2>1, <2>2, <2>3, FinishTyped DEF TypeOK
<1>13. ASSUME NEW c \in Criteria, PurgeNothing(c) PROVE TypeOK'
  BY <1>13 DEF TypeOK, PurgeNothing, worker, tables
<1>23. ASSUME NEW c \in Criteria, PurgeRefused(c) PROVE TypeOK'
  BY <1>23 DEF TypeOK, PurgeRefused, worker, tables
<1>14. ASSUME NEW c \in Criteria, PurgeBegin(c) PROVE TypeOK'
  <2>1. Impacted(c, events) \subseteq Hash
    BY DEF TypeOK, Impacted, Matching
  <2> QED
    BY <1>14, <2>1 DEF TypeOK, PurgeBegin, worker, tables
<1>15. ASSUME NEW h \in Hash, PurgeHash(h) PROVE TypeOK'
  BY <1>15 DEF TypeOK, PurgeHash, worker, tables
<1>16. NoCriteria \in PurgeCriteria
  BY DEF NoCriteria, PurgeCriteria
<1>17. CASE PurgeCommit
  <2>1. Remaining(crit, events) \subseteq events
    BY DEF Remaining
  <2>2. \A h : Count(Remaining(crit, events), h) \in Nat
    BY <2>1, CountType DEF TypeOK
  <2>3. \A h \in Hash : (IF h \in Impacted(crit, events)
                         THEN Count(Remaining(crit, events), h) ELSE refs[h]) \in Nat
    BY <2>2 DEF TypeOK
  <2>4. 0 \in Day
    BY DEF Day
  <2>5. refs' \in [Hash -> Nat] /\ path' \in [Hash -> Day]
    BY <1>17, <2>3, <2>4 DEF PurgeCommit, TypeOK
  <2>6. events' \subseteq Event /\ indexed' \subseteq Hash
    BY <1>17, <2>1 DEF PurgeCommit, TypeOK
  <2> QED
    BY <1>16, <1>17, <2>5, <2>6 DEF PurgeCommit, EndPurge, TypeOK, worker
<1>18. CASE ProcessFails
  BY <1>18, FinishTyped DEF TypeOK, ProcessFails, tables, purging
<1>19. CASE PurgeFails
  BY <1>16, <1>19 DEF TypeOK, PurgeFails, EndPurge, worker, tables
<1>20. CASE Crash
  BY <1>16, <1>20 DEF TypeOK, Crash, EndPurge, WorkerPC, tables
<1>21. CASE NextDay
  BY <1>21 DEF TypeOK, NextDay, Day, worker, tables, purging
<1>22. CASE UNCHANGED vars
  BY <1>22 DEF TypeOK, vars, worker, tables, purging
<1> QED
  BY <1>1, <1>2, <1>3, <1>4, <1>5, <1>6, <1>7, <1>8, <1>9, <1>10, <1>11, <1>12,
     <1>13, <1>14, <1>15, <1>17, <1>18, <1>19, <1>20, <1>21, <1>22,
     <1>23
     DEF Next, Process

\* Every variable of the daemon keeps its type in every reachable state, for
\* any set of events, capacities and bounds.
THEOREM TypeCorrect == Spec => []TypeOK
BY InitTyped, NextTyped, PTL DEF Spec

-----------------------------------------------------------------------------
(* The mutex of the connection.                                             *)

\* The worker holds it exactly between the two statements of insert_event, and
\* a purge's transaction exists only while it holds it.
MutexHeld ==
    /\ lock = "worker" <=> pc = "row"
    /\ lock # "purge" => crit = NoCriteria /\ todo = {}

\* Inserts and purges exclude each other in every reachable state.
THEOREM MutexCorrect == Spec => []MutexHeld
<1>1. Init => MutexHeld
  BY DEF Init, MutexHeld
<1>2. TypeOK /\ MutexHeld /\ [Next]_vars => MutexHeld'
  <2> SUFFICES ASSUME TypeOK, MutexHeld, [Next]_vars PROVE MutexHeld'
    OBVIOUS
  <2> USE DEF MutexHeld
  <2>1. ASSUME NEW e \in Event, PostEvent(e) PROVE MutexHeld'
    BY <2>1 DEF PostEvent, purging
  <2>2. CASE Receive \/ FlushTimer
    BY <2>2 DEF Receive, FlushTimer, TakeBatch, purging
  <2>3. CASE SkipBlob \/ SaveCreate \/ SaveWrite
    BY <2>3 DEF SkipBlob, SaveCreate, SaveWrite, purging
  <2>4. CASE UpsertIndex
    BY <2>4 DEF UpsertIndex, purging
  <2>5. CASE InsertRow
    BY <2>5 DEF InsertRow, Release, Finish, purging
  <2>6. CASE ResolveBlob
    BY <2>6 DEF ResolveBlob, purging
  <2>7. CASE JobSucceeds
    BY <2>7 DEF JobSucceeds, Finish, purging
  <2>8. CASE JobFails
    BY <2>8 DEF JobFails, Finish, purging
  <2>9. CASE InsertChunks
    BY <2>9 DEF InsertChunks, Finish, purging
  <2>10. ASSUME NEW c \in Criteria, PurgeNothing(c) \/ PurgeRefused(c)
         PROVE MutexHeld'
    BY <2>10 DEF PurgeNothing, PurgeRefused, worker
  <2>11. ASSUME NEW c \in Criteria, PurgeBegin(c) PROVE MutexHeld'
    BY <2>11 DEF PurgeBegin, worker
  <2>12. ASSUME NEW h \in Hash, PurgeHash(h) PROVE MutexHeld'
    BY <2>12 DEF PurgeHash, worker
  <2>13. CASE PurgeCommit \/ PurgeFails
    BY <2>13 DEF PurgeCommit, PurgeFails, EndPurge, worker
  <2>14. CASE ProcessFails
    BY <2>14 DEF ProcessFails, Finish, purging
  <2>15. CASE Crash
    BY <2>15 DEF Crash, EndPurge
  <2>16. CASE NextDay
    BY <2>16 DEF NextDay, worker, purging
  <2>17. CASE UNCHANGED vars
    BY <2>17 DEF vars, worker, purging
  <2> QED
    BY <2>1, <2>2, <2>3, <2>4, <2>5, <2>6, <2>7, <2>8, <2>9, <2>10, <2>11,
       <2>12, <2>13, <2>14, <2>15, <2>16, <2>17 DEF Next, Process
<1> QED
  BY <1>1, <1>2, TypeCorrect, PTL DEF Spec

-----------------------------------------------------------------------------
(* The tables: index rows, reference counts and chunks.                     *)

\* A purge that is under way was not refused: while it holds the mutex no
\* event it deletes gets chunks.
PurgeClean == lock = "purge" => Doomed(crit, events) \cap chunks = {}

StoreInv == PurgeClean /\ RowsAreIndexed /\ RefsCoverRows /\ ChunksOfStored

\* A purge deletes and leaves stored events only.
LEMMA DoomedStored ==
    ASSUME NEW c, NEW E
    PROVE  Doomed(c, E) \subseteq E /\ Remaining(c, E) \subseteq E
BY DEF Doomed, Remaining, Matching

\* Steps that leave events, index rows and counts alone preserve the parts
\* about them, unless they enter the second half of insert_event.
LEMMA TablesUntouched ==
    ASSUME TypeOK, StoreInv, UNCHANGED <<events, indexed, refs>>,
           pc' # "row" \/ UNCHANGED <<pc, batch>>
    PROVE  RowsAreIndexed' /\ RefsCoverRows'
<1>1. \A h : Count(events, h)' = Count(events, h)
  BY DEF Count, RowsOf
<1>2. \A h : Count(events, h) \in Nat
  BY CountType DEF TypeOK
<1>3. \A h : Pending(h) \in {0, 1} /\ Pending(h)' \in {0, Pending(h)}
  BY DEF Pending, CurrentHash, Current
<1>4. RowsAreIndexed'
  BY DEF StoreInv, RowsAreIndexed, CurrentHash, Current
<1>5. ASSUME NEW h \in indexed'
      PROVE  refs'[h] >= 1 /\ refs'[h] >= Count(events, h)' + Pending(h)'
  <2>1. refs[h] >= 1 /\ refs[h] >= Count(events, h) + Pending(h)
    BY <1>5 DEF StoreInv, RefsCoverRows
  <2>2. refs[h] \in Nat
    BY <1>5 DEF TypeOK
  <2>3. Pending(h)' <= Pending(h) /\ Pending(h)' \in Nat /\ Pending(h) \in Nat
    BY <1>3
  <2>4. refs'[h] = refs[h] /\ Count(events, h)' = Count(events, h)
    BY <1>1
  <2> QED
    BY <1>2, <2>1, <2>2, <2>3, <2>4
<1> QED
  BY <1>4, <1>5 DEF RefsCoverRows

\* upsert_blob_index makes room for the row to come: one more reference, or
\* a new row for a hash no event has.
LEMMA UpsertCovers ==
    ASSUME TypeOK, StoreInv, UpsertIndex
    PROVE  RowsAreIndexed' /\ RefsCoverRows'
<1> DEFINE g == CurrentHash
<1>1. batch \in Seq(Event) /\ batch # <<>> /\ pc = "upsert"
  BY DEF UpsertIndex, TypeOK
<1>2. g \in Hash
  BY <1>1, TablesAssumption DEF CurrentHash, Current
<1>3. g' = g /\ events' = events /\ pc' = "row"
  BY DEF UpsertIndex, CurrentHash, Current
<1>4. indexed' = indexed \cup {g}
  BY DEF UpsertIndex, IndexAll
<1>5. refs' = [refs EXCEPT ![g] = IF g \in indexed THEN refs[g] + 1 ELSE 1]
  BY DEF UpsertIndex, Recount
<1>6. RowsAreIndexed'
  BY <1>3, <1>4 DEF StoreInv, RowsAreIndexed
<1>7. \A h : Count(events, h) \in Nat /\ Count(events, h)' = Count(events, h)
  BY <1>3, CountType DEF TypeOK, Count, RowsOf
<1>8. ASSUME NEW h \in indexed'
      PROVE  refs'[h] >= 1 /\ refs'[h] >= Count(events, h)' + Pending(h)'
  <2>1. h \in Hash
    BY <1>2, <1>4 DEF TypeOK
  <2>2. CASE h # g
    <3>1. refs'[h] = refs[h] /\ refs[h] \in Nat /\ h \in indexed
      BY <1>4, <1>5, <2>1, <2>2 DEF TypeOK
    <3>2. Pending(h)' = 0 /\ Pending(h) = 0
      BY <1>1, <1>3, <2>2 DEF Pending
    <3> QED
      BY <1>7, <3>1, <3>2 DEF StoreInv, RefsCoverRows
  <2>3. CASE h = g /\ g \in indexed
    <3>1. refs'[h] = refs[h] + 1 /\ refs[h] \in Nat /\ h \in indexed
      BY <1>2, <1>5, <2>3 DEF TypeOK
    <3>2. Pending(h)' = 1 /\ Pending(h) = 0
      BY <1>1, <1>3, <2>3 DEF Pending
    <3>3. refs[h] >= Count(events, h)
      BY <1>7, <3>1, <3>2 DEF StoreInv, RefsCoverRows
    <3>4. Count(events, h)' = Count(events, h) /\ Count(events, h) \in Nat
      BY <1>7
    <3> QED
      BY <3>1, <3>2, <3>3, <3>4
  <2>4. CASE h = g /\ g \notin indexed
    <3>1. RowsOf(events, h) = {}
      BY <2>4 DEF StoreInv, RowsAreIndexed, RowsOf
    <3>2. Count(events, h)' = 0
      BY <1>7, <3>1, FS_EmptySet DEF Count
    <3>3. refs'[h] = 1
      BY <1>2, <1>5, <2>4 DEF TypeOK
    <3>4. Pending(h)' = 1
      BY <1>3, <2>4 DEF Pending
    <3> QED
      BY <3>2, <3>3, <3>4
  <2> QED
    BY <2>2, <2>3, <2>4
<1> QED
  BY <1>6, <1>8 DEF RefsCoverRows

\* The insert uses up the reference counted before it, or fails on the
\* primary key and leaves one reference too many.
LEMMA InsertCovers ==
    ASSUME TypeOK, StoreInv, InsertRow
    PROVE  RowsAreIndexed' /\ RefsCoverRows'
<1>1. batch \in Seq(Event) /\ batch # <<>> /\ pc = "row"
  BY DEF InsertRow, Release, TypeOK
<1>2. Current \in Event /\ events \subseteq Event
  BY <1>1 DEF Current, TypeOK
<1>3. /\ events' = events \cup {Current}
      /\ indexed' = indexed /\ refs' = refs
      /\ pc' # "row"
  BY DEF InsertRow, Release, Finish
<1>4. RowsAreIndexed'
  BY <1>1, <1>3 DEF StoreInv, RowsAreIndexed, CurrentHash
<1>5. ASSUME NEW h \in indexed
      PROVE  refs[h] >= 1 /\ refs[h] >= Count(events, h)' + Pending(h)'
  <2>1. Count(events, h)' = Count(events \cup {Current}, h)
    BY <1>3 DEF Count, RowsOf
  <2>2. Pending(h)' = 0
    BY <1>3 DEF Pending
  <2>3. Pending(h) = IF HashOf[Current] = h THEN 1 ELSE 0
    BY <1>1 DEF Pending, CurrentHash
  <2>4. Count(events \cup {Current}, h) <= Count(events, h) + Pending(h)
    BY <1>2, <2>3, CountInsert
  <2>5. refs[h] >= 1 /\ refs[h] >= Count(events, h) + Pending(h)
    BY <1>5 DEF StoreInv, RefsCoverRows
  <2>6. Pending(h) \in Nat /\ refs[h] \in Nat
    BY <2>3 DEF TypeOK
  <2>7. Count(events, h) \in Nat /\ Count(events \cup {Current}, h) \in Nat
    BY <1>2, CountType
  <2> QED
    BY <2>1, <2>2, <2>4, <2>5, <2>6, <2>7
<1> QED
  BY <1>3, <1>4, <1>5 DEF RefsCoverRows

\* A purge removes an index row only when no event is left, sets the others
\* it met to the exact count, and leaves the rest too large if anything.
LEMMA PurgeCovers ==
    ASSUME TypeOK, MutexHeld, StoreInv, PurgeCommit
    PROVE  RowsAreIndexed' /\ RefsCoverRows'
<1> DEFINE hit  == Impacted(crit, events)
           gone == {h \in hit : Unlinks(crit, events, refs, h)}
           left == Remaining(crit, events)
<1>1. /\ events' = left
      /\ indexed' = indexed \ gone
      /\ refs' = [h \in Hash |-> IF h \in hit THEN Count(left, h) ELSE refs[h]]
      /\ pc' = pc
  BY DEF PurgeCommit, worker
<1>2. left \subseteq events /\ events \subseteq Event /\ indexed \subseteq Hash
  BY DoomedStored DEF TypeOK
<1>3. pc # "row"
  BY DEF PurgeCommit, MutexHeld
<1>4. RowsAreIndexed'
  <2>1. ASSUME NEW e \in left PROVE HashOf[e] \in indexed \ gone
    <3>1. HashOf[e] \in indexed
      BY <1>2, <2>1 DEF StoreInv, RowsAreIndexed
    <3>2. RowsOf(left, HashOf[e]) # {}
      BY <2>1 DEF RowsOf
    <3> QED
      BY <3>1, <3>2 DEF Unlinks
  <2> QED
    BY <1>1, <1>3, <2>1 DEF RowsAreIndexed
<1>5. ASSUME NEW h \in indexed, h \notin gone
      PROVE  refs'[h] >= 1 /\ refs'[h] >= Count(left, h)
  <2>1. Count(left, h) \in Nat /\ Count(events, h) \in Nat
        /\ Count(left, h) <= Count(events, h)
    BY <1>2, CountType, CountMonotone
  <2>2. h \in Hash /\ refs[h] \in Nat
    BY <1>2, <1>5 DEF TypeOK
  <2>3. Pending(h) = 0
    BY <1>3 DEF Pending
  <2>4. refs[h] >= 1 /\ refs[h] >= Count(events, h)
    BY <1>5, <2>1, <2>2, <2>3 DEF StoreInv, RefsCoverRows
  <2>5. CASE h \notin hit
    BY <1>1, <2>1, <2>2, <2>4, <2>5
  <2>6. CASE h \in hit
    <3>1. refs'[h] = Count(left, h)
      BY <1>1, <2>2, <2>6
    <3>2. RowsOf(left, h) # {}
      BY <1>5, <2>2, <2>4, <2>6 DEF Unlinks
    <3>3. Count(left, h) # 0
      BY <1>2, <3>2, CountType, FS_EmptySet DEF Count
    <3> QED
      BY <2>1, <3>1, <3>3
  <2> QED
    BY <2>5, <2>6
<1>6. ASSUME NEW h \in indexed'
      PROVE  refs'[h] >= 1 /\ refs'[h] >= Count(events, h)' + Pending(h)'
  <2>1. Count(events, h)' = Count(left, h)
    BY <1>1 DEF Count, RowsOf
  <2>2. Pending(h)' = 0
    BY <1>1, <1>3 DEF Pending
  <2>3. h \in indexed /\ h \notin gone
    BY <1>1, <1>6
  <2>4. Count(left, h) \in Nat
    BY <1>2, CountType
  <2>5. refs'[h] >= 1 /\ refs'[h] >= Count(left, h)
    BY <1>5, <2>3
  <2> QED
    BY <2>1, <2>2, <2>4, <2>5
<1> QED
  BY <1>4, <1>6 DEF RefsCoverRows

\* StoreInv is inductive: upsert, insert, commit and insert_chunks are the
\* steps that change the tables, and keep the four parts together.
THEOREM StoreInvStep ==
    TypeOK /\ MutexHeld /\ StoreInv /\ [Next]_vars => StoreInv'
<1> SUFFICES ASSUME TypeOK, MutexHeld, StoreInv, [Next]_vars PROVE StoreInv'
  OBVIOUS
\* Steps that leave the tables and the purge alone.
<1>1. ASSUME UNCHANGED <<tables, lock, crit>>, pc' # "row" \/ UNCHANGED <<pc, batch>>
      PROVE  StoreInv'
  <2>1. RowsAreIndexed' /\ RefsCoverRows'
    BY <1>1, TablesUntouched DEF tables
  <2>2. PurgeClean' /\ ChunksOfStored'
    BY <1>1 DEF tables, StoreInv, PurgeClean, ChunksOfStored
  <2> QED
    BY <2>1, <2>2 DEF StoreInv
\* Steps that keep a purge from being in progress afterwards.
<1>2. ASSUME lock' # "purge", chunks' \subseteq events',
             RowsAreIndexed' /\ RefsCoverRows'
      PROVE  StoreInv'
  BY <1>2 DEF StoreInv, PurgeClean, ChunksOfStored
<1>3. ASSUME NEW e \in Event, PostEvent(e) PROVE StoreInv'
  BY <1>1, <1>3 DEF PostEvent, purging
<1>4. CASE Receive \/ FlushTimer
  BY <1>1, <1>4 DEF Receive, FlushTimer, TakeBatch, purging
<1>5. CASE SkipBlob \/ SaveCreate \/ SaveWrite
  BY <1>1, <1>5 DEF SkipBlob, SaveCreate, SaveWrite, purging
<1>6. CASE UpsertIndex
  <2>1. lock' # "purge" /\ chunks' \subseteq events'
    BY <1>6 DEF UpsertIndex, StoreInv, ChunksOfStored
  <2> QED
    BY <1>2, <1>6, <2>1, UpsertCovers
<1>7. CASE InsertRow
  <2>1. lock' # "purge" /\ chunks' \subseteq events'
    BY <1>7 DEF InsertRow, Release, StoreInv, ChunksOfStored
  <2> QED
    BY <1>2, <1>7, <2>1, InsertCovers
<1>8. CASE ResolveBlob \/ JobSucceeds
  BY <1>1, <1>8 DEF ResolveBlob, JobSucceeds, Finish, purging
<1>9. CASE JobFails
  BY <1>1, <1>9 DEF JobFails, Finish, purging
<1>10. CASE InsertChunks
  <2>1. lock' # "purge" /\ chunks' \subseteq events'
    BY <1>10 DEF InsertChunks, ChunkRows, StoreInv, ChunksOfStored
  <2>2. UNCHANGED <<events, indexed, refs>> /\ pc' # "row"
    BY <1>10 DEF InsertChunks, Finish
  <2> QED
    BY <1>2, <2>1, <2>2, TablesUntouched
<1>11. ASSUME NEW c \in Criteria, PurgeNothing(c) \/ PurgeRefused(c)
       PROVE  StoreInv'
  BY <1>1, <1>11 DEF PurgeNothing, PurgeRefused, worker
<1>12. ASSUME NEW c \in Criteria, PurgeBegin(c) PROVE StoreInv'
  <2>1. UNCHANGED <<events, indexed, refs, chunks, pc, batch>>
    BY <1>12 DEF PurgeBegin, worker, tables
  <2>2. PurgeClean'
    BY <1>12, <2>1 DEF PurgeBegin, PurgeClean
  <2> QED
    BY <2>1, <2>2, TablesUntouched DEF StoreInv, ChunksOfStored
<1>13. ASSUME NEW h \in Hash, PurgeHash(h) PROVE StoreInv'
  BY <1>1, <1>13 DEF PurgeHash, worker
<1>14. CASE PurgeCommit
  <2>1. events' = Remaining(crit, events) /\ chunks' = chunks /\ lock' = "free"
    BY <1>14 DEF PurgeCommit, EndPurge
  <2>2. chunks' \subseteq events'
    BY <1>14, <2>1 DEF PurgeCommit, StoreInv, PurgeClean, ChunksOfStored, Remaining
  <2> QED
    BY <1>2, <1>14, <2>1, <2>2, PurgeCovers
<1>15. CASE ProcessFails
  <2>1. UNCHANGED <<events, indexed, refs, chunks, crit>> /\ pc' # "row"
    BY <1>15 DEF ProcessFails, Finish, tables, purging
  <2>2. lock' = "free" \/ lock' = lock
    BY <1>15 DEF ProcessFails
  <2>3. PurgeClean' /\ ChunksOfStored'
    BY <2>1, <2>2 DEF StoreInv, PurgeClean, ChunksOfStored
  <2> QED
    BY <2>1, <2>3, TablesUntouched DEF StoreInv
<1>16. CASE PurgeFails
  <2>1. lock' # "purge" /\ chunks' \subseteq events'
    BY <1>16 DEF PurgeFails, EndPurge, tables, StoreInv, ChunksOfStored
  <2>2. UNCHANGED <<events, indexed, refs, pc, batch>>
    BY <1>16 DEF PurgeFails, tables, worker
  <2> QED
    BY <1>2, <2>1, <2>2, TablesUntouched
<1>17. CASE Crash
  <2>1. lock' # "purge" /\ chunks' \subseteq events'
    BY <1>17 DEF Crash, EndPurge, tables, StoreInv, ChunksOfStored
  <2>2. UNCHANGED <<events, indexed, refs>> /\ pc' # "row"
    BY <1>17 DEF Crash, tables
  <2> QED
    BY <1>2, <2>1, <2>2, TablesUntouched
<1>18. CASE NextDay
  BY <1>1, <1>18 DEF NextDay, worker, purging
<1>19. CASE UNCHANGED vars
  BY <1>1, <1>19 DEF vars, worker, purging
<1> QED
  BY <1>3, <1>4, <1>5, <1>6, <1>7, <1>8, <1>9, <1>10, <1>11, <1>12, <1>13,
     <1>14, <1>15, <1>16, <1>17, <1>18, <1>19 DEF Next, Process

\* The four parts of StoreInv hold in every reachable state of the daemon.
THEOREM StoreCorrect == Spec => []StoreInv
<1>1. Init => StoreInv
  BY DEF Init, StoreInv, PurgeClean, RowsAreIndexed, RefsCoverRows, ChunksOfStored
<1> QED
  BY <1>1, StoreInvStep, TypeCorrect, MutexCorrect, PTL DEF Spec

\* Every stored event's hash has an index row, so no foreign key ever fires
\* on an insert into events or a delete from blob_index.
THEOREM EventsAreIndexed == Spec => []RowsAreIndexed
BY StoreCorrect, PTL DEF StoreInv

\* ref_count is positive and never below the number of events with the hash,
\* through duplicates, purges, failed statements and crashes.
THEOREM CountsAreSafe == Spec => []RefsCoverRows
BY StoreCorrect, PTL DEF StoreInv

\* Chunks belong to stored events.
THEOREM ChunksBelongToEvents == Spec => []ChunksOfStored
BY StoreCorrect, PTL DEF StoreInv

-----------------------------------------------------------------------------
(* Back-pressure.                                                           *)

\* The buffer is below a batch while the worker receives and empty while it
\* processes; the channel and the batch keep their own limits.
BoundInv ==
    /\ Len(queue) <= QueueCap
    /\ Len(batch) <= BatchSize
    /\ Len(buf) < BatchSize
    /\ pc # "receive" => buf = <<>>

\* BoundInv is inductive: the worker receives only while its batch is empty.
THEOREM BoundInvStep == TypeOK /\ BoundInv /\ [Next]_vars => BoundInv'
<1> SUFFICES ASSUME TypeOK, BoundInv, [Next]_vars PROVE BoundInv'
  OBVIOUS
<1> USE DaemonAssumption DEF BoundInv
<1>1. /\ queue \in Seq(Event) /\ buf \in Seq(Event) /\ batch \in Seq(Event)
      /\ pc = "receive" <=> batch = <<>>
  BY DEF TypeOK
<1>2. Len(queue) \in Nat /\ Len(buf) \in Nat /\ Len(batch) \in Nat
      /\ Len(<<>>) = 0
  BY <1>1, LenProperties, EmptySeq
<1>3. ASSUME UNCHANGED <<queue, buf>>, Finish, batch # <<>> PROVE BoundInv'
  <2>1. Len(batch') = Len(batch) - 1
    BY <1>1, <1>3 DEF Finish
  <2> QED
    BY <1>1, <1>2, <1>3, <2>1
<1>4. ASSUME UNCHANGED <<queue, buf, batch>>, pc # "receive" PROVE BoundInv'
  BY <1>1, <1>4
<1>5. ASSUME NEW e \in Event, PostEvent(e) PROVE BoundInv'
  <2>1. Len(queue') = Len(queue) + 1 /\ Len(queue) < QueueCap
    BY <1>1, <1>5 DEF PostEvent
  <2> QED
    BY <1>2, <1>5, <2>1 DEF PostEvent
<1>6. CASE Receive
  <2> DEFINE b == Append(buf, Head(queue))
  <2>1. Len(queue') = Len(queue) - 1 /\ Len(b) = Len(buf) + 1
    BY <1>1, <1>6 DEF Receive
  <2>2. CASE Len(b) >= BatchSize
    <3>1. batch' = b /\ buf' = <<>>
      BY <1>6, <2>2 DEF Receive, TakeBatch
    <3> QED
      BY <1>2, <2>1, <3>1
  <2>3. CASE ~(Len(b) >= BatchSize)
    <3>1. batch' = batch /\ buf' = b /\ pc' = "receive"
      BY <1>6, <2>3 DEF Receive
    <3> QED
      BY <1>2, <2>1, <2>3, <3>1
  <2> QED
    BY <2>2, <2>3
<1>7. CASE FlushTimer
  <2>1. CASE Buffered
    BY <1>2, <1>7, <2>1 DEF FlushTimer, TakeBatch
  <2>2. CASE ~Buffered
    BY <1>7, <2>2 DEF FlushTimer
  <2> QED
    BY <2>1, <2>2
<1>8. CASE SkipBlob \/ SaveCreate \/ SaveWrite \/ UpsertIndex \/ ResolveBlob
  BY <1>4, <1>8 DEF SkipBlob, SaveCreate, SaveWrite, UpsertIndex, ResolveBlob
<1>9. CASE InsertRow \/ JobSucceeds \/ JobFails \/ InsertChunks \/ ProcessFails
  <2>1. UNCHANGED <<queue, buf>> /\ batch # <<>> /\ pc # "receive"
        /\ (Finish \/ UNCHANGED batch)
    BY <1>1, <1>9 DEF InsertRow, Release, JobSucceeds, JobFails, InsertChunks, ProcessFails
  <2> QED
    BY <1>3, <1>4, <2>1
<1>10. ASSUME NEW c \in Criteria, PurgeNothing(c) \/ PurgeRefused(c) \/ PurgeBegin(c)
       PROVE  BoundInv'
  BY <1>10 DEF PurgeNothing, PurgeRefused, PurgeBegin, worker
<1>11. ASSUME NEW h \in Hash, PurgeHash(h) PROVE BoundInv'
  BY <1>11 DEF PurgeHash, worker
<1>12. CASE PurgeCommit \/ PurgeFails \/ NextDay
  BY <1>12 DEF PurgeCommit, PurgeFails, NextDay, worker
<1>13. CASE Crash
  BY <1>2, <1>13 DEF Crash
<1>14. CASE UNCHANGED vars
  BY <1>14 DEF vars, worker
<1> QED
  BY <1>5, <1>6, <1>7, <1>8, <1>9, <1>10, <1>11, <1>12, <1>13, <1>14
     DEF Next, Process

\* The limits of channel, buffer and batch hold in every reachable state.
THEOREM BoundsKept == Spec => []BoundInv
<1>1. Init => BoundInv
  <2>1. Len(<<>>) = 0
    BY EmptySeq
  <2> QED
    BY <2>1, DaemonAssumption DEF Init, BoundInv
<1> QED
  BY <1>1, BoundInvStep, TypeCorrect, PTL DEF Spec

\* The daemon never holds more than QueueCap + BatchSize envelopes, for any
\* capacity and batch size.
THEOREM InFlightIsBounded == Spec => []BoundedInFlight
<1>1. TypeOK /\ BoundInv => BoundedInFlight
  <2> SUFFICES ASSUME TypeOK, BoundInv PROVE BoundedInFlight
    OBVIOUS
  <2>1. /\ queue \in Seq(Event) /\ buf \in Seq(Event) /\ batch \in Seq(Event)
        /\ pc = "receive" <=> batch = <<>>
    BY DEF TypeOK
  <2>2. Len(queue) \in Nat /\ Len(buf) \in Nat /\ Len(batch) \in Nat
        /\ Len(<<>>) = 0
    BY <2>1, LenProperties, EmptySeq
  <2>3. CASE pc = "receive"
    <3>1. Len(batch) = 0
      BY <2>1, <2>2, <2>3
    <3> QED
      BY <2>2, <3>1, DaemonAssumption DEF BoundInv, BoundedInFlight
  <2>4. CASE pc # "receive"
    <3>1. Len(buf) = 0
      BY <2>2, <2>4 DEF BoundInv
    <3> QED
      BY <2>2, <3>1, DaemonAssumption DEF BoundInv, BoundedInFlight
  <2> QED
    BY <2>3, <2>4
<1> QED
  BY <1>1, BoundsKept, TypeCorrect, PTL

-----------------------------------------------------------------------------
(* What a purge does to files, rows and its response.                       *)

\* From the unlinking of a file to the commit or the rollback, the purge's
\* verdict on its hash stays right: nobody else writes the tables meanwhile.
UnlinkInv ==
    lock = "purge" =>
        /\ todo \subseteq Impacted(crit, events)
        /\ \A h \in unlinked : /\ h \in Impacted(crit, events)
                               /\ Unlinks(crit, events, refs, h)

\* Every step either leaves what UnlinkInv speaks of alone or is the purge's.
LEMMA UnlinkInvStep == MutexHeld /\ UnlinkInv /\ [Next]_vars => UnlinkInv'
<1> SUFFICES ASSUME MutexHeld, UnlinkInv, [Next]_vars PROVE UnlinkInv'
  OBVIOUS
<1>1. ASSUME UNCHANGED <<lock, crit, todo, unlinked, events, refs>>
      PROVE  UnlinkInv'
  BY <1>1 DEF UnlinkInv
<1>2. ASSUME lock' # "purge" PROVE UnlinkInv'
  BY <1>2 DEF UnlinkInv
<1>3. ASSUME NEW e \in Event, PostEvent(e) PROVE UnlinkInv'
  BY <1>1, <1>3 DEF PostEvent, purging, tables
<1>4. CASE Receive \/ FlushTimer
  BY <1>1, <1>4 DEF Receive, FlushTimer, purging, tables
<1>5. CASE SkipBlob \/ SaveCreate \/ SaveWrite
  BY <1>1, <1>5 DEF SkipBlob, SaveCreate, SaveWrite, purging, tables
<1>6. CASE UpsertIndex
  BY <1>2, <1>6 DEF UpsertIndex
<1>7. CASE InsertRow
  BY <1>2, <1>7 DEF InsertRow, Release
<1>8. CASE ResolveBlob \/ JobSucceeds \/ JobFails
  BY <1>1, <1>8 DEF ResolveBlob, JobSucceeds, JobFails, purging, tables
<1>9. CASE InsertChunks
  BY <1>1, <1>9 DEF InsertChunks, purging
<1>10. ASSUME NEW c \in Criteria, PurgeNothing(c) \/ PurgeRefused(c)
       PROVE  UnlinkInv'
  BY <1>1, <1>10 DEF PurgeNothing, PurgeRefused, tables
<1>11. ASSUME NEW c \in Criteria, PurgeBegin(c) PROVE UnlinkInv'
  BY <1>11 DEF PurgeBegin, UnlinkInv, tables
<1>12. ASSUME NEW h \in Hash, PurgeHash(h) PROVE UnlinkInv'
  <2>1. /\ todo \subseteq Impacted(crit, events) /\ h \in todo
        /\ \A g \in unlinked : g \in Impacted(crit, events)
                               /\ Unlinks(crit, events, refs, g)
    BY <1>12 DEF PurgeHash, UnlinkInv
  <2>2. /\ todo' = todo \ {h} /\ UNCHANGED <<lock, crit, events, refs>>
        /\ \/ unlinked' = unlinked \cup {h} /\ Unlinks(crit, events, refs, h)
           \/ unlinked' = unlinked
    BY <1>12 DEF PurgeHash, tables
  <2> QED
    BY <2>1, <2>2 DEF UnlinkInv
<1>13. CASE PurgeCommit \/ PurgeFails \/ Crash
  BY <1>2, <1>13 DEF PurgeCommit, PurgeFails, Crash, EndPurge
<1>14. CASE ProcessFails
  BY <1>1, <1>2, <1>14 DEF ProcessFails, purging, tables
<1>15. CASE NextDay
  BY <1>1, <1>15 DEF NextDay, purging, tables
<1>16. CASE UNCHANGED vars
  BY <1>1, <1>16 DEF vars, purging, tables
<1> QED
  BY <1>3, <1>4, <1>5, <1>6, <1>7, <1>8, <1>9, <1>10, <1>11, <1>12, <1>13,
     <1>14, <1>15, <1>16 DEF Next, Process

\* Only the purge in progress turns an indexed file into none, and remembers
\* it.
LEMMA UnlinkStep ==
    ASSUME TypeOK, [Next]_vars, NEW h \in indexed,
           files[<<path[h], h>>] # "none", files'[<<path[h], h>>] = "none"
    PROVE  lock = "purge" /\ h \in unlinked'
<1> DEFINE p == <<path[h], h>>
<1>1. /\ files \in [Day \X Hash -> {"none", "torn", "whole"}]
      /\ p \in Day \X Hash
  BY DEF TypeOK
<1>2. files'[p] # files[p]
  OBVIOUS
<1>3. CASE SaveCreate
  <2>1. files' = [files EXCEPT ![<<today, CurrentHash>>] = "torn"]
    BY <1>3 DEF SaveCreate
  <2>2. files'[p] = "torn" \/ files'[p] = files[p]
    BY <1>1, <2>1
  <2> QED
    BY <1>2, <2>2
<1>4. CASE SaveWrite
  <2> DEFINE w == <<blobDay, CurrentHash>>
  <2>1. files' = [files EXCEPT ![w] = IF files[w] = "torn" THEN "whole" ELSE files[w]]
    BY <1>4 DEF SaveWrite
  <2>2. files'[p] = "whole" \/ files'[p] = files[p]
    BY <1>1, <2>1
  <2> QED
    BY <1>2, <2>2
<1>5. ASSUME NEW g \in Hash, PurgeHash(g)
      PROVE  lock = "purge" /\ h \in unlinked'
  <2>1. /\ files' = [files EXCEPT ![<<path[g], g>>] = "none"]
        /\ unlinked' = unlinked \cup {g}
    BY <1>2, <1>5 DEF PurgeHash
  <2>2. h = g
    BY <1>1, <1>2, <2>1
  <2> QED
    BY <1>5, <2>1, <2>2 DEF PurgeHash
<1>6. ASSUME UNCHANGED files PROVE FALSE
  BY <1>2, <1>6
<1> QED
  BY <1>3, <1>4, <1>5, <1>6
     DEF Next, Process, PostEvent, Receive, FlushTimer, SkipBlob, UpsertIndex,
         InsertRow, Release, ResolveBlob, JobSucceeds, JobFails, InsertChunks,
         PurgeNothing, PurgeRefused, PurgeBegin, PurgeCommit, ProcessFails,
         PurgeFails, Crash, NextDay, vars

\* Without a fault a purge gives the mutex back only by its commit.
LEMMA CommitEnds ==
    ASSUME TypeOK, MutexHeld, [Next]_vars, lock = "purge", lock' # "purge",
           faults' = faults
    PROVE  PurgeCommit
<1>1. faults \in Nat
  BY DaemonAssumption DEF TypeOK
<1>2. ~(ProcessFails \/ PurgeFails \/ Crash)
  BY <1>1 DEF ProcessFails, PurgeFails, Crash
<1>3. ~(UpsertIndex \/ InsertRow)
  BY DEF MutexHeld, UpsertIndex, InsertRow
<1>4. ASSUME UNCHANGED lock PROVE FALSE
  BY <1>4
<1> QED
  BY <1>2, <1>3, <1>4
     DEF Next, Process, PostEvent, Receive, FlushTimer, SkipBlob, SaveCreate,
         SaveWrite, ResolveBlob, JobSucceeds, JobFails, InsertChunks,
         PurgeNothing, PurgeRefused, PurgeBegin, PurgeHash, NextDay, vars

\* A file an index row points to disappears only while a purge holds the
\* mutex, and that purge, unless it fails, leaves no event and no index row
\* for it.
THEOREM UnlinkIsSafe == Spec => UnlinkSafe
<1> DEFINE Vanishes(h) ==
               files[<<path[h], h>>] # "none" /\ files'[<<path[h], h>>] = "none"
           Safe ==
               /\ \A h \in indexed :
                      Vanishes(h) => lock = "purge" /\ h \in unlinked'
               /\ lock = "purge" /\ lock' # "purge" /\ faults' = faults
                  => \A h \in unlinked :
                        h \notin indexed' /\ RowsOf(events', h) = {}
<1>1. Init => UnlinkInv
  BY DEF Init, UnlinkInv
<1>2. ASSUME UnlinkInv, PurgeCommit, NEW h \in unlinked
      PROVE  h \notin indexed' /\ RowsOf(events', h) = {}
  <2>1. h \in Impacted(crit, events) /\ Unlinks(crit, events, refs, h)
    BY <1>2 DEF PurgeCommit, UnlinkInv
  <2>2. h \notin indexed' /\ events' = Remaining(crit, events)
    BY <1>2, <2>1 DEF PurgeCommit
  <2> QED
    BY <2>1, <2>2 DEF Unlinks
<1>3. TypeOK /\ MutexHeld /\ UnlinkInv /\ [Next]_vars => [Safe]_vars
  BY <1>2, UnlinkStep, CommitEnds
<1> QED
  BY <1>1, <1>3, UnlinkInvStep, TypeCorrect, MutexCorrect, PTL
     DEF Spec, UnlinkSafe

\* What the commit of a purge without event_ids does to rows and index, and
\* what its response says, agree.
THEOREM FilterPurgesAreExact == Spec => FilterPurgeIsExact
<1> DEFINE hit  == Impacted(crit, events)
           gone == {h \in hit : Unlinks(crit, events, refs, h)}
           Exact ==
               PurgeCommit /\ ~crit.hasIds
               => /\ events \ events' = Matching(crit, events)
                  /\ \A h \in hit : h \in indexed' <=> RowsOf(events', h) # {}
                  /\ ReportedEvents(crit, events) = Cardinality(events \ events')
                  /\ ReportedBlobs(crit, events, refs)
                        = Cardinality(indexed \ indexed')
<1>1. TypeOK /\ MutexHeld /\ StoreInv => Exact
  <2> SUFFICES ASSUME TypeOK, MutexHeld, StoreInv, PurgeCommit, ~crit.hasIds
               PROVE  Exact
    OBVIOUS
  <2>1. events' = Remaining(crit, events) /\ indexed' = indexed \ gone
    BY DEF PurgeCommit
  <2>2. Doomed(crit, events) = Matching(crit, events)
    BY DEF Doomed
  <2>3. events \ events' = Matching(crit, events)
    BY <2>1, <2>2 DEF Remaining, Matching
  <2>4. hit \subseteq indexed
    BY DEF Impacted, Matching, StoreInv, RowsAreIndexed
  <2>5. indexed \ indexed' = gone
    BY <2>1, <2>4
  <2>6. ASSUME NEW h \in hit PROVE h \in indexed' <=> RowsOf(events', h) # {}
    <3>1. refs[h] > 0
      <4>1. h \in indexed /\ refs[h] \in Nat
        BY <2>4, <2>6 DEF TypeOK
      <4> QED
        BY <4>1 DEF StoreInv, RefsCoverRows
    <3>2. h \in gone <=> RowsOf(Remaining(crit, events), h) = {}
      BY <2>6, <3>1 DEF Unlinks
    <3> QED
      BY <2>1, <2>4, <2>6, <3>2
  <2>7. ReportedEvents(crit, events) = Cardinality(events \ events')
    BY <2>2, <2>3 DEF ReportedEvents
  <2>8. ReportedBlobs(crit, events, refs) = Cardinality(indexed \ indexed')
    BY <2>5 DEF ReportedBlobs
  <2> QED
    BY <2>3, <2>6, <2>7, <2>8
<1>2. TypeOK /\ MutexHeld /\ StoreInv /\ [Next]_vars => [Exact]_vars
  BY <1>1
<1> QED
  BY <1>2, TypeCorrect, MutexCorrect, StoreCorrect, PTL
     DEF Spec, FilterPurgeIsExact
=============================================================================
