------------------------------- MODULE Daemon -------------------------------
(***************************************************************************)
(* The daemon's ingest worker, its storage and its purge handler running   *)
(* against each other (daemon/src/handlers.rs, queue.rs, storage/db.rs,    *)
(* storage/blobs.rs).                                                      *)
(*                                                                         *)
(* Three actors interleave: POST handlers fill a bounded channel, one      *)
(* worker batches and processes it, purge handlers run whole transactions  *)
(* under the mutex of the one SQLite connection.  Blob files and the       *)
(* intelligence subprocess are reached without that mutex.  Statements     *)
(* outside a transaction commit one by one, so a crash may fall between    *)
(* any two of them, and between removing a blob file and committing.       *)
(***************************************************************************)
EXTENDS Tables, Sequences

CONSTANTS
    NeverStore,     \* envelopes whose privacy_flag is never_store
    HasPointer,     \* envelopes with a non-empty content_pointer
    Criteria,       \* purge requests clients send
    QueueCap,       \* capacity of the mpsc channel (1024)
    BatchSize,      \* BATCH_SIZE (64)
    MaxRetries,     \* attempts of the intelligence subprocess (3)
    MaxPosts,       \* bound: accepted POSTs
    MaxPurges,      \* bound: purge requests
    MaxFaults,      \* bound: I/O failures and crashes
    MaxDay          \* bound: the last calendar day

ASSUME DaemonAssumption ==
    /\ NeverStore \subseteq Event
    /\ HasPointer \subseteq Event
    /\ Criteria \subseteq PurgeCriteria
    /\ QueueCap \in Nat \ {0}
    /\ BatchSize \in Nat \ {0}
    /\ MaxRetries \in Nat \ {0}
    /\ MaxPosts \in Nat /\ MaxPurges \in Nat /\ MaxFaults \in Nat
    /\ MaxDay \in Nat

Day == 0 .. MaxDay
NoDay == -1         \* no blob path: the worker falls back to content_pointer

VARIABLES
    queue,      \* the channel: accepted envelopes
    buf,        \* the worker's buffer
    batch,      \* the batch being processed; its head is the current envelope
    pc,         \* where the worker is
    blobDay,    \* the dated directory in the blob path the worker holds
    attempts,   \* finished attempts of the current intelligence job
    lock,       \* who holds the connection's mutex
    events,     \* ids with a row in events
    indexed,    \* hashes with a row in blob_index
    path,       \* blob_path: the day in it
    refs,       \* ref_count
    chunks,     \* events with rows in chunks
    files,      \* blob files, by day and hash
    today,      \* the UTC date
    crit,       \* the purge in progress: its criteria
    todo,       \* ... the impacted hashes not recounted yet
    unlinked,   \* ... and those whose files it removed; read by no action
    reply,      \* outcome of the latest purge request
    posts, purges, faults       \* counters behind the bounds

worker  == <<queue, buf, batch, pc, blobDay, attempts>>
tables  == <<events, indexed, path, refs, chunks>>
purging == <<crit, todo, unlinked, reply, purges>>
vars    == <<worker, lock, tables, files, today, purging, posts, faults>>

WorkerPC == {"receive", "event", "write", "upsert", "row",
             "intel", "job", "chunks"}

Init ==
    /\ queue = <<>> /\ buf = <<>> /\ batch = <<>>
    /\ pc = "receive" /\ blobDay = NoDay /\ attempts = 0
    /\ lock = "free"
    /\ events = {} /\ indexed = {} /\ chunks = {}
    /\ path = [h \in Hash |-> 0]
    /\ refs = [h \in Hash |-> 0]
    /\ files = [b \in Day \X Hash |-> "none"]
    /\ today = 0
    /\ crit = NoCriteria /\ todo = {} /\ unlinked = {} /\ reply = "none"
    /\ posts = 0 /\ purges = 0 /\ faults = 0

Current == Head(batch)
CurrentHash == HashOf[Current]

-----------------------------------------------------------------------------
(* post_event: a valid envelope from a known client is sent on the channel, *)
(* waiting for room, and answered 202.  Clients retry, so the same envelope *)
(* may be accepted again.                                                   *)
PostEvent(e) ==
    /\ posts < MaxPosts
    /\ Len(queue) < QueueCap
    /\ queue' = Append(queue, e)
    /\ posts' = posts + 1
    /\ UNCHANGED <<buf, batch, pc, blobDay, attempts, lock, tables, files,
                   today, purging, faults>>

\* Mutant of TakeBatch: the buffer is not emptied when it is flushed.
TakeBatchKeepsBuffer(b) ==
    /\ batch' = b
    /\ buf' = b
    /\ pc' = "event"

\* flush_batch takes the whole buffer and awaits its processing.
TakeBatch(b) ==
    /\ batch' = b
    /\ buf' = <<>>
    /\ pc' = "event"

\* The worker receives one envelope; a full buffer is flushed at once.
Receive ==
    /\ pc = "receive"
    /\ queue # <<>>
    /\ queue' = Tail(queue)
    /\ LET b == Append(buf, Head(queue))
       IN  IF Len(b) >= BatchSize
           THEN TakeBatch(b)
           ELSE buf' = b /\ UNCHANGED <<batch, pc>>
    /\ UNCHANGED <<blobDay, attempts, lock, tables, files, today, purging,
                   posts, faults>>

\* Mutant of Buffered: the timer leaves a buffer that is not full.
OnlyFullBuffer == Len(buf) >= BatchSize

Buffered == buf # <<>>

\* FLUSH_INTERVAL_MS passed: whatever is buffered is flushed.  The message
\* that would have been received may arrive as the timer fires.
FlushTimer ==
    /\ pc = "receive"
    /\ IF Buffered
       THEN TakeBatch(buf)
       ELSE UNCHANGED <<buf, batch, pc>>
    /\ UNCHANGED <<queue, blobDay, attempts, lock, tables, files, today,
                   purging, posts, faults>>

-----------------------------------------------------------------------------
(* process_event, run for each envelope of the batch.  Any error ends the   *)
(* envelope: it is logged and the worker goes on with the next one.         *)

\* Mutant of Finish: the envelope's end is the end of its batch.
FinishEndsBatch ==
    /\ batch' = <<>>
    /\ pc' = "receive"
    /\ blobDay' = NoDay
    /\ attempts' = 0

Finish ==
    /\ batch' = Tail(batch)
    /\ pc' = IF Len(batch) = 1 THEN "receive" ELSE "event"
    /\ blobDay' = NoDay
    /\ attempts' = 0

\* never_store, or content_pointer names no file: no blob is written.
SkipBlob ==
    /\ pc = "event"
    /\ pc' = "upsert"
    /\ UNCHANGED <<queue, buf, batch, blobDay, attempts, lock, tables, files,
                   today, purging, posts, faults>>

\* save_blob: File::create truncates the file of today's directory ...
SaveCreate ==
    /\ pc = "event"
    /\ Current \in HasPointer \ NeverStore
    /\ files' = [files EXCEPT ![<<today, CurrentHash>>] = "torn"]
    /\ blobDay' = today
    /\ pc' = "write"
    /\ UNCHANGED <<queue, buf, batch, attempts, lock, tables, today, purging,
                   posts, faults>>

\* ... and write_all fills it, or fills a file that was removed meanwhile.
SaveWrite ==
    /\ pc = "write"
    /\ files' = [files EXCEPT ![<<blobDay, CurrentHash>>] =
                     IF @ = "torn" THEN "whole" ELSE @]
    /\ pc' = "upsert"
    /\ UNCHANGED <<queue, buf, batch, blobDay, attempts, lock, tables, today,
                   purging, posts, faults>>

\* Mutants: a known hash is not counted again; only saved blobs are indexed.
RecountKept(h) == refs[h]

IndexSavedOnly == indexed \cup (IF blobDay = NoDay THEN {} ELSE {CurrentHash})

\* ref_count after one more reference to h.
Recount(h) == IF h \in indexed THEN refs[h] + 1 ELSE 1

IndexAll == indexed \cup {CurrentHash}

\* insert_event, first statement (upsert_blob_index), under the mutex: count
\* one more reference, or add the row with a path in today's directory.
UpsertIndex ==
    /\ pc = "upsert"
    /\ lock = "free"
    /\ lock' = "worker"
    /\ pc' = "row"
    /\ indexed' = IndexAll
    /\ refs' = [refs EXCEPT ![CurrentHash] = Recount(CurrentHash)]
    /\ path' = IF CurrentHash \in indexed THEN path
               ELSE [path EXCEPT ![CurrentHash] = today]
    /\ UNCHANGED <<queue, buf, batch, blobDay, attempts, events, chunks, files,
                   today, purging, posts, faults>>

\* The block that holds the connection's guard ends.
Release == lock' = "free"

\* insert_event, second statement: the events row.  A stored id violates the
\* primary key and the error ends the envelope, its extra reference counted.
InsertRow ==
    /\ pc = "row"
    /\ events' = events \cup {Current}
    /\ IF Current \in events \/ Current \in NeverStore
       THEN Finish
       ELSE pc' = "intel" /\ UNCHANGED <<batch, blobDay, attempts>>
    /\ Release
    /\ UNCHANGED <<queue, buf, indexed, path, refs, chunks, files, today,
                   purging, posts, faults>>

\* The handoff asks blob_index for the authoritative path.
ResolveBlob ==
    /\ pc = "intel"
    /\ lock = "free"
    /\ blobDay' = IF CurrentHash \in indexed THEN path[CurrentHash] ELSE NoDay
    /\ pc' = "job"
    /\ UNCHANGED <<queue, buf, batch, attempts, lock, tables, files, today,
                   purging, posts, faults>>

\* The subprocess can read the blob it was given, or the content_pointer.
BlobReadable ==
    IF blobDay = NoDay THEN Current \in HasPointer
    ELSE files[<<blobDay, CurrentHash>>] # "none"

\* The subprocess exits 0; its output holds chunks or none that can be read.
JobSucceeds ==
    /\ pc = "job"
    /\ BlobReadable
    /\ \/ pc' = "chunks" /\ UNCHANGED <<batch, blobDay, attempts>>
       \/ Finish
    /\ UNCHANGED <<queue, buf, lock, tables, files, today, purging, posts,
                   faults>>

\* Mutant of AttemptsLeft: one attempt too many.
OneMoreAttempt == attempts < MaxRetries

AttemptsLeft == attempts + 1 < MaxRetries

\* The subprocess exits non-zero, cannot be spawned or times out.
JobFails ==
    /\ pc = "job"
    /\ IF AttemptsLeft
       THEN attempts' = attempts + 1 /\ UNCHANGED <<batch, pc, blobDay>>
       ELSE Finish
    /\ UNCHANGED <<queue, buf, lock, tables, files, today, purging, posts,
                   faults>>

\* Mutant of ChunkRows: the foreign key is not enforced.
UncheckedChunkRows == {Current}

ChunkRows == {Current} \cap events

\* insert_chunks: the foreign key refuses chunks of an event purged meanwhile
\* and the error is ignored.
InsertChunks ==
    /\ pc = "chunks"
    /\ lock = "free"
    /\ chunks' = chunks \cup ChunkRows
    /\ Finish
    /\ UNCHANGED <<queue, buf, lock, events, indexed, path, refs, files, today,
                   purging, posts, faults>>

-----------------------------------------------------------------------------
(* purge: purge_events runs under the mutex, in one transaction.  Its       *)
(* changes to the tables appear at the commit; the files it removes are     *)
(* gone before.                                                             *)

\* No clause: nothing is deleted and (0, 0) is answered.
PurgeNothing(c) ==
    /\ purges < MaxPurges
    /\ lock = "free"
    /\ ~HasWhere(c)
    /\ purges' = purges + 1
    /\ reply' = "ok"
    /\ UNCHANGED <<worker, lock, tables, files, today, crit, todo, unlinked,
                   posts, faults>>

\* chunks.event_id references events without a cascade: deleting an event
\* that has chunks fails, and the transaction rolls back before any file is
\* removed.
PurgeRefused(c) ==
    /\ purges < MaxPurges
    /\ lock = "free"
    /\ HasWhere(c)
    /\ Doomed(c, events) \cap chunks # {}
    /\ purges' = purges + 1
    /\ reply' = "refused"
    /\ UNCHANGED <<worker, lock, tables, files, today, crit, todo, unlinked,
                   posts, faults>>

\* The rows are deleted inside the transaction.
PurgeBegin(c) ==
    /\ purges < MaxPurges
    /\ lock = "free"
    /\ HasWhere(c)
    /\ Doomed(c, events) \cap chunks = {}
    /\ purges' = purges + 1
    /\ lock' = "purge"
    /\ crit' = c
    /\ todo' = Impacted(c, events)
    /\ unlinked' = {}
    /\ reply' = "none"
    /\ UNCHANGED <<worker, tables, files, today, posts, faults>>

\* One impacted hash is recounted; without rows left its file is removed,
\* whether or not remove_file succeeds.
PurgeHash(h) ==
    /\ lock = "purge"
    /\ h \in todo
    /\ todo' = todo \ {h}
    /\ IF Unlinks(crit, events, refs, h)
       THEN /\ files' = [files EXCEPT ![<<path[h], h>>] = "none"]
            /\ unlinked' = unlinked \cup {h}
       ELSE UNCHANGED <<files, unlinked>>
    /\ UNCHANGED <<worker, lock, tables, today, crit, reply, purges, posts, faults>>

EndPurge ==
    /\ lock' = "free"
    /\ crit' = NoCriteria
    /\ todo' = {}
    /\ unlinked' = {}

PurgeCommit ==
    /\ lock = "purge"
    /\ todo = {}
    /\ LET hit  == Impacted(crit, events)
           gone == {h \in hit : Unlinks(crit, events, refs, h)}
       IN  /\ events' = Remaining(crit, events)
           /\ indexed' = indexed \ gone
           /\ path' = [h \in Hash |-> IF h \in gone THEN 0 ELSE path[h]]
           /\ refs' = [h \in Hash |-> IF h \in hit
                                      THEN Count(Remaining(crit, events), h)
                                      ELSE refs[h]]
    /\ reply' = "ok"
    /\ EndPurge
    /\ UNCHANGED <<worker, chunks, files, today, purges, posts, faults>>

-----------------------------------------------------------------------------
(* Faults and time.                                                         *)

\* An error other than a duplicate id ends the envelope: reading the pointer,
\* writing the blob (which stays torn), a statement, the handoff's directories
\* or its input file.
ProcessFails ==
    /\ faults < MaxFaults
    /\ \/ pc = "event" /\ Current \in HasPointer \ NeverStore
       \/ pc = "upsert" /\ lock = "free"
       \/ pc \in {"write", "row", "intel"}
       \/ pc = "job" /\ attempts = 0
    /\ faults' = faults + 1
    /\ lock' = IF pc = "row" THEN "free" ELSE lock
    /\ Finish
    /\ UNCHANGED <<queue, buf, tables, files, today, purging, posts>>

\* A statement or the commit fails: the tables roll back, the files do not.
PurgeFails ==
    /\ faults < MaxFaults
    /\ lock = "purge"
    /\ faults' = faults + 1
    /\ reply' = "failed"
    /\ EndPurge
    /\ UNCHANGED <<worker, tables, files, today, purges, posts>>

\* The process dies and is started again.  SQLite rolls an open transaction
\* back; the channel, the buffer and the batch are gone.
Crash ==
    /\ faults < MaxFaults
    /\ faults' = faults + 1
    /\ queue' = <<>> /\ buf' = <<>> /\ batch' = <<>>
    /\ pc' = "receive" /\ blobDay' = NoDay /\ attempts' = 0
    /\ reply' = "none"
    /\ EndPurge
    /\ UNCHANGED <<tables, files, today, purges, posts>>

NextDay ==
    /\ today < MaxDay
    /\ today' = today + 1
    /\ UNCHANGED <<worker, lock, tables, files, purging, posts, faults>>

-----------------------------------------------------------------------------
Process ==
    \/ SkipBlob \/ SaveCreate \/ SaveWrite
    \/ UpsertIndex \/ InsertRow
    \/ ResolveBlob \/ JobSucceeds \/ JobFails \/ InsertChunks

Next ==
    \/ \E e \in Event : PostEvent(e)
    \/ Receive
    \/ FlushTimer
    \/ Process
    \/ \E c \in Criteria : PurgeNothing(c) \/ PurgeRefused(c) \/ PurgeBegin(c)
    \/ \E h \in Hash : PurgeHash(h)
    \/ PurgeCommit
    \/ ProcessFails
    \/ PurgeFails
    \/ Crash
    \/ NextDay

Spec == Init /\ [][Next]_vars

\* The worker task and a purge handler that holds the mutex are threads that
\* run on their own; clients, faults and the calendar owe nothing.
Fairness ==
    /\ WF_vars(Receive \/ FlushTimer \/ Process)
    /\ WF_vars(PurgeCommit \/ \E h \in Hash : PurgeHash(h))

FairSpec == Spec /\ Fairness

-----------------------------------------------------------------------------
(* Properties that hold.                                                    *)

\* Every variable keeps its type; the batch is non-empty exactly while the
\* worker processes it.
TypeOK ==
    /\ queue \in Seq(Event) /\ buf \in Seq(Event) /\ batch \in Seq(Event)
    /\ pc \in WorkerPC
    /\ pc = "receive" <=> batch = <<>>
    /\ blobDay \in Day \cup {NoDay}
    /\ attempts \in 0 .. MaxRetries - 1
    /\ lock \in {"free", "worker", "purge"}
    /\ events \subseteq Event /\ chunks \subseteq Event
    /\ indexed \subseteq Hash
    /\ path \in [Hash -> Day]
    /\ refs \in [Hash -> Nat]
    /\ files \in [Day \X Hash -> {"none", "torn", "whole"}]
    /\ today \in Day
    /\ crit \in PurgeCriteria
    /\ todo \subseteq Hash /\ unlinked \subseteq Hash
    /\ reply \in {"none", "ok", "refused", "failed"}
    /\ posts \in 0 .. MaxPosts
    /\ purges \in 0 .. MaxPurges
    /\ faults \in 0 .. MaxFaults

\* Whatever the interleaving of inserts, purges and crashes, an event's hash
\* has a row in blob_index, and so has the hash of the event about to be
\* inserted: upsert_blob_index runs first in the same critical section and a
\* purge removes an index row only with its last event.  So the foreign key
\* never fires on an insert into events or a delete from blob_index.
RowsAreIndexed ==
    /\ \A e \in events : HashOf[e] \in indexed
    /\ pc = "row" => CurrentHash \in indexed

\* The event about to be inserted is counted already.
Pending(h) == IF pc = "row" /\ CurrentHash = h THEN 1 ELSE 0

\* ref_count is positive and never below the number of events that share the
\* blob: two statements without a transaction, duplicates, rollbacks and
\* crashes only make it too large, so no blob is taken for unreferenced early
\* and the purge's test of the former ref_count never keeps a dead row.
RefsCoverRows ==
    \A h \in indexed :
        refs[h] >= 1 /\ refs[h] >= Count(events, h) + Pending(h)

\* chunks rows belong to stored events, although the subprocess runs without
\* the mutex and its event may be purged before its chunks are inserted.
ChunksOfStored == chunks \subseteq events

\* Back-pressure: the channel, the buffer and the batch never hold more
\* envelopes than the channel's capacity and one batch together, since the
\* worker does not receive while it processes.
BoundedInFlight ==
    Len(queue) + Len(buf) + Len(batch) <= QueueCap + BatchSize

\* A blob file that an index row points to disappears only in a purge, while
\* that holds the mutex.  Files are removed one by one before the commit: when
\* the purge lets go of the mutex, no event and no index row are left for any
\* file it removed, whatever events shared it or came in meanwhile, unless a
\* counted fault rolled the rows back.
UnlinkSafe ==
    [][/\ \A h \in indexed :
            files[<<path[h], h>>] # "none" /\ files'[<<path[h], h>>] = "none"
            => lock = "purge" /\ h \in unlinked'
       /\ lock = "purge" /\ lock' # "purge" /\ faults' = faults
            => \A h \in unlinked : h \notin indexed' /\ RowsOf(events', h) = {}
      ]_vars

\* A purge without event_ids deletes the matching events, no index row is
\* left for a hash that lost its last event, and the response reports exactly
\* what the commit did.
FilterPurgeIsExact ==
    [][PurgeCommit /\ ~crit.hasIds
       => /\ events \ events' = Matching(crit, events)
          /\ \A h \in Impacted(crit, events) :
                h \in indexed' <=> RowsOf(events', h) # {}
          /\ ReportedEvents(crit, events) = Cardinality(events \ events')
          /\ ReportedBlobs(crit, events, refs)
                = Cardinality(indexed \ indexed')]_vars

\* Envelopes whose row has not been attempted yet, oldest first.
inbox ==
    (IF pc \in {"intel", "job", "chunks"} THEN Tail(batch) ELSE batch)
        \o buf \o queue

\* The pipeline of channel, buffer, batch and two-statement insert is one
\* FIFO inbox whose envelopes are stored in order, none skipped or stored
\* twice, save for a counted fault.
TL == INSTANCE Timeline WITH
          Capacity <- QueueCap + BatchSize, stored <- events

TimelineSpec == TL!Spec

\* Without faults, an accepted envelope gets its row in the end, even when
\* purges keep the mutex or intelligence jobs fail first.
EveryAcceptedIsStored ==
    \A e \in Event :
        (\E i \in 1 .. Len(inbox) : inbox[i] = e) ~> e \in events

-----------------------------------------------------------------------------
(* Claims of the repository that the code does not keep.                    *)

\* queue.rs: the path in the database is "authoritative": when the envelope's
\* row is stored and its blob was saved by this very run of process_event, the
\* handoff finds the blob at that path.
BlobAtIndexedPath ==
    /\ pc = "intel" /\ lock = "free"
    /\ blobDay # NoDay
    /\ Current \in events
    => files[<<path[CurrentHash], CurrentHash>>] = "whole"

\* openapi.yaml, tests/purge.rs: a purge of stored events completes.
PurgeNeverRefused == reply # "refused"
=============================================================================
