------------------------------- MODULE Tables -------------------------------
(***************************************************************************)
(* The daemon's SQLite tables as pure operators: which rows a purge        *)
(* request selects, deletes and recounts (daemon/src/storage/db.rs).       *)
(* `events` is the set of stored event ids; an event's content hash never  *)
(* changes, so it is the constant function HashOf.  A row of `blob_index`  *)
(* is a member of `indexed` with its `refs` and `path` entries.            *)
(***************************************************************************)
EXTENDS Integers, FiniteSets

CONSTANTS
    Event,      \* event ids of valid envelopes
    Hash,       \* content hashes
    HashOf      \* the content_hash each envelope carries

ASSUME TablesAssumption ==
    /\ IsFiniteSet(Event)
    /\ HashOf \in [Event -> Hash]

\* SELECT COUNT( * ) FROM events WHERE content_hash = h
RowsOf(events, h) == {e \in events : HashOf[e] = h}

Count(events, h) == Cardinality(RowsOf(events, h))

(***************************************************************************)
(* A purge request.  `filter` stands for the conjunction of the time, app, *)
(* source and privacy_flag clauses: the envelopes that satisfy all those   *)
(* given.  hasIds is event_ids.is_some(), which an empty list also is.     *)
(***************************************************************************)
PurgeCriteria ==
    [hasIds : BOOLEAN, ids : SUBSET Event,
     hasFilter : BOOLEAN, filter : SUBSET Event]

NoCriteria == [hasIds |-> FALSE, ids |-> {}, hasFilter |-> FALSE, filter |-> {}]

HasWhere(c) == (c.hasIds /\ c.ids # {}) \/ c.hasFilter

\* The rows the WHERE clause selects: every clause given must hold.
Matching(c, events) ==
    {e \in events : /\ c.hasIds /\ c.ids # {} => e \in c.ids
                    /\ c.hasFilter => e \in c.filter}

\* The rows the request deletes: with event_ids, each id listed, whatever
\* the other clauses say; otherwise the rows the WHERE clause selects.
Doomed(c, events) ==
    IF c.hasIds THEN c.ids \cap events ELSE Matching(c, events)

\* The hashes that are recounted: those of the rows the WHERE clause selects.
Impacted(c, events) == {HashOf[e] : e \in Matching(c, events)}

Remaining(c, events) == events \ Doomed(c, events)

\* Mutant of Unlinks: one remaining reference is treated as none.
UnlinksOffByOne(c, events, refs, h) ==
    Count(Remaining(c, events), h) <= 1

\* Whether the purge removes the blob file and the index row of h: no row is
\* left; the branch without ids also wants a positive former ref_count.
Unlinks(c, events, refs, h) ==
    /\ RowsOf(Remaining(c, events), h) = {}
    /\ ~c.hasIds => refs[h] > 0

\* Mutant of ReportedBlobs: every hash met is reported as a blob deleted.
ReportedBlobsAll(c, events, refs) == Cardinality(Impacted(c, events))

\* The counts the response reports.
ReportedEvents(c, events) ==
    IF c.hasIds THEN Cardinality(c.ids) ELSE Cardinality(Doomed(c, events))

ReportedBlobs(c, events, refs) ==
    IF c.hasIds THEN Cardinality(Impacted(c, events))
    ELSE Cardinality({h \in Impacted(c, events) : Unlinks(c, events, refs, h)})
=============================================================================
