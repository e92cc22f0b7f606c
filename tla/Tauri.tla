------------------------------- MODULE Tauri --------------------------------
(***************************************************************************)
(* What the pages of the desktop app share (app/src/lib/tauri.ts): invoke  *)
(* hands a command to the Tauri shell when there is one, which asks an     *)
(* HTTP service.  Answers come in any order, the promise may be rejected,  *)
(* and an error the service sends as JSON is resolved as if it were an     *)
(* answer, since only get_recent_memories looks at the status              *)
(* (src-tauri/src/main.rs).  Without a shell, mocks answer at once, which  *)
(* is one of these behaviours; they tell what answers look like.           *)
(***************************************************************************)
EXTENDS Integers, Sequences

CONSTANTS
    None,       \* undefined, null, an empty answer
    Blank,      \* a text that is empty once trimmed
    Query,      \* texts typed into the search field
    Mems        \* the memories: records with id, source, age in days, words

VARIABLES
    alive,      \* React's tree is: an exception in a render removes all of it
    hash        \* window.location.hash: what was opened, if anything

ASSUME TauriAssumption ==
    /\ Blank \notin Query
    /\ Mems \in Seq([id : {Mems[k].id : k \in 1 .. Len(Mems)} \ {None},
                     source : {"app", "file", "browser", "email"},
                     age : Nat,
                     words : SUBSET Query])

TauriInit == alive = TRUE /\ hash = None

\* The requests under way, oldest first, when the i-th has settled.
Settled(pending, i) == [k \in 1 .. Len(pending) - 1 |->
                            IF k < i THEN pending[k] ELSE pending[k + 1]]

\* The filters as the mock reads them: a source that is missing or "all"
\* filters nothing, and so does a missing start.
MatchesFilters(m, filters) ==
    /\ filters.source \in {None, "all"} \/ m.source = filters.source
    /\ filters.start = None \/ m.age <= filters.start

\* Notes, Files, Web, Email
BucketSource == <<"app", "file", "browser", "email">>

\* filter: the memories at these places, in their order.
Picked(places) ==
    LET upTo[k \in 0 .. Len(Mems)] ==
            IF k = 0 THEN <<>>
            ELSE IF k \in places THEN Append(upTo[k - 1], Mems[k])
            ELSE upTo[k - 1]
    IN  upTo[Len(Mems)]

\* Buckets of the memories found, in their order in each.
MockSearch(query, filters) ==
    LET found == {k \in DOMAIN Mems : /\ query \in Mems[k].words
                                      /\ MatchesFilters(Mems[k], filters)}
    IN  [b \in DOMAIN BucketSource |->
            Picked({k \in found : Mems[k].source = BucketSource[b]})]
=============================================================================
