------------------------------- MODULE Search -------------------------------
(***************************************************************************)
(* The search page (GlobalSearch.tsx): each change of the criteria starts  *)
(* a timer and stops the one before it; the timer sends a request; whatever*)
(* answer arrives is shown.  Nothing ties an answer to the criteria on     *)
(* screen, and no new answer resets the highlighted index.                 *)
(***************************************************************************)
EXTENDS Tauri, SequencesExt

CONSTANTS
    Source, TimeRange,  \* the options of the two selects
    MaxEdits        \* bound: changes of the criteria in one visit of the page

VARIABLES
    search      \* state of the mounted page

ASSUME SearchAssumption ==
    /\ "all" \in Source /\ "all" \in TimeRange
    /\ MaxEdits \in Nat

Criteria == [query : Query \cup {Blank}, source : Source, range : TimeRange]

\* Mounting runs the effect once, which starts the timer.  The answer shown
\* is known by the criteria it answers.  alone is not in the code: the last
\* time the timer fired, no request was under way, and none has failed since.
FreshSearch ==
    LET start == [query |-> Blank, source |-> "all", range |-> "all"]
    IN  [asks |-> start, timer |-> start, pending |-> <<>>, answer |-> None,
         activeIndex |-> 0, alone |-> TRUE, edits |-> 0]

-----------------------------------------------------------------------------
(* What an answer puts on screen.                                           *)

Days(range) == CASE range = "24h" -> 1 [] range = "7d" -> 7
                 [] range = "30d" -> 30 [] OTHER -> None

Buckets(answer) ==
    IF answer = None THEN <<>>
    ELSE MockSearch(answer.query, [source |-> answer.source,
                                   start |-> Days(answer.range)])

Flat(answer) == FlattenSeq(Buckets(answer))

\* The list is drawn; otherwise the page is empty and its keys do nothing.
ShowsResults == Flat(search.answer) # <<>>

\* Mutant of Before: the option's own bucket is counted too.
BeforeNext(buckets, b) ==
    FoldLeft(LAMBDA n, items : n + Len(items), 0, SubSeq(buckets, 1, b))

\* Options in the buckets before the b-th.
Before(buckets, b) ==
    FoldLeft(LAMBDA n, items : n + Len(items), 0, SubSeq(buckets, 1, b - 1))

\* The ids of the options drawn as active: the list is drawn bucket by bucket.
Highlighted ==
    LET buckets == Buckets(search.answer)
    IN  UNION {{buckets[b][k].id : k \in {k \in DOMAIN buckets[b] :
                    Before(buckets, b) + k - 1 = search.activeIndex}} :
               b \in DOMAIN buckets}

-----------------------------------------------------------------------------
(* The criteria and the timer.                                              *)

\* Mutant of Rearmed: the effect does not depend on the two filters.
RearmedByQuery(c) == IF c.query = search.asks.query THEN search.timer ELSE c

\* The effect's cleanup stops the old timer; its body starts one that knows
\* the criteria of this render.
Rearmed(c) == c

\* The field or one of the selects changes.
Edit(c) ==
    /\ search.edits < MaxEdits
    /\ \E f \in {"query", "source", "range"} :
            /\ c[f] # search.asks[f]
            /\ c = [search.asks EXCEPT ![f] = c[f]]
    /\ search' = [search EXCEPT !.asks = c, !.timer = Rearmed(c),
                                !.edits = @ + 1]
    /\ UNCHANGED <<hash, alive>>

\* Mutant of Cleared: without a query the timer does nothing.
NotCleared == search.answer

\* Without a query the results are removed.
Cleared == None

\* 150 ms after the last change.
FireTimer ==
    /\ search.timer # None
    /\ LET asks == search.timer.query # Blank
       IN  search' = [search EXCEPT
                        !.timer = None,
                        !.pending = IF asks THEN Append(@, search.timer) ELSE @,
                        !.answer = IF asks THEN @ ELSE Cleared,
                        !.alone = search.pending = <<>>]
    /\ UNCHANGED <<hash, alive>>

SearchAnswered(i) ==
    /\ i \in DOMAIN search.pending
    /\ search' = [search EXCEPT !.pending = Settled(@, i),
                                !.answer = search.pending[i]]
    /\ UNCHANGED <<hash, alive>>

\* Nobody handles a rejection: the old results stay.
SearchRejected(i) ==
    /\ i \in DOMAIN search.pending
    /\ search' = [search EXCEPT !.pending = Settled(@, i), !.alone = FALSE]
    /\ UNCHANGED <<hash, alive>>

\* An error sent as JSON has no buckets: the next render throws.
SearchBroken(i) ==
    /\ i \in DOMAIN search.pending
    /\ alive' = FALSE
    /\ search' = FreshSearch
    /\ UNCHANGED hash

-----------------------------------------------------------------------------
(* Keys, wherever the focus is.                                             *)

\* Never past the last option, even from an index beyond it.
Below(i) == IF i + 1 < Len(Flat(search.answer)) THEN i + 1
            ELSE Len(Flat(search.answer)) - 1

ArrowDown ==
    /\ ShowsResults
    /\ search' = [search EXCEPT !.activeIndex = Below(@)]
    /\ UNCHANGED <<hash, alive>>

\* Mutant of Above: the first option is not the end.
AboveUnbounded(i) == i - 1

Above(i) == IF i = 0 THEN 0 ELSE i - 1

ArrowUp ==
    /\ ShowsResults
    /\ search' = [search EXCEPT !.activeIndex = Above(@)]
    /\ UNCHANGED <<hash, alive>>

\* Opening an item sets the hash; an index past the results opens nothing.
Enter ==
    /\ search.activeIndex < Len(Flat(search.answer))
    /\ hash' = Flat(search.answer)[search.activeIndex + 1].id
    /\ UNCHANGED <<search, alive>>

-----------------------------------------------------------------------------
SearchSettles ==
    \E i \in 1 .. Len(search.pending) :
        SearchAnswered(i) \/ SearchRejected(i) \/ SearchBroken(i)

SearchNext ==
    \/ \E c \in Criteria : Edit(c)
    \/ FireTimer
    \/ SearchSettles
    \/ ArrowDown \/ ArrowUp \/ Enter

SearchTypeOK ==
    search \in [asks : Criteria, timer : Criteria \cup {None},
                pending : Seq(Criteria), answer : Criteria \cup {None},
                activeIndex : Nat, alone : BOOLEAN, edits : 0 .. MaxEdits]

\* The results on screen answer other criteria than the ones on screen.
Stale == search.answer # IF search.asks.query = Blank THEN None
                         ELSE search.asks
=============================================================================
