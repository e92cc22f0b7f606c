----------------------------- MODULE MCDesktop ------------------------------
(***************************************************************************)
(* An instance of Desktop for TLC.                                         *)
(***************************************************************************)
EXTENDS Desktop, TLC

CONSTANTS q1, q2, m1, m2, m3

\* Two notes, of which one is old, and a page: a filter, or the other query,
\* leaves fewer results than there were.
MCMems == <<
    [id |-> m1, source |-> "app", age |-> 0, words |-> {q1}],
    [id |-> m2, source |-> "browser", age |-> 0, words |-> {q1, q2}],
    [id |-> m3, source |-> "app", age |-> 9, words |-> {q1}] >>
=============================================================================
