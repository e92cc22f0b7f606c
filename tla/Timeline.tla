------------------------------ MODULE Timeline ------------------------------
(***************************************************************************)
(* What the daemon promises a client whose POST /v1/events was answered    *)
(* 202: envelopes are stored in the order they were accepted, each is      *)
(* stored unless a fault intervenes, no more than Capacity of them wait,   *)
(* and a stored event leaves only through a purge.  This abstracts         *)
(* daemon/src/handlers.rs, queue.rs and storage/db.rs together; Daemon is  *)
(* shown to implement it.                                                  *)
(***************************************************************************)
EXTENDS Naturals, Sequences

CONSTANTS Event, Capacity, MaxFaults

VARIABLES
    inbox,      \* accepted envelopes not stored yet, oldest first
    stored,     \* ids with a row in events
    faults      \* I/O failures and crashes so far

tvars == <<inbox, stored, faults>>

Init == inbox = <<>> /\ stored = {} /\ faults = 0

Accept(e) ==
    /\ Len(inbox) < Capacity
    /\ inbox' = Append(inbox, e)
    /\ UNCHANGED <<stored, faults>>

\* The oldest envelope is stored; a retried copy of a stored one is absorbed.
Store ==
    /\ inbox # <<>>
    /\ stored' = stored \cup {Head(inbox)}
    /\ inbox' = Tail(inbox)
    /\ UNCHANGED faults

Purge ==
    /\ \E S \in SUBSET stored : stored' = stored \ S
    /\ UNCHANGED <<inbox, faults>>

\* An I/O error loses at most the oldest envelope, a crash all that wait.
Fault ==
    /\ faults < MaxFaults
    /\ faults' = faults + 1
    /\ \/ inbox' = inbox
       \/ inbox' = <<>>
       \/ inbox # <<>> /\ inbox' = Tail(inbox)
    /\ UNCHANGED stored

Next ==
    \/ \E e \in Event : Accept(e)
    \/ Store
    \/ Purge
    \/ Fault

Spec == Init /\ [][Next]_tvars
=============================================================================
