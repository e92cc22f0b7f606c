------------------------------ MODULE Pipeline ------------------------------
(***************************************************************************)
(* The browser extension and the daemon together: an accepted post puts    *)
(* the envelope into the daemon's inbox in the same step, and the daemon,  *)
(* which Daemon shows to be a Timeline, stores, loses and purges by        *)
(* itself.  A 202 says that the envelope is in memory, so a crash of the   *)
(* daemon destroys envelopes their client has forgotten; one that is       *)
(* posted again, since its answer was lost, is stored once more.           *)
(***************************************************************************)
EXTENDS BrowserBuffer, Sequences

CONSTANTS
    Capacity,           \* envelopes that may wait in the daemon
    MaxDaemonFaults     \* bound: I/O failures and crashes of the daemon

VARIABLES
    inbox, stored,      \* as in Timeline
    daemonFaults,
    gone        \* events destroyed or purged since they were last accepted

daemon_vars == <<inbox, stored, daemonFaults, gone>>
pipeline_vars == <<vars, daemon_vars>>

Service == INSTANCE Timeline WITH faults <- daemonFaults,
                                  MaxFaults <- MaxDaemonFaults

Waiting == {inbox[k] : k \in DOMAIN inbox}

PipelineInit == Init /\ Service!Init /\ gone = {}

-----------------------------------------------------------------------------
\* Mutant of Receive: an envelope that was accepted before is answered and not
\* queued again.
ReceiveOnce(e) ==
    /\ IF delivered[e] > 0 THEN UNCHANGED <<inbox, stored, daemonFaults>>
       ELSE Service!Accept(e)
    /\ gone' = gone \ {e}

\* post_event: the handler waits while the channel is full.
Receive(e) ==
    /\ Service!Accept(e)
    /\ gone' = gone \ {e}

\* A step of the extension; the daemon receives what it accepts.
Exchange(A) ==
    /\ A
    /\ \/ UNCHANGED <<delivered, daemon_vars>>
       \/ \E e \in Event : Accepted(e) /\ Receive(e)

Store ==
    /\ Service!Store
    /\ UNCHANGED <<vars, gone>>

Purge ==
    /\ Service!Purge
    /\ gone' = gone \cup (stored \ stored')
    /\ UNCHANGED vars

DaemonFails ==
    /\ Service!Fault
    /\ gone' = gone \cup (Waiting \ Waiting')
    /\ UNCHANGED vars

-----------------------------------------------------------------------------
PipelineNext == Exchange(Next) \/ Store \/ Purge \/ DaemonFails

PipelineSpec == PipelineInit /\ [][PipelineNext]_pipeline_vars

\* What BrowserBuffer assumes, and that the daemon's worker runs on.
PipelineFairness ==
    /\ \A e \in Event :
            /\ WF_pipeline_vars(Exchange(Handle(e)))
            /\ WF_pipeline_vars(Exchange(BackoffEnds(e)))
    /\ \A l \in Loop : WF_pipeline_vars(Exchange(Proceed(l)))
    /\ SF_pipeline_vars(Exchange(\E l \in Loop : StartLoop(l)))
    /\ WF_pipeline_vars(Exchange(CooldownEnds))
    /\ WF_pipeline_vars(Store)

FairPipelineSpec == PipelineSpec /\ PipelineFairness

-----------------------------------------------------------------------------
\* A selection whose handler finished is in the buffer, waits in the daemon or
\* is stored, unless a fault destroyed it or a purge removed it after it was
\* accepted for the last time.
NothingVanishes ==
    \A e \in Event :
        capture[e] = "done" => e \in store \cup Waiting \cup stored \cup gone

\* From end to end: while pages wake the extension's worker again and again,
\* such a selection is stored in the end, through lost answers, stopped workers
\* and overlapping loops that post it twice, unless the daemon had accepted it
\* when it crashed, or stored it when it was purged.
StoredInTheEnd ==
    []<>awake => \A e \in Event : capture[e] = "done" ~> e \in stored \cup gone
=============================================================================
