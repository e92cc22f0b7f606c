\* Two selections and two loops, two failures of the extension, one of the
\* daemon, which has room for two envelopes.  Messages may keep coming.
CONSTANTS
    Event = {e1, e2}
    Loop = {l1, l2}
    NoItem = NoItem
    AnswersLost = TRUE
    MaxFaults = 2
    Capacity = 2
    MaxDaemonFaults = 1
SPECIFICATION FairPipelineSpec
INVARIANTS
    TypeOK
    DeliveredOrKept
    NothingVanishes
PROPERTIES
    RemovedWhenDelivered
    DrainsWhileUsed
    StoredInTheEnd
