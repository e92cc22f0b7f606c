\* Three envelopes, two sharing content, a retried post, purges of every
\* shape, a change of day, crashes and I/O failures at every step.
CONSTANTS
    e1 = e1
    e2 = e2
    e3 = e3
    h1 = h1
    h2 = h2
    Event <- ThreeEvents
    Hash = {h1, h2}
    HashOf <- ThirdDiffers
    NeverStore = {e3}
    HasPointer = {e1, e2}
    Criteria <- KeyCriteria
    QueueCap = 2
    BatchSize = 2
    MaxRetries = 2
    MaxPosts = 3
    MaxPurges = 2
    MaxFaults = 2
    MaxDay = 1
SPECIFICATION Spec
INVARIANTS
    TypeOK
    RowsAreIndexed
    RefsCoverRows
    ChunksOfStored
    BoundedInFlight
PROPERTIES
    UnlinkSafe
    FilterPurgeIsExact
    TimelineSpec
