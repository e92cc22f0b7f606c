\* A purge of an event the intelligence job has chunked.
CONSTANTS
    e1 = e1
    e2 = e2
    e3 = e3
    h1 = h1
    h2 = h2
    Event <- TwoEvents
    Hash = {h1}
    HashOf <- TwoShare
    NeverStore = {}
    HasPointer = {e1, e2}
    Criteria <- IdCriteria
    QueueCap = 2
    BatchSize = 2
    MaxRetries = 2
    MaxPosts = 2
    MaxPurges = 1
    MaxFaults = 0
    MaxDay = 0
SPECIFICATION Spec
INVARIANTS
    PurgeNeverRefused
