\* A shutdown signal while requests are in flight.
CONSTANTS
    Client = {c1, c2}
    QueueCap = 1
    BatchSize = 2
    MaxPosts = 3
SPECIFICATION FairSpec
PROPERTIES
    ShutdownCompletes
