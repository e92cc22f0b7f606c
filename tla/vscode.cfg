\* One window, two events, two overlapping retry loops, two failed requests,
\* one closed window or failed write.
CONSTANTS
    e1 = e1
    e2 = e2
    l1 = l1
    l2 = l2
    w1 = w1
    w2 = w2
    Window = {w1}
    Event = {e1, e2}
    Loop = {l1, l2}
    WindowOf <- OneWindow
    NoItem = NoItem
    AnswersLost = TRUE
    MaxFaults = 2
    MaxBreaks = 1
SPECIFICATION FairSpec
INVARIANTS
    TypeOK
PROPERTIES
    KeptUnlessTorn
    TransactionalSpec
    BufferDrains
