\* Two windows that share buffer.json; no window is closed, no write fails.
CONSTANTS
    e1 = e1
    e2 = e2
    l1 = l1
    l2 = l2
    w1 = w1
    w2 = w2
    Window = {w1, w2}
    Event = {e1, e2}
    Loop = {l1, l2}
    WindowOf <- TwoWindows
    NoItem = NoItem
    AnswersLost = FALSE
    MaxFaults = 2
    MaxBreaks = 0
SPECIFICATION Spec
INVARIANTS
    NothingIsLost
