\* One selection, one loop, two faults: the daemon may be down for the post and
\* for a health check.  After the selection no page needs to send a message.
CONSTANTS
    Event = {e1}
    Loop = {l1}
    NoItem = NoItem
    AnswersLost = FALSE
    MaxFaults = 2
SPECIFICATION FairSpec
PROPERTIES
    DrainsWhenUp
