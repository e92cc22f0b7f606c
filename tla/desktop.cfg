\* Two queries, three memories, two changes of the criteria in a visit, two
\* questions, one exclusion, two requests of the capture toggle in the air.
CONSTANTS
    None = None
    Blank = Blank
    q1 = q1
    q2 = q2
    m1 = m1
    m2 = m2
    m3 = m3
    Query = {q1, q2}
    Mems <- MCMems
    Source = {"all", "browser"}
    TimeRange = {"all", "24h"}
    MaxEdits = 2
    Question = {a1, a2}
    Doc = {d1}
    MaxQuestions = 2
    Process = {p1}
    Glob = {g1}
    PurgeSource = {"all", "app"}
    PurgeRange = {"all", "7d"}
    Preference = {"cloud"}
    MaxExclusions = 1
    MaxPosts = 2
SPECIFICATION FairSpec
INVARIANTS
    TypeOK
    Conversation
    LastToggleHolds
PROPERTIES
    AsksWhatIsShown
    OpensHighlighted
    StaleIsReplaced
    QuestionSettles
    PurgesWhatSearchLists
