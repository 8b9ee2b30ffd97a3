SPECIFICATION FairSpec
CONSTANTS
    q1 = q1
    q2 = q2
    q3 = q3
    Requests = {q1, q2, q3}
    CommandsOf <- Lists
    Unchecked = {q3}
    Missing = Missing
    NotBase64 = NotBase64
    MaxRuns = 2
    Commanded = {1, 2}
    InputCap = 3
    None = None
INVARIANTS
    ReplyIsTrue
    WrittenInOrder
    TypedAsAsked
PROPERTIES
    ThreadsEnd
    RequestsAreTaken
CHECK_DEADLOCK FALSE
