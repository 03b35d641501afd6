\* A recording session: the process ends, so the system may stop.
SPECIFICATION FairSpec
CHECK_DEADLOCK FALSE
CONSTANTS
    capacity = 1
    MessageSizes = {0, 2}
    MaxMessages = 2
    MaxFailures = 6
    HeaderBytes = 1
    Lengths = {1, 2}
INVARIANTS
    EventsAccountedFor
    SilenceBounded
    ReadsWholeEvents
    ReadInOrder
PROPERTIES
    QuietFeedReconnects
