SPECIFICATION FairSpec
CONSTANTS
    c1 = c1
    c2 = c2
    NumEvents = 3
    Backlog = 0
    Conversation = {c1, c2}
    ConversationOf <- Together
    Deletion <- LastEvent
    Overlap = 1
    Lateness = 1
    PageSize = 1
    MaxPages = 2
    ImportLimit = 2
    MaxTime = 2
    MaxFaults = 1
INVARIANTS
    NothingSkipped
PROPERTIES
    Collected
    WindowStored
    SponsoredImported
