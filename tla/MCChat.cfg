\* Two clicks on Send, so up to four requests of which any may be in flight at
\* once; a window shorter than the conversation; one retry.
CONSTANTS
    MaxAsks = 2
    HistoryLimit = 2
    MaxRetries = 1
    MaxFaults = 2
SPECIFICATION FairSpec
CHECK_DEADLOCK FALSE
INVARIANT TypeOK
INVARIANT CalmConversation
INVARIANT RepliesAnswer
PROPERTY ImplementsConversation
PROPERTY SendEnds
