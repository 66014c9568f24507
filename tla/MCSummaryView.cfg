\* Two clicks, a history of one entry, two interventions or broken connections.
CONSTANTS
    MaxRuns = 2
    MaxEntries = 1
    MaxEvents = 2
SPECIFICATION FairSpec
CHECK_DEADLOCK FALSE
INVARIANT TypeOK
INVARIANT CalmPage
INVARIANT NothingStuck
INVARIANT StreamedWithoutError
PROPERTY RunsEnd
