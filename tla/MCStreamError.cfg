\* One click is enough: a stream that fails without a message.
CONSTANTS
    MaxRuns = 2
    MaxEntries = 1
    MaxEvents = 0
SPECIFICATION Spec
CHECK_DEADLOCK FALSE
INVARIANT FailedStreamsFallBack
