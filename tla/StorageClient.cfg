SPECIFICATION FairSpec
CONSTANTS
    Calls <- MCCalls
    Kind <- MCKind
    Command <- MCCommand
    Payload <- MCPayload
    MaxQueue = 2
    MaxOpens = 2
    MaxEpoch = 2
INVARIANTS AppliedOnce OneConnection CloseIsDrained
PROPERTIES OnlyOwnerWrites EveryCallIsAnswered LedgerSpec
CHECK_DEADLOCK FALSE
