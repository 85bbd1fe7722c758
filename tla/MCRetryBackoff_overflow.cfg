\* Every backoffStart an unsigned short can hold, at the attempt numbers
\* where (1 << (n-1)) * backoffStart can exceed 32 bits, with the default cap.
CONSTANTS
    AttemptNos <- OverflowAttemptNos
    InitialWaits <- AllBackoffStarts
    MaxWaits = {60000}
SPECIFICATION Spec
INVARIANT WaitMatchesReference
