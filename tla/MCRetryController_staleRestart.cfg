\* One attempt per run; the owner restarts, resets and starts again.
CONSTANTS
    BackoffStart = 1000
    MaxSingleWaitTime = 60000
    MaxAttemptCount = 1
    AttemptTimeout = FALSE
    CancelRejects = FALSE
    AutoDestruct = FALSE
    CallerCalls <- NonAbortingCalls
    ReuseAfterAbort = FALSE
    MaxCallerOps = 4
    MaxAttemptId = 20
SPECIFICATION Spec
INVARIANT MaxAttemptsRespected
CHECK_DEADLOCK FALSE
