\* abort() of a running attempt whose cancel function rejects the attempt's
\* promise synchronously.
CONSTANTS
    BackoffStart = 1000
    MaxSingleWaitTime = 60000
    MaxAttemptCount = 2
    AttemptTimeout = FALSE
    CancelRejects = TRUE
    AutoDestruct = FALSE
    CallerCalls <- OwnerCalls
    ReuseAfterAbort = FALSE
    MaxCallerOps = 2
    MaxAttemptId = 20
SPECIFICATION Spec
INVARIANT NoAttemptAfterSettled
CHECK_DEADLOCK FALSE
