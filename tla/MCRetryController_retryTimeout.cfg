\* The retry() helper (auto-destroy, the empty cancel function
\* _emptyCancelFunc, one start()) given a per-attempt timeout.
CONSTANTS
    BackoffStart = 1000
    MaxSingleWaitTime = 60000
    MaxAttemptCount = 0
    AttemptTimeout = TRUE
    CancelRejects = FALSE
    AutoDestruct = TRUE
    CallerCalls <- RetryHelperCalls
    ReuseAfterAbort = FALSE
    MaxCallerOps = 1
    MaxAttemptId = 4
SPECIFICATION Spec
INVARIANT NoCallbackAfterDestroy
CHECK_DEADLOCK FALSE
