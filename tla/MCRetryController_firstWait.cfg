\* The owner's controller with the default backoffStart and cap, as in
\* rc_owner: the wait armed after the first failed attempt.
CONSTANTS
    BackoffStart = 1000
    MaxSingleWaitTime = 60000
    MaxAttemptCount = 2
    AttemptTimeout = TRUE
    CancelRejects = FALSE
    AutoDestruct = FALSE
    CallerCalls <- OwnerCalls
    ReuseAfterAbort = FALSE
    MaxCallerOps = 3
    MaxAttemptId = 20
SPECIFICATION Spec
INVARIANT BackoffAsDocumented
CHECK_DEADLOCK FALSE
