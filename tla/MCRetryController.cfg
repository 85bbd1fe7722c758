\* Owner of a controller with attempt timeouts and a cancel function that
\* does not settle the attempt; every public call, the owner stops using the
\* controller once abort() succeeded.  Two attempts per run, three public
\* calls: enough for restart during an attempt, abort in both running
\* states, reset and a second run, and a late answer from a timed-out attempt.
CONSTANTS
    BackoffStart = 1000
    MaxSingleWaitTime = 60000
    MaxAttemptCount = 2
    AttemptTimeout = TRUE
    CancelRejects = FALSE
    AutoDestruct = FALSE
    CallerCalls <- OwnerCalls
    ReuseAfterAbort = FALSE
    MaxCallerOps = 3
    MaxAttemptId = 20
SPECIFICATION Spec
INVARIANT NoOrphanTimer
INVARIANT SingleUncancelledAttempt
INVARIANT NoAttemptAfterSettled
INVARIANT SettledAtMostOnce
INVARIANT WaitMatchesReference
PROPERTY EventuallySettles
\* A finished controller waits for an owner call that may never come.
CHECK_DEADLOCK FALSE
