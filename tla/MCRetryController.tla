------------------------- MODULE MCRetryController -------------------------
(***************************************************************************)
(* Model-checking instances of RetryController.  Each .cfg fixes how the   *)
(* controller is constructed and used:                                     *)
(*  - the owner of a createRetryController() instance (Connection's        *)
(*    reconnect): no auto-destroy, every public call, attempt timeouts;    *)
(*  - the retry() helper: auto-destroy, the empty cancel function, one     *)
(*    start() and no other public call.                                    *)
(***************************************************************************)
EXTENDS RetryController

\* The public calls of an owner that holds the controller.
OwnerCalls == {"start", "restart", "abort", "reset"}
\* An owner that never aborts.
NonAbortingCalls == {"start", "restart", "reset"}
\* retry() only calls start().
RetryHelperCalls == {"start"}

(***************************************************************************)
(* The wait-time arithmetic the controller arms its backoff timers with,  *)
(* checked over bounded inputs: backoffStart values callers use and the   *)
(* 1000 ms default, the 60000 ms default cap, and attempt numbers past   *)
(* kBitness so the saturated branch is taken too.                         *)
(* These are constant formulas; TLC evaluates them once.                  *)
(***************************************************************************)
CheckedAttemptNos == 1..64
CheckedBackoffStarts == {0, 1, 120, 1000, 30000, 65535}
CheckedMaxWaits == {0, 1000, 60000}

\* Constant formulas over the checked inputs; TLC evaluates them once.
WaitArithmeticOK ==
    \A n \in CheckedAttemptNos, s \in CheckedBackoffStarts, m \in CheckedMaxWaits :
        CalcWaitTimeNoRandomness(n, s, m) = ReferenceWait(n, s, m)

\* calcWaitTimeNoRandomness() computes min(maxWait, initialWait * 2^(n-1)),
\* despite computing the power with a 32-bit shift-and-multiply: for the
\* checked inputs, and for the attempt after every failed attempt of the run.
WaitMatchesReference ==
    /\ WaitArithmeticOK
    /\ \A w \in waits :
          CalcWaitTimeNoRandomness(w[1] + 1, BackoffStart, MaxSingleWaitTime)
            = ReferenceWait(w[1] + 1, BackoffStart, MaxSingleWaitTime)
====
