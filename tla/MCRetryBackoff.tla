--------------------------- MODULE MCRetryBackoff ---------------------------
(***************************************************************************)
(* Checks the RetryController wait-time arithmetic against its reference   *)
(* over every backoffStart at the attempt numbers where the shift can     *)
(* overflow.  Each input tuple is one initial state; Next leaves it       *)
(* unchanged, so the invariant is evaluated on every tuple and TLC shows  *)
(* the first one that fails.  The realistic inputs are checked with the   *)
(* controller, in MCRetryController.                                      *)
(***************************************************************************)
EXTENDS RetryBackoff

CONSTANTS
    AttemptNos,     \* values of mCurrentAttemptNo when calcWaitTime() runs
    InitialWaits,   \* mInitialWaitTime (unsigned short backoffStart)
    MaxWaits        \* mMaxSingleWaitTime

ASSUME AttemptNos \subseteq 1..100
ASSUME InitialWaits \subseteq 0..65535
ASSUME \A m \in MaxWaits : m <= 1000000

\* Input ranges the .cfg files select by name.
OverflowAttemptNos == 17..22
AllBackoffStarts == 0..65535

VARIABLES no, initialWait, maxWait

vars == <<no, initialWait, maxWait>>

Init ==
    /\ no \in AttemptNos
    /\ initialWait \in InitialWaits
    /\ maxWait \in MaxWaits

Next == UNCHANGED vars

Spec == Init /\ [][Next]_vars

TypeOK ==
    /\ no \in AttemptNos
    /\ initialWait \in InitialWaits
    /\ maxWait \in MaxWaits

\* calcWaitTimeNoRandomness() computes min(maxWait, initialWait * 2^(n-1)),
\* as the RetryController constructor comment promises, despite computing
\* the power with a 32-bit shift-and-multiply.
WaitMatchesReference ==
    CalcWaitTimeNoRandomness(no, initialWait, maxWait)
        = ReferenceWait(no, initialWait, maxWait)

=============================================================================
