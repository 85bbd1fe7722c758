--------------------------- MODULE RetryController ---------------------------
(***************************************************************************)
(* mega::rh::RetryController (src/src/base/retryHandler.h): retries a      *)
(* promise-returning operation with exponential backoff, an optional       *)
(* per-attempt timeout, an optional cancel function, abort, restart and    *)
(* reset.                                                                  *)
(*                                                                         *)
(* Everything runs on one event loop, so each handler below is atomic.    *)
(* The suspension points are the promise returned by mFunc (an attempt,    *)
(* settled by the environment at any later time, also after a timeout or  *)
(* abort) and the timers (a backoff wait, a start delay or an attempt      *)
(* timeout).  Handlers call each other synchronously (a timeout calls the  *)
(* cancel function, which may reject the attempt, whose fail handler       *)
(* calls schedNextRetry, which may call start ...); they are written as    *)
(* operators from a record C of the controller and its environment to the *)
(* record after the call, so an action is the composition the code runs.  *)
(***************************************************************************)
EXTENDS Naturals, RetryBackoff

CONSTANTS
    MaxAttemptCount,    \* mMaxAttemptCount; 0 retries forever
    AttemptTimeout,     \* mAttemptTimeout # 0
    CancelRejects,      \* mCancelFunc rejects the running attempt's promise
                        \* synchronously (the case line 316 guards against);
                        \* FALSE for no cancel function or one that does not
    AutoDestruct,       \* setAutoDestroy() was called, as retry() does
    CallerCalls,        \* the public calls the owner makes, a subset of
                        \* {"start", "restart", "abort", "reset"}
    ReuseAfterAbort,    \* the owner keeps calling after abort() returned true
    MaxCallerOps,       \* bound: number of public calls
    MaxAttemptId,       \* bound: failures and timeouts stop at this attempt id
    BackoffStart,       \* mInitialWaitTime (the backoffStart argument)
    MaxSingleWaitTime   \* mMaxSingleWaitTime

ASSUME MaxAttemptCount \in Nat /\ MaxCallerOps \in Nat /\ MaxAttemptId \in Nat
ASSUME AttemptTimeout \in BOOLEAN /\ CancelRejects \in BOOLEAN
ASSUME AutoDestruct \in BOOLEAN /\ ReuseAfterAbort \in BOOLEAN
ASSUME BackoffStart \in 0..65535 /\ MaxSingleWaitTime \in Nat
ASSUME CallerCalls \subseteq {"start", "restart", "abort", "reset"}

VARIABLES
    mState,             \* State
    mCurrentAttemptNo,  \* attempt number within the current run
    mCurrentAttemptId,  \* generation counter, never reset
    mRestart,           \* mRestart # 0: a restart deferred by restart()
    mTimer,             \* handle of the armed timer, or NoTimer
    mPromise,           \* the output promise
    alive,              \* FALSE once `delete this` has run
    timers,             \* timers scheduled and neither fired nor cancelled
    inflight,           \* attempts whose mFunc promise has not settled
    \* history of the behaviour, for the properties
    cancelled,          \* attempts mCancelFunc was invoked for
    settles,            \* resolve/reject calls on the current output promise
    lateCall,           \* mFunc was called while mPromise was already done
    calls,              \* mFunc calls since the owner's last start()
    waits,              \* <<n, t>>: schedNextRetry armed the backoff wait t
                        \* (before jitter) after attempt n of a run failed
    callerRestarted,    \* the owner called restart() since that start()
    aborted,            \* abort() returned true
    callerOps           \* public calls made

vars == <<mState, mCurrentAttemptNo, mCurrentAttemptId, mRestart, mTimer,
          mPromise, alive, timers, inflight, cancelled, settles, lateCall,
          calls, waits, callerRestarted, aborted, callerOps>>

States == {"NotStarted", "InProgress", "RetryWait", "Finished"}
\* kStateBitRunning is set in these states.
Running == {"InProgress", "RetryWait"}

\* A timer is named by what its callback does and the attempt it belongs to.
NoTimer == [kind |-> "none", attempt |-> 0]
WaitTimer(a) == [kind |-> "wait", attempt |-> a]
TimeoutTimer(a) == [kind |-> "timeout", attempt |-> a]

----------------------------------------------------------------------------
(* The controller and its environment as one record, and back.             *)

C == [st |-> mState, no |-> mCurrentAttemptNo, id |-> mCurrentAttemptId,
      restart |-> mRestart, timer |-> mTimer, promise |-> mPromise,
      alive |-> alive, timers |-> timers, inflight |-> inflight,
      cancelled |-> cancelled, settles |-> settles, lateCall |-> lateCall,
      calls |-> calls, waits |-> waits]

Becomes(c) ==
    /\ mState' = c.st /\ mCurrentAttemptNo' = c.no /\ mCurrentAttemptId' = c.id
    /\ mRestart' = c.restart /\ mTimer' = c.timer /\ mPromise' = c.promise
    /\ alive' = c.alive /\ timers' = c.timers /\ inflight' = c.inflight
    /\ cancelled' = c.cancelled /\ settles' = c.settles
    /\ lateCall' = c.lateCall /\ calls' = c.calls /\ waits' = c.waits

----------------------------------------------------------------------------
(* Helpers of the class, each the whole body of the C++ member.            *)

\* mTimer = setTimeout(...): the handle is overwritten, an armed timer is not
\* cancelled by it.
SetTimer(c, t) == [c EXCEPT !.timer = t, !.timers = @ \cup {t}]

\* cancelTimer()
CancelTimer(c) ==
    IF c.timer = NoTimer THEN c
    ELSE [c EXCEPT !.timers = @ \ {c.timer}, !.timer = NoTimer]

\* mPromise.resolve() / reject(): the promise keeps its first outcome.
Settle(c, outcome) ==
    [c EXCEPT !.promise = IF @ = "pending" THEN outcome ELSE @,
              !.settles = @ + 1]

\* `if (mAutoDestruct) delete this;`
MaybeDestroy(c) == [c EXCEPT !.alive = @ /\ ~AutoDestruct]

\* nextTry(): arm the attempt timeout, call mFunc, attach the handlers.
NextTry(c) ==
    LET c1 == IF AttemptTimeout THEN SetTimer(c, TimeoutTimer(c.id)) ELSE c
    IN  [c1 EXCEPT !.st = "InProgress", !.inflight = @ \cup {c.id},
                   !.calls = @ + 1, !.lateCall = @ \/ c.promise # "pending"]

\* start(delay), past its mState # kStateNotStarted check; delay is 0 or not.
Start(c, delay) ==
    LET c1 == [c EXCEPT !.id = @ + 1, !.no = 1]
    IN  IF delay THEN SetTimer([c1 EXCEPT !.st = "RetryWait"], WaitTimer(c1.id))
                 ELSE NextTry(c1)

\* The end of schedNextRetry: waitTime = calcWaitTime() for the attempt
\* number just incremented, and the timer that calls nextTry().  The wait
\* is recorded before jitter.
ArmBackoff(c) ==
    SetTimer([c EXCEPT !.st = "RetryWait",
                       !.waits = @ \cup {<<c.no - 1,
                           CalcWaitTimeNoRandomness(c.no, BackoffStart,
                                                    MaxSingleWaitTime)>>}],
             WaitTimer(c.id))

\* schedNextRetry(err): a deferred restart, giving up, or the backoff wait.
SchedNextRetry(c) ==
    IF c.restart
    THEN Start([c EXCEPT !.restart = FALSE, !.st = "NotStarted"], TRUE)
    ELSE LET c1 == [c EXCEPT !.no = @ + 1, !.id = @ + 1]
         IN  IF MaxAttemptCount > 0 /\ c1.no > MaxAttemptCount
             THEN MaybeDestroy([Settle(c1, "rejected") EXCEPT !.st = "Finished"])
             ELSE ArmBackoff(c1)

\* Mutants of FailHandler: the attempt timer is left armed; a callback of a
\* superseded attempt is not recognised as stale.
FailHandlerKeepsTimer(c, a) ==
    IF a # c.id \/ c.promise # "pending" THEN c ELSE SchedNextRetry(c)
FailHandlerAcceptsStale(c, a) ==
    IF c.promise # "pending" THEN c ELSE SchedNextRetry(CancelTimer(c))

\* The fail handler nextTry() attaches to attempt a's promise.
FailHandler(c, a) ==
    IF a # c.id \/ c.promise # "pending" THEN c
    ELSE SchedNextRetry(CancelTimer(c))

\* Mutants of ThenHandler: a done output promise is resolved again; the
\* attempt timer is left armed.
ThenHandlerIgnoresDone(c, a) ==
    IF a # c.id THEN c
    ELSE MaybeDestroy([Settle(CancelTimer(c), "resolved") EXCEPT !.st = "Finished"])
ThenHandlerKeepsTimer(c, a) ==
    IF a # c.id \/ c.promise # "pending" THEN c
    ELSE MaybeDestroy([Settle(c, "resolved") EXCEPT !.st = "Finished"])

\* The then handler attachThenHandler() attaches to attempt a's promise.
ThenHandler(c, a) ==
    IF a # c.id \/ c.promise # "pending" THEN c
    ELSE MaybeDestroy([Settle(CancelTimer(c), "resolved") EXCEPT !.st = "Finished"])

\* callFuncIfNotNull(mCancelFunc) while attempt c.id runs.
CallCancelFunc(c) ==
    LET c1 == [c EXCEPT !.cancelled = @ \cup {c.id}]
    IN  IF CancelRejects /\ c.id \in c.inflight
        THEN FailHandler([c1 EXCEPT !.inflight = @ \ {c.id}], c.id)
        ELSE c1

\* Mutants of OnAttemptTimeout: the bail-out test inverted; the cancel
\* function not called.
OnAttemptTimeoutInverted(c) ==
    LET c1 == CallCancelFunc(c)
    IN  IF c1.id = c.id THEN c1 ELSE SchedNextRetry(c1)
OnAttemptTimeoutNoCancel(c) == SchedNextRetry(c)

\* The attempt-timeout callback, after `mTimer = 0`.
OnAttemptTimeout(c) ==
    LET c1 == CallCancelFunc(c)
    IN  IF c1.id # c.id THEN c1 ELSE SchedNextRetry(c1)

\* The backoff-wait and start-delay callback, after `mTimer = 0`.
OnWaitElapsed(c) == NextTry(c)

\* Mutant of Abort: the armed timer is not cancelled.
AbortKeepsTimer(c) ==
    LET c1 == IF c.st = "InProgress" THEN CallCancelFunc(c) ELSE c
    IN  MaybeDestroy(Settle(c1, "aborted"))

\* abort(), past its kStateBitRunning check.
Abort(c) ==
    LET c1 == CancelTimer(c)
        c2 == IF c.st = "InProgress" THEN CallCancelFunc(c1) ELSE c1
    IN  MaybeDestroy(Settle(c2, "aborted"))

\* restart(delay), past its kStateFinished check.
Restart(c, delay) ==
    IF c.st = "InProgress" THEN [c EXCEPT !.restart = TRUE]
    ELSE Start([CancelTimer(c) EXCEPT !.st = "NotStarted"], delay)

\* reset(), past its checks: a new output promise.
Reset(c) == [c EXCEPT !.promise = "pending", !.settles = 0, !.no = 0,
                      !.st = "NotStarted"]

----------------------------------------------------------------------------
(* Actions.  A public call that throws or returns early changes nothing    *)
(* and is left out: start() unless NotStarted, restart() when Finished,    *)
(* abort() when not running, reset() unless Finished.                      *)

Init ==
    /\ mState = "NotStarted" /\ mCurrentAttemptNo = 0 /\ mCurrentAttemptId = 0
    /\ mRestart = FALSE /\ mTimer = NoTimer /\ mPromise = "pending"
    /\ alive = TRUE /\ timers = {} /\ inflight = {}
    /\ cancelled = {} /\ settles = 0 /\ lateCall = FALSE /\ calls = 0
    /\ waits = {} /\ callerRestarted = FALSE /\ aborted = FALSE
    /\ callerOps = 0

\* The owner makes a public call.
CallerMay(op) ==
    /\ op \in CallerCalls /\ alive /\ callerOps < MaxCallerOps
    /\ ReuseAfterAbort \/ ~aborted
    /\ callerOps' = callerOps + 1

CallStart(delay) ==
    /\ CallerMay("start")
    /\ mState = "NotStarted"
    /\ Becomes(Start([C EXCEPT !.calls = 0], delay))
    /\ callerRestarted' = FALSE
    /\ UNCHANGED aborted

CallRestart(delay) ==
    /\ CallerMay("restart")
    /\ mState # "Finished"
    /\ Becomes(Restart(C, delay))
    /\ callerRestarted' = TRUE
    /\ UNCHANGED aborted

CallAbort ==
    /\ CallerMay("abort")
    /\ mState \in Running
    /\ Becomes(Abort(C))
    /\ aborted' = TRUE
    /\ UNCHANGED callerRestarted

CallReset ==
    /\ CallerMay("reset")
    /\ mState = "Finished"
    /\ Becomes(Reset(C))
    /\ UNCHANGED <<callerRestarted, aborted>>

\* Attempt a's promise resolves; a deleted controller runs no handler.
AttemptResolves(a) ==
    /\ a \in inflight
    /\ LET c == [C EXCEPT !.inflight = @ \ {a}]
       IN  Becomes(IF alive THEN ThenHandler(c, a) ELSE c)
    /\ UNCHANGED <<callerRestarted, aborted, callerOps>>

\* Attempt a's promise is rejected.
AttemptFails(a) ==
    /\ a \in inflight
    /\ mCurrentAttemptId < MaxAttemptId
    /\ LET c == [C EXCEPT !.inflight = @ \ {a}]
       IN  Becomes(IF alive THEN FailHandler(c, a) ELSE c)
    /\ UNCHANGED <<callerRestarted, aborted, callerOps>>

\* The event loop runs a due timer's callback, which first clears mTimer.
TimerFires(t) ==
    /\ t \in timers
    /\ t.kind = "timeout" => mCurrentAttemptId < MaxAttemptId
    /\ LET c == [C EXCEPT !.timers = @ \ {t}, !.timer = NoTimer]
       IN  Becomes(IF ~alive THEN c
                   ELSE IF t.kind = "wait" THEN OnWaitElapsed(c)
                   ELSE OnAttemptTimeout(c))
    /\ UNCHANGED <<callerRestarted, aborted, callerOps>>

Next ==
    \/ \E delay \in BOOLEAN : CallStart(delay) \/ CallRestart(delay)
    \/ CallAbort
    \/ CallReset
    \/ \E a \in inflight : AttemptResolves(a) \/ AttemptFails(a)
    \/ \E t \in timers : TimerFires(t)

\* The event loop runs due timers; nothing obliges mFunc's promise or the
\* owner to act.
Fairness == WF_vars(\E t \in timers : TimerFires(t))

Spec == Init /\ [][Next]_vars /\ Fairness

----------------------------------------------------------------------------
(* Properties.                                                             *)

TimerRecs == [kind : {"none", "wait", "timeout"}, attempt : Nat]

TypeOK ==
    /\ mState \in States
    /\ mCurrentAttemptNo \in Nat /\ mCurrentAttemptId \in Nat
    /\ mRestart \in BOOLEAN /\ alive \in BOOLEAN
    /\ mPromise \in {"pending", "resolved", "rejected", "aborted"}
    /\ mTimer \in TimerRecs /\ timers \subseteq TimerRecs
    /\ inflight \subseteq Nat /\ cancelled \subseteq Nat
    /\ settles \in Nat /\ lateCall \in BOOLEAN /\ calls \in Nat
    /\ waits \subseteq Nat \X Nat
    /\ callerRestarted \in BOOLEAN
    /\ aborted \in BOOLEAN /\ callerOps \in Nat

\* Every armed timer is the one mTimer holds, so cancelTimer() can always
\* withdraw it: no handler (timeout, fail, restart, abort, the cancel
\* function re-entering schedNextRetry) arms a timer over a live one.
NoOrphanTimer == timers \subseteq {mTimer}

\* Stale attempts are never left running silently: every attempt whose
\* promise is still unsettled, except the current one, was handed to the
\* cancel function (it timed out or was aborted).  Accepting a stale
\* callback, or moving on without cancelling, breaks this.
SingleUncancelledAttempt == inflight \ {mCurrentAttemptId} \subseteq cancelled

\* mFunc is never called once the output promise is settled (nextTry()
\* asserts !mPromise.done()).
NoAttemptAfterSettled == ~lateCall

\* The output promise is resolved or rejected at most once: late attempts,
\* timeouts and abort() cannot settle it a second time.
SettledAtMostOnce == settles <= 1

\* After `delete this` no timer or attempt callback that captured `this`
\* can still run.
NoCallbackAfterDestroy == ~alive => inflight = {} /\ timers = {}

\* A started run ends: with a finite mMaxAttemptCount and attempt timeouts,
\* a pending output promise is eventually resolved or rejected.
EventuallySettles ==
    (alive /\ mState \in Running /\ mPromise = "pending") ~> (mPromise # "pending")


\* The constructor: maxAttemptCount is "the maximum number of retries
\* before giving up"; a run the owner started and did not restart calls
\* mFunc at most that often.
MaxAttemptsRespected ==
    (MaxAttemptCount > 0 /\ ~callerRestarted) => calls <= MaxAttemptCount

\* The constructor comment on backoffStart: "the delay before the second
\* retry ... the first wait will be 1s the next 2s, then 4s": the wait
\* after the n-th failed attempt of a run is min(maxSingleWaitTime,
\* backoffStart * 2^(n-1)).
BackoffAsDocumented ==
    \A w \in waits : w[2] = ReferenceWait(w[1], BackoffStart, MaxSingleWaitTime)

=============================================================================
