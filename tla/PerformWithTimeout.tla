------------------------- MODULE PerformWithTimeout -------------------------
(***************************************************************************)
(* performWithTimeout(cb, timeout, cancelCb)                               *)
(* (src/src/base/retryHandler.h): creates the promise pms it returns, arms *)
(* a one-shot timer, runs cb(), which returns a promise retpms, and        *)
(* attaches two handlers to retpms:                                        *)
(*   - _timeoutAttachThenHandler(retpms): its parameter is named pms, but  *)
(*     it is retpms, so its then-handler tests and resolves retpms itself, *)
(*     never the returned pms;                                             *)
(*   - the fail lambda, which rejects the returned pms if it is not done.  *)
(* The timer rejects pms with "Operation timed out" if it is not done and  *)
(* then calls cancelCb.                                                    *)
(*                                                                         *)
(* The timer is never cancelled.  retpms may settle synchronously inside   *)
(* cb(), later, or never, and cancelCb may reject it synchronously.  Ops   *)
(* are calls in flight at the same time, so their steps interleave.        *)
(***************************************************************************)
EXTENDS Naturals

CONSTANT Ops      \* concurrent calls of performWithTimeout

VARIABLES        \* each a function of the call
    pms,            \* the returned promise: "none" before the call, then
                    \* "pending", "resolved", "rejected" or "timedout"
    retpms,         \* the promise cb() returned: "none", "pending",
                    \* "resolved" or "rejected"
    timerArmed,     \* the setTimeout of the call has not fired yet
    cancelCalls     \* times cancelCb was invoked

vars == <<pms, retpms, timerArmed, cancelCalls>>

\* The fail lambda: `if (!pms.done()) pms.reject(err)`.
FailHandler(p) == IF p = "pending" THEN "rejected" ELSE p

\* The state pms is left in when retpms settles with r.  The then-handler
\* of _timeoutAttachThenHandler acts on retpms only (whichever way done()
\* reads inside it), so a success leaves pms as it is.
Forward(p, r) == IF r = "rejected" THEN FailHandler(p) ELSE p

Init ==
    /\ pms = [o \in Ops |-> "none"] /\ retpms = [o \in Ops |-> "none"]
    /\ timerArmed = [o \in Ops |-> FALSE] /\ cancelCalls = [o \in Ops |-> 0]

\* The call: pms pending, arm the timer, run cb(), attach the handlers.  A
\* promise that cb() returns already settled runs its handler as it is
\* attached.
Call(o) ==
    /\ pms[o] = "none"
    /\ \E r \in {"pending", "resolved", "rejected"} :
          /\ retpms' = [retpms EXCEPT ![o] = r]
          /\ pms' = [pms EXCEPT ![o] = Forward("pending", r)]
    /\ timerArmed' = [timerArmed EXCEPT ![o] = TRUE]
    /\ UNCHANGED cancelCalls

\* The operation's promise settles later and its handlers run.
OpSettles(o) ==
    /\ retpms[o] = "pending"
    /\ \E r \in {"resolved", "rejected"} :
          /\ retpms' = [retpms EXCEPT ![o] = r]
          /\ pms' = [pms EXCEPT ![o] = Forward(@, r)]
    /\ UNCHANGED <<timerArmed, cancelCalls>>

\* cancelCb, caller code, may reject the operation's promise synchronously
\* (its fail handler then finds pms done) or leave it to answer later.
CallCancelCb(o) ==
    /\ cancelCalls' = [cancelCalls EXCEPT ![o] = @ + 1]
    /\ \/ retpms' = retpms
       \/ retpms[o] = "pending" /\ retpms' = [retpms EXCEPT ![o] = "rejected"]

\* The timer callback: return if pms is done; otherwise reject it with the
\* timeout error and call cancelCb.
TimerFires(o) ==
    /\ timerArmed[o]
    /\ timerArmed' = [timerArmed EXCEPT ![o] = FALSE]
    /\ IF pms[o] # "pending"
       THEN UNCHANGED <<pms, retpms, cancelCalls>>
       ELSE /\ pms' = [pms EXCEPT ![o] = "timedout"]
            /\ CallCancelCb(o)

Next == \E o \in Ops : Call(o) \/ OpSettles(o) \/ TimerFires(o)

\* The event loop runs every due timer; the operation need never answer.
Spec == Init /\ [][Next]_vars /\ \A o \in Ops : WF_vars(TimerFires(o))

----------------------------------------------------------------------------
\* What the handlers are written to do: an operation whose promise resolves
\* while the timer is still armed has won the race, so the caller's pms
\* carries its value and the timer will not call cancelCb on it.
AnswerForwarded ==
    \A o \in Ops : retpms[o] = "resolved" /\ timerArmed[o] => pms[o] = "resolved"
=============================================================================
