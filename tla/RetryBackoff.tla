---------------------------- MODULE RetryBackoff ----------------------------
(***************************************************************************)
(* The wait-time arithmetic of mega::rh::RetryController                   *)
(* (src/src/base/retryHandler.h, calcWaitTime and                          *)
(* calcWaitTimeNoRandomness), kept with the width of the C++ integers:     *)
(* `unsigned` is 32 bits, so the shifted wait is reduced modulo 2^32.     *)
(*                                                                         *)
(* The shift-and-multiply (1 << (n-1)) * mInitialWaitTime is computed in   *)
(* signed int; an overflow there is undefined behaviour, and the code the  *)
(* compilers emit for it is a 32-bit multiply whose low 32 bits are then   *)
(* stored into the unsigned t: the only outcome, modelled as mod 2^32.     *)
(* TLC's integers are 32-bit signed, so the product is never formed:       *)
(* (w * 2^(n-1)) mod 2^32 = (w mod 2^(33-n)) * 2^(n-1), and it is compared *)
(* with the cap by dividing the cap instead.                               *)
(***************************************************************************)
EXTENDS Naturals

\* kBitness: "maximum exponent of mInitialWaitTime that fits into an
\* unsigned", sizeof(unsigned)*8 - 10.
kBitness == 32 - 10

\* The low bits of mInitialWaitTime (an unsigned short, below 2^16) that
\* survive the shift by no-1 inside 32 bits.
SurvivingBits(no, initialWait) ==
    IF no <= 17 THEN initialWait ELSE initialWait % 2^(33 - no)

\* Mutant of CalcWaitTimeNoRandomness: shifts by no instead of no-1.
CalcWaitTimeShiftsByNo(no, initialWait, maxWait) ==
    IF no > kBitness
    THEN IF initialWait = 0 THEN 0 ELSE maxWait
    ELSE LET m == SurvivingBits(no + 1, initialWait)
         IN  IF m <= maxWait \div 2^no THEN m * 2^no ELSE maxWait

\* calcWaitTimeNoRandomness() for mCurrentAttemptNo = no.
CalcWaitTimeNoRandomness(no, initialWait, maxWait) ==
    IF no > kBitness
    THEN IF initialWait = 0 THEN 0 ELSE maxWait
    ELSE LET m == SurvivingBits(no, initialWait)
         IN  IF m <= maxWait \div 2^(no - 1) THEN m * 2^(no - 1) ELSE maxWait

\* calcWaitTime(): the wait above jittered by rnd = rand() % 1000. The
\* products t * mDelayRandPct and rnd * randRange * 2 stay below 2^31 for
\* the caps and percentages the model is run with (MaxWait * 100 * 2000),
\* so the unsigned arithmetic needs no reduction there.
CalcWaitTime(no, initialWait, maxWait, randPct, rnd) ==
    LET t         == CalcWaitTimeNoRandomness(no, initialWait, maxWait)
        randRange == (t * randPct) \div 100
    IN  t - randRange + (rnd * (randRange * 2)) \div 1000

----------------------------------------------------------------------------
(* Reference definitions the arithmetic is checked against.                *)

Clamp(x, hi) == IF x <= hi THEN x ELSE hi

\* x doubled n times in unbounded integers, then clamped at hi.  Doubling
\* is monotone, so the doubling stops once x is past hi (or is 0), which
\* keeps the values within TLC's integers and the recursion shallow.
RECURSIVE Doubled(_, _, _)
Doubled(x, n, hi) ==
    IF n = 0 \/ x = 0 \/ x > hi THEN Clamp(x, hi)
    ELSE Doubled(2 * x, n - 1, hi)

\* min(maxWait, initialWait * 2^(k-1)), the backoff the constructor comment
\* and the spec describe for the k-th wait.
ReferenceWait(k, initialWait, maxWait) == Doubled(initialWait, k - 1, maxWait)

=============================================================================
