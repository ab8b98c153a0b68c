---------------------------- MODULE LocalStrategy ----------------------------
(***************************************************************************)
(* A strategy without a shared store, as createStrategy makes it from the  *)
(* policy's algorithm (StrategyFactory.cpp, RateLimitStrategy.h): one of   *)
(* five objects, whose virtual allowRequest and reset are those of its own *)
(* module.  The five read one clock and share the observers; the fields    *)
(* of the objects that were not made keep their initial values.            *)
(***************************************************************************)
EXTENDS BucketParameters, WindowParameters

CONSTANT IntMax         \* see SlidingWindowCounter

ASSUME IntMaxAssumption == IntMax \in Nat /\ IntMax > 1

VARIABLES
    algorithm,                          \* which object was made
    now,                                \* steady_clock
    tokens, lastRefill,                 \* TokenBucket
    queue, lastLeak,                    \* LeakyBucket
    counter, windowStart,               \* FixedWindowCounter
    log,                                \* SlidingWindowLog
    prev, curr,                         \* SlidingWindowCounter, with windowStart
    markTime, spent, lastAdmit,         \* observers of the first three
    admitted, answer                    \* observers of the sliding ones

tokenFields   == <<tokens, lastRefill>>
leakyFields   == <<queue, lastLeak>>
bucketMarks   == <<markTime, spent, lastAdmit>>
slidingMarks  == <<admitted, answer>>
vars == <<algorithm, now, tokenFields, leakyFields, counter, windowStart, log,
          prev, curr, bucketMarks, slidingMarks>>

Algorithms == {"TokenBucket", "LeakyBucket", "FixedWindowCounter",
               "SlidingWindowLog", "SlidingWindowCounter"}

Token   == INSTANCE TokenBucket
Leaky   == INSTANCE LeakyBucket
Fixed   == INSTANCE FixedWindowCounter
Log     == INSTANCE SlidingWindowLog
Sliding == INSTANCE SlidingWindowCounter

(* The type of the object that was made; the others are not there. *)
TypeOK ==
    /\ algorithm \in Algorithms
    /\ algorithm = "TokenBucket" => Token!TypeOK
    /\ algorithm = "LeakyBucket" => Leaky!TypeOK
    /\ algorithm = "FixedWindowCounter" => Fixed!TypeOK
    /\ algorithm = "SlidingWindowLog" => Log!TypeOK
    /\ algorithm = "SlidingWindowCounter" => Sliding!TypeOK

Init ==
    /\ algorithm \in Algorithms
    /\ Token!Init /\ Leaky!Init /\ Fixed!Init /\ Log!Init /\ Sliding!Init

-----------------------------------------------------------------------------
UseToken ==
    /\ algorithm = "TokenBucket"
    /\ Token!Next
    /\ UNCHANGED <<algorithm, leakyFields, counter, windowStart, log, prev, curr,
                   slidingMarks>>

UseLeaky ==
    /\ algorithm = "LeakyBucket"
    /\ Leaky!Next
    /\ UNCHANGED <<algorithm, tokenFields, counter, windowStart, log, prev, curr,
                   slidingMarks>>

UseFixed ==
    /\ algorithm = "FixedWindowCounter"
    /\ Fixed!Next
    /\ UNCHANGED <<algorithm, tokenFields, leakyFields, log, prev, curr, lastAdmit,
                   slidingMarks>>

UseLog ==
    /\ algorithm = "SlidingWindowLog"
    /\ Log!Next
    /\ UNCHANGED <<algorithm, tokenFields, leakyFields, counter, windowStart, prev, curr,
                   bucketMarks>>

UseSliding ==
    /\ algorithm = "SlidingWindowCounter"
    /\ Sliding!Next
    /\ UNCHANGED <<algorithm, tokenFields, leakyFields, counter, log,
                   bucketMarks, answer>>

Next == UseToken \/ UseLeaky \/ UseFixed \/ UseLog \/ UseSliding

Spec == Init /\ [][Next]_vars

-----------------------------------------------------------------------------
(* What each algorithm's own module states of it, for the object made.     *)

(* TokenBucket: no interval admits more than capacity and refill pay for.  *)
AdmissionBound == algorithm = "TokenBucket" => Token!AdmissionBound

(* FixedWindowCounter: an open window holds to the limit, and no more than *)
(* two windows ever meet.                                                  *)
BurstBound ==
    algorithm = "FixedWindowCounter" => Fixed!WindowBound /\ Fixed!BoundaryBurstBound

(* SlidingWindowCounter: the estimate falls short of the true rolling      *)
(* count by at most limit * f, and no window holds more than 2 * limit.    *)
EstimateBound ==
    algorithm = "SlidingWindowCounter" =>
        Sliding!UnderestimateBound /\ Sliding!AtMostTwiceLimit

(* Nobody is denied for ever or for nothing: polling loses no refill, a    *)
(* quiet window reopens, and only traffic of the last two windows counts.  *)
DenialsJustified ==
    /\ algorithm = "TokenBucket" => Token!PollingKeepsRefill
    /\ algorithm = "FixedWindowCounter" => Fixed!QuietWindowReopens
    /\ algorithm = "SlidingWindowCounter" => Sliding!DenialsJustified

(* LeakyBucket: it decides call for call as a token bucket does.           *)
ImplementsTokenBucket ==
    Leaky!TB!Init /\ [][algorithm = "LeakyBucket" => [Leaky!TB!Next]_(Leaky!TB!vars)]_vars

(* SlidingWindowLog: every answer is that of the limiter that forgets      *)
(* nothing.                                                                *)
ImplementsRollingWindow ==
    Log!Ideal!Init /\
    [][algorithm = "SlidingWindowLog" => [Log!Ideal!Next]_<<now, admitted, answer>>]_vars
=============================================================================
