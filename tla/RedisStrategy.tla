---------------------------- MODULE RedisStrategy ----------------------------
(***************************************************************************)
(* A strategy over a shared store, as createRedisBackedStrategy makes it   *)
(* from the policy's algorithm (storage/RedisRateLimitStrategies.cpp): one *)
(* of five, whose scripts are those of its own module.  The five read one  *)
(* clock and share the observers; the keys of the others are never made.   *)
(***************************************************************************)
EXTENDS BucketParameters, WindowParameters, RedisClock

VARIABLES
    algorithm,                      \* which strategy was made
    tokens, queue, last,            \* the keys of the two buckets
    counter, start,                 \* of the fixed window counter
    log, seq,                       \* of the sliding window log
    prev, curr,                     \* of the sliding window counter, with start
    deadline,                       \* when they expire
    markTime, spent, lastAdmit,     \* observers of the first three
    admitted, answer                \* observers of the sliding ones

bucketMarks  == <<markTime, spent, lastAdmit>>
slidingMarks == <<admitted, answer>>
vars == <<algorithm, time, tokens, queue, last, counter, start, log, seq, prev, curr,
          deadline, bucketMarks, slidingMarks>>

(* A bucket that never refills is made like any other. *)
Algorithms == {"TokenBucket", "TokenBucket, refill 0", "LeakyBucket",
               "FixedWindowCounter", "SlidingWindowLog", "SlidingWindowCounter"}

Token   == INSTANCE RedisTokenBucket
Dry     == INSTANCE RedisTokenBucket WITH Rate <- 0
Leaky   == INSTANCE RedisLeakyBucket
Fixed   == INSTANCE RedisFixedWindowCounter
Log     == INSTANCE RedisSlidingWindowLog
Sliding == INSTANCE RedisSlidingWindowCounter

(* The type of the keys of the strategy that was made. *)
TypeOK ==
    /\ algorithm \in Algorithms
    /\ algorithm \in {"TokenBucket", "TokenBucket, refill 0"} => Token!TypeOK
    /\ algorithm = "LeakyBucket" => Leaky!TypeOK
    /\ algorithm = "FixedWindowCounter" => Fixed!TypeOK
    /\ algorithm = "SlidingWindowLog" => Log!TypeOK
    /\ algorithm = "SlidingWindowCounter" => Sliding!TypeOK

Init ==
    /\ algorithm \in Algorithms
    /\ Token!Init /\ Leaky!Init /\ Fixed!Init /\ Log!Init /\ Sliding!Init

-----------------------------------------------------------------------------
UseToken ==
    /\ \/ algorithm = "TokenBucket" /\ Token!Next
       \/ algorithm = "TokenBucket, refill 0" /\ Dry!Next
    /\ UNCHANGED <<algorithm, queue, counter, start, log, seq, prev, curr, slidingMarks>>

UseLeaky ==
    /\ algorithm = "LeakyBucket"
    /\ Leaky!Next
    /\ UNCHANGED <<algorithm, tokens, counter, start, log, seq, prev, curr, slidingMarks>>

UseFixed ==
    /\ algorithm = "FixedWindowCounter"
    /\ Fixed!Next
    /\ UNCHANGED <<algorithm, tokens, queue, last, log, seq, prev, curr, lastAdmit,
                   slidingMarks>>

UseLog ==
    /\ algorithm = "SlidingWindowLog"
    /\ Log!Next
    /\ UNCHANGED <<algorithm, tokens, queue, last, counter, start, prev, curr, bucketMarks>>

UseSliding ==
    /\ algorithm = "SlidingWindowCounter"
    /\ Sliding!Next
    /\ UNCHANGED <<algorithm, tokens, queue, last, counter, log, seq, bucketMarks, answer>>

Next == UseToken \/ UseLeaky \/ UseFixed \/ UseLog \/ UseSliding

Spec == Init /\ [][Next]_vars

-----------------------------------------------------------------------------
(* While the clock is not set back, every process that shares the keys     *)
(* decides as one local object would: the expiry of the keys never shows,  *)
(* neither with a refill nor without.  The exception is the sliding window *)
(* counter, whose grid starts anew when nothing was admitted for three     *)
(* windows and the keys are gone: from then on the phase is another than   *)
(* the local object's, and so may be a verdict.  The scripts of the leaky  *)
(* bucket are those of the token bucket, whatever the clock does.          *)
ImplementsLocal ==
    /\ Token!Local!Init /\ Log!Ideal!Init /\ Sliding!Local!Init
    /\ [][algorithm = "TokenBucket" /\ steady =>
            [Token!Local!Next]_(Token!Local!vars)]_vars
    /\ [][algorithm = "TokenBucket, refill 0" /\ steady =>
            [Dry!Local!Next]_(Dry!Local!vars)]_vars
    /\ [][algorithm = "FixedWindowCounter" /\ steady =>
            [Fixed!Local!Next]_(Fixed!Local!vars)]_vars
    /\ [][algorithm = "SlidingWindowLog" /\ steady =>
            [Log!Ideal!Next]_<<real, admitted, answer>>]_vars
    /\ [][algorithm = "SlidingWindowCounter" /\ steady =>
            [Sliding!Local!Next \/ Sliding!Regrid]_(Sliding!Local!vars)]_vars
    /\ [][algorithm = "LeakyBucket" => [Leaky!TB!Next]_(Leaky!TB!vars)]_vars

(* A server clock that is set back lets nothing through that real time has *)
(* not paid for.  The estimate of the sliding counter falls short by at    *)
(* most limit * f, also over the grids that expiry and clock leave behind. *)
AdmissionBound ==
    /\ algorithm = "TokenBucket" => Token!AdmissionBound
    /\ algorithm = "TokenBucket, refill 0" => Dry!AdmissionBound
    /\ algorithm = "LeakyBucket" => Leaky!TB!AdmissionBound
    /\ algorithm = "FixedWindowCounter" => Fixed!BoundaryBurstBound
    /\ algorithm = "SlidingWindowLog" => Log!EveryWindowWithinLimit
    /\ algorithm = "SlidingWindowCounter" =>
         Sliding!UnderestimateBound /\ Sliding!AtMostTwiceLimit

(* Setting the clock back denies nobody for ever.  With real - now the     *)
(* time that was set back: a bucket has refilled since its last admission  *)
(* as real time has it, less the refill of that time; a window in which    *)
(* nothing was admitted reopens when the clock has passed its end again;   *)
(* and what fills the log, or weighs on the sliding counter, was let       *)
(* through in the last window of real time, or two, and that time.  (A     *)
(* bucket that does not refill denies for ever by design.)                 *)
DenialsJustified ==
    /\ algorithm = "TokenBucket" => Token!DebtIsBounded
    /\ algorithm = "LeakyBucket" => Leaky!TB!DebtIsBounded
    /\ algorithm = "FixedWindowCounter" => Fixed!QuietWindowReopens
    /\ algorithm = "SlidingWindowLog" => Log!DenialsJustified
    /\ algorithm = "SlidingWindowCounter" => Sliding!DenialsJustified
=============================================================================
