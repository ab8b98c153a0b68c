# A TLA+ verification of Rlimit

Rlimit is a C++17 rate limiter: five limiting algorithms, policies that choose
one per tenant and endpoint, an engine that shares the limiters among threads,
a REST service with a bounded worker pool, Redis/Lua variants of the
algorithms, and an append-only audit store.  This directory holds TLA+ modules
translated from its source, the TLC runs that check them on small instances,
and theorems about them that TLAPS checks for every value of the constants.

All file and line references are to the repository's source.

## 1. Inventory of the system

| Part | State it keeps | Operations | Talks to |
|---|---|---|---|
| Local algorithms (`TokenBucket`, `LeakyBucket`, `FixedWindowCounter`, `SlidingWindowLog`, `SlidingWindowCounter`) | a counter or a level, and time points of `steady_clock` | `allowRequest`, `reset`, `getState` | the clock; nobody locks inside |
| `PolicyEngine` | registry key -> `Entry` (strategy + mutex), a shared mutex on the registry | `setPolicy`, `ensurePolicy`, `hasTenant`, `evaluate(Detailed)`, `evaluateUnsafe`, `getState`, `getAlgorithm`, `resetPolicy` | strategies, under the entry's mutex |
| `PolicyResolver`, `Policy`, `PolicyLoader` | a priority-sorted vector of policies under a shared mutex; the YAML file | `resolve`, `setPolicies`, `loadFromFile`, `saveToFile` | the file system (temporary file and rename) |
| `StrategyFactory` | none | `createStrategy`, `buildPolicyKey` | chooses local or Redis strategies by the store's capability |
| `RestController` | four atomic counters, a mutex for policy mutations | `handleEvaluate`, `handleGetPolicies`, `handlePostPolicy`, `handleHealth`, `handleMetrics` | resolver, engine, audit store, Redis |
| `Server` | a bounded queue of accepted sockets, a mutex and a condition variable, worker threads | accept loop, worker loop, framing with timeouts | `RestController` |
| `RedisStateStore` | one authenticated connection per worker thread | `command`, `eval`, `health`, `get`, `set`, `incr`, `expire` | Redis over RESP, 2 s timeouts |
| Redis strategies | keys in Redis with a time to live; `lastState_`, `lastError_` locally | one Lua script per `allowRequest` and `reset` | `StateStore::eval` |
| `InMemoryStateStore` | values and expiry times under a mutex | `get`, `set`, `incr`, `expire` | the clock |
| `Database` (audit store) | tenants, requests and an availability flag under a mutex; the text file | `saveTenant`, `deleteTenant`, `logRequest`, the queries, the constructor's load | the file system |
| CLI (`main.cpp`) | the engine, the store, counters of the stress test | the restore at the start, ten menu commands, the stress test with two threads | `PolicyEngine`, `Database` |
| `Metrics`, `JsonCodec`, tests | benchmarks on engines of their own, text | - | all of the above |

What is hard here: a read-modify-write shared by threads; lazy creation with a
check before the act; an entry replaced while another thread still holds it;
boundaries of windows and roundings of refills that only long sequences of
calls reach; a request cut anywhere by the network; input that ends in the
middle of a command; a reply lost after the script has committed; a crash or a
failing write between the copy in memory and the copy in the file; a bounded queue and
a bounded history at their limit.  `PROJECT.json` lists these hazards at their
lines, with the properties that watch them.

## 2. The modules

| Module | Models | Instantiated or extended by |
|---|---|---|
| `Clock`, `BucketParameters`, `WindowParameters` | the steady clock of the local algorithms and their parameters, with the assumptions on them | all algorithm modules |
| `TokenBucket`, `LeakyBucket`, `FixedWindowCounter`, `SlidingWindowLog`, `SlidingWindowCounter` | the five local algorithms: `Admit`, `Deny`, `Reset`, `Tick` | `LocalStrategy`; the Redis modules (refinement) |
| `RollingWindow` | the ideal rolling limiter: at most `Limit` admissions in any window, denying only when there are that many | `SlidingWindowLog` (refinement), `SlidingWindowCounter` and the Redis sliding modules (the bounds they are measured by) |
| `LocalStrategy` | `createStrategy`: one of the five behind `allowRequest` and `reset` | - |
| `PolicyEngine`, `MCPolicyEngine` | the engine under concurrent callers, with `handleEvaluate`'s lazy creation | - |
| `QuotaLedger` | what the engine promises: indivisible decisions on quotas | `PolicyEngine` (refinement) |
| `RedisClock`, `RedisTokenBucket`, `RedisLeakyBucket`, `RedisFixedWindowCounter`, `RedisSlidingWindowLog`, `RedisSlidingWindowCounter` | the five Lua scripts with the expiry of their keys and a server clock that may be set back | `RedisStrategy` |
| `RedisStrategy` | `createRedisBackedStrategy`, with a token bucket of refill 0 as a sixth | - |
| `RedisSession` | one connection per worker, commands, replies, time-outs, and the answer of `handleEvaluate` | - |
| `AuditStore` | `Database`: memory, text file, faults and crashes | - |
| `BoundedLog` | what the store promises: a log that keeps the last `MaxRecords` records | `AuditStore` (refinement) |
| `PolicyResolver` | order and choice of policies, and what the policy file keeps of one | `RestController` |
| `RestController`, `MCRestController` | `handleEvaluate`, `handlePostPolicy`, `handleMetrics`, `saveToFile`, and the restart in `server_main` | - |
| `PolicyBook` | what the controller promises of policies: which one decides each request, with no file, lock or list | `RestController` (refinement) |
| `HttpServer` | `Server::run` and `readRequest`: accepting thread, queue, workers, and where a request ends | - |
| `CommandLine`, `MCCommandLine` | `main.cpp`: the restore, the menu, the stress test on a shared engine | - (it instantiates `PolicyEngine`) |
| `*_proofs` | the theorems of section 6 | - |

### Correspondence

*Local algorithms.*  Variables have the names of the members.  Time is a count
of ticks, and a fractional quantity is an integer in a finer unit: a token
bucket holds `tokens` units of which one request costs `Cost` and one tick
gives back `Rate`, so that capacities and levels that are no whole number of
requests occur (7 units at 3 a request).  `static_cast<int>(elapsed / window)`
in the sliding counter keeps its width: `IntMax` is the range of `int`, scaled
down.  With `IntMax` as large as the clock the conversion never overflows; the
run `sliding_counter_idle` sets it to 2 and takes x86's result, INT_MIN, for a
number that does not fit.  `markTime`, `spent` and `lastAdmit` observe a span
between two instants that the model picks; `admitted` counts the admissions at
each instant, and `answer` is the last verdict.  No code variable reads them.

*Engine.*  A worker's call is a sequence of steps, `pc` says which is next.  A
section under `registryMutex_` is one step.  What runs under an entry's mutex
is cut further, into the load and the store of `allowRequest`, the reading of
the state and the unlocking, so that a missing or misplaced lock shows.  An
entry is a model value, so one that was replaced while a worker still holds
its `shared_ptr` is still there.  The strategy inside is what every algorithm
is between two ticks: a count that is compared with a limit.

*Redis.*  A script is one step of the server.  `EXPIRE` sets a deadline in
whole seconds (`Second` ticks), and an expired key is deleted at any time after
its deadline.  `steady` is chosen at the start: behaviours in which the clock is
never set back are compared with the local algorithms, the others with bounds
in real time.  In `RedisSession`, Redis may execute a command long after the
client has given up, answer late, with an error or not at all.

*Audit store.*  `mutex_` is held through every operation, the access to the
file included, so one operation is in progress at a time and only a crash comes
between its steps (`append`, `rewrite`, `rename`, `return`).  The rows of the
file are the records that `loadFromFile` finds; its last line is whole, or
`open` (the last row has no end of line), or `scrap` (behind the rows is a part
of a row that makes no record), and what is appended behind either is glued to
it.  Only where two rows in a row were cut, and have five tabs between them,
does `loadFromFile` make a record of the pieces (`Database.cpp:117`); the model
takes it for the later of the two, so that `NothingInvented` promises of such a
record its place and not each of its fields.  A write can fail at the flush,
unseen (`AppendFails`), or, in a row longer than the stream's buffer, before
that, seen and with a part of the row on disk (`AppendFailsEarly`).  Each kind
of fault can be switched on by `Faults`.

*REST controller.*  A handler's steps are the places where it touches what is
shared: a counter, the resolver, the engine, the audit store, the policy file.
What engine, Redis and audit store do is in modules of their own; here each may
give any outcome it has.  A policy is a record of priority, matched requests,
parameters and validity of its text.  `std::stable_sort` is modelled by where it
puts each policy: behind all that precede it in the order, of which `Place` is
the number.  The file holds policies as they come back
from a save and a load, that is, with parameters of `Digits` or more rounded in
the last digit (`formatLineDouble` prints six).

*HTTP server.*  `pc` distinguishes a worker that checks the queue from one that
sleeps on the condition variable.  The mutex is held only around a check and
pop, or a push, and each is one step; `notify_one` is a step of its own because
the code calls it after the mutex is released.  Workers wake spuriously.  Of
what a worker has received, `raw` keeps three numbers of `readRequest`: how much
it is, where the blank line starts (`headerEnd`) and the body that is expected
(`expectedBody`).  A `recv` brings any number of bytes up to a buffer, so the
blank line may come in pieces and the body may come with the headers.

*Command line.*  `main` is one thread; its calls of the engine are calls of
`PolicyEngine`, of which `CommandLine` is the composition with the store and
the input.  `at` says where `main` is between such calls.  A strategy of the
engine model admits `Limit` requests whatever it was set to; `setting` keeps
beside each entry what it was set to.  A setting in the file is text: `ReadBack`
is what `parseParams` and `makeStrategy` read from what `makeParams` has written.
`Read` is a read of `std::cin` that succeeds or fails; after a failure every
later one fails and leaves its variable as it was, which for `choice` and the
numbers of a menu means uninitialized: any value.

### Seeded faults

An operator with the comment "Seeded fault" is what a definition could have
been with a plausible mistake: a bound off by one, a lock left out or kept, an
update lost or doubled.  No specification uses it.  Each checked property is
paired in `PROJECT.json` with one of them, put in the place of the definition
it varies; TLC then finds the property violated.

## 3. The runs

| Run | Bounds | States | What it shows |
|---|---|---|---|
| `local_strategy` | 10 ticks; bucket of 7 units, 3 a request, 2 a tick; limit 2, window 3 | 31 k | every timing of calls and resets: no span admits more than its capacity and refill (`AdmissionBound`); two windows of the fixed counter may meet, never a third (`BurstBound`); the sliding counter errs by no more than `limit * f` (`EstimateBound`); polling while denied costs nothing and no denial is too long (`DenialsJustified`); the leaky bucket is a token bucket on its free room, and the log is the ideal rolling limiter |
| `sliding_counter_idle` | the same, `IntMax` 2 | - | finding 1 |
| `engine` | 2 workers, 2 keys, 4 entries, 2 calls each, limit 1 | 172 k | every operation but `evaluateUnsafe`, in every interleaving |
| `audit_store` | 5 records, bound of 2, all five faults | 101 k | rows are lost only where a row was cut or its write failed in the middle; nothing is invented; tenants survive; without damage the store is `BoundedLog` |
| `audit_store_tear` | crashes in an append only | - | finding 2 |
| `redis_session` | 2 workers, 2 calls each, limit 1 | 84 k | a reply answers its own command, no script runs twice, every allow was granted, every call returns |
| `redis_session_silent` | the same | - | finding 3 |
| `redis_strategy` | 6 ticks of real time, seconds of one tick; window 2, limit 3 | 1.1 M | with a steady clock every process decides as one local object would, and the expiry of keys never shows, except in the phase of the sliding counter's grid (`ImplementsLocal`); with a clock set back, admissions are still paid for in real time (`AdmissionBound`), and every algorithm denies for what it let through no longer ago than it remembers and the time set back (`DenialsJustified`) |
| `http_server` | 3 connections, 2 workers, a queue of 2; headers up to 1, a body up to 2, a buffer of 3, a blank line of 2 | 44 k | no lost wake-up, one handler per connection, every connection closed, and no request handed over before the whole declared body is there (`WholeRequest`), however it is cut |
| `rest_controller` | 2 workers, 4 calls in all, 3 policies to post, 2 faults or crashes | 215 k | acknowledged policies stay in force, the controller implements `PolicyBook`, counters and audit agree, every call returns |
| `command_line` | 1 tenant beside the stress test's and the empty one, 3 commands, 2 threads of 2 requests, limit 2, 1 fault or kill | 1.2 M | the unsafe half of the stress test admits at least the limit, the locked half exactly (`StressReport`), also when run again and after commands on other tenants; a restart restores what was saved (`RestoredAsSet`, for limits below a million) |
| `command_line_restore` | a limit of a million | - | finding 4 |

Why the bounds suffice.  The algorithms compare elapsed time with one window or
one refill; ten ticks hold three windows of 3 and more than two full refills, so
idle, half-used and adjacent windows all occur, with levels that divide neither
the cost nor the capacity.  In the engine a race needs two workers on one entry,
a replaced entry needs a second one and a racing creation a third; the fourth
lets a `setPolicy` follow.  The audit store's bound of 2 is exceeded by its
third record, and two more appends follow the first compaction and a
restart.  In the server two connections fill the queue before a worker is back
from sleep, and the third overflows; or both workers are busy and the third
waits.  In the Redis scripts a limit of 3 is the least at which a grid ahead of
the clock makes the sliding counter deny for fewer calls than its limit; six
ticks hold three windows of 2, and a clock set back in any of them.  With
lengths of 0 to 2 and a buffer of 3, a request ends within a buffer, at its edge
and beyond it, the blank line is cut in two, and headers, body and blank line
each come alone and together.  In the command line three commands are enough to
set a policy, stress the engine and leave, or to set one twice with a failing
save between, and the kill adds a second process. In the controller two posts
can overlap and a third call look on; one of the posted policies ties with the
seeded one, one outranks it, one fails validation in `saveToFile`, and one has
parameters that the file rounds.  Every action of every module is taken in some
run.

Deadlock is checked except in `http_server` and `rest_controller`, where the
bounded clients really fall silent (and the HTTP process may be ended by a
signal); the other bounded modules have a `Terminated` step instead.

## 4. Fairness

Liveness is stated for calls and connections: `EveryCallReturns` (engine, Redis
session, controller) and `EveryConnectionClosed`.  The fairness is weak, on
each worker thread's next step, and on the accepting thread.  The code
justifies it: threads are never cancelled; critical sections are short, and
inside an entry's mutex there is no other lock; `recv` and `send` return within
two seconds (Redis) or five (clients) because of `SO_RCVTIMEO` and
`SO_SNDTIMEO`; file operations return.  Nothing is assumed of clients, of Redis
or of the network: no fairness is put on connecting, on `Serve`, on faults or
on spurious wake-ups.  Weak fairness is enough for a mutex because each waiting
thread is granted it as a step of its own, and calls are finitely many; a
scheduler that starves one thread in favour of infinitely many new calls is
outside the models.

## 5. What disagrees with the documents

1. **Idle sliding counter** (`SlidingWindowCounter.cpp:20`).  After more than
   INT_MAX windows without a call the conversion to `int` is undefined; with
   the value x86 gives, the window start moves backwards and the limiter admits
   everything from then on.  `sliding_counter_idle`.
2. **A torn row swallows the next** (`Database.cpp:196`).  The store appends
   after a row that a crash cut short without ending its line; the next record
   is acknowledged and unreadable at the next start.  `audit_store_tear`.
3. **A silent failure is a denial** (`storage/RedisStateStore.cpp:352`).  Some
   failures leave the error text empty, and the service answers 200 with a
   denial.  `redis_session_silent`.
4. **A limit of a million is restored as one** (`main.cpp:97`).  The command
   line program stores a limit with six significant digits, as `1e+06`, and
   reads it back with `std::stoi`, which stops at the `e`.  README.md:35 says the
   policies are restored.  `command_line_restore`.

Also met, without a run of their own:

- A policy file keeps six digits of a parameter (`policy/PolicyLoader.cpp:122`)
  while the quota key keeps fifteen: a limit of 1234567 is 1234570 after a
  restart, under a different key, so that its state in Redis is not found again
  (TECHNICAL_ONBOARDING.md:462 says it survives).  `PolicyBook` is implemented
  up to this rounding.
- A posted policy with an invalid match field is answered with 500, not with
  the 400 of TECHNICAL_ONBOARDING.md:364, because only `saveToFile` looks at it.
- At the bound on audit rows, every append rewrites the file
  (`Database.cpp:268`); TECHNICAL_ONBOARDING.md:701 describes an O(1) append
  with occasional compaction.
- `LeakyBucket.h:23` calls the output smooth at the leak rate; an empty bucket
  admits its capacity at once, as TECHNICAL_ONBOARDING.md:433 concedes.
- The five-second deadline of a client is per `recv`, not per request.
- A body longer than its Content-Length is handed over whole if it came with the
  last `recv` (`api/Server.cpp:200`); README.md:186 says "strict Content-Length".
  `WholeRequest` bounds the excess by a buffer.  Without a length, bytes after
  the headers are refused only if they come in the same `recv`.
- A write that fails at the flush in the stream's destructor is reported as a
  success (`Database.cpp:205`); TECHNICAL_ONBOARDING.md:320 says the store is
  then marked unavailable.  The run `audit_store` includes such writes.
- A limit of 2.5 typed into the command line program is read as the limit 2 and
  leaves ".5" for the window; `saveTenant`'s result is not looked at; a tenant
  that is called `_stress_` is overwritten by the stress test.
- The scripts of the sliding counter and the local object of that name do not
  decide alike, although the clock be steady.  The keys expire three windows
  after the last call and the grid then starts at the next call's `now`
  (`storage/RedisRateLimitStrategies.cpp:249`); the object keeps its phase for
  ever (`SlidingWindowCounter.cpp:20`).  With a window of 3 and a limit of 2,
  take a first call at 0, idleness until 10 and two admissions at 10: at 13 the
  object, in the window from 12 on, estimates 4/3 and admits, and the script, at
  the start of a window, estimates 2 and denies.  `ImplementsLocal` names this
  one exception (`Regrid`) and shows that it comes only after three windows
  with no admission; the bounds on what is admitted hold for both.
- `PolicyEngine` never removes an entry (`PolicyEngine.cpp:13`), and nothing
  bounds how many tenants, endpoints and parameter sets it holds.
- `InMemoryStateStore::set` keeps the expiry of the value it replaces.

## 6. What is proved

For every value of the constants that the named assumptions allow, with no
bound on time or on the number of calls beyond what the constants say:

| Module | Theorem | Argument |
|---|---|---|
| `LocalStrategy_proofs` | `TypeCorrect`, `Admitted`, `Bursts`, `LeakyIsToken`, `LogIsRollingWindow`; under `InRange`, `Estimated` and `Justified` | `OneObject`: a step is one of the object that was made, so each algorithm has an invariant of its own.  `BucketInv`: the tokens held plus those spent since the mark are at most the capacity plus the refill since then (`AdmissionBound` alone says nothing of the tokens left, which the next request spends).  `FixedWindowInv`: where the mark lies in the window.  `LogInv`: the log is the admissions of the window (`Split`), each once.  `SlidingInv`: `curr` and `prev` are the admissions of the last two windows of the grid (`Grid`), none is later, and no window holds more than twice the limit (`Past`) |
| `PolicyEngine_proofs` | `TypeCorrect`, `NeverOverAdmits`, `ResultOfOnePiece`, `OneQuota`, `Implements` | `EngineInv`: whoever is between lock and unlock owns the entry's mutex, what it has loaded is still current, the count is exact, and an unmade entry is known to nobody.  With it, `StoreAllow` and `StoreDeny` are a ledger's indivisible decisions and all else stutters.  `OwnSnapshot`: the state read goes with the verdict stored under the same lock.  `RoomBound`: what a key has admitted and the room left in all its entries are paid for by its renewals, which also covers calls that still hold a replaced entry |
| `HttpServer_proofs` | `TypeCorrect`, `WakeupsKept`, `HandledOnce`, `RequestsWhole` | `Typed`: a thread has a connection exactly while it deals with one, and (`ReadingOn`) of a request still being read the limit that applies is not reached.  `ReadingOn` bounds what is received and makes `WholeRequest` inductive: the last `recv` adds less than a buffer too much; `NoLostWakeup` is inductive over it, by counting the workers that are awake; `HandlerInv` adds that what waits for accept is nobody's yet, without which a connection could be handed out twice |
| `RestController_proofs` | `TypeCorrect`, `CreatedStays`, `ImplementsBook`, `OnlyHigherReplaces`, `CreatedDecide`, `Accounted` | `RestInv`: whoever is past the lock holds, as its own copy, the list in force with its policy sorted in (`PostInv`); the file holds the policies in force as saved, except between rename and install (`FileInv`); what was created is in both (`CreatedKept`).  `AccountInv`: the rows written in this process are the decisions counted plus those between log and count, and a count is the number of answers.  The sort's facts (order, stability, where an insertion lands) follow from counting what goes before each policy.  `OnlyHigherReplaces` and `CreatedDecide` are properties of `PolicyBook`, and hold of the controller because it implements the book: priorities of what decides only rise |
| `RedisSession_proofs` | `TypeCorrect`, `NoLateReply`, `RunAtMostOnce`, `AllowIsBacked` | `SessionInv`: what is on the wire and in an inbox belongs to the connection it came by and to a command that was sent (`InboxIsOwn`, `SentFirst`), each at most once (`SentOnce`); on a live connection it is the command being waited for (`LiveIsAwaited`), because every failure closes the connection; a reply that allows was granted (`RepliesTrue`) |
| `AuditStore_proofs` | `TypeCorrect`, `Genuine`, `TenantsKept`, `Survive`, `ImplementsLog` | `OrderInv`: in memory and in the file the numbers of the records increase, so nothing is there twice.  `TenantInv`: the file's value of a tenant is promised, and so is what memory holds or is about to write.  `IntactInv`: while no row was cut or lost, memory is the file plus what is in progress; with it a crash loses nothing that was acknowledged, and each step is one of `BoundedLog` or none |
| `RedisStrategy_proofs` | `TypeCorrect`, `Admitted`, `Justified`, `LikeLocal` | `RedisInv`: for each script, when the things its keys hold really happened.  A clock that is set back only falls further behind real time (`TimePasses`, `Began`), so whatever the server believes is recent was no later than it believes.  Buckets: the account of tokens, including the debt the scripts leave when the clock goes back (`TokenKept`, `DryKept`).  The account is kept of `Room`, the tokens or the free room of the leaky bucket, so that both have every bound.  Fixed window: the real instant it was opened (`Opened`).  Log: when each entry was really made (`Dated`), that they are all (`Tallied`), and that the younger ones are never more than were let through since (`Backed`).  Sliding counter: the two keys cover every recent admission (`Covered`) and count only real ones, however far the clock was set back (`Genuine`); an expired key held none that still matter (`SlidingExpired`), which is what lets `SlidingLocal` take its expiry for the start of a grid |
| `CommandLine_proofs` | `TypeCorrect`, `StressReported`, `RestoredFromText`, `ProgramSafe`, `RaceCounted`; under `Plain`, `RestoredExactly` | `ProgramInv`: whoever is between lock and unlock owns the mutex, `evaluateUnsafe` among the callers (`EngineInv`); main sets a policy only while no thread runs (`TurnInv`), and to a setting it was told or has read (`CommandInv`).  `RaceInv`: until the limit is reached every answered request of the stress test was allowed (`CountInv`); what the bucket holds is at most what was counted, because a lost update loses from the bucket and never from the counter, and with the mutex exactly that (`BucketInv`).  At the join everything was answered, so at least `Limit` were allowed, and no more than the bucket had.  `ForceInv`: what a tenant was set to is in force, or still to be restored or set.  The lemmas on numbers as text (`UnitIs` to `ReadBackPlain`) show that what is read back is a setting, and which settings come back as they were |

The lemmas that the local and the Redis proofs share (how many requests a
history of admissions holds in a period, and the arithmetic of refills and
windows) begin `LocalStrategy_proofs`; `RedisStrategy_proofs` instantiates that
module and cites them for its own constants.

The assumptions are those the modules declare: `ClockAssumption`,
`BucketAssumption`, `WindowAssumption`, `IntMaxAssumption`, `SecondAssumption`,
`PolicyEngineAssumption`, `HttpServerAssumption`, `DigitsAssumption`,
`RestControllerAssumption`, `RedisSessionAssumption`, `AuditStoreAssumption` and
`CommandLineAssumption`; TLC evaluates them in the runs.  Three theorems and one
module assume more.  `Estimated` and `Justified` assume `InRange`, that the
clock runs for no more windows than an `int` holds: beyond it the conversion
overflows, which is finding 1.  `RestoredExactly` assumes that every setting is
`Plain`: a limit below a million, a capacity of six significant digits.
`ReadBackPlain` shows that no other setting is read back as it was, so without
it there is finding 4, and the bound of what a restart makes of a policy is
`RestoredFromText`.  `PolicyEngine_proofs` assumes that nobody calls
`evaluateUnsafe` (`"unsafe" \notin Kinds`), as nothing in the service does; the
stress test, the benchmark and the tests do.  `CommandLine_proofs` does without
it: there the mutex is shown to be owned although `evaluateUnsafe` is called, and
an exact count is claimed only of the run of the stress test that locks.

`CommandLineAssumption` says of the stress test that its requests are at least
the limit (two threads of 1000 in `main.cpp:320`, against a limit of 1000), without
which too few could be allowed, and of the settings that they are whole numbers
up to INT_MAX.  A limit is an `int`; a capacity is a `double`, and fractions and
larger capacities are not modelled.

Only model-checked:

- liveness (`EveryCallReturns` three times, `EveryConnectionClosed`): it rests on
  fairness, which the prover cannot treat;
- the four violations, which are counterexamples.

## 7. What is not modelled

The text of things: JSON, header lines, RESP and YAML grammar, percent escapes,
state strings, what the command line program prints; the models start from what
is decoded.  The benchmarks (`Metrics`), which run on engines and limiters of
their own.  The in-memory state store, which no strategy uses.  Windows' sharing
retries.  Floating-point rounding of refills: quantities are exact; so a refill
rate that `std::to_string` turns into 0 on its way to Redis
(`storage/RedisRateLimitStrategies.cpp:123`) is listed as a hazard and not
checked.  Jumps of the Redis server's clock ahead of the time that has passed: a
script credits them like any other time, so no bound in real time survives one;
the models have every way of setting the clock back.  Of a setting of the
command line program, the second parameter (refill or window), fractions, and
text that `std::stod` or `std::stoi` rejects: `ReadBack` follows the first
parameter as a whole number.  Data races inside `evaluateUnsafe` beyond the
interleaving of its load and store.  Several processes on one audit or policy
file.  `PROJECT.json` has the reason for each component.

## 8. Plan

Done, models: the local algorithms, the engine with its ledger, the audit
store, Redis scripts and sessions, the controller with its policies, the HTTP
server with its framing, the command line program on the engine, and four
abstract specifications (`RollingWindow`, `QuotaLedger`, `BoundedLog`,
`PolicyBook`).  Done, proofs: every safety invariant, every action property and
every refinement that a run checks.

What would be worth doing next: `RestController`'s evaluation composed with the
registry of `PolicyEngine`, so that a policy that is outranked while requests
hold it is seen to share, or not to share, its quota; and capacities that are
no whole numbers in the text of the command line program.
