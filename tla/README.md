# A TLA+ model of the pre-auth decision gateway

The gateway of this repository approves, declines or refers a card payment
within about 100 ms while its dependencies come and go, keeps a record of every
decision it returned, and exports what alerts are built on. The modules in this
directory model the parts of it that decide, count, log, ship and report, and
the drivers that load them; TLC checks them on small instances, and TLAPS proves
what matters most for every instance.

Paths are relative to the repository; `shipping.py`, `wal.py`, `pipeline.py` and
so on are in `gateway/`.

## 1. Inventory

| part | state | operations | hard about it | correct when |
|---|---|---|---|---|
| Segmented log (`shipping.py`, `SegmentedWal`) | segment files, open handle, `_seq`, `_since_sync` | `append`, rotation, `close`, reopening, reading | kills and machine failures between write, fsync and rotation | a returned record survives what its fsync policy says it survives; the handle is on the newest segment |
| Shipper, watermark, sink (`shipping.py`) | watermark file, poison list, a pass's local lists; the sink's records | `ship_once`, `truncate`, `run` | partial acceptance, lost answers, retries, poison, stale views of the log, crashes between send, watermark and delete | nothing is deleted before it is settled; everything is delivered and reclaimed in the end |
| Circuit breaker (`pipeline.py`) | `failures`, `opened_at` | `is_open`, `record_success`, `record_failure` | shared by all request threads without a lock | it sheds a dead model and lets a live one back |
| Decision pipeline (`pipeline.py`, `serve.py`) | a request's locals; counters | `decide`, `/authorize`, `/health`, `/chaos` | every dependency may fail at every stage | every answer was audited first, by the tier's rules |
| Feature cache (`features.py`) | entries with time stamps | `put`, `get`, `assemble` | freshness per feature, a cache that goes away between two reads | of the same features staler ones are never judged more mildly |
| Audit log of the service (`wal.py`, with the interface of `pipeline.AuditLog`) | file, lock, sync counters, buffer, shipped list | `write`, `drain`, `recover`, gauges | threads under a lock beside a drain without one; crashes | every answered decision can be accounted for |
| Velocity counters (`velocity.py`, `redis_velocity.py`) | a sliding window per key | `incr_and_count`, `count` | concurrent trim and append; time stamps out of order; several instances on one Redis; lost replies | a count misses nothing recent and includes nothing that is over |
| Velocity policy (`velocity_policy.py`) | counters of blind decisions | `read`, `decide`, `stats` | a slow answer and no answer are different things | a burst does not pass, a quiet card whose requests come in order does, and what nobody saw is counted as blind |
| Model transports (`model_client.py`, `model_server.py`) | connection, process | `score`, start, stop | late answers on a framed connection; start-up order; deaths | an answer belongs to its request, every call ends |
| Stage budgets (`budget.py`) | latency samples | `record`, tables | read while they grow | each sample is exported, by scrapes that do not overlap |
| Metrics (`metrics.py`, `serve.py`) | a registry of the process | `observe`, `inc`, `set`, `render`, re-export | concurrent scrapes, increments without a lock | a page is complete and consistent |
| Alert rules and their drill (`ops/`, `run_prometheus_drill.py`) | stored series, time an expression held | scrape, evaluate, drill | absent series, restarts, misses | silence fires, and within the drill's deadline |
| Load, soak and hammer (`run_load.py`, `run_soak.py`, `run_redis_real.py`, `run_transports.py`) | queue, unfinished tasks, counts | offer, work, join; phases of a drill | threads and unlocked counts; what raises | a run returns and its report adds up |
| Trained model, dashboards, Docker | - | - | - | outside the model |

How they interact: `/authorize` runs `Gateway.decide` in a thread of the server;
`decide` calls the velocity counter, the feature cache, the breaker, the model
and the audit log in this order and raises what it does not catch. All request
threads share these objects, the stage samples and the registry. `/health` reads
the breaker, which may half-open it. `/chaos` switches dependencies on and off.
`/metrics` moves samples into the registry and renders it for Prometheus. The
model may live in a process of its own behind one of three transports. The
shipper and the writer of the segmented log share nothing but the directory; the
shipper and its next life share nothing but the log and the watermark file. The
service writes to `AuditWal`; `run_shipping.py` and the tests drive the segmented
log and its shipper.

## 2. Modules

| module | models |
|---|---|
| `SegmentedWal` | the log of `shipping.py` on its own, with the failures of process and machine |
| `AtLeastOnce` | what shipping promises, with no segment, batch, watermark or retry in it |
| `Shipping` | `SegmentedWal` with `Shipper`, `Watermark` and the sink; shown to implement `AtLeastOnce` and `SegmentedWal` |
| `CircuitBreaker` | the breaker as interleaved threads see it, with the model service behind it |
| `OpenLoop` | the open-loop driver of `run_soak.py`, its queue and its workers, on `CircuitBreaker` |
| `Features` | what a card's features are worth and what `decide` makes of it: operators without state |
| `Gateway` | `decide` and its endpoint, on `CircuitBreaker` and `Features` |
| `AuditLog` | `AuditWal` and `DurableAuditLog` with request threads, drain and restarts |
| `LoadDrill` | `AuditLog` under the service's threads or the phases of `run_load.py`, with the unlocked `source_counts` and the plain `AuditLog` beside it |
| `Velocity` | `SafeCounter` and `RedisVelocity`, one key of them |
| `VelocityGate` | the policy in front of `Velocity` |
| `HotKey` | the hammer on one key: the gate with its exact counters, or one of the two racy counters |
| `ModelTransport` | clients, servers and process of the remote model |
| `MetricsExport` | samples, counters, re-export and rendering |
| `AlertDrill` | `MetricsExport` under Prometheus, the rule `PreauthNoTraffic` and its drill |
| `SegmentedWalProofs`, `ShippingProofs`, `OpenLoopProofs`, `AuditLogProofs`, `VelocityProofs`, `ModelTransportProofs`, `MonitoringProofs`, `GatewayProofs` | the theorems |
| `MC...` | small instances for TLC |

### SegmentedWal

A record is a model value, a segment is its number, and the content of the disk
is `place`, which maps a record to its segment. `append` is two actions,
`WriteLine` (write, flush, count) and `FinishAppend` (fsync by policy, rotation,
return), so that a crash or a truncation can fall between them. `segment_bytes`
becomes `SegmentCap` records. `unsynced` is what is only in the page cache:
`ProcessCrash` keeps it and `MachineCrash` takes any part of it. A kill may
leave part of a line (`torn`); the next line then continues it and neither can
be read (`glued`), which is what appending to the reopened file does. An active
segment with nothing in it may vanish in a machine failure, because nothing
fsyncs its directory entry. `written`, `appended` and `wiped` are history.

### Shipping

One action per step of `ship_once` and `truncate` at which the world can
change: reading the watermark, listing the directory, reading each segment,
each send and each failure of it, the watermark write, each `unlink`. The
writer, the crashes and the corruption of the watermark interleave with all of
them. A failed send may have delivered any part of its batch (`SendFailed`): a
sink that is down, one that took some and a lost answer look alike to the
shipper. A rejected record makes the batch go one by one. `Watermark.write` is
one step, because the temporary file is read by nobody and `os.replace` is
atomic. What a pass holds, and the poison list, die with the process: a record
the sink refused for good counts as settled, and after a stop the list in which
`shipping.py:260` kept it is gone.

A damaged watermark file is one of two things. No JSON, or JSON without the key,
is read as nothing, as `shipping.py:199-204` intends: `wm` is empty. Bytes that
are no text, or JSON that is no object or holds no list, make `read` raise
another exception (`garbled`): a pass that reads it ends there (`ReadRaises`), the
next cannot begin, and a restart changes nothing. A pass that read the file
before the damage may still write it anew (`Commit`). Otherwise somebody has to
mend it, which the two liveness properties have as their premise (`Mended`).

### CircuitBreaker, OpenLoop and Gateway

CPython 3.12, which the Dockerfile and CI name, may switch threads where a
Python-level or C call returns and at backward jumps. `self.failures += 1` is
therefore one step, and the two methods that call `time.monotonic` are two:
`is_open` between its test of `opened_at` and the subtraction, `record_failure`
between its test and its assignment. Time is what the cooldown makes of it: a
stamp is fresh or expired, and a reader that saw an expired stamp may take a
stamp that expired since for expired too, which is more than the code can do.

`OpenLoop` has the sending thread (`phase`), the queue with its count of
unfinished tasks, and each worker's `job`: taken, counted, marked done. Of
`decide` it keeps the passage through the breaker, the only step that can raise.
Runs of one driver follow each other, and between them `main` may clear the
latencies, and only these. A report cuts the latencies to the window of its run
and returns the errors of all runs (`run_soak.py:103-108, 151`), so that the second
report of a soak does not add up as it stands; `earlier` remembers what to take
off, and `ReportAddsUp` says that then it does. Nothing is said of how many
requests reach the model: the soak caches the hard feature of its cards once,
before it begins (`run_soak.py:171-176`), and 30 s later `decide` settles every
request before it comes to the breaker (`features.py:34, 135-138`). From then on nobody but `GET /health` can half-open it, which is the subject of
`ClosesWhenProbed` in `Gateway`.

`Gateway` adds one action per stage of `decide`; a worker's `stage` says which
comes next. Amounts are tiers, counts are bands (up to 6, up to 12, above, or
no count). Scores and thresholds are in ten-thousandths, with the discounts of
`Features`: `Assembled` makes the bundle of a card from the age of each feature
and the read at which the cache went away, `DeclineThreshold` and `Judge` do what
`decide` does with it. A verdict remembers the score and the evidence it was
made from, so that two verdicts can be compared. The evidence names the features
there were, not only the stale ones, because `assemble` leaves no trace of a
missing soft feature (`features.py:131-134`): a payment without it is judged at
0.75, like one that has it fresh, and one that has it stale at 0.7125.
`StalenessTightens` therefore compares payments with the same features.

### AuditLog and LoadDrill

`append` holds the lock from the write to the reset of the counters, and each of
these is an action of its own (`WriteLine`, `Sync` or `SkipSync`, `EndSync`):
the file is read, the buffer is written and the drain runs beside it. `drain`
is two actions because `extend` and `clear` are two calls. `shipped` stands for
the sink; a restart begins with an empty list, as `lifespan` does, or with what
the sink has, as `tests/test_wal.py` and `run_wal.py` do. `Identified` are the
records with a `decision_id`: all of them in the tests, none in the service, and
none in the runs.

`LoadDrill` drives it in one of two ways, chosen initially: as the service, where
anything may happen at any time, or as `run_load.py`, whose main thread joins the
workers of a phase before it switches the sink or drains. `ReadCount` and
`StoreCount` are the two halves of `pipeline.py:306`. `sent` and `lost` are what
the plain `AuditLog` of `pipeline.py` would have given the sink and lost, which
`run_wal.py` compares with the durable one after a crash. `NothingUnaccounted`
has two halves: whatever is owed is readable in the file, always; and `recover`,
which names what is readable and not shipped, can be relied on until a record
without `decision_id` is shipped, after which it is empty until a restart empties
`shipped`. So a record that falls into the gap of the drain is in the file and
nowhere else, and the running service does not learn of it.

### Velocity, VelocityGate and HotKey

`serve.py` picks one of the two counters at start-up (`backend`). For
`SafeCounter` the lock, each look at the head of the deque, each `popleft` and
the `append` with its `len` are steps of their own, so that the lock has
something to protect. For `RedisVelocity` making the member and sending the
script is one step (`next` of an `itertools.count` is one call), and Redis
running the script another: in between the script may be overtaken, lost, or
left behind by a caller that timed out. The order `ZREMRANGEBYSCORE`, `ZADD`,
`ZCARD`, `PEXPIRE` is kept, with the TTL against the clock and the window
against the time in the request. The clocks of the
senders may be ahead of Redis's (`lead`, up to `MaxAhead`, chosen initially), as
`serve.py:84` takes any positive time, and a request is up to `MaxDelay` behind the
clock furthest ahead when it is counted. By as much
the TTL may take an event early, and by no more (`KeyOutlivesWindow`).
`RecentCounted` and `NothingOldCounted` bound a count from both sides. They meet
when requests are counted in the order they were made in. `SafeCounter` trims the
head only (`velocity.py:64`), so that an old event is counted as long as one recorded
before it is in the window; "exact under concurrency" (`velocity.py:1`) is true of
lost increments.

`VelocityGate` adds what `decide` of the policy makes of a count, of a lost reply
and of a counter that is switched off. The counter's step, the thread's learning
of it and the bump of a statistic are apart: `waits` is the script whose reply a
thread waits for, and `outcome` what a thread has read and not yet counted. A
thread may give up on a script that runs later (`GiveUp`, `Late`), or lose the
reply of one that ran (`LoseReply`). `count` of a `SafeCounter` does not look at
`available`, and its calls go past the gate. `BlindIsCounted` accordingly speaks of
decisions counted and about to be counted. `DecidesByWindow` says of a `SafeCounter`
that a decline is due only where the requests came in the order of their times:
with a threshold of 2, a window of 2 and requests of 3, 2 and 4, the trim for
the third stops at the 3, counts the 2 behind it and declines, though two are in
its window. `HotKey` puts the gate, or the
racy `UnsafeCounter` or `NaiveRedisVelocity` (the controls of the tests that must
fail), under the same threads; `subject` is chosen initially. `raced` remembers
that two calls overlapped.

### ModelTransport

A client is a thread with a connection (`wire`): what the server still owes on
it, and what has arrived and was not read. A part carries the number of the call
it answers, which no code looks at; the callers are the threads of `bench` in
`run_transports.py`, which use the clients as they are. Whether a caller gets
the right answer rests on what the clients do with the connection when a call
fails. The binary client does not see that the other side closed an idle
connection, the HTTP pool does. `TimeOut` may strike at any place of a call,
before the server answers or after it has sent half a frame; the time-outs of
the code are per `recv`, so a server that sends a byte now and then may hold a
call for longer. The process is spawned, binds its ports one by one, dies at any
time and is stopped; `start` polls the binary port only
(`model_client.py:146-151`), so that with `start` returned the other two may
still refuse.

### MetricsExport and AlertDrill

A request records a sample and increments a counter in two halves
(`metrics.py:71-73`); a scrape slices the new samples off, observes them one by
one, the total before the buckets, and renders the buckets before the total.
`exported` remembers which samples were observed, and `overlapped` that a scrape
sliced while another had samples to observe. `AlertDrill` stores the pages of
one scraper and evaluates the rule at every third of them (`EvalEvery`: 15 s of
`ops/alerts.yml:19` to the 5 s of the drill's scrapes), from a moment of the
interval that is not known when the drill begins: `sum(rate(...)) == 0` needs
two stored values, so that an absent series makes the rule false, not true. The
drill starts a Prometheus on an empty store and waits for the rule.

What the model shows of this code without a property of its own: two concurrent
scrapes may export the same samples twice, although the comment at
`serve.py:157` says "Re-observe only what has not been exported yet", and as the
next slice begins at the total, it then leaves as many samples out, for good.
`ExportBounded` says how far the first can go, which is once per scraper;
`PageComplete` asserts that no sample is left out or doubled only as long as no
scrape begins in the middle of another. A lost
increment makes a counter go backwards when the slower thread stores the smaller
value, which Prometheus takes for a reset. And `PreauthNoTraffic` never fires
while the gateway is down or before its first decision since a restart, because
there is no series to compare with 0: `SilenceFires` has that as its premise.
`run_prometheus_drill.py:204-206` speaks of ten minutes; on an empty store the
rate window need not run empty of traffic first, and `DrillFires` holds with a
deadline of `for` and two evaluation intervals.

## 3. Runs

Passing:

| run | instance | shows |
|---|---|---|
| `shipping` | 3 records (1 poison), 2 to a segment and to a batch, 2 attempts, 2 stops, 1 corrupted watermark | the watermark names settled records only; nothing logged is lost; deletion stays below the watermark; both refinements |
| `shipping_live` | 2 records (1 poison), 2 to a segment and to a batch, 1 stop, 1 corruption, fsync=always | delivery and reclamation in the end, if a watermark file that makes `read` raise is mended; no returned record is lost |
| `open_loop` | 2 workers, 1 prober, threshold 2, queue of 1, 3 requests to a run, 2 runs | calls of a dead model are bounded; a run returns, and adds up once the errors of earlier runs are taken off |
| `gateway` | 2 workers, 1 prober, 2 requests, 3 scores, fresh and stale features, threshold 1 | types; audited before answered, one record each; a large payment needs a score; of the same features staler ones are never judged more mildly; a request ends; the breaker closes when the model is back |
| `audit` | 2 workers, 4 records without `decision_id`, batch 2, 1 stop, both fsync policies, service and drill | types; logged before buffered; fewer than a batch unsynced; nothing returned or lost by the plain log is unaccounted for; with `always` it is durable; the drill's completeness |
| `velocity` | 2 threads or 1 Redis instance, window 2, delay 1, lead 0 or 1, 3 calls, clock to 3, limit 2; the two racy counters | types; no recent event missed, none counted that is over; the decision follows the window; decisions cover what the counter holds; a loss needs a race |
| `transport` | a binary and a gRPC client, 2 calls each, 2 starts of the process | answers belong to their calls; `start` tells the truth; every call is counted once; calls and starts end |
| `monitoring` | 2 request threads, 2 scrapers, 2 requests, 1 restart, an evaluation every 3 scrapes, rate window 3, `for` 3, deadline 7 | what a page may show; the silence rule and the drill fire |

Expected violations, each of a sentence the repository says of itself
(`findings` in PROJECT.json quotes them):

| run | shows |
|---|---|
| `wal_torn_tail` | after a kill in the middle of a line, the first record appended next cannot be read back |
| `gateway_answers` | the double read in `is_open` ends a request in a `TypeError` |
| `audit_recover` | without `decision_id` nothing is unshipped after the first drain |
| `velocity_instances` | two instances on one Redis may build the same member, and two events count as one |

Some further points came up while modelling and have no run of their own. The
count of unsynced records starts at 0 with every life of the process, so that
`fsync every N records` (`wal.py:28`) holds per life: the theorem `LossIsBounded`
says what holds instead, with one batch for every life. Half-opening lets every
waiting thread through, not one probe (`pipeline.py:90`): `FailuresBounded` allows
for it. And the `T milliseconds` of `wal.py:28` are looked at by the next append
only. A record buffered between the drain's `extend` and its `clear`
(`wal.py:167-168`) is in neither list; its line is in the log, which is why
`NothingUnaccounted` holds. `gateway_velocity_errors_total` (`serve.py:136-139`)
counts degradations of any cause and not failures of the counter store. Nothing
ever fills the feature cache of the service (`serve.py:67`), so that it never
asks its model; `Gateway` is checked with the bundles a filled cache gives, and
without one. The samples of a stage and of the log (`append_ms`) grow for ever, and the
gauge at `serve.py:134` reads the whole log for every request.

Why the bounds are enough. Two records to a segment and a batch are the least
with which a rotation, a full and a last short batch, and a mixed segment occur;
three records give a closed segment, an active one and one to come. Two stops
allow a kill followed by a machine failure before the restart's first fsync. Two
attempts tell a retry from giving up. Two workers and a prober are one that
fails, one that succeeds late and one that half-opens the breaker without
calling anybody; a queue of 1 with three offers is full, sheds and takes again.
A window of 2 in a clock of 3, with a delay and a lead of 1, lets an event
enter, meet the boundary and leave while another is delayed or early; with a
limit of 2 three calls are two approved and one that is declined, or not because
the first has left. Two calls to a client are the late one and its successor.
Two requests and two scrapers are the least for a lost increment and a double
export, and a rate window of 3 keeps the values of two lives of the service
apart; a deadline of 7 is the least with which a `for` of 3 and evaluations
every 3 scrapes can be seen to fire from any phase. Two runs of the driver are
one that begins with the errors of another. Amounts of two tiers and three
scores lie on all sides of the thresholds of fresh and of stale features. The
counters `stops`, `corruptions`, `starts`, `restarts`, `calls`, `requests`,
`sent`, `runs` and the clock are the only bounds in guards (`MaxStops`,
`MaxCorruptions`, `MaxStarts`, `MaxRestarts`, `MaxCalls`, `MaxRequests`,
`MaxOffered`, `MaxRuns`, `MaxClock`); what they bound may strike at any moment.
`CHECK_DEADLOCK FALSE` is set where the set of records, requests or calls is
used up in the end, or, in `open_loop`, where the driver is shut down. Symmetry
is used in runs without liveness properties only, among records of the same kind
and among workers.

Fairness. `Shipping!Fairness`: `run` is called again and again, an append that
began returns, a stopped process is started again (weak fairness: these are
always possible until they happen); a sink that is tried again and again
answers in the end, for batches and single records (strong fairness: between
attempts the shipper is elsewhere). Without the last, an unavailable sink costs
disk for ever, as the code says it should. A
watermark file that makes `read` raise is mended in the end: this is no fairness
of the code but the premise `Mended` of the two properties. `OpenLoop!FairSpec`: the
driver's thread and the workers are scheduled; nothing is assumed of the model,
the load or the time. `Gateway!FairSpec`: a thread that serves a
request is scheduled, time passes, and `/health` is asked again and again, which
the HEALTHCHECK of the Dockerfile does every 30 s; neither the model nor the
counter store need ever be up, and no request need arrive.
A call of the model returns or raises: the in-process `ModelService` does, and of
the remote one `CallEnds` says so. `ModelTransport!FairSpec`: a thread is
scheduled and its time-outs expire; the server need never answer.
`AlertDrill!FairSpec`: a request that began is answered, Prometheus scrapes and
evaluates for ever, the drill goes on once it has begun.

Every property of a passing run has a mutant: a changed operator next to the
original, marked `Mutant:`, that no specification uses. Put in place of the
original it makes the run fail, so the property can tell the two apart.

## 4. Proofs

All theorems are of the specification without fairness and for every value of
the constants that the named `ASSUME`s admit: positive sizes and windows, known
policies and kinds, finite sets of records and threads. TLC evaluates the
assumptions in every run.

`SegmentedWalProofs`: types (`WalTypeCorrect`), the handle is on the newest
segment (`ActiveSegmentIsNewest`), what is unsynced is in it (`UnsyncedIsInActive`),
`always` is durable (`AlwaysIsDurable`) and `batch` loses at most a batch per life
(`LossIsBounded`). The inductive invariant `WalInv` adds that a record on disk is
in a segment that exists, that an unwritten one is nowhere, that a record in
flight belongs to a running process and was not returned, and that under
`always` a returned record is past its fsync. They are needed because rotation
fsyncs the one file it closes: that this is enough rests on nothing unsynced
being elsewhere, and this on the reopened segment being the newest.
`LossIsBounded` strengthens further (`BatchInv`): `_since_sync` counts what this
life has written since its last fsync, on top of what earlier lives left.
`DamageIsBounded` is what holds in place of the sentence `wal_torn_tail` refutes:
there are never more unreadable records than there were stops, because a stop
leaves at most one torn line and the next line takes it up.

`ShippingProofs`: types (`TypeCorrect`), `WatermarkSound` (`WatermarkIsSound`),
`NoDecisionLost` (`NoLoss`), `WatermarkFirst` (`DeletesBelowWatermark`) and both
refinements (`RefinesWal`, `RefinesPromise`). Its invariant `Inv` extends `WalInv`.
The heart of it is why a stale view of the active segment is harmless: every
record that `truncate` holds for acknowledged lies in the active segment it read
or below (`LateIsUnacked`); a segment that is newer has none, so it is empty, or
has an unacknowledged record, and is skipped in both cases; hence the segment
about to be unlinked is closed and settled (`VictimClosed`). From that the
composition's steps are steps of `SegmentedWal` (`StepIsWalStep`), whose
invariant is reused, and `unlink` loses nothing. What the log promises on
its own it therefore promises beside a shipper (`PromisesSurviveShipping`).

`OpenLoopProofs`: the breaker on its own (`BreakerSpec`) keeps `FailuresBounded` for
any threshold and any number of threads (`BreakerShedsInTime`). The load driver
implements it (`LoadUsesBreaker`), so that the bound holds under load
(`DeadModelIsSpared`), and `ReportAddsUp` holds for any queue (`NumbersAddUp`). The
bound on calls does not follow from itself: `BreakerInv` counts threads. While
the breaker is closed, each failure beyond the threshold has a thread on its way
to open it; once it is open, the failures and the threads that passed `is_open`
before together stay below what threshold and threads allow. `LoopInv` does the
same for the queue: unfinished tasks are those queued and those in hand, and
every request offered is there or was counted once since the run began, the errors
beyond those it began with. Both rest on the lemmas about
counting threads at the top of the module, of which `CountMove` says how such a
count changes when one thread moves.

`GatewayProofs`: types (`GatewayTypes`), `AnswerIsAudited` (`AuditComesFirst`),
`LargeNeedsModel` (`LargeNeedsScore`) and `StalenessTightens`
(`StalerIsStricter`) for any threads, requests, features and scores. `WorkerInv`
says what a worker holds: a request exactly from `Receive` to its end, no two
workers the same one, a proper decision from the verdict on, and nothing of the
breaker's outside the model stage. `LedgerInv` says that the log has one proper
record for each answer and for each worker about to answer. That a request is in
the log only once does not follow from itself: it rests on the requests in hand
being distinct and on none of them being answered already. The lemmas
`StalerIsLower` and `LowerIsStricter` are the arithmetic of `Features`: of the
same features staler ones lower the threshold, and a lower threshold never makes
the policy milder. The gateway, too, implements `BreakerSpec`
(`GatewayUsesBreaker`), so that `BreakerShedsInTime` bounds its calls of a dead
model. Of the double read in `is_open` two theorems say how far it reaches: a
request that ended in the `TypeError` was neither logged nor answered
(`DroppedWasNotDecided`), and with one thread on the breaker there is no such
request (`AloneEveryRequestIsAnswered`): nobody can clear the stamp between the
two reads.

`AuditLogProofs`: types (`AuditTypes`), `BufferedIsLogged` (`LineComesFirst`),
`AnsweredIsDurable` (`AnswersAreDurable`), `UnsyncedBounded` (`BatchIsBounded`),
that `LoadDrill` does only what `AuditLog` allows (`DrillIsAudited`), so that
all of them hold under the drill and the service, and `NothingUnaccounted`
(`NothingIsUnaccounted`) for records with and without a `decision_id`. The parts
of the invariant: two threads never write the same record and it is new until
its line is in the file (`LoggedInv`); a thread past the fsync has its record on
disk (`DurableInv`); the count is at least what waits and below the batch
whenever the lock is free (`BatchInv`), which needs the type invariant's
statement that the lock is held by exactly the thread inside `append`; what the
plain log lost had its line, and nothing that left the buffer comes back
(`LossInv`). `RecoverByIdentity` says what is left of the sentence
`audit_recover` refutes: of the records with a `decision_id` `recover` gives
exactly those that are readable and were not shipped. `DamageIsBounded` is the
bound on torn lines for this log. `DrillComplete` (`DrillIsComplete`) rests on
the order of the phases (`PhaseInv`: what each phase has joined, and that until
a stop each record counted or about to be is in the buffer or at the sink) and
on counting (`CountInv`: whatever the threads overwrite, neither the count nor
what a thread has read of it is more than the decisions counted). `DrillTypeOK`
(`DrillTypes`) gets its bounds from the same. It is stated for finite sets of
records, as the cardinality of an infinite set says nothing.

`VelocityProofs`: types (`VelocityTypes`) and that the TTL outlasts the window of
every member but for the lead of its sender's clock (`TtlIsShortByTheLead`).
`KeyInv` adds that a script on its way carries a time its sender can have, from
which the TTL it sets reaches beyond its own window less the lead; the TTL in
place reaches no further than the one any script sets, so that no script shortens
it. Under the hammer it proves `NothingOldCounted`
(`NothingIsStale`) for any number of instances on a Redis, and from it that every
decline on a count is due (`DeclinesAreWarranted`), of a `SafeCounter` where requests
come in the order of their times. `RecentCounted` (`NothingIsMissed`)
and the whole of `DecidesByWindow` (`GateDecides`) need a `SafeCounter` or a single
instance (`Exact`), which is what the run has; with two instances they are false,
as `velocity_instances` shows: members that two instances share make a count too
low, never too high. A count says nothing of which events it counts, so the
invariant has to. For the deque, `DequeInv`: it is the end of the log, and what has
left it is over. For the sorted set two maps, one for each side. `MemberInv`: each
member has an event of its own that was made when it says; a script that runs
adds an event for the member it adds, and where the member was there already the
map stays. `SetInv`: there is a numbering of the events under which each event
that is not over is a member of its own; a script that runs extends it by its
own number, which with a single instance no other has. `BlindIsCounted` (`BlindCovers`)
holds for any number of instances. It does not follow from itself, as the event, the
outcome and the statistic are three steps that other threads come between: `WaitInv`
says that a thread is in one place and waits for a script of its own, and `Books`
that the events, and the scripts nobody waits for, are covered by the decisions
counted and the outcomes in hand. `LossIsARace` (`OnlyRacesLose`) rests on
`RaceInv`: a racy call that began has returned or is active, a key holds no more
than was returned, and without an overlap exactly as much. `HotTypeOK`
(`HammerTypes`) bounds the statistics and the racy counters by the calls: each
decision is of one call, and a call is in a thread until it is counted
(`Books`), and a number belongs to a call that has begun (`RaceBounds`).

`ModelTransportProofs`: `AnswerBelongs` (`AnswersBelong`) and `StartTells`
(`StartIsTrue`) for any number of clients of each of the three kinds, the HTTP one
included that the run leaves out. `TransportInv` says what may be on a connection
at each place of a call (`Fits`): nothing of an earlier one, and of this one the
parts not yet read. It is inductive because `Fail` drops the connection and a call
begins on an empty one. `EveryCallCounted` (`CallsAreCounted`) is about a sum over
the clients. The proof counts pairs instead, of a client and a place in its list
of latencies or of calls: a call that begins adds one, and its end adds another
or an error (`CountingInv`).

`MonitoringProofs`: types (`MonitoringTypes`), `CounterInBounds`
(`CounterStaysInBounds`) for any number of unlocked threads, and `PageComplete`
(`PagesAreComplete`) for any number of scrapers. `CountInv` adds that no thread
has read more than was counted; `BucketInv` that bucket and total differ by the
scrapes that are just filling a bucket, however many overlap; and `OrderInv`
that without an overlap the samples exported are the first ones, each once, one
scrape is at work, and what it knew of is exported or still before it.
`ExportBounded` (`ExportStaysBounded`) is inductive with what the scrapes have
still to do (`ExportInv`): the total and the pairs of a scrape and a sample it
has yet to export together stay within the bound.

Only model-checked: all liveness (delivery, reclamation, the end of runs, calls
and requests, the closing of the breaker, the alert), which under fairness is beyond the
prover. Every safety property of a passing run is stated by a theorem, and for
each sentence an expected violation refutes a theorem says what holds instead:
`DamageIsBounded`, `AloneEveryRequestIsAnswered`, `RecoverByIdentity` and, for two
instances on a Redis, `NothingIsStale` and `DeclinesAreWarranted`.

## 5. Not modelled

- Bytes, JSON, file names, wording, latencies and statistics. A record is a
  value, a segment a number; `seg-%08d` orders as numbers do up to 99,999,999.
- An `OSError` of write or fsync (a full disk). The request fails then, and the
  line may still reach the file with the next flush.
- `os.replace` and `unlink` without an fsync of the directory: a machine failure
  may bring back an older watermark or a deleted segment. Both cost duplicates.
- Two shippers on one log.
- The restart of an instance, after which its member numbers begin again.
- Percentiles, quantiles and the tables of `budget.py` and `metrics.py`, and the
  gauges: arithmetic on what the model has as counts.
- The multiplexing of calls of several threads over one gRPC channel: the drivers
  give each thread a client.
- `real_model.py` (a trained model of another repository).
- The rest of the harnesses `run_*.py`: setting up, measuring and printing. Of
  them `run_grafana_drill.py` and `run_velocity_budget.py` have no state or
  protocol of their own to model.
- The other rules of `ops/alerts.yml` (thresholds on one metric), the dashboards
  and Docker (configuration of other programs).

## 6. Plan

Done, in the order of importance: `SegmentedWal`, `AtLeastOnce`, `Shipping`;
`CircuitBreaker`, `Gateway`, `Features`; `AuditLog`, `LoadDrill`; `Velocity`,
`VelocityGate`, `HotKey`; `ModelTransport`; `MetricsExport`, `AlertDrill`;
`OpenLoop`; and the proofs above. What is left:

1. Failing writes and fsyncs in `AuditLog`; `Gateway` composed with `AuditLog` in
   place of its set of records.
2. The members of several lives of an instance in `Velocity`.
