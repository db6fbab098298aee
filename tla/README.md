# A TLA+ model of the code interpreter

The system runs untrusted programs on request. A TypeScript API accepts a
program, reserves a concurrency slot for its user, and adds an entry to a Redis
stream; Python workers read the stream, run the program in a Docker container,
store the result in Redis and MinIO, publish progress, and acknowledge the
entry. Delivery is at least once: an entry whose worker died is claimed by
another. The modules here model that path, command by command.

## Inventory

| Part | State | Operations that change it | Module |
|---|---|---|---|
| Submission routes, `routes/execute.ts` | one request per job | `submit`, synchronous wait, answer | JobLifecycle |
| Job routes, `routes/jobs.ts` | one DELETE per job | read, transaction, slot release | JobLifecycle |
| Queue producer, `services/jobQueue.ts` | stream, record, in-flight set | `enqueueJob`, `ensureConsumerGroup`, `drainInFlight` | JobLifecycle (`enqueueJob`) |
| Quota, `services/quota.ts` | the user's slot set | `acquireSlot`, `releaseSlot`, expiry | JobLifecycle, WebSocketStream |
| Circuit breaker, `services/redis.ts` | state, failures, openedAt | `run`, `onSuccess`, `onFailure` | CircuitBreaker |
| WebSocket stream, `services/websocket.ts` | socket, subscriber, timer, slot | start, worker message, close, timer, heartbeat | WebSocketStream |
| Rate limiter, `middleware/rateLimiter.ts` | one sorted set per scope | the Lua script | RateLimiter |
| Worker daemon, `worker.py` | pool, in-flight tasks | `_process` and its helpers; consume loop, stop, drain | JobLifecycle; WorkerPool |
| Queue consumer, `queue/consumer.py` | pending list, dead letters | `read`, `claim_stale`, `ack`, `dead_letter` | JobLifecycle, WorkerPool |
| Result store, `storage/result_store.py` | record, result, archive, slot | `set_running`, `store_terminal`, `release_slot` | JobLifecycle |
| Sandbox executor, `sandbox/executor.py` | container, work directory, output | `execute` and its helpers | Sandbox, SandboxLimits |
| Reaper, `sandbox/cleanup.py` | containers, work directories | `reap_once` | Sandbox, SandboxLimits |
| API shutdown, `index.ts` | server, connections | `shutdown` | none |
| Auth, validation, languages, seccomp, telemetry, config | none shared between requests | none | none |

What is hard here: API handlers and worker tasks read and write the same Redis
keys with awaits in between; a worker can die, or a command raise, at every
await; a slow task and the delivery that replaced it run side by side; flags,
slots and records expire on clocks of their own. `PROJECT.json` lists each such
hazard at its line.

## Modules

**JobLifecycle** is the core. A task is one delivery of a stream entry, and each
action is one awaited Redis command of `_process` (or of an API route), so every
interleaving at an await is a behaviour. `task[<<job, d>>].pc` is the await the
task is about to perform; `mode` is the part of `_process` it is in, which
decides what an exception does. The Redis keys are variables of their own
(`record`, `result`, `cancelled`, `slots`, the stream as `backlog`, `stream`,
`pending`, `idle`, `times`). `Faults` chooses the kinds of trouble a run allows.

Choices of the abstraction:
- A program's output, payload and timestamps are left out; a result is its status.
- A failed command is one that Redis did not apply. One that was applied and then
  raised looks like the step followed by a failure of the next command. Three
  commands are modelled with both: `EnqueueJob`, `Read` and `Claim` may take
  effect and lose their reply.
- Elapsed time is an event: `GoIdle` for the pending list, `Expire...` for keys.
  Without the fault `"stall"` an entry goes idle only when nobody works on it,
  which is what a `claim_min_idle_ms` above the longest job gives.
- `claim_stale` is `Peek` (XPENDING) and `Claim` (XCLAIM), since the count the
  worker compares is the one from before its claim.
- A crashed worker is restarted by its supervisor, so it may read again at once.
- The result key's TTL is left out: `result` says what was stored last.
- The API process does not crash; a malformed payload still carries its job id.
- The pool that bounds a worker's tasks is WorkerPool's; here more interleavings
  are explored than the pool allows.
- `killed` is history: whether a DELETE flagged the job while it was queued.

**JobPromise** is what the lifecycle promises: a job is accepted, a result is
stored only for an accepted job, and a job is finished, for good, only with a
result stored. `KeepsPromise` is the refinement.

**CircuitBreaker** models `CircuitBreaker` around overlapping calls. Time is
counted in ticks up to the cooldown and failures up to the threshold; the code
distinguishes nothing beyond either. A call that an outage hit may fail after
Redis is back. `Date.now` is taken not to run backwards.

**WorkerPool** is the consume loop of one worker: the capacity it computes, the
two fetches, the semaphore, backoff, stop and drain. A step is what runs between
two awaits; `_dispatch` takes as many messages as the semaphore lets through
without yielding. What a task does is JobLifecycle's matter: here it ends, with
its entry acked or not. The other workers of the group are one action. A command
of the loop may fail with or without having taken effect, and Redis may lose its
data, and with it the group that `_group_ready` says exists.

**Sandbox** is `execute` and the reaper on one host. The runs are deliveries of
one job, so they share the container name. The `docker run` client, the daemon and
the program are actors of their own: the daemon may create a container late, also
after its client was killed; the program may ignore SIGTERM or never end. Time
passes in ticks. The event loop serves the timeout in the tick it is due; from then
on a run may last any time, since no docker command of the ladder or the cleanup has
a timeout (`docs/BENCHMARKS.md:297` tells of a daemon that stalls them). So a
run can grow older than the reaper's 300 s, and lose its directory and its container
to it. A worker that dies may leave its `docker run` client alive or take it along;
a client whose run is over is followed until it has started its container. `ran` and
`excused` are history. **SandboxLimits** holds the pure
parts: the clamp of the timeout, the output cap over characters of several bytes,
the mapping of outcomes to statuses, and Docker's rendering of an age with the
reaper's parsing of it. Docker's rendering (`HumanDuration`) is external.

**RateLimiter** is the Lua script on one sorted set per scope, called with the
clock of the replica that asks. A delay between `Date.now` and the script is a
clock that is behind: it counts towards the skew of that replica. The limiter's
two scripts per request are one step, since they touch different keys. A request
that is let through because Redis failed never reaches the script.

**WebSocketStream** is `handleConnection`, composed with the limiter and the slot
set. onStart, cleanup and finish give way only at awaits, so close, error, timer,
heartbeat and worker messages fall between them; `cleanup(s)` and `finish(s)` are
functions on the locals, as they are called synchronously by several handlers.
Frames are left out except for what they trigger.

The **MC** modules are what TLC runs, the **Proofs** modules hold the theorems.

## Runs

| Run | Instance | Shows |
|---|---|---|
| `lifecycle_recovery` | 1 job, 2 workers, 3 deliveries, 2 crashes or Docker outages, 1 DELETE | the job ends, is never worked on twice at once, runs at most `max_retries + 1` times, and leaves a matching record and no slot |
| `lifecycle_duplicates` | 1 job, 1 worker, 2 deliveries, stalls, slot expiry, 1 failed command, 1 DELETE | ack comes after store and announcement even when two deliveries overlap; a job cancelled in the queue never runs; JobPromise is implemented |
| `lifecycle_quota` | 2 jobs (one malformed), limit 1, expiring cancel flags, 1 expired record, 1 DELETE | the quota holds for jobs not cancelled or given up on; the stream holds only unfinished work |
| `pool` | 3 entries, pool of 2, reads of 2, 2 troubles (lost replies, errors, stalls, data loss, failed tasks) | fetched messages find a free slot, become tasks, and no slot leaks; a stop ends the worker; entries are served |
| `sandbox` | 2 deliveries, 1 trouble of any kind but overlap, ticks of 240 s | nothing runs unsupervised, out of memory is never our own kill, the reaper spares young live runs, output is capped and reported, execute ends, leftovers go |
| `stream` | 1 connection, HTTP requests of the same user, 2 replicas a tick apart, limit 2, window 3, 1 failed command | early output is heard, the window and the retry answer are right, the gauge is decremented once, streams end, vanished clients are dropped, subscribers are closed |
| `breaker` | 3 calls, threshold 3, cooldown 3 | state follows the failure count; the breaker recovers with Redis |
| `lifecycle_finality` | violated | `types/index.ts:43`: a terminal job "will never transition again". KILLED becomes RUNNING when DELETE falls between the worker's flag check and its SET |
| `lifecycle_cancel_expiry` | violated | `jobs.ts:94`: "a PENDING job is skipped when dequeued". Not once its flag has expired in the queue |
| `lifecycle_retry_limit` | violated | `docs/RUNBOOK.md:27`: a job whose delivery count exceeds the limit is not re-run. It is run once more |
| `sandbox_completed` | violated | `types/index.ts:27`: COMPLETED means "the user code ran to completion". After a crash the next delivery's `docker run` exits with 125, and that is COMPLETED |
| `breaker_cooldown` | violated | `redis.ts:75`: it "opens for `cooldownMs`". A call begun earlier can close it sooner |

`lifecycle_cancel_expiry` and `lifecycle_retry_limit` use worker symmetry: they
check invariants, and nothing orders the workers.

Bounds. With `MaxRetries = 1` three deliveries reach the run, the last permitted
re-run and the dead letter. Two troubles are enough to lose a task and its
replacement. One worker suffices where only deliveries matter, because a worker
can hold two deliveries of the same entry. A pool of two with three entries has
the loop fetch reclaimed and new messages in one pass, fill up, and sleep. Two
deliveries in the sandbox are the fewest that contend for a name; the texts cross
the output cap inside a character and at its end; 240 s ticks take
a run from before its timeout to a ladder within the orphan age in one step and past it
in two, and the program's only exit code is 137, the one that is read as a kill. A window of three ticks with clocks one tick
apart is the smallest in which a replica trims what another still counts. Deadlock
is not checked: a system whose jobs are all finished stops.

Conditions. Some properties hold only without some fault, and say so or are
checked where it is absent.
- `SettledRecordAgrees` needs that no task stalls: two overlapping deliveries can
  leave the record with one outcome and the result key with the other. It needs that
  no Redis command fails: a try block that raises after its result was written is
  finalised again as FAILED, with a new result and record, any part of which may
  fail too.
- `QuotaHonoured` needs that no slot expires, no command fails (the quota then answers
  "go on"), and no delivery follows a terminal record: after a crash or a stall the
  slot may be back already when the next delivery sets RUNNING again.
- `SettledHoldsNoSlot` needs that no Redis command fails: the release is best
  effort, and the slot then waits for its TTL.
- `StreamIsUnfinishedWork` needs that no worker crashes, and no command fails,
  between XACK and XDEL, which leaves the entry behind for ever.
- `EntryIsServed` ends with the group: once Redis lost it, `_group_ready` keeps
  the worker from creating it again, and the loop backs off until a restart.
- `NothingRunsUnsupervised` excuses a dead worker, a docker command that cannot be
  spawned, and a cleanup during an outage; the reaper then has the last word.
- `OomIsNotOurKill` needs deliveries that do not overlap: they share the container's
  name, and the `docker rm -f` of one ends the other's client with 137, which is
  reported as out of memory.
- `ReaperSparesActive` is about runs younger than the orphan age. An older one, stalled
  by the daemon in its ladder or cleanup, may lose its container, and its directory,
  to the reaper.
- `SlidingWindow` counts what the script admitted, not what passed while Redis failed.
- `SamplerEndsWithRun` excuses a `_run` that raised, which leaves the sampler
  polling although `execute` "Always cleans up" (`executor.py:155`).
- `LeftoversGo` holds as long as the reaper lives: an exception ends it for good.
- `SubscriberIsClosed` is about subscribers made before the cleanup began. One made
  after it, when the socket closed during onStart's awaits, is closed by nobody.

Other differences between the code and its documents that the models contain and
no run is spent on: the heartbeat terminates after one missed pong, not two
(`websocket.ts:32`, `API.md:197`); a disconnecting client gives its slot back while
its job still runs (`GLOSSARY.md:10`); a stopping worker without tasks leaves `run`
with the reaper's CancelledError before `redis.aclose` (`worker.py:6`, variable
`closed`).

Fairness. Every started task and DELETE goes on (the event loop runs what is
ready), some worker keeps reading and peeking, a claim begun is carried out, and
time passes. Submissions, cancellations, faults and expiry are not fair. For the
breaker: calls end, time passes, and callers come back; recovery does need
somebody to call. For the pool: awaited commands and tasks end (with a reply or an
error), and entries that no task holds go idle; neither other workers nor a stop
are assumed. For the sandbox: docker commands return
in the end, after any time (one that hangs for ever would hold `execute` for ever), the daemon comes back from an
outage, streams end with the client, the reaper cycles; a program need not end. For
the stream: awaited commands are answered, timer and heartbeat fire; a worker need
not answer and a client need not leave.

## Proofs

Each theorem holds for every value of the constants that satisfies the module's
named assumption (`LifecycleAssumption`, `BreakerAssumption`, `PoolAssumption`,
`SandboxAssumption`, `StreamAssumption`): any number of jobs, workers, deliveries,
calls, entries, replicas, and every choice of faults unless it says otherwise.

**JobPromiseProofs.**
- `TypeCorrect`: the type invariant.
- `NeverLost`: an accepted job is queued, pending, or has a stored and announced
  result. This is the meaning of "ack only after the result is stored".
- `OnlySpentAreDead`: only malformed or exhausted entries are dead-lettered, and
  with a result stored.
- `CancelledInTimeNeverRuns`: from the assumption that cancel flags do not
  expire, a job cancelled while queued never runs. `lifecycle_cancel_expiry`
  shows the assumption is needed.
- `LifecycleKeepsPromise`: JobLifecycle implements JobPromise.

The inductive invariant `IInv` is in **JobLifecycleProofs**, with the lemmas about what
a step does to a task. It adds two things to the type invariant.
`TaskInv` says what each task's place implies: past "hot" the result is stored,
past "publish" it is announced, in the poison branch the entry is malformed or
spent, and a task that has begun belongs to a delivered entry. `QueueInv` says
that the backlog holds each entry once and only undelivered ones. Neither
NothingLost nor DeadLettersAreSpent is inductive without them: an XACK must know
what the task did several steps earlier. Results are never removed (`Grows`), so
one task's steps do not disturb what holds of another. `CancelInv` adds that a
job killed in the queue stays flagged and has no task in the try block.

**JobDeliveryProofs** builds on that `IInv`, each time excluding the faults that
break the property (see Conditions).
- `OneDeliveryAtATime` and `RunsAreBounded`, without stalls. `OverlapInv`: an idle
  entry has no live task, no entry has two, and the counts that claim_stale
  remembers of idle entries are up to date; so a claim starts the only task, with
  the right count. `TaskMoves` lists how a single step can change a task.
- `RestHoldsNoSlot`, without failed commands. `ReleaseInv`: a task past its release
  and an acked entry hold no slot; a slot is taken only before the job is queued.
- `StreamIsDepth`, without crashes and failed commands. `DepthInv`: an entry of the
  stream is in the backlog, pending, or between the XACK and the XDEL of a task;
  `CountInv`, that tasks are deliveries already counted, keeps a new delivery from
  overwriting that task.

**JobRecordProofs** follows the job's record through all its writers.
- `RecordAgreesAtRest`, without failed commands and stalls. `RecordInv`: a task that has
  written the result carries it in its outcome until its ack, and from the record's
  write on `Agrees` holds, record and result being the same unless a DELETE killed the
  job. One live task per job (`OverlapInv`) keeps another delivery from writing in
  between; a DELETE that read the record before the end may still write KILLED after
  it, and `killed` says so.
- `QuotaIsKept`, without failed commands, crashes, stalls and slot expiry. `QuotaInv`: an
  admitted job that nobody killed or gave up on holds a slot until it is `Done`, that is
  its task is past the record's last write. A slot is given back only by who knows the
  job is over: that task, a synchronous wait that saw the record, a DELETE. Without
  crashes and stalls nothing is delivered again once it is done, so no later task
  undoes what they saw (`DoneStays`). With the acquire's own check, the slots bound the jobs under way.
- `TerminalIsFinalUnlessDeleted` and `TerminalIsFinalWithoutDelete`, without failed
  commands, crashes and stalls, tell when "will never transition again" is true:
  `lifecycle_finality` needs its DELETE. `FinalInv`: a terminal record that no DELETE
  wrote is that of a job that is `Done`, whose record no task writes any more.

The first two need their exclusions: with any one of those faults allowed TLC finds
the property violated.

**CircuitBreakerProofs.** `BreakerTypeCorrect`, and `BreakerClosedBelowThreshold`:
closed exactly below the threshold, for any number of overlapping calls.
`BreakerStaysOpenForOneCaller`: calls that do not overlap leave it open for the
cooldown, since nobody awaits a call while it is open (`OpenIsQuiet`);
`breaker_cooldown` is about overlapping ones.

**WorkerPoolProofs.** `SlotsAreKept`, `DispatchIsImmediate`, `FetchedAreStarted`. The
invariant relates the fetch to the pool: while the loop awaits a reply, the count it
asked for is at most the free slots (`FetchInv`), because only the loop itself adds
tasks and the others only end them; `TaskInv` says that messages at hand and tasks
are distinct deliveries, without which adding them to a set would count too little.
`PoolTypeCorrect` is more than bookkeeping: it bounds how often an entry is delivered.
`CountInv` says that an entry has been delivered at most once more than there were
failures and stalls, and no more than those if it can be claimed now; every way to
leave a delivery without a task or an ack costs one.

**SandboxProofs.** `ProgramsAreSupervised`, `SamplersEnd`,
`ActiveContainersAreSpared`, also with overlapping deliveries. The invariant says
that a client which could still start a container is waited for (`ClientInv`), that a
run creates one container at most, which does not run before its client asks for that
(`ContainerInv`), that a live run's container is no older than it (`AgeInv`), and that
what the reaper is about to remove is not in use, or belongs to a run past the orphan
age (`TargetInv`). `OomIsTheKernels`: while deliveries do not overlap, FAILED is
reported only of a program that came to its own end. Of all that can give a client 137,
the ladder comes after the outcome is decided, the cleanup of an earlier run before
(`Serial`: one live run), and the reaper reaches only runs whose timeout is past
(`DueInv`, `SweepIsLate`): so a run that is awaiting, or that was decided as completed,
holds 137 only from its program (`OomInv`). Ages rest on
`OrphanAgeIsExact`: although Docker rounds and the reaper parses the text, up to 1439
hours the decision is exactly age >= 300 s; beyond that Docker says "months", which
the parser does not know. `TruncationIsHonest` and `SandboxTypeCorrect` rest on
`AppendKeepsSound`: a capture holds no more than it counted, that is within the cap,
and `truncated` is raised exactly when a character is dropped. What is cut differs
from the text because its size does (`CutFits`), and sizes are sums by recursion, whose
existence and type are proved from the least counterexample (`LeastNatural`), as the
induction theorems cannot be applied. `OnlyDeliveryCompletedRan` bounds what
`sandbox_completed` shows: for a job's only delivery, and unless the daemon refuses to
start the container, COMPLETED does mean that the program ended by itself. `RanInv`
follows the wait: the container is there when the client asks for its start, and
nothing but the program's end makes it exit before a signal was sent.

**WebSocketStreamProofs.** `WindowIsHonoured`: the script admits when fewer than limit
members survive its trim, and every request admitted within WINDOW - MaxSkew is among
them, since a score is the time of adding by a clock at most MaxSkew ahead (`KeyInv`).
`RetryAnswerIsExact` uses that a sorted set is never above the limit, so that one
member must leave, and that the oldest leaves first; its existence is a
well-foundedness argument. `NoEarlyOutputIsMissed`, `TypeCorrect`, and `GaugeIsKept`,
the safety half of `ClosedIsUncounted`, rest on `LocalInv`, what the places of onStart
and of cleanup say of a connection's locals.

Model-checked only: everything about liveness (`EventuallyFinished`,
`RecoversWithRedis`, `StopEnds`, `EntryIsServed`, `ExecuteEnds`, `LeftoversGo`,
`ClosedIsUncounted`, `StreamEnds`, `VanishedIsDropped`, `SubscriberIsClosed`), which
the proof system does not reach. Every invariant and every action property that a
passing run checks is proved.

## Not modelled

- Authentication, validation and the language routes: stateless functions of one
  request.
- Seccomp profiles, hardening flags and images: data handed to Docker. That the
  container confines the program is Docker's matter.
- The readers of cgroup files and the cache of container ids: a sample is a number
  nobody decides by.
- Telemetry and configuration: no state the rest depends on; the settings that
  matter are CONSTANTS.
- The API's shutdown and crash: a bounded sequence after which nothing is left of the
  process. An enqueue it cuts off is JobLifecycle's lost reply. The twin of
  `_group_ready` in `jobQueue.ts` (`groupEnsured`) behaves as WorkerPool shows it.
- The order of frames on a WebSocket, and output texts: a duplicate run can send
  output or a second exit frame after the first.
- The dead-letter stream's MAXLEN, the result key's TTL, MinIO's contents.
