------------------------------ MODULE Sandbox ------------------------------
(***************************************************************************)
(* SandboxExecutor.execute and ContainerReaper on one host.  The runs are  *)
(* the deliveries of ONE job, which all use the container name             *)
(* sandbox-<job id>; the Docker daemon lets one container have it.  Each   *)
(* await of execute is an action of its own, and so is each step of the    *)
(* daemon, of the `docker run` client and of the reaper.                   *)
(*                                                                         *)
(* Time passes in ticks of Step seconds.  A run's timers may fire at any   *)
(* instant between two ticks, and the one of the timeout no later than in  *)
(* the tick it is due.  Nothing bounds the rest of a run: no docker        *)
(* command of the kill ladder or of the cleanup has a timeout.             *)
(***************************************************************************)
EXTENDS SandboxLimits, FiniteSets

CONSTANTS Deliveries,    \* how often the job is executed
          Language,      \* the job's language
          TimeoutField,  \* timeout_seconds of its payload, 0 when absent
          MaxOutput,     \* output_max_bytes
          Texts,         \* the texts a pump can read at once
          ExitCodes,     \* exit codes of the program, 137 when the OOM killer fires
          Faults,        \* the kinds of trouble a run allows, see FaultKinds
          MaxTroubles,   \* bound: troubles in one behaviour
          Step           \* seconds per tick

Runs == 1..Deliveries

FaultKinds == {"crash",    \* the worker process dies during a run
               "outage",   \* the Docker daemon does not answer for a while
               "start",    \* the daemon refuses to create or start the container
               "command",  \* a docker command cannot be spawned and raises
               "output",   \* on_output raises
               "workdir",  \* writing the code or an input file raises
               "overlap"}  \* a delivery runs beside the one it replaces

Timeout == clamp_timeout(DefaultTimeout[Language], RequestedTimeout(TimeoutField))

ASSUME SandboxAssumption ==
  /\ Deliveries \in Nat /\ Language \in Languages /\ TimeoutField \in Int
  /\ MaxOutput \in Nat /\ MaxTroubles \in Nat
  /\ Step \in Nat \ {0} /\ MAX_TIMEOUT_SECONDS + Step <= ORPHAN_AGE_SECONDS
  /\ Texts \subseteq Seq(Nat) /\ ExitCodes \subseteq Int
  /\ Faults \subseteq FaultKinds

Nobody == 0
NoClient == [st |-> "none", rc |-> 0]
NoContainer == [id |-> Nobody, st |-> "none", age |-> 0, rc |-> 0]

\* The awaits of execute, in order.  "ended" is a run that returned or raised,
\* its result with the caller; "dead" is one whose worker died.
PCs == {"idle", "verify", "workdir", "spawn", "await", "grace", "killwait", "drain",
        "cleanup", "ended", "dead"}
Outcomes == {"none", "completed", "timeout", "killed"}
Statuses == {"none", "COMPLETED", "FAILED", "TIMEOUT", "KILLED"}
Run == [pc: PCs, outcome: Outcomes, status: Statuses]
RunAt(label) == [pc |-> label, outcome |-> "none", status |-> "none"]

VARIABLES
  run,        \* the executions
  cancel,     \* runs whose cancel_event is set
  age,        \* seconds since a run made its work directory
  workdir,    \* runs whose work directory exists
  client,     \* the `docker run` process of a run, and its return code
  creates,    \* runs whose create request the daemon has yet to answer
  container,  \* the container named sandbox-<job id>
  daemon,     \* whether the Docker daemon answers
  pump,       \* the output pumps of a run
  sampler,    \* runs whose sampler polls the container's usage
  capture,    \* its _OutputCapture
  reaper,     \* the reaper, and the container it has decided to remove
  troubles,   \* bound
  ran,        \* history: live runs whose program came to its own end
  excused     \* history: runs that died, or whose docker commands failed

procVars == <<client, creates, container>>
taskVars == <<pump, sampler, capture>>
vars == <<run, cancel, age, workdir, procVars, daemon, taskVars, reaper, troubles,
          ran, excused>>

Live(r) == run[r].pc \notin {"idle", "ended", "dead"}
Begun(r) == Live(r) /\ run[r].pc \notin {"verify", "workdir"}

Init ==
  /\ run = [r \in Runs |-> RunAt("idle")]
  /\ cancel = {} /\ workdir = {} /\ creates = {}
  /\ age = [r \in Runs |-> 0]
  /\ client = [r \in Runs |-> NoClient]
  /\ container = NoContainer
  /\ daemon = "up"
  /\ pump = [r \in Runs |-> "off"] /\ sampler = {}
  /\ capture = [r \in Runs |-> EmptyCapture]
  /\ reaper = [pc |-> "wait", target |-> Nobody]
  /\ troubles = 0 /\ ran = {} /\ excused = {}

Goto(r, label) == run' = [run EXCEPT ![r] = [@ EXCEPT !.pc = label]]

Trouble(kind) ==
  /\ kind \in Faults
  /\ troubles < MaxTroubles
  /\ troubles' = troubles + 1

Exited(r) == client[r].st = "exited"

\* A client whose run is over has nobody to report to: it matters until it has
\* started its container.
Heard(r, c) == IF Live(r) THEN c ELSE NoClient
Forgotten(c) == IF c.st \in {"attached", "exited"} THEN NoClient ELSE c

ClientEnds(r, rc) == [client EXCEPT ![r] = Heard(r, [st |-> "exited", rc |-> rc])]

\* The clients once the container is gone: one that is attached learns the
\* exit code, 137 if the removal killed the program.
ClientsAfterRemoval ==
  IF container.id \in Runs /\ client[container.id].st = "attached"
    THEN ClientEnds(container.id, IF container.st = "exited" THEN container.rc
                                                            ELSE _SIGKILL_EXIT)
    ELSE client

\* docker rm -f sandbox-<job id>: whichever run's container has the name.
RemovedByName == IF daemon = "up" THEN NoContainer ELSE container
ClientsAfterRm == IF daemon = "up" THEN ClientsAfterRemoval ELSE client

(***************************************************************************)
(* execute, up to the spawned client                                       *)
(***************************************************************************)

\* The job is delivered; get_runtime finds its language.
Execute(r) ==
  /\ run[r].pc = "idle"
  /\ \A s \in 1..(r - 1) : run[s].pc # "idle"
  /\ "overlap" \in Faults \/ \A s \in Runs : ~Live(s)
  /\ Goto(r, "verify")
  /\ UNCHANGED <<cancel, age, workdir, procVars, daemon, taskVars, reaper, troubles,
                 ran, excused>>

\* docker image inspect: the image is there with its pinned digest, or one of
\* DockerUnavailableError, ImageNotFoundError, ImageIntegrityError is raised.
_verify_image(r) ==
  /\ run[r].pc = "verify"
  /\ \/ daemon = "up" /\ Goto(r, "workdir")
     \/ Goto(r, "ended")
  /\ UNCHANGED <<cancel, age, workdir, procVars, daemon, taskVars, reaper, troubles,
                 ran, excused>>

\* mkdtemp, then the files.  A raise leaves the directory: the try block of
\* execute begins after it.
_prepare_workdir(r) ==
  /\ run[r].pc = "workdir"
  /\ workdir' = workdir \cup {r}
  /\ age' = [age EXCEPT ![r] = 0]
  /\ \/ Goto(r, "spawn") /\ UNCHANGED troubles
     \/ Trouble("workdir") /\ Goto(r, "ended")
  /\ UNCHANGED <<cancel, procVars, daemon, taskVars, reaper, ran, excused>>

\* The sampler polls the container's memory and CPU usage until it is cancelled;
\* a poll of a container that is not there reads zero.
_sample(r) == sampler' = sampler \cup {r}

\* The `docker run` process starts, with the tasks around it.
_spawn(r) ==
  /\ run[r].pc = "spawn"
  /\ Goto(r, "await")
  /\ client' = [client EXCEPT ![r] = [st |-> "creating", rc |-> 0]]
  /\ creates' = creates \cup {r}
  /\ pump' = [pump EXCEPT ![r] = "open"]
  /\ _sample(r)
  /\ UNCHANGED <<cancel, age, workdir, container, daemon, capture, reaper, troubles,
                 ran, excused>>

(***************************************************************************)
(* The daemon and the client of `docker run --rm -i --init --name ...`     *)
(***************************************************************************)

\* The daemon answers a create request.  The name may be taken, or the daemon
\* refuses: the client exits with 125.  A client that died meanwhile does not
\* hear of the container it asked for.
DaemonCreate(r) ==
  /\ r \in creates /\ daemon = "up"
  /\ creates' = creates \ {r}
  /\ \/ /\ container = NoContainer
        /\ container' = [NoContainer EXCEPT !.id = r, !.st = "created"]
        /\ client' = IF client[r].st = "creating"
                       THEN [client EXCEPT ![r] = [@ EXCEPT !.st = "created"]] ELSE client
        /\ UNCHANGED troubles
     \/ /\ \/ container # NoContainer /\ UNCHANGED troubles
           \/ container = NoContainer /\ Trouble("start")
        /\ client' = IF client[r].st = "creating" THEN ClientEnds(r, 125) ELSE client
        /\ UNCHANGED container
  /\ UNCHANGED <<run, cancel, age, workdir, daemon, taskVars, reaper, ran, excused>>

\* The client asks for the start.  The container may have been removed.
ClientStart(r) ==
  /\ client[r].st = "created" /\ daemon = "up"
  /\ \/ /\ container.id = r
        /\ container' = [container EXCEPT !.st = "running", !.age = 0]
        /\ client' = [client EXCEPT ![r] = Heard(r, [@ EXCEPT !.st = "attached"])]
     \/ /\ container.id # r
        /\ client' = ClientEnds(r, 125)
        /\ UNCHANGED container
  /\ UNCHANGED <<run, cancel, age, workdir, creates, daemon, taskVars, reaper, troubles,
                 ran, excused>>

\* The program ends by itself, or the OOM killer ends it with 137.
ProgramExit ==
  /\ container.st = "running"
  /\ \E rc \in ExitCodes :
       container' = [container EXCEPT !.st = "exited", !.rc = rc]
  /\ ran' = IF Live(container.id) THEN ran \cup {container.id} ELSE ran
  /\ UNCHANGED <<run, cancel, age, workdir, client, creates, daemon, taskVars, reaper,
                 troubles, excused>>

\* --rm: the daemon removes the container that exited.
AutoRemove ==
  /\ container.st = "exited" /\ daemon = "up"
  /\ container' = NoContainer
  /\ client' = ClientsAfterRemoval
  /\ UNCHANGED <<run, cancel, age, workdir, creates, daemon, taskVars, reaper, troubles,
                 ran, excused>>

(***************************************************************************)
(* The tasks beside the run                                                *)
(***************************************************************************)

\* _pump reads a text, keeps what the cap leaves room for and forwards that.
\* on_output may raise, which ends the pump.
_pump(r, text) ==
  /\ pump[r] = "open" /\ client[r].st \in {"attached", "exited"}
  /\ capture' = [capture EXCEPT ![r] = append(@, text, MaxOutput)]
  /\ \/ UNCHANGED <<pump, troubles>>
     \/ /\ capture'[r].kept > capture[r].kept
        /\ Trouble("output")
        /\ pump' = [pump EXCEPT ![r] = "failed"]
  /\ UNCHANGED <<run, cancel, age, workdir, procVars, daemon, sampler, reaper, ran,
                 excused>>

\* EOF on both streams, once the client has exited.  The stdin task has ended
\* by then too: its pipe broke at the latest.
PumpEnds(r) ==
  /\ pump[r] = "open" /\ Exited(r)
  /\ pump' = [pump EXCEPT ![r] = "eof"]
  /\ UNCHANGED <<run, cancel, age, workdir, procVars, daemon, sampler, capture, reaper,
                 troubles, ran, excused>>

\* _watch_cancel finds the job's cancel flag.  Until the wait nothing reads the
\* event, so it is set no earlier.
Cancel(r) ==
  /\ run[r].pc = "await" /\ r \notin cancel
  /\ cancel' = cancel \cup {r}
  /\ UNCHANGED <<run, age, workdir, procVars, daemon, taskVars, reaper, troubles, ran,
                 excused>>

(***************************************************************************)
(* execute, from the wait for the client to the cleanup                    *)
(***************************************************************************)

\* The process has ended: it wins a tie with the event and the timer.
_await_completion(r) ==
  /\ run[r].pc = "await" /\ Exited(r)
  /\ run' = [run EXCEPT ![r] = [@ EXCEPT !.pc = "drain", !.outcome = "completed"]]
  /\ cancel' = cancel \ {r}
  /\ UNCHANGED <<age, workdir, procVars, daemon, taskVars, reaper, troubles, ran, excused>>

\* The event is set or the timer fires, and _terminate begins with docker kill
\* --signal=TERM.  The program may end of it (143) or go on.
Sigterm(r) ==
  /\ run[r].pc = "await"
  /\ run' = [run EXCEPT ![r] = [@ EXCEPT !.pc = "grace", !.outcome =
                IF r \in cancel THEN "killed" ELSE "timeout"]]
  /\ cancel' = cancel \ {r}
  /\ \/ /\ container.st = "running" /\ daemon = "up"
        /\ container' = [container EXCEPT !.st = "exited", !.rc = 143]
     \/ UNCHANGED container
  /\ UNCHANGED <<age, workdir, client, creates, daemon, taskVars, reaper, troubles, ran,
                 excused>>

\* Mutant of TerminateEnds: the outcome is what wait_task says after the ladder.
TerminateCompletes(r) ==
  /\ run[r].pc \in {"grace", "killwait"} /\ Exited(r)
  /\ run' = [run EXCEPT ![r] = [@ EXCEPT !.pc = "drain", !.outcome = "completed"]]
  /\ UNCHANGED <<cancel, age, workdir, procVars, daemon, taskVars, reaper, troubles,
                 ran, excused>>

\* The client exited within the grace period, or within the 5 s after SIGKILL.
TerminateEnds(r) ==
  /\ run[r].pc \in {"grace", "killwait"} /\ Exited(r)
  /\ Goto(r, "drain")
  /\ UNCHANGED <<cancel, age, workdir, procVars, daemon, taskVars, reaper, troubles,
                 ran, excused>>

\* The grace period is over: docker kill --signal=KILL.
Sigkill(r) ==
  /\ run[r].pc = "grace"
  /\ Goto(r, "killwait")
  /\ container' = IF container.st = "running" /\ daemon = "up"
                    THEN [container EXCEPT !.st = "exited", !.rc = _SIGKILL_EXIT]
                    ELSE container
  /\ UNCHANGED <<cancel, age, workdir, client, creates, daemon, taskVars, reaper,
                 troubles, ran, excused>>

\* Mutant of GiveUp: the client is not killed, only no longer waited for.
GiveUpOnClient(r) ==
  /\ run[r].pc = "killwait"
  /\ Goto(r, "cleanup")
  /\ container' = RemovedByName
  /\ client' = ClientsAfterRm
  /\ sampler' = sampler \ {r}
  /\ UNCHANGED <<cancel, age, workdir, creates, daemon, pump, capture, reaper, troubles,
                 ran, excused>>

\* Mutant of GiveUp: after SIGKILL the client is waited for without a bound.
GiveUpNever(r) == Exited(r) /\ TerminateEnds(r)

\* The 5 s are over: docker rm -f, then proc.kill().  A create request of the
\* client may or may not be with the daemon already.
GiveUp(r) ==
  /\ run[r].pc = "killwait"
  /\ Goto(r, "drain")
  /\ container' = RemovedByName
  /\ client' = [ClientsAfterRm EXCEPT ![r] =
                  IF @.st = "exited" THEN @ ELSE [st |-> "exited", rc |-> -9]]
  /\ creates' \in {creates, creates \ {r}}
  /\ UNCHANGED <<cancel, age, workdir, daemon, taskVars, reaper, troubles, ran, excused>>

\* Mutant of FinishRun: nobody cancels the sampler.
FinishUnsampled(r) ==
  /\ run[r].pc = "drain"
  /\ \/ /\ pump[r] = "eof"
        /\ run' = [run EXCEPT ![r] = [@ EXCEPT !.pc = "cleanup",
                     !.status = StatusOf(run[r].outcome, client[r].rc)]]
     \/ pump[r] = "failed" /\ Goto(r, "cleanup")
  /\ UNCHANGED <<cancel, age, workdir, procVars, daemon, taskVars, reaper, troubles,
                 ran, excused>>

\* The rest of _run: the pumps, then the sampler and the result, which takes the
\* capture.  A pump that failed raises first.
FinishRun(r) ==
  /\ run[r].pc = "drain"
  /\ \/ /\ pump[r] = "eof"
        /\ sampler' = sampler \ {r}
        /\ run' = [run EXCEPT ![r] = [@ EXCEPT !.pc = "cleanup",
                     !.status = StatusOf(run[r].outcome, client[r].rc)]]
     \/ pump[r] = "failed" /\ Goto(r, "cleanup") /\ UNCHANGED sampler
  /\ capture' = [capture EXCEPT ![r] = EmptyCapture]
  /\ UNCHANGED <<cancel, age, workdir, procVars, daemon, pump, reaper, troubles, ran,
                 excused>>

\* The spawn, or the docker command of the ladder that is due, raises: _run ends
\* at once.
CommandRaises(r) ==
  /\ run[r].pc \in {"spawn", "await", "grace", "killwait"}
  /\ Trouble("command")
  /\ Goto(r, "cleanup")
  /\ cancel' = cancel \ {r}
  /\ excused' = excused \cup {r}
  /\ UNCHANGED <<age, workdir, procVars, daemon, taskVars, reaper, ran>>

\* The finally block: docker rm -f, whose failure is suppressed, and rmtree.
\* Pumps that outlive the run write to a capture nobody reads.
_cleanup(r) ==
  /\ run[r].pc = "cleanup"
  /\ run' = [run EXCEPT ![r] = RunAt("ended")]
  /\ container' = RemovedByName
  /\ client' = [ClientsAfterRm EXCEPT ![r] = Forgotten(@)]
  /\ workdir' = workdir \ {r}
  /\ age' = [age EXCEPT ![r] = 0]
  /\ pump' = [pump EXCEPT ![r] = IF @ = "failed" THEN @ ELSE "off"]
  /\ capture' = [capture EXCEPT ![r] = EmptyCapture]
  /\ excused' = IF daemon = "up" THEN excused ELSE excused \cup {r}
  /\ ran' = ran \ {r}
  /\ UNCHANGED <<cancel, creates, daemon, sampler, reaper, troubles>>

(***************************************************************************)
(* Crashes, outages and time                                               *)
(***************************************************************************)

\* The worker process dies.  Its `docker run` client lives on, or dies as well:
\* a create request of it may then be with the daemon already.  The container
\* does not die: nothing enforces the timeout any more.
Crash(r) ==
  /\ Live(r)
  /\ Trouble("crash")
  /\ run' = [run EXCEPT ![r] = RunAt("dead")]
  /\ \/ client' = [client EXCEPT ![r] = Forgotten(@)] /\ UNCHANGED creates
     \/ /\ client' = [client EXCEPT ![r] = NoClient]
        /\ creates' \in {creates, creates \ {r}}
  /\ cancel' = cancel \ {r}
  /\ pump' = [pump EXCEPT ![r] = "off"] /\ sampler' = sampler \ {r}
  /\ capture' = [capture EXCEPT ![r] = EmptyCapture]
  /\ excused' = excused \cup {r} /\ ran' = ran \ {r}
  /\ UNCHANGED <<age, workdir, container, daemon, reaper>>

Outage ==
  /\ daemon = "up" /\ Trouble("outage")
  /\ daemon' = "down"
  /\ UNCHANGED <<run, cancel, age, workdir, procVars, taskVars, reaper, ran, excused>>

Recover ==
  /\ daemon = "down"
  /\ daemon' = "up"
  /\ UNCHANGED <<run, cancel, age, workdir, procVars, taskVars, reaper, troubles, ran,
                 excused>>

\* Ages are counted up to where the reaper's comparisons stop telling them
\* apart: age >= 300 for a container, age > 300 for a directory.
MaxAge == ORPHAN_AGE_SECONDS + 1

\* A client is spawned without delay and the event loop serves the timeout in the
\* tick it is due: asyncio.wait does not outlast it by more.  The ladder and the
\* cleanup, whose docker commands have no timeout, may last any time.
Tick ==
  /\ container # NoContainer \/ workdir # {}
  /\ \A r \in Runs : run[r].pc \in {"spawn", "await"} => age[r] < Timeout
  /\ age' = [r \in Runs |-> IF r \in workdir \/ Begun(r)
                             THEN MinOf(age[r] + Step, MaxAge) ELSE age[r]]
  /\ container' = IF container = NoContainer THEN container
                    ELSE [container EXCEPT !.age = MinOf(@ + Step, ORPHAN_AGE_SECONDS)]
  /\ UNCHANGED <<run, cancel, workdir, client, creates, daemon, taskVars, reaper,
                 troubles, ran, excused>>

(***************************************************************************)
(* ContainerReaper of a worker that lives                                  *)
(***************************************************************************)

\* The directories older than the orphan age, a live run's too; no await
\* separates this from the reply that comes before it.
_reap_workdirs == workdir' = {r \in workdir : age[r] <= ORPHAN_AGE_SECONDS}

\* docker ps: the container as listed now, if should_reap accepts it.  During
\* an outage the listing fails and no container is reaped.
_reap_containers ==
  /\ reaper = [pc |-> "wait", target |-> Nobody]
  /\ IF daemon = "up" /\ should_reap(container.st, container.age)
       THEN /\ reaper' = [pc |-> "sweep", target |-> container.id]
            /\ UNCHANGED workdir
       ELSE _reap_workdirs /\ UNCHANGED reaper
  /\ UNCHANGED <<run, cancel, age, procVars, daemon, taskVars, troubles, ran, excused>>

\* docker rm -f of the listed container, by id; its name may be another's now.
ReapListed ==
  /\ reaper.pc = "sweep"
  /\ reaper' = [pc |-> "wait", target |-> Nobody]
  /\ IF container.id = reaper.target /\ daemon = "up"
       THEN container' = NoContainer /\ client' = ClientsAfterRemoval
       ELSE UNCHANGED <<container, client>>
  /\ _reap_workdirs
  /\ UNCHANGED <<run, cancel, age, creates, daemon, taskVars, troubles, ran, excused>>

\* A docker command of the reaper raises; run_forever ends, and nothing starts
\* it again.
ReaperRaises ==
  /\ reaper.pc # "dead"
  /\ Trouble("command")
  /\ reaper' = [pc |-> "dead", target |-> Nobody]
  /\ UNCHANGED <<run, cancel, age, workdir, procVars, daemon, taskVars, ran, excused>>

ReapStep == _reap_containers \/ ReapListed

\* The steps of execute itself.
RunStep(r) ==
  \/ _verify_image(r) \/ _prepare_workdir(r) \/ _spawn(r) \/ _await_completion(r)
  \/ Sigterm(r) \/ Sigkill(r) \/ TerminateEnds(r) \/ GiveUp(r) \/ FinishRun(r)
  \/ _cleanup(r)

Next ==
  \/ \E r \in Runs : \/ Execute(r) \/ RunStep(r) \/ Cancel(r) \/ CommandRaises(r)
                      \/ DaemonCreate(r) \/ ClientStart(r) \/ Crash(r)
                      \/ PumpEnds(r)
                      \/ \E text \in Texts : _pump(r, text)
  \/ ProgramExit \/ AutoRemove \/ Outage \/ Recover \/ Tick \/ ReapStep \/ ReaperRaises

\* A run goes on, docker commands return, streams end with the client, time
\* passes, the daemon comes back and the reaper cycles.  A program need not end.
Fairness ==
  /\ \A r \in Runs : /\ WF_vars(RunStep(r)) /\ WF_vars(DaemonCreate(r))
                     /\ WF_vars(ClientStart(r)) /\ WF_vars(PumpEnds(r))
  /\ WF_vars(AutoRemove) /\ WF_vars(Recover) /\ WF_vars(Tick) /\ WF_vars(ReapStep)

Spec == Init /\ [][Next]_vars
FairSpec == Spec /\ Fairness

(***************************************************************************)
(* Properties                                                              *)
(***************************************************************************)

Client == [st: {"none", "creating", "created", "attached", "exited"}, rc: Int]
Container == [id: Runs \cup {Nobody}, st: {"none", "created", "running", "exited"},
              age: 0..ORPHAN_AGE_SECONDS, rc: Int]
Capture == [used: Nat, kept: Nat, truncated: BOOLEAN, lost: BOOLEAN]

\* Every variable has its type.
TypeOK ==
  /\ run \in [Runs -> Run]
  /\ cancel \subseteq Runs /\ workdir \subseteq Runs /\ creates \subseteq Runs
  /\ sampler \subseteq Runs /\ ran \subseteq Runs /\ excused \subseteq Runs
  /\ age \in [Runs -> 0..MaxAge]
  /\ client \in [Runs -> Client]
  /\ container \in Container
  /\ daemon \in {"up", "down"}
  /\ pump \in [Runs -> {"off", "open", "failed", "eof"}]
  /\ capture \in [Runs -> Capture]
  /\ reaper \in [pc: {"wait", "sweep", "dead"}, target: Runs \cup {Nobody}]
  /\ troubles \in 0..MaxTroubles

\* A program runs only under a live execute, whose timeout bounds it: when
\* execute has ended, whatever its outcome and however late Docker created the
\* container, the ladder and the cleanup have ended the program.  The exceptions
\* are a worker that died, a docker command that could not be spawned and a
\* cleanup during an outage (executor.py, _terminate and _cleanup).
NothingRunsUnsupervised ==
  container.st = "running" => Live(container.id) \/ container.id \in excused

\* The reaper "must NOT remove young, still-running containers" (cleanup.py:64):
\* no step of it removes the container of a live execute younger than the orphan
\* age before its program exited, however old its listing is.
ReaperSparesActive ==
  [][reaper' # reaper /\ container.st \in {"created", "running"} /\ Live(container.id)
       => container' = container \/ age[container.id] >= ORPHAN_AGE_SECONDS]_vars

\* FAILED with oom_killed: "When we did not initiate the kill, this means the
\* cgroup OOM killer fired" (executor.py:42).  The program came to its own end
\* with 137; no SIGKILL of the ladder, no docker rm -f of this or an earlier run
\* and no sweep of the reaper is reported so.
OomIsNotOurKill ==
  \A r \in Runs : run[r].status = "FAILED" => r \in ran

\* Both streams together keep at most output_max_bytes, and truncated is
\* reported exactly when a character was dropped (executor.py, _OutputCapture).
TruncationIsReported ==
  \A r \in Runs : /\ capture[r].kept <= MaxOutput
                  /\ capture[r].truncated <=> capture[r].lost

\* The sampler, which polls for ever, ends with its execute; only a _run that
\* raised, of on_output or of a docker command, leaves it behind (executor.py,
\* _run).
SamplerEndsWithRun ==
  \A r \in sampler : Live(r) \/ r \in excused \/ pump[r] = "failed"

\* COMPLETED: "the user code ran to completion" (types/index.ts:27).
CompletedMeansRan ==
  \A r \in Runs : run[r].status = "COMPLETED" => r \in ran

\* execute ends, even if the program never does, ignores SIGTERM, or its
\* container comes up after the ladder (executor.py, _await_completion).
ExecuteEnds == \A r \in Runs : Live(r) ~> ~Live(r)

\* What a run leaves behind is removed in the end, after a crash or an outage
\* too, as long as the reaper lives (cleanup.py, run_forever).
LeftoversGo ==
  \A r \in Runs :
    ~Live(r) /\ (container.id = r \/ r \in workdir)
      ~> (container.id # r /\ r \notin workdir) \/ reaper.pc = "dead"
=============================================================================
