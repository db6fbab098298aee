---------------------------- MODULE JobLifecycle ----------------------------
(***************************************************************************)
(* One job, end to end: the API routes that submit, wait for and cancel    *)
(* it, the Redis keys it lives in, and WorkerDaemon._process, one action   *)
(* per awaited Redis command, so that every interleaving of API handlers,  *)
(* worker tasks, crashes and failed commands is a behaviour.               *)
(*                                                                         *)
(* A task is a DELIVERY of a stream entry: the first by XREADGROUP, the    *)
(* later ones by XCLAIM.  The pending list's consumer name is left out:    *)
(* XPENDING is asked for every consumer and XACK acks for the group, so no *)
(* code reads it.  The pool that bounds a worker's tasks is not here.      *)
(***************************************************************************)
EXTENDS Naturals, Sequences, FiniteSets

CONSTANTS Jobs,          \* job ids; the stream entry of a job carries its id
          Malformed,     \* jobs whose payload ExecutionRequest.from_dict rejects
          Workers,       \* worker processes
          SlotLimit,     \* MAX_CONCURRENT_JOBS of the one user submitting
          MaxRetries,    \* QUEUE_MAX_RETRIES
          Outcomes,      \* statuses the programs of a run can end with
          Faults,        \* the kinds of trouble a run allows, see FaultKinds
          MaxDeliveries, \* bound: deliveries of one entry
          MaxTroubles,   \* bound: crashes, failed commands, outages, lost records
          MaxDeletes     \* bound: DELETE requests

FaultKinds == {"crash",     \* a worker process dies
               "redis",     \* a Redis command raises
               "docker",    \* the Docker daemon is unreachable
               "stall",     \* a live task or claim takes over claim_min_idle_ms
               "slotTTL",   \* a slot outlives MAX_TIMEOUT_SECONDS + 10 s
               "cancelTTL", \* a cancel flag outlives its 120 s
               "recordTTL"} \* a job record outlives its 2 h

Nobody == "nobody"

ASSUME LifecycleAssumption ==
  /\ Malformed \subseteq Jobs /\ Nobody \notin Workers
  /\ SlotLimit \in Nat /\ MaxRetries \in Nat
  /\ MaxDeliveries \in Nat \ {0} /\ MaxTroubles \in Nat /\ MaxDeletes \in Nat
  /\ Faults \subseteq FaultKinds
  /\ Outcomes \subseteq {"COMPLETED", "FAILED", "TIMEOUT", "KILLED"}

Terminal == {"COMPLETED", "FAILED", "TIMEOUT", "KILLED"}
Statuses == {"PENDING", "RUNNING"} \cup Terminal

NoResult == "none"
Absent == "absent"
Results == Terminal \cup {NoResult}

Deliveries == 1..MaxDeliveries
Tasks == Jobs \X Deliveries

\* Where a task stands: the await it is about to perform, in the order of
\* _process, _run_job, store_terminal, dead_letter and ack.
PCs == {"none", "check", "runget", "runput", "runpub", "exec", "archive", "hot",
        "get", "put", "publish", "release", "deadletter", "xack", "xdel", "end"}

\* The part of _process a task is in: before any branch is taken, the
\* dead-letter branches, the cancelled branch, the try block, its handler.
Modes == {"prelude", "poison", "cancel", "try", "except"}

Task == [pc: PCs, mode: Modes, res: Results, kept: Results,
         watch: {"off", "on", "fired", "died"}, by: Workers \cup {Nobody}]
NoTask == [pc |-> "none", mode |-> "prelude", res |-> NoResult, kept |-> NoResult,
           watch |-> "off", by |-> Nobody]

Record == [status: Statuses \cup {Absent}, result: Results]
NoRecord == [status |-> Absent, result |-> NoResult]

VARIABLES
  \* the stream and its consumer group
  backlog,    \* entries no consumer has read, oldest first
  stream,     \* entries XLEN counts: added and not XDELed
  pending,    \* the group's pending entries list
  idle,       \* pending entries idle for claim_min_idle_ms
  times,      \* times_delivered (kept after XACK, when nothing reads it)
  dead,       \* jobs in the dead-letter stream
  \* the keys of a job
  record,     \* sandbox:job:<id>
  immortal,   \* records written without a TTL
  result,     \* sandbox:result:<id>
  cold,       \* results/<id>.json in MinIO
  cancelled,  \* sandbox:cancel:<id>
  slots,      \* the user's sandbox:concurrency set
  announced,  \* jobs whose "done" frame was published
  \* the processes
  api,        \* the submitting request of a job
  del,        \* its DELETE request
  task,       \* its deliveries
  peek,       \* times_delivered a worker saw in XPENDING, 0 if it saw none
  \* bounds and history
  deletes, troubles,
  killed      \* jobs a DELETE flagged, and whether they were still in the backlog

queueVars == <<backlog, stream, pending, idle, times, dead>>
keyVars == <<record, immortal, result, cold, cancelled, slots, announced>>
apiVars == <<api, del, deletes, killed>>
workVars == <<task, peek>>
vars == <<queueVars, keyVars, apiVars, workVars, troubles>>

Entries(q) == {q[i] : i \in 1..Len(q)}

Init ==
  /\ backlog = <<>>
  /\ stream = {} /\ pending = {} /\ idle = {} /\ dead = {}
  /\ times = [j \in Jobs |-> 0]
  /\ record = [j \in Jobs |-> NoRecord]
  /\ immortal = {} /\ cancelled = {} /\ slots = {} /\ announced = {}
  /\ result = [j \in Jobs |-> NoResult]
  /\ cold = [j \in Jobs |-> NoResult]
  /\ api = [j \in Jobs |-> "new"]
  /\ del = [j \in Jobs |-> [pc |-> "idle", kept |-> NoResult]]
  /\ task = [t \in Tasks |-> NoTask]
  /\ peek = [w \in Workers |-> [j \in Jobs |-> 0]]
  /\ deletes = 0 /\ troubles = 0 /\ killed = [j \in Jobs |-> "no"]

\* One of the run's bounded number of crashes, failed commands, outages and
\* expired records.
Trouble(kind) ==
  /\ kind \in Faults
  /\ troubles < MaxTroubles
  /\ troubles' = troubles + 1

(***************************************************************************)
(* The API routes                                                          *)
(***************************************************************************)

\* Mutant of AcquireSlot: the limit is compared with <=.
AcquireOneTooMany(j) ==
  /\ api[j] = "new"
  /\ Cardinality(slots) <= SlotLimit
  /\ slots' = slots \cup {j}
  /\ api' = [api EXCEPT ![j] = "granted"]
  /\ UNCHANGED <<queueVars, workVars, record, immortal, result, cold, cancelled,
                 announced, del, deletes, killed, troubles>>

\* submit: acquireSlot, which fails open.  Over the limit it answers 429.
AcquireSlot(j) ==
  /\ api[j] = "new"
  /\ \/ /\ Cardinality(slots) < SlotLimit
        /\ slots' = slots \cup {j}
        /\ api' = [api EXCEPT ![j] = "granted"]
        /\ UNCHANGED troubles
     \/ /\ Cardinality(slots) >= SlotLimit
        /\ api' = [api EXCEPT ![j] = "refused"]
        /\ UNCHANGED <<slots, troubles>>
     \/ /\ Trouble("redis")
        /\ api' = [api EXCEPT ![j] = "granted"]
        /\ UNCHANGED slots
  /\ UNCHANGED <<queueVars, workVars, record, immortal, result, cold, cancelled,
                 announced, del, deletes, killed>>

\* The transaction of enqueueJob: XADD and SET record PENDING EX.
AddEntry(j) ==
  /\ backlog' = Append(backlog, j)
  /\ stream' = stream \cup {j}
  /\ record' = [record EXCEPT ![j] = [status |-> "PENDING", result |-> NoResult]]

\* submit: enqueueJob, after which the request is answered 202 ("async") or
\* waits.  When the transaction's reply is lost the answer is 503 and the
\* slot stays taken, whether or not Redis applied it.
EnqueueJob(j) ==
  /\ api[j] = "granted"
  /\ \/ /\ AddEntry(j)
        /\ \E answer \in {"async", "waiting"} : api' = [api EXCEPT ![j] = answer]
        /\ UNCHANGED troubles
     \/ /\ Trouble("redis")
        /\ api' = [api EXCEPT ![j] = "failed"]
        /\ AddEntry(j) \/ UNCHANGED <<backlog, stream, record>>
  /\ UNCHANGED <<pending, idle, times, dead, immortal, result, cold, cancelled, slots,
                 announced, del, deletes, killed, workVars>>

\* POST /execute: waitForTerminal ends with a terminal record or at the end of
\* the window.  A poll that raises ends the request with the slot still taken.
SyncPoll(j) ==
  /\ api[j] = "waiting"
  /\ \/ /\ api' = [api EXCEPT ![j] = IF record[j].status \in Terminal THEN "done" ELSE "late"]
        /\ UNCHANGED troubles
     \/ /\ Trouble("redis")
        /\ api' = [api EXCEPT ![j] = "failed"]
  /\ UNCHANGED <<queueVars, keyVars, workVars, del, deletes, killed>>

\* POST /execute: releaseSlot (best effort), whether the job is over or not,
\* then the answer.
SyncAnswer(j) ==
  /\ api[j] \in {"done", "late"}
  /\ api' = [api EXCEPT ![j] = IF @ = "done" THEN "200" ELSE "408"]
  /\ \/ slots' = slots \ {j} /\ UNCHANGED troubles
     \/ Trouble("redis") /\ UNCHANGED slots
  /\ UNCHANGED <<queueVars, workVars, record, immortal, result, cold, cancelled,
                 announced, del, deletes, killed>>

\* SET with KEEPTTL: on a key that has expired it leaves one without a TTL.
SetKeepTtl(j, r) ==
  /\ record' = [record EXCEPT ![j] = r]
  /\ immortal' = IF record[j].status = Absent THEN immortal \cup {j} ELSE immortal

\* DELETE /jobs/:id reads the record; a missing or terminal one is answered
\* 404 or 409, which changes nothing.
DeleteRead(j) ==
  /\ del[j].pc = "idle"
  /\ deletes < MaxDeletes
  /\ record[j].status \in {"PENDING", "RUNNING"}
  /\ deletes' = deletes + 1
  /\ del' = [del EXCEPT ![j] = [pc |-> "write", kept |-> record[j].result]]
  /\ UNCHANGED <<queueVars, keyVars, workVars, api, troubles, killed>>

\* The transaction of DELETE: the cancel flag and a KILLED copy of the record
\* it read.  If it raises, the request ends.
DeleteWrite(j) ==
  /\ del[j].pc = "write"
  /\ \/ /\ cancelled' = cancelled \cup {j}
        /\ SetKeepTtl(j, [status |-> "KILLED", result |-> del[j].kept])
        /\ del' = [del EXCEPT ![j] = [pc |-> "release", kept |-> NoResult]]
        /\ killed' = [killed EXCEPT ![j] = IF @ = "queued" \/ j \in Entries(backlog)
                                       THEN "queued" ELSE "taken"]
        /\ UNCHANGED troubles
     \/ /\ Trouble("redis")
        /\ del' = [del EXCEPT ![j] = [pc |-> "idle", kept |-> NoResult]]
        /\ UNCHANGED <<cancelled, record, immortal, killed>>
  /\ UNCHANGED <<queueVars, workVars, result, cold, slots, announced, api, deletes>>

\* DELETE: releaseSlot (best effort), then 200 KILLED.
DeleteRelease(j) ==
  /\ del[j].pc = "release"
  /\ \/ slots' = slots \ {j} /\ UNCHANGED troubles
     \/ Trouble("redis") /\ UNCHANGED slots
  /\ del' = [del EXCEPT ![j] = [pc |-> "idle", kept |-> NoResult]]
  /\ UNCHANGED <<queueVars, workVars, record, immortal, result, cold, cancelled,
                 announced, api, deletes, killed>>

(***************************************************************************)
(* Delivery: XREADGROUP, XPENDING, XCLAIM                                  *)
(***************************************************************************)

Live(t) == task[t].pc \notin {"none", "end"}

\* Mutants of Started: the retry limit is off by one, either way.
StartedStrict(w, j, deliveryCount) ==
  IF deliveryCount >= MaxRetries \/ j \in Malformed
  THEN [NoTask EXCEPT !.pc = "archive", !.mode = "poison", !.res = "FAILED", !.by = w]
  ELSE [NoTask EXCEPT !.pc = "check", !.by = w]
StartedLenient(w, j, deliveryCount) ==
  IF deliveryCount > MaxRetries + 1 \/ j \in Malformed
  THEN [NoTask EXCEPT !.pc = "archive", !.mode = "poison", !.res = "FAILED", !.by = w]
  ELSE [NoTask EXCEPT !.pc = "check", !.by = w]

\* The first decision of _process, before it awaits anything: an entry over
\* its retries, or one that does not parse, is failed and dead-lettered.
Started(w, j, deliveryCount) ==
  IF deliveryCount > MaxRetries \/ j \in Malformed
  THEN [NoTask EXCEPT !.pc = "archive", !.mode = "poison", !.res = "FAILED", !.by = w]
  ELSE [NoTask EXCEPT !.pc = "check", !.by = w]

\* Mutant of Read: XREADGROUP with NOACK leaves no pending entry.
ReadNoAck(w) ==
  /\ backlog # <<>>
  /\ times' = [times EXCEPT ![Head(backlog)] = 1]
  /\ task' = [task EXCEPT ![<<Head(backlog), 1>>] = Started(w, Head(backlog), 1)]
  /\ backlog' = Tail(backlog)
  /\ UNCHANGED <<stream, pending, idle, dead, keyVars, apiVars, peek, troubles>>

\* read: the oldest undelivered entry, with delivery_count 1.  If the reply
\* is lost the entry is pending and nobody works on it.
Read(w) ==
  /\ backlog # <<>>
  /\ LET j == Head(backlog)
     IN  /\ pending' = pending \cup {j}
         /\ times' = [times EXCEPT ![j] = 1]
         /\ \/ /\ task' = [task EXCEPT ![<<j, 1>>] = Started(w, j, 1)]
               /\ UNCHANGED troubles
            \/ Trouble("redis") /\ UNCHANGED task
  /\ backlog' = Tail(backlog)
  /\ UNCHANGED <<stream, idle, dead, keyVars, apiVars, peek>>

\* Mutant of Peek: entries over their retries are passed over, not returned to
\* be dead-lettered.
PeekRetryable(w, j) ==
  /\ j \in idle /\ times[j] <= MaxRetries
  /\ peek[w][j] = 0
  /\ peek' = [peek EXCEPT ![w][j] = times[j]]
  /\ UNCHANGED <<queueVars, keyVars, apiVars, task, troubles>>

\* claim_stale: XPENDING reports an idle entry and its times_delivered.
Peek(w, j) ==
  /\ j \in idle
  /\ peek[w][j] = 0
  /\ peek' = [peek EXCEPT ![w][j] = times[j]]
  /\ UNCHANGED <<queueVars, keyVars, apiVars, task, troubles>>

\* Mutants of Claim: XCLAIM with FORCE, which makes an acked entry pending
\* again; XCLAIM with a min-idle time of 0.
ClaimForce(w, j) ==
  /\ peek[w][j] # 0
  /\ peek' = [peek EXCEPT ![w][j] = 0]
  /\ j \in idle \/ j \notin pending
  /\ times[j] < MaxDeliveries
  /\ pending' = pending \cup {j} /\ idle' = idle \ {j}
  /\ times' = [times EXCEPT ![j] = @ + 1]
  /\ task' = [task EXCEPT ![<<j, times[j] + 1>>] = Started(w, j, peek[w][j])]
  /\ UNCHANGED <<backlog, stream, dead, keyVars, apiVars, troubles>>
ClaimAnyAge(w, j) ==
  /\ peek[w][j] # 0
  /\ peek' = [peek EXCEPT ![w][j] = 0]
  /\ j \in pending /\ times[j] < MaxDeliveries
  /\ idle' = idle \ {j}
  /\ times' = [times EXCEPT ![j] = @ + 1]
  /\ task' = [task EXCEPT ![<<j, times[j] + 1>>] = Started(w, j, peek[w][j])]
  /\ UNCHANGED <<backlog, stream, pending, dead, keyVars, apiVars, troubles>>

\* claim_stale: XCLAIM of a reported entry.  Redis refuses one that was acked
\* or delivered again in the meantime; otherwise the message carries the
\* count XPENDING reported, one less than this delivery's.  If this command, or
\* a later one of the same batch, raises, the list of claimed messages is lost
\* with the delivery already counted.
Claim(w, j) ==
  /\ peek[w][j] # 0
  /\ peek' = [peek EXCEPT ![w][j] = 0]
  /\ \/ /\ j \in idle
        /\ times[j] < MaxDeliveries
        /\ idle' = idle \ {j}
        /\ times' = [times EXCEPT ![j] = @ + 1]
        /\ \/ /\ task' = [task EXCEPT ![<<j, times[j] + 1>>] = Started(w, j, peek[w][j])]
              /\ UNCHANGED troubles
           \/ Trouble("redis") /\ UNCHANGED task
     \/ /\ j \notin idle
        /\ UNCHANGED <<idle, times, task, troubles>>
  /\ UNCHANGED <<backlog, stream, pending, dead, keyVars, apiVars>>

\* Time: a pending entry passes claim_min_idle_ms.  That is far above what a
\* job takes, so without a stall nobody is still at work on the entry.
GoIdle(j) ==
  /\ j \in pending \ idle
  /\ \/ "stall" \in Faults
     \/ /\ \A d \in Deliveries : ~Live(<<j, d>>)
        /\ \A w \in Workers : peek[w][j] = 0
  /\ idle' = idle \cup {j}
  /\ UNCHANGED <<backlog, stream, pending, times, dead, keyVars, apiVars, workVars, troubles>>

(***************************************************************************)
(* WorkerDaemon._process                                                   *)
(***************************************************************************)

Ended(k) == [NoTask EXCEPT !.pc = "end", !.mode = k.mode]

Goto(t, p) == task' = [task EXCEPT ![t].pc = p]

\* Mutant of Finalize: the result is built without its status.
FinalizeNoStatus(t, mode, status) ==
  task' = [task EXCEPT ![t] = [pc |-> "archive", mode |-> mode, res |-> NoResult,
                               kept |-> NoResult, watch |-> "off", by |-> @.by]]

\* Entering store_terminal with a result to store.
Finalize(t, mode, status) ==
  task' = [task EXCEPT ![t] = [pc |-> "archive", mode |-> mode, res |-> status,
                               kept |-> NoResult, watch |-> "off", by |-> @.by]]

\* Mutant of CheckCancel: the flag is not looked at.
CheckNothing(t) ==
  /\ task[t].pc = "check"
  /\ task' = [task EXCEPT ![t] = [@ EXCEPT !.pc = "runget", !.mode = "try"]]
  /\ UNCHANGED <<queueVars, keyVars, apiVars, peek, troubles>>

\* is_cancelled at pickup: a flagged job is finalised KILLED, any other is run.
CheckCancel(t) ==
  /\ task[t].pc = "check"
  /\ IF t[1] \in cancelled
     THEN Finalize(t, "cancel", "KILLED")
     ELSE task' = [task EXCEPT ![t] = [@ EXCEPT !.pc = "runget", !.mode = "try"]]
  /\ UNCHANGED <<queueVars, keyVars, apiVars, peek, troubles>>

\* set_running: patch_record's GET; an expired record is left alone.
RunningGet(t) ==
  /\ task[t].pc = "runget"
  /\ IF record[t[1]].status = Absent
     THEN Goto(t, "runpub")
     ELSE task' = [task EXCEPT ![t] = [@ EXCEPT !.pc = "runput", !.kept = record[t[1]].result]]
  /\ UNCHANGED <<queueVars, keyVars, apiVars, peek, troubles>>

\* set_running: patch_record's SET of the record it read, now RUNNING.
RunningPut(t) ==
  /\ task[t].pc = "runput"
  /\ SetKeepTtl(t[1], [status |-> "RUNNING", result |-> task[t].kept])
  /\ task' = [task EXCEPT ![t] = [@ EXCEPT !.pc = "runpub", !.kept = NoResult]]
  /\ UNCHANGED <<queueVars, result, cold, cancelled, slots, announced, apiVars, peek, troubles>>

\* _run_job: publish RUNNING, start the watcher, enter the executor.
RunningPublish(t) ==
  /\ task[t].pc = "runpub"
  /\ task' = [task EXCEPT ![t] = [@ EXCEPT !.pc = "exec", !.watch = "on"]]
  /\ UNCHANGED <<queueVars, keyVars, apiVars, peek, troubles>>

\* _watch_cancel: a poll that finds the flag fires the cancel event, one that
\* raises ends the watcher with the exception kept for whoever awaits it.
WatchCancel(t) ==
  /\ task[t].pc = "exec" /\ task[t].watch = "on"
  /\ \/ /\ t[1] \in cancelled
        /\ task' = [task EXCEPT ![t].watch = "fired"]
        /\ UNCHANGED troubles
     \/ /\ Trouble("redis")
        /\ task' = [task EXCEPT ![t].watch = "died"]
  /\ UNCHANGED <<queueVars, keyVars, apiVars, peek>>

\* The executor returns: KILLED only on a cancel event, and with one also
\* whatever the program had reached by then.  Awaiting a watcher that died
\* would raise instead.
ExecuteResult(t) ==
  /\ task[t].pc = "exec" /\ task[t].watch # "died"
  /\ \E status \in Outcomes :
        /\ status = "KILLED" => task[t].watch = "fired"
        /\ Finalize(t, "try", status)
  /\ UNCHANGED <<queueVars, keyVars, apiVars, peek, troubles>>

\* The executor, or the await of a dead watcher, raises: the handler stores
\* FAILED.
ExecuteRaise(t) ==
  /\ task[t].pc = "exec"
  /\ Finalize(t, "except", "FAILED")
  /\ UNCHANGED <<queueVars, keyVars, apiVars, peek, troubles>>

\* DockerUnavailableError: nothing is stored, released or acked.
DockerUnavailable(t) ==
  /\ task[t].pc = "exec" /\ task[t].watch # "died"
  /\ Trouble("docker")
  /\ task' = [task EXCEPT ![t] = Ended(@)]
  /\ UNCHANGED <<queueVars, keyVars, apiVars, peek>>

\* store_terminal: the MinIO copy, best effort.
Archive(t) ==
  /\ task[t].pc = "archive"
  /\ cold' \in {cold, [cold EXCEPT ![t[1]] = task[t].res]}
  /\ Goto(t, "hot")
  /\ UNCHANGED <<queueVars, record, immortal, result, cancelled, slots, announced,
                 apiVars, peek, troubles>>

\* store_terminal: SET of the result key.
StoreResult(t) ==
  /\ task[t].pc = "hot"
  /\ result' = [result EXCEPT ![t[1]] = task[t].res]
  /\ Goto(t, "get")
  /\ UNCHANGED <<queueVars, record, immortal, cold, cancelled, slots, announced,
                 apiVars, peek, troubles>>

\* Mutant of TerminalGet: the record is not finalised.
TerminalGetOnly(t) ==
  /\ task[t].pc = "get"
  /\ Goto(t, "publish")
  /\ UNCHANGED <<queueVars, keyVars, apiVars, peek, troubles>>

\* store_terminal: patch_record's GET.
TerminalGet(t) ==
  /\ task[t].pc = "get"
  /\ Goto(t, IF record[t[1]].status = Absent THEN "publish" ELSE "put")
  /\ UNCHANGED <<queueVars, keyVars, apiVars, peek, troubles>>

\* store_terminal: patch_record's SET, which overwrites status and result.
TerminalPut(t) ==
  /\ task[t].pc = "put"
  /\ SetKeepTtl(t[1], [status |-> task[t].res, result |-> task[t].res])
  /\ Goto(t, "publish")
  /\ UNCHANGED <<queueVars, result, cold, cancelled, slots, announced, apiVars, peek, troubles>>

\* Mutant of PublishDone: the slot release is forgotten.
PublishDoneOnly(t) ==
  /\ task[t].pc = "publish"
  /\ announced' = announced \cup {t[1]}
  /\ Goto(t, IF task[t].mode = "poison" THEN "deadletter" ELSE "xack")
  /\ UNCHANGED <<queueVars, record, immortal, result, cold, cancelled, slots,
                 apiVars, peek, troubles>>

\* publisher.done.
PublishDone(t) ==
  /\ task[t].pc = "publish"
  /\ announced' = announced \cup {t[1]}
  /\ Goto(t, "release")
  /\ UNCHANGED <<queueVars, record, immortal, result, cold, cancelled, slots,
                 apiVars, peek, troubles>>

\* release_slot swallows its errors.
ReleaseSlot(t) ==
  /\ task[t].pc = "release"
  /\ \/ slots' = slots \ {t[1]} /\ UNCHANGED troubles
     \/ Trouble("redis") /\ UNCHANGED slots
  /\ Goto(t, IF task[t].mode = "poison" THEN "deadletter" ELSE "xack")
  /\ UNCHANGED <<queueVars, record, immortal, result, cold, cancelled, announced,
                 apiVars, peek>>

\* dead_letter: XADD to the dead-letter stream, then ack.
DeadLetter(t) ==
  /\ task[t].pc = "deadletter"
  /\ dead' = dead \cup {t[1]}
  /\ Goto(t, "xack")
  /\ UNCHANGED <<backlog, stream, pending, idle, times, keyVars, apiVars, peek, troubles>>

\* ack: XACK removes the entry from the group's pending list, whoever holds it.
XAck(t) ==
  /\ task[t].pc = "xack"
  /\ pending' = pending \ {t[1]}
  /\ idle' = idle \ {t[1]}
  /\ Goto(t, "xdel")
  /\ UNCHANGED <<backlog, stream, times, dead, keyVars, apiVars, peek, troubles>>

\* Mutant of XDel: the acked entry stays in the stream.
XDelNothing(t) ==
  /\ task[t].pc = "xdel"
  /\ task' = [task EXCEPT ![t] = Ended(@)]
  /\ UNCHANGED <<queueVars, keyVars, apiVars, peek, troubles>>

\* ack: XDEL.
XDel(t) ==
  /\ task[t].pc = "xdel"
  /\ stream' = stream \ {t[1]}
  /\ task' = [task EXCEPT ![t] = Ended(@)]
  /\ UNCHANGED <<backlog, pending, idle, times, dead, keyVars, apiVars, peek, troubles>>

\* A Redis command of a task raises.  Inside the try block the handler
\* finalises the job FAILED, whatever was stored before; anywhere else the
\* exception ends the task and the entry stays as it is.
CommandRaises(t) ==
  /\ task[t].pc \in {"check", "runget", "runput", "runpub", "hot", "get", "put",
                     "publish", "deadletter", "xack", "xdel"}
  /\ Trouble("redis")
  /\ IF task[t].mode = "try"
     THEN Finalize(t, "except", "FAILED")
     ELSE task' = [task EXCEPT ![t] = Ended(@)]
  /\ UNCHANGED <<queueVars, keyVars, apiVars, peek>>

\* The worker process dies with its tasks and what its loop remembered.
Crash(w) ==
  /\ \/ \E t \in Tasks : task[t].by = w
     \/ \E j \in Jobs : peek[w][j] # 0
  /\ Trouble("crash")
  /\ task' = [t \in Tasks |-> IF task[t].by = w THEN Ended(task[t]) ELSE task[t]]
  /\ peek' = [peek EXCEPT ![w] = [j \in Jobs |-> 0]]
  /\ UNCHANGED <<queueVars, keyVars, apiVars>>

(***************************************************************************)
(* Expiry of keys                                                          *)
(***************************************************************************)

ExpireSlot(j) ==
  /\ "slotTTL" \in Faults
  /\ j \in slots
  /\ slots' = slots \ {j}
  /\ UNCHANGED <<queueVars, record, immortal, result, cold, cancelled, announced,
                 apiVars, workVars, troubles>>

ExpireCancel(j) ==
  /\ "cancelTTL" \in Faults
  /\ j \in cancelled
  /\ cancelled' = cancelled \ {j}
  /\ UNCHANGED <<queueVars, record, immortal, result, cold, slots, announced,
                 apiVars, workVars, troubles>>

ExpireRecord(j) ==
  /\ Trouble("recordTTL")
  /\ record[j].status # Absent
  /\ j \notin immortal
  /\ record' = [record EXCEPT ![j] = NoRecord]
  /\ UNCHANGED <<queueVars, immortal, result, cold, cancelled, slots, announced,
                 apiVars, workVars>>

-----------------------------------------------------------------------------

ApiStep(j) ==
  \/ AcquireSlot(j) \/ EnqueueJob(j) \/ SyncPoll(j) \/ SyncAnswer(j)
  \/ DeleteRead(j) \/ DeleteWrite(j) \/ DeleteRelease(j)

TaskStep(t) ==
  \/ CheckCancel(t) \/ RunningGet(t) \/ RunningPut(t) \/ RunningPublish(t)
  \/ ExecuteResult(t) \/ ExecuteRaise(t)
  \/ Archive(t) \/ StoreResult(t) \/ TerminalGet(t) \/ TerminalPut(t)
  \/ PublishDone(t) \/ ReleaseSlot(t) \/ DeadLetter(t) \/ XAck(t) \/ XDel(t)

Expiry(j) == ExpireSlot(j) \/ ExpireCancel(j) \/ ExpireRecord(j)

Next ==
  \/ \E j \in Jobs : ApiStep(j) \/ GoIdle(j) \/ Expiry(j)
  \/ \E w \in Workers : Read(w) \/ Crash(w)
  \/ \E w \in Workers, j \in Jobs : Peek(w, j) \/ Claim(w, j)
  \/ \E t \in Tasks : TaskStep(t) \/ WatchCancel(t) \/ DockerUnavailable(t) \/ CommandRaises(t)

Spec == Init /\ [][Next]_vars

\* What the event loops guarantee: a started task or request goes on, some
\* worker keeps reading and claiming, and time passes.  Clients, faults and
\* expiry are free.
Fairness ==
  /\ \A t \in Tasks : WF_vars(TaskStep(t))
  /\ \A j \in Jobs : WF_vars(DeleteWrite(j) \/ DeleteRelease(j))
  /\ WF_vars(\E w \in Workers : Read(w))
  /\ \A j \in Jobs : WF_vars(GoIdle(j)) /\ WF_vars(\E w \in Workers : Peek(w, j))
  /\ \A w \in Workers, j \in Jobs : WF_vars(Claim(w, j))

FairSpec == Spec /\ Fairness

-----------------------------------------------------------------------------

(***************************************************************************)
(* Properties                                                              *)
(***************************************************************************)

\* Every variable keeps its shape.
TypeOK ==
  /\ backlog \in Seq(Jobs)
  /\ stream \subseteq Jobs /\ pending \subseteq Jobs /\ idle \subseteq pending
  /\ times \in [Jobs -> 0..MaxDeliveries]
  /\ dead \subseteq Jobs /\ cancelled \subseteq Jobs /\ slots \subseteq Jobs
  /\ announced \subseteq Jobs /\ immortal \subseteq Jobs 
  /\ killed \in [Jobs -> {"no", "queued", "taken"}]
  /\ record \in [Jobs -> Record]
  /\ result \in [Jobs -> Results] /\ cold \in [Jobs -> Results]
  /\ api \in [Jobs -> {"new", "refused", "granted", "failed", "async", "waiting",
                       "done", "late", "200", "408"}]
  /\ del \in [Jobs -> [pc: {"idle", "write", "release"}, kept: Results]]
  /\ task \in [Tasks -> Task]
  /\ peek \in [Workers -> [Jobs -> 0..MaxDeliveries]]
  /\ deletes \in 0..MaxDeletes /\ troubles \in 0..MaxTroubles

\* The API answered as if the job exists, or a worker has seen it.
Accepted(j) ==
  api[j] \in {"async", "waiting", "done", "late", "200", "408"} \/ times[j] > 0

\* XACK comes only after the result is stored and announced, whatever crashes,
\* fails or runs twice: an accepted job waits in the stream, is pending (and so
\* can be reclaimed), or has a stored result its streams were told about.
NothingLost ==
  \A j \in Jobs : Accepted(j) =>
     \/ j \in Entries(backlog) \cup pending
     \/ result[j] # NoResult /\ j \in announced

\* The promise of JobPromise, seen through the stream: an entry was accepted
\* once it was added, and is finished once it was delivered and acked.
Promise == INSTANCE JobPromise WITH
  accepted <- {j \in Jobs : j \in Entries(backlog) \/ times[j] > 0},
  stored <- {j \in Jobs : result[j] # NoResult},
  finished <- {j \in Jobs : times[j] > 0 /\ j \notin pending}

\* At-least-once delivery with ack after store implements the promise: no
\* crash, failed command or second delivery finishes a job without a stored
\* result, takes one back, or makes a finished job pending again.
KeepsPromise == Promise!Spec

\* _process: an entry reaches the dead-letter stream only with a result stored,
\* and only if it does not parse or was delivered more than max_retries + 1
\* times (claim_stale reports the count from before its own claim).  With
\* max_retries = 0 the first delivery is already one too many.
DeadLettersAreSpent ==
  \A j \in dead : /\ result[j] # NoResult
                  /\ \/ j \in Malformed
                     \/ times[j] > MaxRetries + 1
                     \/ MaxRetries = 0 /\ times[j] > 0

\* DELETE of a job still in the stream: no later delivery of it ever enters
\* _run_job ("a PENDING job is skipped when dequeued", jobs.ts:94).
CancelledBeforePickupNeverRuns ==
  \A j \in Jobs, d \in Deliveries :
     killed[j] = "queued" => task[<<j, d>>].mode \notin {"try", "except"}

\* Nobody is working on the job any more and nobody will.
Settled(j) ==
  /\ times[j] > 0 /\ j \notin pending
  /\ \A d \in Deliveries : ~Live(<<j, d>>)
  /\ del[j].pc = "idle"

\* When everything about a job has come to rest, its record is terminal and
\* agrees with the result key, except for the KILLED a DELETE wrote last.
SettledRecordAgrees ==
  \A j \in Jobs : Settled(j) =>
     \/ record[j].status \in {Absent, result[j]}
     \/ record[j].status = "KILLED" /\ killed[j] # "no"

\* The worker gives the slot back before it acks, so a job at rest holds none.
SettledHoldsNoSlot == \A j \in Jobs : Settled(j) => j \notin slots

\* The quota: a user never has more than SlotLimit jobs under way, other than
\* those they cancelled or stopped waiting for (both routes release the slot
\* while the job goes on).
QuotaHonoured ==
  Cardinality({j \in Jobs : /\ record[j].status \in {"PENDING", "RUNNING"}
                            /\ killed[j] = "no" /\ api[j] # "408"}) <= SlotLimit

\* XCLAIM's min-idle check: while no live task outlasts claim_min_idle_ms, no
\* two deliveries of an entry are worked on at once.
NoDoubleProcessing ==
  \A j \in Jobs, d, e \in Deliveries : Live(<<j, d>>) /\ Live(<<j, e>>) => d = e

\* A job's code is started at most max_retries + 1 times.
RunsBounded ==
  \A j \in Jobs :
     Cardinality({d \in Deliveries : task[<<j, d>>].mode \in {"try", "except"}})
       <= MaxRetries + 1

\* types/index.ts:43: "a job in one of these will never transition again".
TerminalIsFinal ==
  [][\A j \in Jobs : record[j].status \in Terminal
        => record'[j].status \in {record[j].status, Absent}]_record

\* RUNBOOK.md:27: "A job whose delivery count exceeds QUEUE_MAX_RETRIES ... is
\* dead-lettered instead of re-run": the d-th delivery, d > max_retries, is
\* never run.
NotRerunBeyondRetries ==
  \A j \in Jobs, d \in Deliveries :
     d > MaxRetries => task[<<j, d>>].mode \notin {"try", "except"}

\* consumer.py:115: XDEL after XACK "keeps the stream equal to 'not yet
\* finished' work", so that XLEN is the queue's depth.
StreamIsUnfinishedWork ==
  \A j \in stream : \/ j \in Entries(backlog) \cup pending
                    \/ \E d \in Deliveries : Live(<<j, d>>)

\* However often workers crash or find no Docker, an accepted job is eventually
\* finished for good: acked, with a terminal record.
EventuallyFinished ==
  \A j \in Jobs : Accepted(j) ~> [](Settled(j) /\ record[j].status \in Terminal)
=============================================================================
