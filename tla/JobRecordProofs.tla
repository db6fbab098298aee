-------------------------- MODULE JobRecordProofs --------------------------
(***************************************************************************)
(* What a job's record and its user's quota say, for every set of jobs and *)
(* workers and every bound, while the faults named by a theorem do not     *)
(* occur.                                                                  *)
(***************************************************************************)
EXTENDS JobDeliveryProofs

\* What one step may do to a task: start it, end it, or take it one await further.
TaskActed(u) ==
  \/ task'[u] = task[u]
  \/ \E w \in Workers : /\ Read(w) /\ u[1] = Head(backlog)
                        /\ task'[u].pc \in {"check", "archive"}
  \/ \E w \in Workers : /\ Claim(w, u[1]) /\ u[1] \in idle
                        /\ task'[u].pc \in {"check", "archive"}
  \/ Crash(task[u].by) /\ task'[u].pc = "end"
  \/ DockerUnavailable(u) /\ task'[u].pc = "end"
  \/ TaskStep(u) \/ WatchCancel(u)

\* Every step of the system acts on a task as TaskActed says.
LEMMA TaskActs ==
  ASSUME "redis" \notin Faults, IInv, IInv', [Next]_vars, NEW u \in Tasks
  PROVE  TaskActed(u)
<1> USE DEF queueVars, keyVars, apiVars, workVars
<1>a. task \in [Tasks -> Task] /\ task' \in [Tasks -> Task]
  BY DEF IInv, TypeOK
<1> SUFFICES ASSUME task'[u] # task[u] PROVE TaskActed(u)
  BY DEF TaskActed
<1>0. \A w, j, n : Started(w, j, n).pc \in {"check", "archive"}
  BY DEF Started, NoTask
<1>1. ASSUME NEW w \in Workers, Read(w) PROVE TaskActed(u)
  <2>1. task' = [task EXCEPT ![<<Head(backlog), 1>>] = Started(w, Head(backlog), 1)]
    BY <1>1 DEF Read
  <2>2. u = <<Head(backlog), 1>> /\ task'[u] = Started(w, Head(backlog), 1)
    BY <1>a, <2>1
  <2>3. u[1] = Head(backlog)
    BY <2>2
  <2> QED BY <1>0, <1>1, <2>2, <2>3, ZenonT(60) DEF TaskActed
<1>2. ASSUME NEW w \in Workers, NEW j \in Jobs, Claim(w, j) PROVE TaskActed(u)
  <2>1. /\ task' = [task EXCEPT ![<<j, times[j] + 1>>] = Started(w, j, peek[w][j])]
        /\ j \in idle
    BY <1>2 DEF Claim
  <2>2. u = <<j, times[j] + 1>> /\ task'[u] = Started(w, j, peek[w][j])
    BY <1>a, <2>1
  <2>3. u[1] = j
    BY <2>2
  <2> QED BY <1>0, <1>2, <2>1, <2>2, <2>3, ZenonT(60) DEF TaskActed
<1>3. ASSUME NEW w \in Workers, Crash(w) PROVE TaskActed(u)
  <2>1. task'[u] = Ended(task[u]) /\ task[u].by = w
    BY <1>3 DEF Crash
  <2>2. task'[u].pc = "end"
    BY <2>1, Zenon DEF Ended, NoTask
  <2> QED BY <1>3, <2>1, <2>2, Zenon DEF TaskActed
<1>4. ASSUME NEW t \in Tasks, TaskStep(t) \/ WatchCancel(t) \/ DockerUnavailable(t) PROVE u = t
  <2>1. ASSUME NEW k, task' = [task EXCEPT ![t] = k] PROVE u = t
    BY <1>a, <2>1
  <2>2. ASSUME NEW p, Goto(t, p) PROVE u = t
    BY <1>a, <2>2, Zenon DEF Goto
  <2>3. ASSUME NEW x, task' = [task EXCEPT ![t].watch = x] PROVE u = t
    BY <1>a, <2>3, Zenon
  <2>4. \/ \E k : task' = [task EXCEPT ![t] = k]
        \/ \E p : Goto(t, p)
        \/ \E x : task' = [task EXCEPT ![t].watch = x]
    BY <1>4, Zenon DEF TaskStep, CheckCancel, RunningGet, RunningPut, RunningPublish,
      ExecuteResult, ExecuteRaise, Archive, StoreResult, TerminalGet, TerminalPut,
      PublishDone, ReleaseSlot, DeadLetter, XAck, XDel, Finalize, WatchCancel, DockerUnavailable
  <2> QED BY <2>1, <2>2, <2>3, <2>4, Zenon
<1>5. ASSUME DockerUnavailable(u) PROVE task'[u].pc = "end"
  BY <1>5, <1>a, Zenon DEF DockerUnavailable, Ended, NoTask
<1>6. ASSUME NEW t \in Tasks, CommandRaises(t) PROVE FALSE
  BY <1>6, Zenon DEF CommandRaises, Trouble
<1>7. ASSUME NEW j \in Jobs, ApiStep(j) \/ GoIdle(j) \/ Expiry(j) PROVE FALSE
  BY <1>7, Zenon DEF ApiStep, AcquireSlot, EnqueueJob, SyncPoll, SyncAnswer, DeleteRead,
     DeleteWrite, DeleteRelease, GoIdle, Expiry, ExpireSlot, ExpireCancel, ExpireRecord
<1>8. ASSUME NEW w \in Workers, NEW j \in Jobs, Peek(w, j) PROVE FALSE
  BY <1>8, Zenon DEF Peek
<1>9. CASE UNCHANGED vars
  BY <1>9, Zenon DEF vars
<1>10. ASSUME NEW t \in Tasks, TaskStep(t) \/ WatchCancel(t) \/ DockerUnavailable(t) PROVE TaskActed(u)
  BY <1>4, <1>5, <1>10, Zenon DEF TaskActed
<1> QED BY <1>1, <1>2, <1>3, <1>6, <1>7, <1>8, <1>9, <1>10, ZenonT(60) DEF Next

\* The places of a task whose store_terminal has patched the record.
Late == {"publish", "release", "deadletter", "xack", "xdel"}

\* A task's own step, seen from the record: it comes to a late place by patching
\* the record, or by finding it expired, and leaves it by XDEL.
Stored(u) ==
  \/ task[u].pc \notin Late /\ task'[u].pc \notin Late \cup {"get", "put"}
  \/ StoreResult(u) /\ task'[u].pc = "get" /\ task'[u].res = task[u].res
  \/ /\ TerminalGet(u) /\ task'[u].res = task[u].res
     /\ task'[u].pc = "put" \/ (task'[u].pc = "publish" /\ record[u[1]].status = Absent)
  \/ TerminalPut(u) /\ task'[u].pc = "publish"
  \/ task[u].pc \in Late \ {"xack", "xdel"} /\ task'[u].pc \in Late \ {"xdel"}
  \/ XAck(u) /\ task'[u].pc = "xdel"
  \/ XDel(u) /\ task'[u].pc = "end"

\* Every step of a task writes the keys as Stored says.
LEMMA StepStores ==
  ASSUME IInv, NEW u \in Tasks, TaskStep(u) \/ WatchCancel(u)
  PROVE  Stored(u)
<1>a. task \in [Tasks -> Task]
  BY DEF IInv, TypeOK
<1>0. ASSUME NEW p, Goto(u, p) PROVE task'[u].pc = p /\ task'[u].res = task[u].res
  BY <1>0, <1>a, Zenon DEF Goto, Task
<1>1. ASSUME NEW m, NEW r, Finalize(u, m, r) PROVE task'[u].pc = "archive"
  BY <1>1, <1>a, Zenon DEF Finalize
<1>2. CASE CheckCancel(u)
  <2>1. task'[u].pc \in {"archive", "runget"}
    <3>1. CASE task' = [task EXCEPT ![u] = [@ EXCEPT !.pc = "runget", !.mode = "try"]]
      BY <1>a, <3>1, Zenon DEF Task
    <3> QED BY <1>1, <1>2, <3>1, Zenon DEF CheckCancel
  <2> QED BY <1>2, <2>1, Zenon DEF CheckCancel, Stored, Late
<1>3. CASE RunningGet(u) \/ RunningPut(u) \/ RunningPublish(u)
  <2>1. task'[u].pc \in {"runput", "runpub", "exec"}
    BY <1>0, <1>3, <1>a, ZenonT(60) DEF RunningGet, RunningPut, RunningPublish, Task
  <2> QED BY <1>3, <2>1, Zenon DEF RunningGet, RunningPut, RunningPublish, Stored, Late
<1>4. CASE ExecuteResult(u) \/ ExecuteRaise(u)
  <2>1. task'[u].pc = "archive"
    BY <1>1, <1>4, Zenon DEF ExecuteResult, ExecuteRaise
  <2> QED BY <1>4, <2>1, Zenon DEF ExecuteResult, ExecuteRaise, Stored, Late
<1>5. CASE Archive(u)
  BY <1>0, <1>5, Zenon DEF Archive, Stored, Late
<1>6. CASE StoreResult(u)
  BY <1>0, <1>6, Zenon DEF StoreResult, Stored
<1>7. CASE TerminalGet(u)
  <2>1. /\ task'[u].pc = IF record[u[1]].status = Absent THEN "publish" ELSE "put"
        /\ task'[u].res = task[u].res
    BY <1>0, <1>7, Zenon DEF TerminalGet
  <2> QED BY <1>7, <2>1, Zenon DEF Stored
<1>8. CASE TerminalPut(u)
  BY <1>0, <1>8, Zenon DEF TerminalPut, Stored
<1>9. CASE PublishDone(u) \/ ReleaseSlot(u) \/ DeadLetter(u)
  <2>1. task[u].pc \in {"publish", "release", "deadletter"}
    BY <1>9, Zenon DEF PublishDone, ReleaseSlot, DeadLetter
  <2>2. task'[u].pc \in {"release", "deadletter", "xack"}
    BY <1>0, <1>9, Zenon DEF PublishDone, ReleaseSlot, DeadLetter
  <2> QED BY <2>1, <2>2 DEF Stored, Late
<1>10. CASE XAck(u)
  BY <1>0, <1>10, Zenon DEF XAck, Stored
<1>11. CASE XDel(u)
  BY <1>11, <1>a, Zenon DEF XDel, Ended, NoTask, Stored
<1>12. CASE WatchCancel(u)
  <2>1. task[u].pc = "exec" /\ task'[u].pc = "exec"
    BY <1>12, <1>a, Zenon DEF WatchCancel, Task
  <2> QED BY <2>1 DEF Stored, Late
<1> QED BY <1>2, <1>3, <1>4, <1>5, <1>6, <1>7, <1>8, <1>9, <1>10, <1>11, <1>12, ZenonT(60) DEF TaskStep

\* The keys of a job change by its own requests, by expiry and by its own tasks.
JobMoved(j) ==
  \/ /\ record'[j] = record[j] /\ result'[j] = result[j] /\ killed'[j] = killed[j]
     /\ api'[j] = api[j] /\ del'[j] = del[j] /\ (j \in slots' <=> j \in slots)
  \/ ApiStep(j) \/ Expiry(j)
  \/ \E t \in Tasks : t[1] = j /\ (RunningPut(t) \/ StoreResult(t) \/ TerminalPut(t) \/ ReleaseSlot(t))

\* Every step of the system moves a job as JobMoved says.
LEMMA JobMoves ==
  ASSUME IInv, [Next]_vars, NEW j \in Jobs
  PROVE  JobMoved(j)
<1> USE DEF queueVars, keyVars, apiVars, workVars
<1>a. /\ record \in [Jobs -> Record] /\ result \in [Jobs -> Results]
      /\ killed \in [Jobs -> {"no", "queued", "taken"}]
      /\ DOMAIN api = Jobs /\ DOMAIN del = Jobs
  BY DEF IInv, TypeOK
<1>b. DOMAIN record = Jobs /\ DOMAIN result = Jobs /\ DOMAIN killed = Jobs
  BY <1>a
<1> DEFINE Same == /\ record'[j] = record[j] /\ result'[j] = result[j] /\ killed'[j] = killed[j]
                   /\ api'[j] = api[j] /\ del'[j] = del[j] /\ (j \in slots' <=> j \in slots)
<1>1. ASSUME UNCHANGED <<record, result, killed, api, del, slots>> PROVE Same
  BY <1>1, Zenon
<1>2. ASSUME NEW i \in Jobs, i # j, ApiStep(i) PROVE Same
  <2>1. CASE AcquireSlot(i)
    <3>1. UNCHANGED <<record, result, killed, del>> /\ slots' \in {slots, slots \cup {i}}
      BY <2>1, Zenon DEF AcquireSlot
    <3>2. \E a : api' = [api EXCEPT ![i] = a]
      BY <2>1, Zenon DEF AcquireSlot
    <3> QED BY <1>2, <1>a, <3>1, <3>2
  <2>2. CASE EnqueueJob(i)
    <3>1. UNCHANGED <<result, killed, del, slots>>
      BY <2>2, Zenon DEF EnqueueJob
    <3>2. \E a : api' = [api EXCEPT ![i] = a]
      BY <2>2, Zenon DEF EnqueueJob
    <3>3. UNCHANGED record \/ \E r : record' = [record EXCEPT ![i] = r]
      BY <2>2, Zenon DEF EnqueueJob, AddEntry
    <3> QED BY <1>2, <1>a, <1>b, <3>1, <3>2, <3>3
  <2>3. CASE SyncPoll(i) \/ SyncAnswer(i)
    <3>1. UNCHANGED <<record, result, killed, del>> /\ slots' \in {slots, slots \ {i}}
      BY <2>3, Zenon DEF SyncPoll, SyncAnswer
    <3>2. \E a : api' = [api EXCEPT ![i] = a]
      BY <2>3, Zenon DEF SyncPoll, SyncAnswer
    <3> QED BY <1>2, <1>a, <3>1, <3>2
  <2>4. CASE DeleteRead(i) \/ DeleteRelease(i)
    <3>1. UNCHANGED <<record, result, killed, api>> /\ slots' \in {slots, slots \ {i}}
      BY <2>4, Zenon DEF DeleteRead, DeleteRelease
    <3>2. \E d : del' = [del EXCEPT ![i] = d]
      BY <2>4, Zenon DEF DeleteRead, DeleteRelease
    <3> QED BY <1>2, <1>a, <3>1, <3>2
  <2>5. CASE DeleteWrite(i)
    <3>1. UNCHANGED <<result, api, slots>>
      BY <2>5, Zenon DEF DeleteWrite
    <3>2. \E d : del' = [del EXCEPT ![i] = d]
      BY <2>5, Zenon DEF DeleteWrite
    <3>3. UNCHANGED record \/ \E r : record' = [record EXCEPT ![i] = r]
      BY <2>5, Zenon DEF DeleteWrite, SetKeepTtl
    <3>4. UNCHANGED killed \/ \E k : killed' = [killed EXCEPT ![i] = k]
      BY <2>5, Zenon DEF DeleteWrite
    <3> QED BY <1>2, <1>a, <1>b, <3>1, <3>2, <3>3, <3>4
  <2> QED BY <1>2, <2>1, <2>2, <2>3, <2>4, <2>5, ZenonT(60) DEF ApiStep
<1>3. ASSUME NEW i \in Jobs, i # j, Expiry(i) PROVE Same
  BY <1>3, <1>b, Zenon DEF Expiry, ExpireSlot, ExpireCancel, ExpireRecord
<1>4. ASSUME NEW i \in Jobs, GoIdle(i) PROVE Same
  BY <1>1, <1>4, Zenon DEF GoIdle
<1>5. ASSUME NEW w \in Workers, Read(w) \/ Crash(w) PROVE Same
  BY <1>1, <1>5, Zenon DEF Read, Crash
<1>6. ASSUME NEW w \in Workers, NEW i \in Jobs, Peek(w, i) \/ Claim(w, i) PROVE Same
  BY <1>1, <1>6, Zenon DEF Peek, Claim
<1>7. ASSUME NEW t \in Tasks, t[1] # j,
             RunningPut(t) \/ StoreResult(t) \/ TerminalPut(t) \/ ReleaseSlot(t)
      PROVE  Same
  BY <1>7, <1>b, Zenon DEF RunningPut, StoreResult, TerminalPut, ReleaseSlot, SetKeepTtl
<1>8. ASSUME NEW t \in Tasks, TaskStep(t),
             ~(RunningPut(t) \/ StoreResult(t) \/ TerminalPut(t) \/ ReleaseSlot(t))
      PROVE  Same
  <2>1. UNCHANGED <<record, result, killed, api, del, slots>>
    BY <1>8, Zenon DEF TaskStep, CheckCancel, RunningGet, RunningPublish, ExecuteResult,
       ExecuteRaise, Archive, TerminalGet, PublishDone, DeadLetter, XAck, XDel
  <2> QED BY <1>1, <2>1, Zenon
<1>9. ASSUME NEW t \in Tasks, WatchCancel(t) \/ DockerUnavailable(t) \/ CommandRaises(t) PROVE Same
  BY <1>1, <1>9, ZenonT(60) DEF WatchCancel, DockerUnavailable, CommandRaises
<1>10. CASE UNCHANGED vars
  <2>1. Same
    BY <1>1, <1>10, Zenon DEF vars
  <2> QED BY <2>1, Zenon DEF JobMoved
<1>11. Same => JobMoved(j)
  BY Zenon DEF JobMoved
<1> HIDE DEF Same
<1>12. ASSUME NEW i \in Jobs, ApiStep(i) \/ GoIdle(i) \/ Expiry(i) PROVE JobMoved(j)
  <2>1. CASE i = j
    BY <1>4, <1>11, <1>12, <2>1, ZenonT(60) DEF JobMoved
  <2>2. CASE i # j
    BY <1>2, <1>3, <1>4, <1>11, <1>12, <2>2, ZenonT(60)
  <2> QED BY <2>1, <2>2, Zenon
<1>13. ASSUME NEW t \in Tasks,
              TaskStep(t) \/ WatchCancel(t) \/ DockerUnavailable(t) \/ CommandRaises(t)
       PROVE  JobMoved(j)
  BY <1>7, <1>8, <1>9, <1>11, <1>13, ZenonT(60) DEF JobMoved
<1> QED BY <1>5, <1>6, <1>10, <1>11, <1>12, <1>13, ZenonT(60) DEF Next

\* An entry comes to the pending list when it is first delivered.
LEMMA PendingGrows ==
  ASSUME IInv, [Next]_vars, NEW j \in pending', j \notin pending
  PROVE  times[j] = 0 /\ \E w \in Workers : Read(w) /\ j = Head(backlog)
<1> USE DEF queueVars, keyVars, apiVars, workVars
<1>1. ASSUME \A w \in Workers : ~Read(w) PROVE pending' \subseteq pending
  <2>1. ASSUME NEW t \in Tasks, TaskStep(t) PROVE pending' \subseteq pending
    BY <2>1, Zenon DEF TaskStep, CheckCancel, RunningGet, RunningPut, RunningPublish, ExecuteResult,
       ExecuteRaise, Archive, StoreResult, TerminalGet, TerminalPut, PublishDone, ReleaseSlot,
       DeadLetter, XAck, XDel
  <2>2. ASSUME NEW t \in Tasks, WatchCancel(t) \/ DockerUnavailable(t) \/ CommandRaises(t)
        PROVE  UNCHANGED pending
    BY <2>2, Zenon DEF WatchCancel, DockerUnavailable, CommandRaises
  <2>3. ASSUME NEW i \in Jobs, ApiStep(i) \/ GoIdle(i) \/ Expiry(i) PROVE UNCHANGED pending
    BY <2>3, Zenon DEF ApiStep, AcquireSlot, EnqueueJob, SyncPoll, SyncAnswer, DeleteRead,
       DeleteWrite, DeleteRelease, GoIdle, Expiry, ExpireSlot, ExpireCancel, ExpireRecord
  <2>4. ASSUME NEW w \in Workers, NEW i \in Jobs, Peek(w, i) \/ Claim(w, i) PROVE UNCHANGED pending
    BY <2>4, Zenon DEF Peek, Claim
  <2>5. ASSUME NEW w \in Workers, Crash(w) PROVE UNCHANGED pending
    BY <2>5, Zenon DEF Crash
  <2>6. CASE UNCHANGED vars
    BY <2>6, Zenon DEF vars
  <2> QED BY <1>1, <2>1, <2>2, <2>3, <2>4, <2>5, <2>6, ZenonT(60) DEF Next
<1>2. PICK w \in Workers : Read(w)
  BY <1>1, Zenon
<1>3. j = Head(backlog)
  BY <1>2, Zenon DEF Read
<1> QED BY <1>2, <1>3, ReadIsFirst, Zenon

(***************************************************************************)
(* Without stalls and failed commands: the record agrees with the result   *)
(***************************************************************************)

\* What SettledRecordAgrees asks of a job at rest.
Agrees(j) ==
  \/ record[j].status \in {Absent, result[j]}
  \/ record[j].status = "KILLED" /\ killed[j] # "no"

\* A task that is to patch the record has stored the same result, the record of a
\* job agrees once it is patched and after its entry is acked, and only the task
\* that acked an entry still works on it.
RecordInv ==
  /\ \A t \in Tasks : task[t].pc \in {"get", "put"} => result[t[1]] = task[t].res
  /\ \A t \in Tasks : task[t].pc \in Late => Agrees(t[1])
  /\ \A j \in Jobs : times[j] > 0 /\ j \notin pending => Agrees(j)
  /\ \A t \in Tasks : Live(t) => (t[1] \notin pending <=> task[t].pc = "xdel")

\* A flagged job stays flagged.
LEMMA KilledStays ==
  ASSUME IInv, [Next]_vars, NEW j \in Jobs, killed[j] # "no"
  PROVE  killed'[j] # "no"
<1>1. JobMoved(j)
  BY JobMoves
<1>2. ASSUME ApiStep(j) \/ Expiry(j) PROVE killed'[j] # "no"
  <2>1. CASE UNCHANGED killed
    BY <2>1
  <2>2. CASE DeleteWrite(j)
    <3>1. UNCHANGED killed \/ \E k \in {"queued", "taken"} : killed' = [killed EXCEPT ![j] = k]
      BY <2>2, Zenon DEF DeleteWrite
    <3>2. killed \in [Jobs -> {"no", "queued", "taken"}]
      BY DEF IInv, TypeOK
    <3> QED BY <3>1, <3>2
  <2> QED BY <1>2, <2>1, <2>2, ZenonT(60) DEF ApiStep, AcquireSlot, EnqueueJob, SyncPoll, SyncAnswer,
        DeleteRead, DeleteRelease, Expiry, ExpireSlot, ExpireCancel, ExpireRecord, apiVars
<1>3. ASSUME NEW t \in Tasks, RunningPut(t) \/ StoreResult(t) \/ TerminalPut(t) \/ ReleaseSlot(t)
      PROVE  UNCHANGED killed
  BY <1>3, Zenon DEF RunningPut, StoreResult, TerminalPut, ReleaseSlot, apiVars
<1> QED BY <1>1, <1>2, <1>3, Zenon DEF JobMoved

\* A record that agrees goes on agreeing while the job's tasks are past patching it.
LEMMA AgreesStays ==
  ASSUME IInv, [Next]_vars, NEW j \in Jobs, Agrees(j), times[j] > 0,
         \A t \in Tasks : t[1] = j /\ Live(t) => task[t].pc \in Late
  PROVE  Agrees(j)'
<1>a. /\ record \in [Jobs -> Record] /\ result \in [Jobs -> Results]
      /\ killed \in [Jobs -> {"no", "queued", "taken"}]
  BY DEF IInv, TypeOK
<1>b. killed[j] # "no" => killed'[j] # "no"
  BY KilledStays
<1>1. CASE record'[j] = record[j] /\ result'[j] = result[j]
  BY <1>b, <1>1, Zenon DEF Agrees
<1>2. CASE AcquireSlot(j) \/ SyncPoll(j) \/ SyncAnswer(j) \/ DeleteRead(j) \/ DeleteRelease(j)
  BY <1>1, <1>2, Zenon DEF AcquireSlot, SyncPoll, SyncAnswer, DeleteRead, DeleteRelease, keyVars
<1>3. ASSUME EnqueueJob(j) PROVE FALSE
  BY <1>3, Zenon DEF EnqueueJob, IInv, QueueInv
<1>4. CASE DeleteWrite(j)
  <2>1. CASE UNCHANGED record
    BY <1>1, <1>4, <2>1, Zenon DEF DeleteWrite
  <2>2. ASSUME SetKeepTtl(j, [status |-> "KILLED", result |-> del[j].kept]),
               \E k \in {"queued", "taken"} : killed' = [killed EXCEPT ![j] = k]
        PROVE  Agrees(j)'
    <3>1. record'[j].status = "KILLED"
      BY <1>a, <2>2 DEF SetKeepTtl
    <3>2. killed'[j] # "no"
      BY <1>a, <2>2
    <3> QED BY <3>1, <3>2, Zenon DEF Agrees
  <2> QED BY <1>4, <2>1, <2>2, Zenon DEF DeleteWrite
<1>5. CASE ExpireSlot(j) \/ ExpireCancel(j)
  BY <1>1, <1>5, Zenon DEF ExpireSlot, ExpireCancel
<1>6. CASE ExpireRecord(j)
  BY <1>6, <1>a, Zenon DEF ExpireRecord, NoRecord, Agrees
<1>7. ASSUME NEW t \in Tasks, t[1] = j, RunningPut(t) \/ StoreResult(t) \/ TerminalPut(t)
      PROVE  FALSE
  <2>1. task[t].pc \in {"runput", "hot", "put"}
    BY <1>7, Zenon DEF RunningPut, StoreResult, TerminalPut
  <2> QED BY <1>7, <2>1 DEF Live, Late
<1>8. ASSUME NEW t \in Tasks, ReleaseSlot(t) PROVE Agrees(j)'
  BY <1>1, <1>8, Zenon DEF ReleaseSlot
<1>9. JobMoved(j)
  BY JobMoves
<1> QED BY <1>1, <1>2, <1>3, <1>4, <1>5, <1>6, <1>7, <1>8, <1>9, ZenonT(60) DEF JobMoved, ApiStep, Expiry

\* A result is stored by a task of its job.
LEMMA ResultMoves ==
  ASSUME IInv, [Next]_vars, NEW j \in Jobs
  PROVE  result'[j] = result[j] \/ \E t \in Tasks : t[1] = j /\ StoreResult(t)
<1>1. JobMoved(j)
  BY JobMoves
<1>2. ASSUME ApiStep(j) \/ Expiry(j) PROVE UNCHANGED result
  BY <1>2, Zenon DEF ApiStep, AcquireSlot, EnqueueJob, SyncPoll, SyncAnswer, DeleteRead,
     DeleteWrite, DeleteRelease, Expiry, ExpireSlot, ExpireCancel, ExpireRecord, keyVars
<1>3. ASSUME NEW t \in Tasks, RunningPut(t) \/ TerminalPut(t) \/ ReleaseSlot(t)
      PROVE  UNCHANGED result
  BY <1>3, Zenon DEF RunningPut, TerminalPut, ReleaseSlot
<1> QED BY <1>1, <1>2, <1>3, Zenon DEF JobMoved

\* Nobody reads or claims an entry that is being worked on.
LEMMA LiveActs ==
  ASSUME "redis" \notin Faults, IInv, IInv', OverlapInv, [Next]_vars, NEW u \in Tasks, Live(u)
  PROVE  \/ task'[u] = task[u]
         \/ Crash(task[u].by) /\ task'[u].pc = "end"
         \/ DockerUnavailable(u) /\ task'[u].pc = "end"
         \/ TaskStep(u) \/ WatchCancel(u)
<1>1. TaskInv(u) /\ u[1] \in Jobs /\ u[1] \notin idle
  BY DEF IInv, Tasks, OverlapInv
<1>2. times[u[1]] > 0
  BY <1>1, Zenon DEF TaskInv, Live
<1>3. ASSUME NEW w \in Workers, Read(w), u[1] = Head(backlog) PROVE FALSE
  BY <1>2, <1>3, ReadIsFirst
<1>4. TaskActed(u)
  BY TaskActs
<1> QED BY <1>1, <1>3, <1>4, Zenon DEF TaskActed

\* Every step keeps RecordInv.
LEMMA NextRecord ==
  ASSUME "redis" \notin Faults, IInv, IInv', OverlapInv, RecordInv, [Next]_vars
  PROVE  RecordInv'
<1>a. ASSUME NEW t \in Tasks
      PROVE  t[1] \in Jobs /\ times[t[1]] \in Nat /\ (Live(t) => times[t[1]] > 0)
  <2>1. t[1] \in Jobs /\ TaskInv(t)
    BY DEF Tasks, IInv
  <2>2. times[t[1]] \in Nat
    BY <2>1, LifecycleAssumption DEF IInv, TypeOK
  <2> QED BY <2>1, <2>2, Zenon DEF TaskInv, Live
<1>b. ASSUME NEW t \in Tasks, NEW u \in Tasks, Live(t), Live(u), t[1] = u[1] PROVE t = u
  BY <1>b, Zenon DEF OverlapInv
<1>c. \A t \in Tasks : task[t].pc \in Late \cup {"hot", "get", "put", "runput"} => Live(t)
  BY DEF Live, Late
\* A task that works past the patch keeps the record as it is.
<1>d. ASSUME NEW u \in Tasks, task[u].pc \in Late PROVE Agrees(u[1])'
  <2>1. Agrees(u[1])
    BY <1>d, Zenon DEF RecordInv
  <2>2. Live(u)
    BY <1>c, <1>d, Zenon
  <2>3. \A t \in Tasks : t[1] = u[1] /\ Live(t) => task[t].pc \in Late
    BY <1>b, <1>d, <2>2, Zenon
  <2>4. u[1] \in Jobs /\ times[u[1]] > 0
    BY <1>a, <2>2, Zenon
  <2> QED BY <2>1, <2>3, <2>4, AgreesStays, Zenon
\* What a task does.
<1>e. ASSUME NEW u \in Tasks, Live(u)
      PROVE  task'[u] = task[u] \/ task'[u].pc = "end" \/ Stored(u)
  BY <1>e, LiveActs, StepStores, Zenon
<1>f. ASSUME NEW u \in Tasks, ~Live(u) PROVE task'[u] = task[u] \/ task'[u].pc \in {"check", "archive", "end"}
  <2>1. ~TaskStep(u) /\ ~WatchCancel(u)
    BY <1>f, Zenon DEF Live, TaskStep, CheckCancel, RunningGet, RunningPut, RunningPublish,
       ExecuteResult, ExecuteRaise, Archive, StoreResult, TerminalGet, TerminalPut, PublishDone,
       ReleaseSlot, DeadLetter, XAck, XDel, WatchCancel
  <2>2. TaskActed(u)
    BY TaskActs
  <2> QED BY <2>1, <2>2, Zenon DEF TaskActed
<1>1. ASSUME NEW u \in Tasks, task'[u].pc \in {"get", "put"} PROVE result'[u[1]] = task'[u].res
  <2>0. Live(u)
    BY <1>1, <1>f, Zenon DEF Live
  <2>1. CASE StoreResult(u) /\ task'[u].res = task[u].res
    <3>1. result \in [Jobs -> Results] /\ u[1] \in Jobs
      BY <1>a DEF IInv, TypeOK
    <3> QED BY <2>1, <3>1, ZenonT(60) DEF StoreResult
  <2>2. CASE task[u].pc \in {"get", "put"} /\ task'[u].res = task[u].res
    <3>1. ASSUME NEW t \in Tasks, t[1] = u[1], StoreResult(t) PROVE FALSE
      <4>1. task[t].pc = "hot"
        BY <3>1, Zenon DEF StoreResult
      <4>2. t = u
        BY <1>b, <1>c, <2>0, <3>1, <4>1, ZenonT(60)
      <4> QED BY <2>2, <4>1, <4>2
    <3>2. result'[u[1]] = result[u[1]]
      BY <1>a, <3>1, ResultMoves, ZenonT(60)
    <3> QED BY <2>2, <3>2, Zenon DEF RecordInv
  <2>3. task'[u].pc \notin Late /\ task'[u].pc # "end" /\ task'[u].pc # "publish"
    BY <1>1 DEF Late
  <2>4. TerminalGet(u) => task[u].pc = "get"
    BY Zenon DEF TerminalGet
  <2>5. task'[u] = task[u] \/ Stored(u)
    BY <1>e, <2>0, <2>3, Zenon
  <2>6. CASE task'[u] = task[u]
    BY <1>1, <2>2, <2>6, Zenon
  <2>7. CASE Stored(u)
    <3>1. \/ StoreResult(u) /\ task'[u].res = task[u].res
          \/ TerminalGet(u) /\ task'[u].res = task[u].res
      BY <1>1, <2>3, <2>7 DEF Stored, Late
    <3> QED BY <2>1, <2>2, <2>4, <3>1, ZenonT(60)
  <2> QED BY <2>5, <2>6, <2>7, ZenonT(60)
<1>2. ASSUME NEW u \in Tasks, task'[u].pc \in Late PROVE Agrees(u[1])'
  <2>0. task'[u].pc \notin {"check", "archive", "end", "get", "put"}
    BY <1>2 DEF Late
  <2>1. CASE task[u].pc \in Late
    BY <1>d, <2>1, Zenon
  <2>2. CASE task[u].pc \notin Late
    <3>1. Live(u) /\ Stored(u)
      BY <1>2, <1>c, <1>e, <1>f, <2>0, <2>2, ZenonT(60)
    <3>2. ~XAck(u) /\ ~XDel(u)
      BY <2>2 DEF XAck, XDel, Late
    <3>3. \/ TerminalGet(u) /\ record[u[1]].status = Absent
          \/ TerminalPut(u)
      BY <1>2, <2>0, <2>2, <3>1, <3>2, ZenonT(60) DEF Stored
    <3>4. CASE TerminalGet(u) /\ record[u[1]].status = Absent
      BY <3>4, Zenon DEF TerminalGet, keyVars, Agrees
    <3>5. CASE TerminalPut(u)
      <4>1. record'[u[1]].status = task[u].res
        BY <1>a, <3>5 DEF TerminalPut, SetKeepTtl, IInv, TypeOK
      <4>2. result[u[1]] = task[u].res /\ UNCHANGED result
        BY <3>5, Zenon DEF TerminalPut, RecordInv
      <4> QED BY <4>1, <4>2, ZenonT(60) DEF Agrees
    <3> QED BY <3>3, <3>4, <3>5, Zenon
  <2> QED BY <2>1, <2>2, Zenon
<1>3. ASSUME NEW j \in Jobs, times'[j] > 0, j \notin pending' PROVE Agrees(j)'
  <2>1. CASE times[j] > 0 /\ j \notin pending
    <3>1. \A t \in Tasks : t[1] = j /\ Live(t) => task[t].pc \in Late
      BY <2>1, Zenon DEF RecordInv, Late
    <3>2. Agrees(j)
      BY <2>1, Zenon DEF RecordInv
    <3> QED BY <2>1, <3>1, <3>2, AgreesStays, Zenon
  <2>2. ASSUME NEW t \in Tasks, XAck(t), t[1] = j PROVE Agrees(j)'
    <3>1. task[t].pc \in Late
      BY <2>2 DEF XAck, Late
    <3> QED BY <1>d, <2>2, <3>1, ZenonT(60)
  <2> QED BY <1>3, <2>1, <2>2, PendingMoves, ZenonT(60)
<1>4. ASSUME NEW u \in Tasks, Live(u)' PROVE u[1] \notin pending' <=> task'[u].pc = "xdel"
  <2>0. task'[u].pc \notin {"none", "end"}
    BY <1>4, Zenon DEF Live
  <2>1. CASE ~Live(u)
    <3>1. task'[u] # task[u]
      BY <1>4, <2>1, Zenon DEF Live
    <3>2. task'[u].pc # "xdel"
      BY <1>f, <2>0, <2>1, <3>1
    <3>3. u[1] \in pending'
      <4>1. ASSUME NEW w \in Workers, Read(w), u[1] = Head(backlog) PROVE u[1] \in pending'
        BY <4>1, Zenon DEF Read
      <4>2. ASSUME NEW w \in Workers, Claim(w, u[1]), u[1] \in idle PROVE u[1] \in pending'
        BY <4>2, Zenon DEF Claim, IInv, TypeOK
      <4> QED BY <1>4, <2>1, <4>1, <4>2, ComesAlive, ZenonT(60)
    <3> QED BY <3>2, <3>3, Zenon
  <2>2. CASE Live(u)
    <3>1. u[1] \in Jobs /\ times[u[1]] > 0 /\ times'[u[1]] > 0
      <4>1. TaskInv(u)' /\ u[1] \in Jobs /\ times[u[1]] > 0
        BY <1>a, <2>2 DEF IInv
      <4> QED BY <2>0, <4>1, Zenon DEF TaskInv
    <3>2. u[1] \notin pending <=> task[u].pc = "xdel"
      BY <2>2, Zenon DEF RecordInv
    <3>3. u[1] \notin pending => u[1] \notin pending'
      BY <3>1, PendingGrows
    <3>4. CASE XAck(u) /\ task'[u].pc = "xdel"
      BY <3>4, Zenon DEF XAck
    <3>5. CASE ~XAck(u)
      <4>1. u[1] \notin pending' => u[1] \notin pending
        <5>1. ASSUME NEW t \in Tasks, XAck(t), t[1] = u[1] PROVE FALSE
          <6>1. Live(t)
            BY <5>1, Zenon DEF XAck, Live
          <6>2. t = u
            BY <1>b, <2>2, <5>1, <6>1, Zenon
          <6> QED BY <3>5, <5>1, <6>2
        <5> QED BY <3>1, <5>1, PendingMoves, Zenon
      <4>2. task'[u].pc = "xdel" <=> task[u].pc = "xdel"
        <5>1. CASE task'[u] = task[u]
          BY <5>1, ZenonT(60)
        <5>2. CASE Stored(u)
          BY <2>0, <3>5, <5>2 DEF Stored, Late, StoreResult, TerminalGet, TerminalPut
        <5> QED BY <1>e, <2>0, <2>2, <5>1, <5>2, ZenonT(60)
      <4> QED BY <3>2, <3>3, <4>1, <4>2, ZenonT(60)
    <3>6. ASSUME XAck(u) PROVE task'[u].pc = "xdel"
      <4>1. Goto(u, "xdel") /\ task \in [Tasks -> Task]
        BY <3>6, Zenon DEF XAck, IInv, TypeOK
      <4> QED BY <4>1, Zenon DEF Goto, Task
    <3> QED BY <3>4, <3>5, <3>6, Zenon
  <2> QED BY <2>1, <2>2, Zenon
<1>5. (\A t \in Tasks : Live(t) => (t[1] \notin pending <=> task[t].pc = "xdel"))'
  BY <1>4, Zenon
<1>6. (\A t \in Tasks : task[t].pc \in Late => Agrees(t[1]))'
  BY <1>2, Zenon DEF Late
<1>7. (\A j \in Jobs : times[j] > 0 /\ j \notin pending => Agrees(j))'
  BY <1>3, Zenon
<1> QED BY <1>1, <1>5, <1>6, <1>7, ZenonT(60) DEF RecordInv

\* Without failed commands and stalls RecordInv holds throughout.
LEMMA RecordHolds ==
  ASSUME "redis" \notin Faults, "stall" \notin Faults
  PROVE  Spec => []RecordInv
<1>1. Init => RecordInv
  BY DEF Init, RecordInv, NoTask, Live, Late
<1>2. IInv /\ IInv' /\ OverlapInv /\ RecordInv /\ [Next]_vars => RecordInv'
  BY NextRecord
<1> QED BY <1>1, <1>2, SpecIInv, OverlapHolds, PTL DEF Spec

\* While no Redis command fails and no live task outlasts claim_min_idle_ms, however
\* workers crash, Docker fails and keys expire, a job at rest has a record that is
\* gone, agrees with its result key, or says the KILLED its DELETE wrote
\* (result_store.py, store_terminal; jobs.ts, DELETE).
THEOREM RecordAgreesAtRest ==
  ASSUME "redis" \notin Faults, "stall" \notin Faults
  PROVE  Spec => []SettledRecordAgrees
<1>1. RecordInv => SettledRecordAgrees
  BY Zenon DEF RecordInv, SettledRecordAgrees, Settled, Agrees
<1> QED BY <1>1, RecordHolds, PTL

(***************************************************************************)
(* Without crashes, stalls, failed commands and expired slots: the quota   *)
(***************************************************************************)

\* The job's outcome is in its record, or its record was gone by then, and its
\* entry is acked or about to be.
Done(j) ==
  /\ times[j] > 0
  /\ j \notin pending \/ \E t \in Tasks : t[1] = j /\ task[t].pc \in Late

\* Nothing is known of a job before it is queued; a DELETE releases the slot of a
\* job it flagged; a terminal record, and the answer that reports one, belong to
\* a job that is done; whoever was let in and is neither done, cancelled nor given
\* up on holds a slot; and the slots are counted.
QuotaInv ==
  /\ \A j \in Jobs : api[j] \in {"new", "granted", "refused"}
        => record[j].status = Absent /\ del[j].pc = "idle" /\ killed[j] = "no"
  /\ \A j \in Jobs : del[j].pc = "release" => killed[j] # "no"
  /\ \A j \in Jobs : killed[j] = "no" /\ (record[j].status \in Terminal \/ api[j] \in {"done", "200"})
        => Done(j)
  /\ \A j \in Jobs : api[j] \notin {"new", "refused", "408"} /\ killed[j] = "no" /\ ~Done(j)
        => j \in slots
  /\ IsFiniteSet(slots) /\ Cardinality(slots) <= SlotLimit

\* A job that is done stays done.
LEMMA DoneStays ==
  ASSUME "redis" \notin Faults, "crash" \notin Faults, IInv, IInv', OverlapInv, RecordInv,
         [Next]_vars, NEW j \in Jobs, Done(j)
  PROVE  Done(j)'
<1>1. times'[j] > 0
  <2>1. times[j] \in Nat /\ times'[j] \in Nat /\ times[j] > 0
    BY LifecycleAssumption DEF IInv, TypeOK, Done
  <2>2. times[j] <= times'[j]
    BY NextGrows, Zenon DEF IInv, Grows
  <2> QED BY <2>1, <2>2
<1>2. CASE j \notin pending
  <2>1. j \notin pending'
    BY <1>2, PendingGrows DEF Done
  <2> QED BY <1>1, <2>1, ZenonT(60) DEF Done
<1>3. CASE j \in pending
  <2>1. PICK t \in Tasks : t[1] = j /\ task[t].pc \in Late
    BY <1>3, Zenon DEF Done
  <2>2. Live(t) /\ task[t].pc \notin {"hot", "get", "put", "exec"}
    BY <2>1 DEF Live, Late
  <2>3. task[t].pc # "xdel"
    BY <1>3, <2>1, <2>2, ZenonT(60) DEF RecordInv
  <2>4. ~Crash(task[t].by) /\ ~DockerUnavailable(t)
    BY <2>2, Zenon DEF Crash, Trouble, DockerUnavailable
  <2>5. task'[t] = task[t] \/ Stored(t)
    BY <2>2, <2>4, LiveActs, StepStores, ZenonT(60)
  <2>6. ~XDel(t) /\ ~StoreResult(t) /\ ~TerminalGet(t) /\ ~TerminalPut(t)
    BY <2>2, <2>3, ZenonT(60) DEF XDel, StoreResult, TerminalGet, TerminalPut
  <2>7. task'[t].pc \in Late
    BY <2>1, <2>5, <2>6 DEF Stored, Late
  <2> QED BY <1>1, <2>1, <2>7, Zenon DEF Done, Late
<1> QED BY <1>2, <1>3, Zenon

\* The record of a job that is done is not active, whatever it is.
LEMMA DoneIsInactive ==
  ASSUME IInv, RecordInv, NEW j \in Jobs, Done(j)
  PROVE  record[j].status \notin {"PENDING", "RUNNING"}
<1>1. result[j] \in Terminal
  <2>1. result[j] \in Results
    BY DEF IInv, TypeOK
  <2>2. ASSUME NEW t \in Tasks, t[1] = j, task[t].pc \in Late PROVE result[j] # NoResult
    <3>1. TaskInv(t)
      BY DEF IInv
    <3> QED BY <2>2, <3>1 DEF TaskInv, Late
  <2>3. ASSUME j \notin pending PROVE result[j] # NoResult
    <3>1. j \notin Entries(backlog)
      BY LifecycleAssumption DEF Done, IInv, QueueInv
    <3> QED BY <2>3, <3>1, ZenonT(60) DEF Done, IInv, NothingLost, Accepted
  <2> QED BY <2>1, <2>2, <2>3, ZenonT(60) DEF Done, Results
<1>2. Agrees(j)
  BY Zenon DEF RecordInv, Done
<1> QED BY <1>1, <1>2 DEF Agrees, Terminal, Absent

\* What a step does to the request, the DELETE, the record and the slot of a job,
\* when no Redis command fails and no slot expires.
Effect(j) ==
  LET keeps(S) == /\ "record" \in S => record'[j].status = record[j].status
                  /\ "killed" \in S => killed'[j] = killed[j]
                  /\ "api" \in S => api'[j] = api[j]
                  /\ "del" \in S => del'[j].pc = del[j].pc
                  /\ "slots" \in S => (j \in slots' <=> j \in slots)
  IN  \/ keeps({"record", "killed", "api", "del", "slots"})
      \/ /\ api[j] = "new" /\ (api'[j] = "refused" \/ (api'[j] = "granted" /\ j \in slots'))
         /\ keeps({"record", "killed", "del"})
      \/ /\ api[j] = "granted" /\ api'[j] \in {"async", "waiting"} /\ record'[j].status = "PENDING"
         /\ keeps({"killed", "del", "slots"})
      \/ /\ api[j] = "waiting"
         /\ api'[j] = "late" \/ (api'[j] = "done" /\ record[j].status \in Terminal)
         /\ keeps({"record", "killed", "del", "slots"})
      \/ /\ (api[j] = "done" /\ api'[j] = "200") \/ (api[j] = "late" /\ api'[j] = "408")
         /\ keeps({"record", "killed", "del"})
      \/ /\ record[j].status \in {"PENDING", "RUNNING"} /\ del'[j].pc = "write"
         /\ keeps({"record", "killed", "api", "slots"})
      \/ /\ del[j].pc = "write" /\ killed'[j] # "no"
         /\ keeps({"api", "slots"})
      \/ /\ del[j].pc = "release" /\ del'[j].pc = "idle"
         /\ keeps({"record", "killed", "api"})
      \/ /\ record'[j].status = Absent
         /\ keeps({"killed", "api", "del", "slots"})
      \/ /\ record'[j].status = "RUNNING" /\ times[j] > 0
         /\ keeps({"killed", "api", "del", "slots"})
      \/ /\ Done(j)' /\ times[j] > 0
         /\ keeps({"killed", "api", "del", "slots"})
      \/ /\ Done(j) /\ times[j] > 0
         /\ keeps({"record", "killed", "api", "del"})

\* Every step of the system affects a job's slot and record as Effect says.
LEMMA Effects ==
  ASSUME "redis" \notin Faults, "slotTTL" \notin Faults, IInv, IInv', [Next]_vars, NEW j \in Jobs
  PROVE  Effect(j)
<1> USE DEF queueVars, keyVars, apiVars, workVars
<1>a. /\ record \in [Jobs -> Record] /\ task \in [Tasks -> Task]
      /\ killed \in [Jobs -> {"no", "queued", "taken"}]
      /\ api \in [Jobs -> {"new", "refused", "granted", "failed", "async", "waiting",
                           "done", "late", "200", "408"}]
      /\ del \in [Jobs -> [pc: {"idle", "write", "release"}, kept: Results]]
  BY Zenon DEF IInv, TypeOK
<1>0. \A kind \in {"redis"} : ~Trouble(kind)
  BY Zenon DEF Trouble
<1>1. CASE AcquireSlot(j)
  <2>1. /\ UNCHANGED <<record, killed, del>> /\ api[j] = "new"
        /\ \/ api' = [api EXCEPT ![j] = "granted"] /\ slots' = slots \cup {j}
           \/ api' = [api EXCEPT ![j] = "refused"]
    BY <1>0, <1>1, ZenonT(60) DEF AcquireSlot
  <2>2. api'[j] = "refused" \/ (api'[j] = "granted" /\ j \in slots')
    BY <1>a, <2>1, ZenonT(60)
  <2> QED BY <2>1, <2>2 DEF Effect
<1>2. CASE EnqueueJob(j)
  <2>1. /\ UNCHANGED <<killed, del, slots>> /\ api[j] = "granted"
        /\ record' = [record EXCEPT ![j] = [status |-> "PENDING", result |-> NoResult]]
        /\ \E a \in {"async", "waiting"} : api' = [api EXCEPT ![j] = a]
    BY <1>0, <1>2, Zenon DEF EnqueueJob, AddEntry
  <2>2. api'[j] \in {"async", "waiting"} /\ record'[j].status = "PENDING"
    BY <1>a, <2>1, ZenonT(60)
  <2> QED BY <2>1, <2>2 DEF Effect
<1>3. CASE SyncPoll(j)
  <2>1. /\ UNCHANGED <<record, killed, del, slots>> /\ api[j] = "waiting"
        /\ api' = [api EXCEPT ![j] = IF record[j].status \in Terminal THEN "done" ELSE "late"]
    BY <1>0, <1>3, Zenon DEF SyncPoll
  <2>2. api'[j] = "late" \/ (api'[j] = "done" /\ record[j].status \in Terminal)
    BY <1>a, <2>1, ZenonT(60)
  <2> QED BY <2>1, <2>2 DEF Effect
<1>4. CASE SyncAnswer(j)
  <2>1. /\ UNCHANGED <<record, killed, del>> /\ api[j] \in {"done", "late"}
        /\ api' = [api EXCEPT ![j] = IF @ = "done" THEN "200" ELSE "408"]
    BY <1>4, Zenon DEF SyncAnswer
  <2>2. (api[j] = "done" /\ api'[j] = "200") \/ (api[j] = "late" /\ api'[j] = "408")
    BY <1>a, <2>1, ZenonT(60)
  <2> QED BY <2>1, <2>2 DEF Effect
<1>5. CASE DeleteRead(j)
  <2>1. /\ UNCHANGED <<record, killed, api, slots>> /\ record[j].status \in {"PENDING", "RUNNING"}
        /\ del' = [del EXCEPT ![j] = [pc |-> "write", kept |-> record[j].result]]
    BY <1>5, Zenon DEF DeleteRead
  <2>2. del'[j].pc = "write"
    BY <1>a, <2>1, ZenonT(60)
  <2> QED BY <2>1, <2>2 DEF Effect
<1>6. CASE DeleteWrite(j)
  <2>1. /\ UNCHANGED <<api, slots>> /\ del[j].pc = "write"
        /\ \E k \in {"queued", "taken"} : killed' = [killed EXCEPT ![j] = k]
    BY <1>0, <1>6, Zenon DEF DeleteWrite
  <2>2. killed'[j] # "no"
    BY <1>a, <2>1, ZenonT(60)
  <2> QED BY <2>1, <2>2 DEF Effect
<1>7. CASE DeleteRelease(j)
  <2>1. /\ UNCHANGED <<record, killed, api>> /\ del[j].pc = "release"
        /\ del' = [del EXCEPT ![j] = [pc |-> "idle", kept |-> NoResult]]
    BY <1>7, ZenonT(60) DEF DeleteRelease
  <2>2. del'[j].pc = "idle"
    BY <1>a, <2>1, ZenonT(60)
  <2> QED BY <2>1, <2>2 DEF Effect
<1>8. CASE Expiry(j)
  <2>1. /\ UNCHANGED <<killed, api, del, slots>>
        /\ UNCHANGED record \/ record' = [record EXCEPT ![j] = NoRecord]
    BY <1>8, ZenonT(60) DEF Expiry, ExpireSlot, ExpireCancel, ExpireRecord
  <2>2. record'[j] = record[j] \/ record'[j].status = Absent
    <3>1. record'[j] = record[j] \/ record'[j] = NoRecord
      BY <1>a, <2>1, Zenon
    <3>2. NoRecord.status = Absent
      BY Zenon DEF NoRecord
    <3> QED BY <3>1, <3>2, Zenon
  <2> QED BY <2>1, <2>2, Zenon DEF Effect
<1>9. ASSUME NEW t \in Tasks, t[1] = j,
             RunningPut(t) \/ StoreResult(t) \/ TerminalPut(t) \/ ReleaseSlot(t)
      PROVE  Effect(j)
  <2>0. TaskInv(t) /\ TaskInv(t)'
    BY DEF IInv
  <2>1. times[j] > 0 /\ UNCHANGED <<killed, api, del, times>>
    BY <1>9, <2>0, ZenonT(60) DEF RunningPut, StoreResult, TerminalPut, ReleaseSlot, TaskInv
  <2>2. CASE RunningPut(t)
    <3>1. UNCHANGED slots /\ record' = [record EXCEPT ![j] = [status |-> "RUNNING", result |-> task[t].kept]]
      BY <1>9, <2>2, Zenon DEF RunningPut, SetKeepTtl
    <3>2. record'[j].status = "RUNNING"
      BY <1>a, <3>1, Zenon
    <3> QED BY <2>1, <3>1, <3>2 DEF Effect
  <2>3. CASE StoreResult(t)
    <3>1. UNCHANGED <<slots, record>>
      BY <2>3, ZenonT(60) DEF StoreResult
    <3> QED BY <2>1, <3>1, Zenon DEF Effect
  <2>4. CASE TerminalPut(t)
    <3>1. UNCHANGED slots /\ Goto(t, "publish")
      BY <2>4, Zenon DEF TerminalPut
    <3>2. task'[t].pc \in Late
      BY <1>a, <3>1 DEF Goto, Task, Late
    <3>3. Done(j)'
      BY <1>9, <2>1, <3>2, ZenonT(60) DEF Done, Late
    <3> QED BY <2>1, <3>1, <3>3, Zenon DEF Effect
  <2>5. CASE ReleaseSlot(t)
    <3>1. UNCHANGED record /\ task[t].pc = "release"
      BY <2>5, ZenonT(60) DEF ReleaseSlot
    <3>2. Done(j)
      BY <1>9, <2>1, <3>1 DEF Done, Late
    <3> QED BY <2>1, <3>1, <3>2 DEF Effect
  <2> QED BY <1>9, <2>2, <2>3, <2>4, <2>5, ZenonT(60)
<1>10. JobMoved(j)
  BY JobMoves, Zenon
<1>11. CASE /\ record'[j] = record[j] /\ killed'[j] = killed[j]
            /\ api'[j] = api[j] /\ del'[j] = del[j] /\ (j \in slots' <=> j \in slots)
  BY <1>11, Zenon DEF Effect
<1> QED BY <1>1, <1>2, <1>3, <1>4, <1>5, <1>6, <1>7, <1>8, <1>9, <1>10, <1>11, ZenonT(60)
        DEF JobMoved, ApiStep

\* Only acquireSlot takes a slot.
LEMMA SlotsAreTaken ==
  ASSUME IInv, [Next]_vars, NEW j \in slots', j \notin slots
  PROVE  \E i \in Jobs : AcquireSlot(i)
<1>1. j \in Jobs
  BY SlotsShrink
<1>2. JobMoved(j)
  BY <1>1, JobMoves
<1>3. ASSUME ApiStep(j) \/ Expiry(j), ~AcquireSlot(j) PROVE FALSE
  BY <1>3, Zenon DEF ApiStep, EnqueueJob, SyncPoll, SyncAnswer, DeleteRead, DeleteWrite,
     DeleteRelease, Expiry, ExpireSlot, ExpireCancel, ExpireRecord, keyVars
<1>4. ASSUME NEW t \in Tasks, RunningPut(t) \/ StoreResult(t) \/ TerminalPut(t) \/ ReleaseSlot(t)
      PROVE  FALSE
  BY <1>4, Zenon DEF RunningPut, StoreResult, TerminalPut, ReleaseSlot
<1> QED BY <1>1, <1>2, <1>3, <1>4, ZenonT(60) DEF JobMoved

\* A slot is added below the limit, one at a time.
LEMMA SlotsCounted ==
  ASSUME "redis" \notin Faults, IInv, [Next]_vars, IsFiniteSet(slots), Cardinality(slots) <= SlotLimit
  PROVE  IsFiniteSet(slots') /\ Cardinality(slots') <= SlotLimit
<1>a. Cardinality(slots) \in Nat
  BY FS_CardinalityType
<1>1. CASE slots' \subseteq slots
  <2>1. IsFiniteSet(slots') /\ Cardinality(slots') <= Cardinality(slots)
    BY <1>1, FS_Subset, Zenon
  <2>2. Cardinality(slots') \in Nat
    BY <2>1, FS_CardinalityType
  <2> QED BY <1>a, <2>1, <2>2, LifecycleAssumption
<1>2. CASE \E i \in slots' : i \notin slots
  <2>1. PICK i \in slots' : i \notin slots
    BY <1>2
  <2>2. \E k \in Jobs : AcquireSlot(k)
    BY <2>1, SlotsAreTaken
  <2>3. PICK k \in Jobs : AcquireSlot(k)
    BY <2>2
  <2>4. slots' = slots \cup {k} /\ Cardinality(slots) < SlotLimit
    BY <2>1, <2>3, Zenon DEF AcquireSlot, Trouble
  <2>5. k \notin slots
    BY <2>1, <2>4, Zenon
  <2>6. IsFiniteSet(slots') /\ Cardinality(slots') = Cardinality(slots) + 1
    BY <2>4, <2>5, FS_AddElement, Zenon
  <2> QED BY <1>a, <2>4, <2>6, LifecycleAssumption
<1> QED BY <1>1, <1>2, Zenon

\* Every step keeps QuotaInv.
LEMMA NextQuotaInv ==
  ASSUME "redis" \notin Faults, "crash" \notin Faults, "slotTTL" \notin Faults,
         IInv, IInv', OverlapInv, RecordInv, QuotaInv, [Next]_vars
  PROVE  QuotaInv'
<1> DEFINE early == {"new", "granted", "refused"}
<1>a. ASSUME NEW j \in Jobs
      PROVE  /\ Effect(j) /\ (killed'[j] = "no" => killed[j] = "no") /\ (Done(j) => Done(j)')
             /\ times[j] > 0 => api[j] \notin early
             /\ Done(j)' => times'[j] > 0
             /\ Done(j) => record[j].status \notin {"PENDING", "RUNNING"}
  BY Effects, KilledStays, DoneStays, DoneIsInactive, ZenonT(60) DEF IInv, QueueInv, Done
<1>b. ASSUME NEW j \in Jobs
      PROVE  /\ api[j] \in early
                  => record[j].status = Absent /\ del[j].pc = "idle" /\ killed[j] = "no"
             /\ del[j].pc = "release" => killed[j] # "no"
             /\ killed[j] = "no" /\ (record[j].status \in Terminal \/ api[j] \in {"done", "200"})
                  => Done(j)
             /\ api[j] \notin {"new", "refused", "408"} /\ killed[j] = "no" /\ ~Done(j) => j \in slots
  BY ZenonT(60) DEF QuotaInv
<1>1. ASSUME NEW j \in Jobs, api'[j] \in early
      PROVE  record'[j].status = Absent /\ del'[j].pc = "idle" /\ killed'[j] = "no"
  <2>1. api[j] \in early
    BY <1>1, <1>a, <1>b DEF Effect
  <2>2. record[j].status = Absent /\ del[j].pc = "idle" /\ killed[j] = "no" /\ ~(times[j] > 0)
    BY <1>a, <1>b, <2>1, ZenonT(60)
  <2> QED BY <1>1, <1>a, <2>1, <2>2, ZenonT(60) DEF Effect, Absent
<1>2. ASSUME NEW j \in Jobs, del'[j].pc = "release" PROVE killed'[j] # "no"
  BY <1>2, <1>a, <1>b, ZenonT(60) DEF Effect
<1>3. ASSUME NEW j \in Jobs, killed'[j] = "no",
             record'[j].status \in Terminal \/ api'[j] \in {"done", "200"}
      PROVE  Done(j)'
  <2>1. killed[j] = "no"
    BY <1>3, <1>a
  <2>2. SUFFICES ASSUME ~Done(j)' PROVE FALSE
    OBVIOUS
  <2>3. record[j].status \notin Terminal /\ api[j] \notin {"done", "200"}
    BY <1>a, <1>b, <2>1, <2>2, ZenonT(60)
  <2>4. ~Done(j)
    BY <1>a, <2>2, Zenon
  <2> QED BY <1>3, <1>a, <2>2, <2>3, <2>4, ZenonT(60) DEF Effect, Terminal, Absent
<1>4. ASSUME NEW j \in Jobs, api'[j] \notin {"new", "refused", "408"}, killed'[j] = "no", ~Done(j)'
      PROVE  j \in slots'
  <2>1. killed[j] = "no" /\ ~Done(j)
    BY <1>4, <1>a, Zenon
  <2>2. api[j] \notin {"done", "200"} /\ del[j].pc # "release"
    BY <1>b, <2>1, Zenon
  <2>3. CASE api[j] \notin {"new", "refused", "408"}
    <3>1. j \in slots
      BY <1>b, <2>1, <2>3, Zenon
    <3> QED BY <1>4, <1>a, <2>1, <2>2, <2>3, <3>1, ZenonT(60) DEF Effect
  <2>4. CASE api[j] \in {"new", "refused", "408"}
    BY <1>4, <1>a, <2>1, <2>4, ZenonT(60) DEF Effect
  <2> QED BY <2>3, <2>4, Zenon
<1>5. IsFiniteSet(slots') /\ Cardinality(slots') <= SlotLimit
  BY SlotsCounted, Zenon DEF QuotaInv
<1>6. (\A j \in Jobs : killed[j] = "no" /\ (record[j].status \in Terminal \/ api[j] \in {"done", "200"})
          => Done(j))'
  BY <1>3, Zenon DEF Terminal
<1>7. (\A j \in Jobs : api[j] \notin {"new", "refused", "408"} /\ killed[j] = "no" /\ ~Done(j)
          => j \in slots)'
  BY <1>4, Zenon
<1> QED BY <1>1, <1>2, <1>5, <1>6, <1>7, ZenonT(60) DEF QuotaInv

\* While no worker crashes, no Redis command fails, no slot expires and no live task
\* outlasts claim_min_idle_ms, and whatever DELETEs, Docker outages and expired
\* records occur, a user never has more than SlotLimit jobs under way, other than
\* those they cancelled or stopped waiting for (quota.ts, acquireSlot and
\* releaseSlot; result_store.py, release_slot).
THEOREM QuotaIsKept ==
  ASSUME "redis" \notin Faults, "crash" \notin Faults, "stall" \notin Faults, "slotTTL" \notin Faults
  PROVE  Spec => []QuotaHonoured
<1>1. Init => QuotaInv
  <2> SUFFICES ASSUME Init PROVE QuotaInv
    OBVIOUS
  <2>1. IsFiniteSet(slots) /\ Cardinality(slots) <= SlotLimit
    BY FS_EmptySet, LifecycleAssumption DEF Init
  <2> QED BY <2>1 DEF Init, QuotaInv, NoRecord, Terminal, Absent
<1>2. IInv /\ IInv' /\ OverlapInv /\ RecordInv /\ QuotaInv /\ [Next]_vars => QuotaInv'
  BY NextQuotaInv
<1>3. ASSUME IInv, RecordInv, QuotaInv PROVE QuotaHonoured
  <2> DEFINE active == {j \in Jobs : /\ record[j].status \in {"PENDING", "RUNNING"}
                                      /\ killed[j] = "no" /\ api[j] # "408"}
  <2>1. active \subseteq slots
    <3> SUFFICES ASSUME NEW j \in active PROVE j \in slots
      OBVIOUS
    <3>1. ~Done(j)
      BY <1>3, DoneIsInactive, ZenonT(60)
    <3>2. api[j] \notin {"new", "granted", "refused"}
      BY <1>3 DEF QuotaInv, Absent
    <3> QED BY <1>3, <3>1, <3>2, ZenonT(60) DEF QuotaInv
  <2>2. Cardinality(active) <= Cardinality(slots) /\ IsFiniteSet(active)
    BY <1>3, <2>1, FS_Subset, ZenonT(60) DEF QuotaInv
  <2>3. Cardinality(active) \in Nat /\ Cardinality(slots) \in Nat /\ Cardinality(slots) <= SlotLimit
    BY <1>3, <2>2, FS_CardinalityType, ZenonT(60) DEF QuotaInv
  <2>4. Cardinality(active) <= SlotLimit
    BY <2>2, <2>3, LifecycleAssumption
  <2> QED BY <2>4, ZenonT(60) DEF QuotaHonoured
<1> QED BY <1>1, <1>2, <1>3, SpecIInv, OverlapHolds, RecordHolds, PTL DEF Spec

(***************************************************************************)
(* Finality.  A terminal status is for good, but for a DELETE (see the run *)
(* lifecycle_finality), a second delivery of what was finished, and a      *)
(* finalisation that fails halfway.                                        *)
(***************************************************************************)

\* A terminal record that no DELETE wrote is that of a job that is done.
FinalInv == \A j \in Jobs : killed[j] = "no" /\ record[j].status \in Terminal => Done(j)

\* types/index.ts:43, "will never transition again", of a job that nobody deletes.
FinalUnlessDeleted ==
  [][\A j \in Jobs : record[j].status \in Terminal /\ killed'[j] = "no"
        => record'[j].status \in {record[j].status, Absent}]_record

\* Who writes a status into a record.
LEMMA RecordWrites ==
  ASSUME "redis" \notin Faults, IInv, [Next]_vars, NEW j \in Jobs
  PROVE  \/ record'[j].status \in {record[j].status, Absent}
         \/ api[j] = "granted" /\ record'[j].status = "PENDING"
         \/ killed'[j] # "no"
         \/ \E t \in Tasks : t[1] = j /\ RunningPut(t) /\ record'[j].status = "RUNNING"
         \/ \E t \in Tasks : t[1] = j /\ TerminalPut(t)
<1>a. record \in [Jobs -> Record] /\ killed \in [Jobs -> {"no", "queued", "taken"}]
  BY Zenon DEF IInv, TypeOK
<1>b. ASSUME NEW kind, Trouble(kind) PROVE kind # "redis"
  BY <1>b, Zenon DEF Trouble
<1>1. CASE record'[j] = record[j]
  BY <1>1, Zenon
<1>2. CASE AcquireSlot(j) \/ SyncPoll(j) \/ SyncAnswer(j) \/ DeleteRead(j) \/ DeleteRelease(j)
  BY <1>1, <1>2, Zenon DEF AcquireSlot, SyncPoll, SyncAnswer, DeleteRead, DeleteRelease, keyVars
<1>3. CASE EnqueueJob(j)
  <2>1. AddEntry(j) /\ api[j] = "granted"
    BY <1>3, <1>b, Zenon DEF EnqueueJob
  <2>2. record'[j].status = "PENDING"
    BY <1>a, <2>1 DEF AddEntry
  <2> QED BY <2>1, <2>2, Zenon
<1>4. CASE DeleteWrite(j)
  <2>1. \E k \in {"queued", "taken"} : killed' = [killed EXCEPT ![j] = k]
    BY <1>4, <1>b, Zenon DEF DeleteWrite
  <2>2. killed'[j] # "no"
    BY <1>a, <2>1
  <2> QED BY <2>2, Zenon
<1>5. CASE ExpireSlot(j) \/ ExpireCancel(j)
  BY <1>1, <1>5, Zenon DEF ExpireSlot, ExpireCancel
<1>6. CASE ExpireRecord(j)
  BY <1>6, <1>a, Zenon DEF ExpireRecord, NoRecord
<1>7. ASSUME NEW t \in Tasks, t[1] = j, RunningPut(t) PROVE record'[j].status = "RUNNING"
  BY <1>7, <1>a, Zenon DEF RunningPut, SetKeepTtl
<1>8. ASSUME NEW t \in Tasks, StoreResult(t) \/ ReleaseSlot(t) PROVE record'[j] = record[j]
  BY <1>8, Zenon DEF StoreResult, ReleaseSlot
<1>9. JobMoved(j)
  BY JobMoves
<1> QED BY <1>1, <1>2, <1>3, <1>4, <1>5, <1>6, <1>7, <1>8, <1>9, ZenonT(60) DEF JobMoved, ApiStep, Expiry

\* The record of a job that is done is written by nobody but a DELETE.
LEMMA DoneIsUnwritten ==
  ASSUME "redis" \notin Faults, IInv, OverlapInv, RecordInv, [Next]_vars, NEW j \in Jobs, Done(j),
         killed'[j] = "no"
  PROVE  record'[j].status \in {record[j].status, Absent}
<1>1. api[j] # "granted"
  BY Zenon DEF Done, IInv, QueueInv
<1>2. ASSUME NEW t \in Tasks, t[1] = j, RunningPut(t) \/ TerminalPut(t) PROVE FALSE
  <2>1. task[t].pc \in {"runput", "put"}
    BY <1>2, Zenon DEF RunningPut, TerminalPut
  <2>2. Live(t) /\ task[t].pc \notin Late
    BY <2>1 DEF Live, Late
  <2>3. t[1] \in pending
    BY <2>1, <2>2 DEF RecordInv
  <2>4. PICK u \in Tasks : u[1] = j /\ task[u].pc \in Late
    BY <1>2, <2>3, Zenon DEF Done
  <2>5. Live(u)
    BY <2>4 DEF Live, Late
  <2>6. t = u
    BY <1>2, <2>2, <2>4, <2>5, Zenon DEF OverlapInv
  <2> QED BY <2>2, <2>4, <2>6, Zenon
<1> QED BY <1>1, <1>2, RecordWrites, Zenon

\* Every step keeps FinalInv.
LEMMA NextFinal ==
  ASSUME "redis" \notin Faults, "crash" \notin Faults, IInv, IInv', OverlapInv, RecordInv, FinalInv,
         [Next]_vars
  PROVE  FinalInv'
<1> SUFFICES ASSUME NEW j \in Jobs, killed'[j] = "no", record'[j].status \in Terminal
             PROVE  Done(j)'
  BY Zenon DEF FinalInv, Terminal
<1>1. killed[j] = "no"
  BY KilledStays
<1>2. CASE record[j].status \in Terminal
  BY <1>1, <1>2, DoneStays, Zenon DEF FinalInv
<1>3. ASSUME NEW t \in Tasks, t[1] = j, TerminalPut(t) PROVE Done(j)'
  <2>1. task[t].pc = "put" /\ Goto(t, "publish") /\ UNCHANGED times
    BY <1>3, Zenon DEF TerminalPut, queueVars
  <2>2. task'[t].pc \in Late
    <3>1. task \in [Tasks -> Task]
      BY Zenon DEF IInv, TypeOK
    <3>2. task'[t].pc = "publish"
      BY <2>1, <3>1, Zenon DEF Goto, Task
    <3> QED BY <3>2 DEF Late
  <2>3. times[j] > 0
    <3>1. TaskInv(t) /\ times[j] \in Nat /\ t[2] \in Nat \ {0} /\ Live(t)
      <4>1. t[2] \in Nat \ {0} /\ t[1] \in Jobs
        BY LifecycleAssumption DEF Tasks, Deliveries
      <4>2. times \in [Jobs -> Nat]
        BY LifecycleAssumption DEF IInv, TypeOK
      <4> QED BY <1>3, <2>1, <4>1, <4>2, Zenon DEF IInv, Live
    <3> QED BY <1>3, <2>1, <3>1, Zenon DEF TaskInv, Live
  <2> QED BY <1>3, <2>1, <2>2, <2>3, Zenon DEF Done, Late
<1>4. Absent \notin Terminal /\ "PENDING" \notin Terminal /\ "RUNNING" \notin Terminal
  BY DEF Absent, Terminal
<1> QED BY <1>2, <1>3, <1>4, RecordWrites, Zenon

\* While no worker crashes, no Redis command fails and no live task outlasts
\* claim_min_idle_ms, a terminal status of a job that nobody deletes stays until the
\* record expires, also when Docker outages cause further deliveries
\* (result_store.py, store_terminal and patch_record; jobs.ts, DELETE).
THEOREM TerminalIsFinalUnlessDeleted ==
  ASSUME "redis" \notin Faults, "crash" \notin Faults, "stall" \notin Faults
  PROVE  Spec => FinalUnlessDeleted
<1> DEFINE Kept == \A j \in Jobs : record[j].status \in Terminal /\ killed'[j] = "no"
                      => record'[j].status \in {record[j].status, Absent}
<1>1. Init => FinalInv
  BY DEF Init, FinalInv, NoRecord, Terminal, Absent
<1>2. IInv /\ IInv' /\ OverlapInv /\ RecordInv /\ FinalInv /\ [Next]_vars => FinalInv'
  BY NextFinal
<1>3. ASSUME IInv, OverlapInv, RecordInv, FinalInv, [Next]_vars PROVE [Kept]_record
  <2> SUFFICES ASSUME NEW j \in Jobs, record[j].status \in Terminal, killed'[j] = "no"
               PROVE  record'[j].status \in {record[j].status, Absent}
    OBVIOUS
  <2>1. killed[j] = "no"
    BY <1>3, KilledStays
  <2>2. Done(j)
    BY <1>3, <2>1, Zenon DEF FinalInv
  <2> QED BY <1>3, <2>2, DoneIsUnwritten, Zenon
<1> QED BY <1>1, <1>2, <1>3, SpecIInv, OverlapHolds, RecordHolds, PTL DEF Spec, FinalUnlessDeleted

\* Nobody deletes anything.
NoDelete == \A j \in Jobs : del[j].pc = "idle" /\ killed[j] = "no"

\* Where no DELETE is allowed, none is ever under way.
LEMMA NextNoDelete ==
  ASSUME MaxDeletes = 0, IInv, NoDelete, [Next]_vars
  PROVE  NoDelete'
<1> SUFFICES ASSUME NEW j \in Jobs PROVE del'[j].pc = "idle" /\ killed'[j] = "no"
  BY Zenon DEF NoDelete
<1>1. del[j].pc = "idle" /\ killed[j] = "no"
  BY Zenon DEF NoDelete
<1>2. ~DeleteRead(j)
  <2>1. deletes \in Nat
    BY LifecycleAssumption DEF IInv, TypeOK
  <2> QED BY <2>1 DEF DeleteRead
<1>3. ~DeleteWrite(j) /\ ~DeleteRelease(j)
  BY <1>1, Zenon DEF DeleteWrite, DeleteRelease
<1>4. CASE AcquireSlot(j) \/ EnqueueJob(j) \/ SyncPoll(j) \/ SyncAnswer(j) \/ Expiry(j)
  BY <1>1, <1>4, ZenonT(60) DEF AcquireSlot, EnqueueJob, SyncPoll, SyncAnswer, Expiry, ExpireSlot,
     ExpireCancel, ExpireRecord, apiVars
<1>5. ASSUME NEW t \in Tasks, RunningPut(t) \/ StoreResult(t) \/ TerminalPut(t) \/ ReleaseSlot(t)
      PROVE  UNCHANGED <<del, killed>>
  BY <1>5, Zenon DEF RunningPut, StoreResult, TerminalPut, ReleaseSlot, apiVars
<1>6. JobMoved(j)
  BY JobMoves
<1> QED BY <1>1, <1>2, <1>3, <1>4, <1>5, <1>6, Zenon DEF JobMoved, ApiStep

\* types/index.ts:43, "will never transition again", is true of a system without
\* DELETE requests, crashes, failed commands and stalls.
THEOREM TerminalIsFinalWithoutDelete ==
  ASSUME "redis" \notin Faults, "crash" \notin Faults, "stall" \notin Faults, MaxDeletes = 0
  PROVE  Spec => TerminalIsFinal
<1> DEFINE Kept == \A j \in Jobs : record[j].status \in Terminal /\ killed'[j] = "no"
                      => record'[j].status \in {record[j].status, Absent}
           Final == \A j \in Jobs : record[j].status \in Terminal
                      => record'[j].status \in {record[j].status, Absent}
<1>1. Init => NoDelete
  BY DEF Init, NoDelete
<1>2. IInv /\ NoDelete /\ [Next]_vars => NoDelete'
  BY NextNoDelete
<1>3. NoDelete' /\ [Kept]_record => [Final]_record
  BY Zenon DEF NoDelete
<1> QED BY <1>1, <1>2, <1>3, SpecIInv, TerminalIsFinalUnlessDeleted, PTL
        DEF Spec, FinalUnlessDeleted, TerminalIsFinal
=============================================================================
