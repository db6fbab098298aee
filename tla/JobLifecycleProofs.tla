------------------------- MODULE JobLifecycleProofs -------------------------
(***************************************************************************)
(* The inductive invariant of JobLifecycle, for every set of jobs and      *)
(* workers, every bound and every combination of faults: the types, what   *)
(* a task's place in _process implies, and the shape of the queue.         *)
(***************************************************************************)
EXTENDS JobLifecycle, TLAPS

\* The initial state has the right types.
LEMMA InitTypeOK == Init => TypeOK
  BY LifecycleAssumption
  DEF Init, TypeOK, Record, NoRecord, Results, Statuses, Terminal, NoResult, Absent,
      Task, NoTask, PCs, Modes, Nobody

\* A task that starts is a task.
LEMMA StartedType ==
  ASSUME NEW w \in Workers, NEW j \in Jobs, NEW n \in Nat
  PROVE  Started(w, j, n) \in Task
  BY Zenon DEF Started, Task, NoTask, PCs, Modes, Results, Terminal, NoResult, Nobody

\* So is one that ends,
LEMMA EndedType ==
  ASSUME NEW k \in Task
  PROVE  Ended(k) \in Task
  BY ZenonT(60) DEF Ended, Task, NoTask, PCs, Modes, Results, Terminal, NoResult, Nobody

\* one that goes on, alone
LEMMA GotoType ==
  ASSUME task \in [Tasks -> Task], NEW t \in Tasks, NEW p \in PCs
  PROVE  [task EXCEPT ![t].pc = p] \in [Tasks -> Task]
  BY DEF Task

\* or with another field changed,
LEMMA GoOnType ==
  ASSUME NEW k \in Task, NEW p \in PCs
  PROVE  /\ \A m \in Modes : [k EXCEPT !.pc = p, !.mode = m] \in Task
         /\ \A r \in Results : [k EXCEPT !.pc = p, !.kept = r] \in Task
         /\ [k EXCEPT !.pc = p, !.watch = "on"] \in Task
<1> USE DEF Task
<1>1. \A m \in Modes : [k EXCEPT !.pc = p, !.mode = m] \in Task
  BY Zenon
<1>2. \A r \in Results : [k EXCEPT !.pc = p, !.kept = r] \in Task
  BY Zenon
<1>3. [k EXCEPT !.pc = p, !.watch = "on"] \in Task
  BY Zenon
<1> QED BY <1>1, <1>2, <1>3, Zenon

\* one whose watcher fires or dies,
LEMMA WatchType ==
  ASSUME NEW k \in Task, NEW x \in {"fired", "died"}
  PROVE  [k EXCEPT !.watch = x] \in Task
  BY DEF Task

\* and one that enters store_terminal.
LEMMA FinalizeType ==
  ASSUME task \in [Tasks -> Task], NEW t \in Tasks, NEW m \in Modes, NEW s \in Terminal,
         Finalize(t, m, s)
  PROVE  task' \in [Tasks -> Task]
  BY DEF Finalize, Task, PCs, Results, NoResult

\* A record written with KEEPTTL is a record.
LEMMA SetKeepTtlType ==
  ASSUME record \in [Jobs -> Record], immortal \subseteq Jobs, NEW j \in Jobs, NEW r \in Record,
         SetKeepTtl(j, r)
  PROVE  record' \in [Jobs -> Record] /\ immortal' \subseteq Jobs
  BY DEF SetKeepTtl

\* Within its bound, the count of troubles stays a count.
LEMMA TroubleType ==
  ASSUME troubles \in 0..MaxTroubles, NEW kind, Trouble(kind)
  PROVE  troubles' \in 0..MaxTroubles
  BY LifecycleAssumption DEF Trouble

(***************************************************************************)
(* The inductive invariant                                                 *)
(***************************************************************************)

\* What a task's place in _process says about the keys it has written.
TaskInv(t) ==
  LET k == task[t]
      j == t[1]
  IN  /\ k.pc \in {"archive", "hot", "get", "put", "publish"} => k.res # NoResult
      /\ k.pc \in {"get", "put", "publish", "release", "deadletter", "xack", "xdel"}
           => result[j] # NoResult
      /\ k.pc \in {"release", "deadletter", "xack", "xdel"} => j \in announced
      /\ k.pc \in {"runget", "runput", "runpub", "exec"} => k.mode = "try"
      /\ k.pc = "none" => k.mode = "prelude" /\ k.by = Nobody
      /\ k.pc = "deadletter" => k.mode = "poison"
      /\ k.pc # "none" => times[j] > 0
      /\ k.mode = "poison" => \/ j \in Malformed
                              \/ times[j] > MaxRetries + 1
                              \/ MaxRetries = 0 /\ times[j] > 0

\* No id is in a queue twice.
Distinct(q) == \A m, n \in 1..Len(q) : q[m] = q[n] => m = n

\* An entry in the backlog was submitted and never delivered, and is there
\* once; XPENDING's counts lag behind.
QueueInv ==
  /\ Distinct(backlog)
  /\ \A j \in Entries(backlog) : times[j] = 0
  /\ \A j \in Jobs : j \in Entries(backlog) \/ times[j] > 0
                       => api[j] \notin {"new", "granted", "refused"}
  /\ \A w \in Workers, j \in Jobs : peek[w][j] <= times[j]
  /\ \A j \in pending : times[j] > 0

IInv == TypeOK /\ (\A t \in Tasks : TaskInv(t)) /\ QueueInv /\ NothingLost /\ DeadLettersAreSpent

\* Every step keeps the types, given what a task in store_terminal holds.
LEMMA NextTypeOK == TypeOK /\ (\A t \in Tasks : TaskInv(t)) /\ [Next]_vars => TypeOK'
<1> SUFFICES ASSUME TypeOK, \A t \in Tasks : TaskInv(t), [Next]_vars PROVE TypeOK'
  OBVIOUS
<1> USE LifecycleAssumption DEF TypeOK, queueVars, keyVars, apiVars, workVars
<1>1. ASSUME NEW j \in Jobs, AcquireSlot(j) PROVE TypeOK'
  BY <1>1, TroubleType, Zenon DEF AcquireSlot
<1>2. ASSUME NEW j \in Jobs, EnqueueJob(j) PROVE TypeOK'
  <2>1. AddEntry(j) => /\ backlog' \in Seq(Jobs) /\ stream' \subseteq Jobs
                       /\ record' \in [Jobs -> Record]
    BY DEF AddEntry, Record, Statuses, Results, NoResult
  <2>2. troubles' \in 0..MaxTroubles
    BY <1>2, TroubleType DEF EnqueueJob
  <2>3. /\ backlog' \in Seq(Jobs) /\ stream' \subseteq Jobs
        /\ record' \in [Jobs -> Record]
    BY <1>2, <2>1 DEF EnqueueJob
  <2>4. \E a \in {"async", "waiting", "failed"} : api' = [api EXCEPT ![j] = a]
    BY <1>2 DEF EnqueueJob
  <2> QED BY <1>2, <2>2, <2>3, <2>4 DEF EnqueueJob
<1>3. ASSUME NEW j \in Jobs, SyncPoll(j) \/ SyncAnswer(j) PROVE TypeOK'
  <2>1. CASE SyncPoll(j)
    <3>1. \E a \in {"done", "late", "failed"} : api' = [api EXCEPT ![j] = a]
      BY <2>1 DEF SyncPoll
    <3> QED BY <2>1, <3>1, TroubleType DEF SyncPoll
  <2>2. CASE SyncAnswer(j)
    <3>1. \E a \in {"200", "408"} : api' = [api EXCEPT ![j] = a]
      BY <2>2, Zenon DEF SyncAnswer
    <3> QED BY <2>2, <3>1, TroubleType, Zenon DEF SyncAnswer
  <2> QED BY <1>3, <2>1, <2>2, Zenon
<1>4. ASSUME NEW j \in Jobs, DeleteRead(j) PROVE TypeOK'
  BY <1>4 DEF DeleteRead, Record
<1>5. ASSUME NEW j \in Jobs, DeleteWrite(j) PROVE TypeOK'
  <2>1. [status |-> "KILLED", result |-> del[j].kept] \in Record
    BY DEF Record, Statuses, Terminal
  <2>2. NoResult \in Results
    BY DEF Results
  <2>3. record' \in [Jobs -> Record] /\ immortal' \subseteq Jobs
    BY <1>5, <2>1, SetKeepTtlType, SMTT(30) DEF DeleteWrite
  <2>4. del' \in [Jobs -> [pc: {"idle", "write", "release"}, kept: Results]]
    <3>1. CASE del' = [del EXCEPT ![j] = [pc |-> "release", kept |-> NoResult]]
      BY <2>2, <3>1
    <3>2. CASE del' = [del EXCEPT ![j] = [pc |-> "idle", kept |-> NoResult]]
      BY <2>2, <3>2, Zenon
    <3> QED BY <1>5, <3>1, <3>2 DEF DeleteWrite
  <2>5. killed' \in [Jobs -> {"no", "queued", "taken"}] /\ cancelled' \subseteq Jobs
    BY <1>5, Zenon DEF DeleteWrite
  <2>6. troubles' \in 0..MaxTroubles
    BY <1>5, TroubleType DEF DeleteWrite
  <2> QED BY <1>5, <2>3, <2>4, <2>5, <2>6 DEF DeleteWrite
<1>6. ASSUME NEW j \in Jobs, DeleteRelease(j) PROVE TypeOK'
  <2>1. del' \in [Jobs -> [pc: {"idle", "write", "release"}, kept: Results]]
    BY <1>6 DEF DeleteRelease, Results, NoResult
  <2>2. slots' \subseteq Jobs /\ troubles' \in 0..MaxTroubles
    BY <1>6, TroubleType DEF DeleteRelease
  <2> QED BY <1>6, <2>1, <2>2 DEF DeleteRelease
<1>7. ASSUME NEW w \in Workers, Read(w) PROVE TypeOK'
  <2>1. Head(backlog) \in Jobs /\ Tail(backlog) \in Seq(Jobs)
    BY <1>7 DEF Read
  <2>2. <<Head(backlog), 1>> \in Tasks
    BY <2>1 DEF Tasks, Deliveries
  <2>3. Started(w, Head(backlog), 1) \in Task
    BY <2>1, StartedType
  <2>4. task' \in [Tasks -> Task]
    <3>1. CASE task' = [task EXCEPT ![<<Head(backlog), 1>>] = Started(w, Head(backlog), 1)]
      BY <2>2, <2>3, <3>1
    <3> QED BY <1>7, <3>1 DEF Read
  <2>6. times' \in [Jobs -> 0..MaxDeliveries]
    BY <1>7, <2>1 DEF Read
  <2>5. troubles' \in 0..MaxTroubles
    BY <1>7, TroubleType, SMTT(30) DEF Read
  <2> QED BY <1>7, <2>1, <2>4, <2>5, <2>6, Zenon DEF Read
<1>8. ASSUME NEW w \in Workers, NEW j \in Jobs, Peek(w, j) PROVE TypeOK'
  BY <1>8, SMTT(30) DEF Peek
<1>9. ASSUME NEW w \in Workers, NEW j \in Jobs, Claim(w, j) PROVE TypeOK'
  <2>1. Started(w, j, peek[w][j]) \in Task
    BY StartedType
  <2>2. task' \in [Tasks -> Task]
    <3>1. CASE task' = [task EXCEPT ![<<j, times[j] + 1>>] = Started(w, j, peek[w][j])]
      BY <2>1, <3>1, Zenon
    <3> QED BY <1>9, <3>1 DEF Claim
  <2>3. peek' \in [Workers -> [Jobs -> 0..MaxDeliveries]]
    BY <1>9 DEF Claim
  <2>4. times' \in [Jobs -> 0..MaxDeliveries]
    <3>1. CASE times' = [times EXCEPT ![j] = @ + 1] /\ times[j] < MaxDeliveries
      <4>1. times[j] + 1 \in 0..MaxDeliveries
        BY <3>1
      <4> QED BY <3>1, <4>1
    <3> QED BY <1>9, <3>1 DEF Claim
  <2>5. troubles' \in 0..MaxTroubles
    BY <1>9, TroubleType, Zenon DEF Claim
  <2>6. idle' \subseteq pending'
    BY <1>9 DEF Claim
  <2> QED BY <1>9, <2>2, <2>3, <2>4, <2>5, <2>6, Zenon DEF Claim
<1>10. ASSUME NEW j \in Jobs, GoIdle(j) PROVE TypeOK'
  BY <1>10, Zenon DEF GoIdle
<1>11. ASSUME NEW w \in Workers, Crash(w) PROVE TypeOK'
  <2>1. \A t \in Tasks : Ended(task[t]) \in Task
    BY EndedType, Zenon
  <2> QED BY <1>11, <2>1, TroubleType DEF Crash
<1>12. ASSUME NEW j \in Jobs, Expiry(j) PROVE TypeOK'
  <2>1. NoRecord \in Record
    BY DEF NoRecord, Record, Results
  <2>2. CASE ExpireSlot(j)
    BY <2>2 DEF ExpireSlot
  <2>3. CASE ExpireCancel(j)
    BY <2>3 DEF ExpireCancel
  <2>4. CASE ExpireRecord(j)
    BY <2>1, <2>4, TroubleType DEF ExpireRecord
  <2> QED BY <1>12, <2>2, <2>3, <2>4, Zenon DEF Expiry
<1>13. ASSUME NEW t \in Tasks, TaskStep(t) PROVE TypeOK'
  <2> USE DEF PCs, Modes
  <2>0. t[1] \in Jobs
    BY DEF Tasks
  <2>a. task[t] \in Task
    OBVIOUS
  <2>1. CASE CheckCancel(t)
    <3>1. task' \in [Tasks -> Task]
      <4>1. CASE Finalize(t, "cancel", "KILLED")
        BY <4>1, FinalizeType, SMTT(30) DEF Terminal
      <4>2. CASE task' = [task EXCEPT ![t] = [@ EXCEPT !.pc = "runget", !.mode = "try"]]
        BY <2>a, <4>2, GoOnType, Zenon
      <4> QED BY <2>1, <4>1, <4>2, Zenon DEF CheckCancel
    <3> QED BY <2>1, <3>1 DEF CheckCancel
  <2>2. CASE RunningGet(t)
    <3>1. record[t[1]].result \in Results
      BY <2>0 DEF Record
    <3>2. task' \in [Tasks -> Task]
      <4>1. CASE Goto(t, "runpub")
        BY <4>1, GotoType, Zenon DEF Goto
      <4>2. CASE task' = [task EXCEPT ![t] = [@ EXCEPT !.pc = "runput",
                                                       !.kept = record[t[1]].result]]
        BY <2>a, <3>1, <4>2, GoOnType, Zenon
      <4> QED BY <2>2, <4>1, <4>2, SMTT(30) DEF RunningGet
    <3> QED BY <2>2, <3>2 DEF RunningGet
  <2>3. CASE RunningPut(t)
    <3>1. [status |-> "RUNNING", result |-> task[t].kept] \in Record
      BY <2>a DEF Record, Statuses, Task
    <3>2. task' \in [Tasks -> Task]
      BY <2>3, <2>a, GoOnType, Zenon DEF RunningPut, Results
    <3> QED BY <2>0, <2>3, <3>1, <3>2, SetKeepTtlType, Zenon DEF RunningPut
  <2>4. CASE RunningPublish(t)
    <3>1. task' \in [Tasks -> Task]
      BY <2>4, <2>a, GoOnType, Zenon DEF RunningPublish
    <3> QED BY <2>4, <3>1, SMTT(30) DEF RunningPublish
  <2>5. CASE ExecuteResult(t)
    <3>1. task' \in [Tasks -> Task]
      BY <2>5, FinalizeType, Zenon DEF ExecuteResult, Terminal
    <3> QED BY <2>5, <3>1 DEF ExecuteResult
  <2>6. CASE ExecuteRaise(t)
    <3>1. task' \in [Tasks -> Task]
      BY <2>6, FinalizeType DEF ExecuteRaise, Terminal
    <3> QED BY <2>6, <3>1 DEF ExecuteRaise
  <2>7. CASE Archive(t)
    BY <2>0, <2>7, <2>a, GotoType, ZenonT(60) DEF Archive, Goto, Task
  <2>8. CASE StoreResult(t)
    BY <2>0, <2>8, <2>a, GotoType, Zenon DEF StoreResult, Goto, Task
  <2>9. CASE TerminalGet(t)
    BY <2>9, GotoType, Zenon DEF TerminalGet, Goto
  <2>10. CASE TerminalPut(t)
    <3>1. [status |-> task[t].res, result |-> task[t].res] \in Record
      BY <2>10, <2>a, Zenon DEF TerminalPut, TaskInv, Record, Statuses, Task, Results
    <3>2. record' \in [Jobs -> Record] /\ immortal' \subseteq Jobs
      BY <2>0, <2>10, <3>1, SetKeepTtlType, SMTT(30) DEF TerminalPut
    <3> QED BY <2>10, <3>2, GotoType, Zenon DEF TerminalPut, Goto
  <2>11. CASE PublishDone(t)
    BY <2>0, <2>11, GotoType, ZenonT(60) DEF PublishDone, Goto
  <2>12. CASE ReleaseSlot(t)
    <3>1. task' \in [Tasks -> Task]
      BY <2>12, GotoType, Zenon DEF ReleaseSlot, Goto
    <3>2. troubles' \in 0..MaxTroubles /\ slots' \subseteq Jobs
      BY <2>12, TroubleType, SMTT(30) DEF ReleaseSlot
    <3> QED BY <2>12, <3>1, <3>2, SMTT(30) DEF ReleaseSlot
  <2>13. CASE DeadLetter(t)
    BY <2>0, <2>13, GotoType, Zenon DEF DeadLetter, Goto
  <2>14. CASE XAck(t)
    BY <2>14, GotoType, Zenon DEF XAck, Goto
  <2>15. CASE XDel(t)
    BY <2>15, <2>a, EndedType DEF XDel
  <2> QED BY <1>13, <2>1, <2>2, <2>3, <2>4, <2>5, <2>6, <2>7, <2>8, <2>9, <2>10, <2>11, ZenonT(60),
             <2>12, <2>13, <2>14, <2>15 DEF TaskStep
<1>14. ASSUME NEW t \in Tasks, WatchCancel(t) PROVE TypeOK'
  <2>1. task' \in [Tasks -> Task]
    <3>2. CASE task' = [task EXCEPT ![t].watch = "fired"]
      BY <3>2, WatchType, Zenon
    <3>3. CASE task' = [task EXCEPT ![t].watch = "died"]
      BY <3>3, WatchType, Zenon
    <3> QED BY <1>14, <3>2, <3>3 DEF WatchCancel
  <2>2. troubles' \in 0..MaxTroubles
    BY <1>14, TroubleType, Zenon DEF WatchCancel
  <2> QED BY <1>14, <2>1, <2>2, Zenon DEF WatchCancel
<1>15. ASSUME NEW t \in Tasks, DockerUnavailable(t) PROVE TypeOK'
  BY <1>15, EndedType, TroubleType, Zenon DEF DockerUnavailable
<1>16. ASSUME NEW t \in Tasks, CommandRaises(t) PROVE TypeOK'
  <2>1. task' \in [Tasks -> Task]
    <3>1. CASE Finalize(t, "except", "FAILED")
      BY <3>1, FinalizeType DEF Modes, Terminal
    <3>2. CASE task' = [task EXCEPT ![t] = Ended(@)]
      BY <3>2, EndedType, Zenon
    <3> QED BY <1>16, <3>1, <3>2, Zenon DEF CommandRaises
  <2> QED BY <1>16, <2>1, TroubleType, Zenon DEF CommandRaises
<1>17. CASE UNCHANGED vars
  BY <1>17, Zenon DEF vars
<1> QED BY <1>1, <1>2, <1>3, <1>4, <1>5, <1>6, <1>7, <1>8, <1>9, <1>10, <1>11, <1>12, <1>13, ZenonT(60),
           <1>14, <1>15, <1>16, <1>17 DEF Next, ApiStep

(***************************************************************************)
(* Tasks                                                                   *)
(***************************************************************************)

\* Results, announcements and delivery counts are never taken back.
Grows ==
  /\ \A j \in Jobs : result[j] # NoResult => result'[j] # NoResult
  /\ announced \subseteq announced'
  /\ \A j \in Jobs : times[j] <= times'[j]

\* A task that does not move keeps its invariant while the keys only grow.
LEMMA TaskFrame ==
  ASSUME TypeOK, TypeOK', Grows, NEW t \in Tasks, TaskInv(t), task'[t] = task[t]
  PROVE  TaskInv(t)'
<1>1. t[1] \in Jobs
  BY DEF Tasks
<1>2. times[t[1]] \in Nat /\ times'[t[1]] \in Nat /\ times[t[1]] <= times'[t[1]]
  BY <1>1, LifecycleAssumption, SMTT(30) DEF TypeOK, Grows
<1> QED BY <1>1, <1>2, LifecycleAssumption DEF TaskInv, Grows

\* So does a task that ends where it stands.
LEMMA TaskEnds ==
  ASSUME TypeOK, TypeOK', Grows, NEW t \in Tasks, TaskInv(t), task[t].pc # "none",
         task'[t] = Ended(task[t])
  PROVE  TaskInv(t)'
<1>1. t[1] \in Jobs
  BY Zenon DEF Tasks
<1>2. times[t[1]] \in Nat /\ times'[t[1]] \in Nat /\ times[t[1]] <= times'[t[1]]
  BY <1>1, LifecycleAssumption DEF TypeOK, Grows
<1>3. task'[t].pc = "end" /\ task'[t].mode = task[t].mode
  BY Zenon DEF Ended, NoTask
<1> QED BY <1>1, <1>2, <1>3, LifecycleAssumption DEF TaskInv

\* And one that goes on to a later place, if that place's own claims hold.
LEMMA TaskFinalizes ==
  ASSUME TypeOK, TypeOK', UNCHANGED <<result, announced, times>>, NEW t \in Tasks, TaskInv(t),
         task[t].pc # "none",
         NEW m \in Modes \ {"poison"}, NEW r \in Terminal, Finalize(t, m, r)
  PROVE  TaskInv(t)'
<1>1. /\ task'[t].pc = "archive" /\ task'[t].mode = m /\ task'[t].res = r
  BY DEF Finalize, TypeOK
<1>2. r # NoResult
  BY DEF Terminal, NoResult
<1> QED BY <1>1, <1>2, Zenon DEF TaskInv

\* No step takes back a result, an announcement or a delivery count.
LEMMA NextGrows ==
  ASSUME TypeOK, \A t \in Tasks : TaskInv(t), QueueInv, [Next]_vars
  PROVE  Grows
<1> USE DEF queueVars, keyVars, apiVars, workVars
<1>1. CASE UNCHANGED <<result, announced, times>>
  BY <1>1, LifecycleAssumption, SMTT(30) DEF Grows, TypeOK
<1>2. ASSUME NEW w \in Workers, Read(w) PROVE Grows
  <2>1. Head(backlog) \in Jobs /\ Head(backlog) \in Entries(backlog)
    BY <1>2, SMTT(30) DEF Read, TypeOK, Entries
  <2>2. times[Head(backlog)] = 0
    BY <2>1, Zenon DEF QueueInv
  <2> QED BY <1>2, <2>1, <2>2, LifecycleAssumption, SMTT(30) DEF Read, Grows, TypeOK
<1>3. ASSUME NEW w \in Workers, NEW j \in Jobs, Claim(w, j) PROVE Grows
  <2>1. UNCHANGED <<result, announced>>
    BY <1>3 DEF Claim
  <2>2. UNCHANGED times \/ times' = [times EXCEPT ![j] = @ + 1]
    BY <1>3 DEF Claim
  <2>3. times \in [Jobs -> Nat]
    BY LifecycleAssumption DEF TypeOK
  <2>4. \A i \in Jobs : times[i] <= times'[i]
    <3>1. CASE times' = [times EXCEPT ![j] = @ + 1]
      BY <2>3, <3>1
    <3>2. CASE UNCHANGED times
      BY <2>3, <3>2
    <3> QED BY <2>2, <3>1, <3>2
  <2> QED BY <2>1, <2>4 DEF Grows
<1>4. ASSUME NEW t \in Tasks, StoreResult(t) PROVE Grows
  <2>1. t[1] \in Jobs /\ task[t].res # NoResult
    BY <1>4 DEF StoreResult, TaskInv, Tasks
  <2> QED BY <1>4, <2>1, LifecycleAssumption, SMTT(30) DEF StoreResult, Grows, TypeOK
<1>5. ASSUME NEW t \in Tasks, PublishDone(t) PROVE Grows
  BY <1>5, LifecycleAssumption, SMTT(30) DEF PublishDone, Grows, TypeOK
<1>6. ASSUME NEW j \in Jobs, ApiStep(j) PROVE UNCHANGED <<result, announced, times>>
  BY <1>6, Zenon DEF ApiStep, AcquireSlot, EnqueueJob, SyncPoll, SyncAnswer, DeleteRead, DeleteWrite, DeleteRelease
<1>7. ASSUME NEW j \in Jobs, GoIdle(j) \/ Expiry(j) PROVE UNCHANGED <<result, announced, times>>
  BY <1>7, Zenon DEF GoIdle, Expiry, ExpireSlot, ExpireCancel, ExpireRecord
<1>8. ASSUME NEW w \in Workers, Crash(w) PROVE UNCHANGED <<result, announced, times>>
  BY <1>8 DEF Crash
<1>9. ASSUME NEW w \in Workers, NEW j \in Jobs, Peek(w, j)
      PROVE  UNCHANGED <<result, announced, times>>
  BY <1>9, ZenonT(60) DEF Peek
<1>10. ASSUME NEW t \in Tasks, TaskStep(t), ~StoreResult(t), ~PublishDone(t)
       PROVE  UNCHANGED <<result, announced, times>>
  BY <1>10 DEF TaskStep, CheckCancel, RunningGet, RunningPut, RunningPublish, ExecuteResult,
     ExecuteRaise, Archive, TerminalGet, TerminalPut, ReleaseSlot, DeadLetter, XAck, XDel
<1>11. ASSUME NEW t \in Tasks, WatchCancel(t) \/ DockerUnavailable(t) \/ CommandRaises(t)
       PROVE  UNCHANGED <<result, announced, times>>
  BY <1>11 DEF WatchCancel, DockerUnavailable, CommandRaises
<1>12. CASE UNCHANGED vars
  BY <1>1, <1>12, Zenon DEF vars
<1> QED BY <1>1, <1>2, <1>3, <1>4, <1>5, <1>6, <1>7, <1>8, <1>9, <1>10, <1>11, <1>12, SMTT(30) DEF Next

\* What a task's place says about the keys stays true of every task.
LEMMA NextTaskInv ==
  ASSUME TypeOK, TypeOK', \A t \in Tasks : TaskInv(t), QueueInv, [Next]_vars
  PROVE  \A t \in Tasks : TaskInv(t)'
<1>0. Grows
  BY NextGrows
<1> SUFFICES ASSUME NEW u \in Tasks, task'[u] # task[u] PROVE TaskInv(u)'
  BY <1>0, TaskFrame
<1> USE DEF queueVars, keyVars, apiVars, workVars
<1>a. task \in [Tasks -> Task] /\ task' \in [Tasks -> Task]
  BY DEF TypeOK
<1>b. TaskInv(u) /\ u[1] \in Jobs /\ task[u] \in Task
  BY <1>a DEF Tasks
<1>1. ASSUME NEW w \in Workers, Read(w) PROVE TaskInv(u)'
  <2> DEFINE j == Head(backlog)
  <2>1. j \in Jobs
    BY <1>1 DEF Read, TypeOK
  <2>2. task' = [task EXCEPT ![<<j, 1>>] = Started(w, j, 1)]
    BY <1>1 DEF Read
  <2>3. u = <<j, 1>>
    BY <1>a, <2>2, ZenonT(60)
  <2>4. times'[j] = 1
    BY <1>1, <2>1, SMTT(30) DEF Read, TypeOK
  <2>5. task'[u] = Started(w, j, 1) /\ u[1] = j
    BY <1>a, <2>2, <2>3
  <2> QED BY <2>4, <2>5, LifecycleAssumption, SMTT(30) DEF TaskInv, Started, NoTask, NoResult
<1>2. ASSUME NEW w \in Workers, NEW j \in Jobs, Claim(w, j) PROVE TaskInv(u)'
  <2>1. /\ task' = [task EXCEPT ![<<j, times[j] + 1>>] = Started(w, j, peek[w][j])]
        /\ times' = [times EXCEPT ![j] = @ + 1]
        /\ peek[w][j] # 0
    BY <1>2 DEF Claim
  <2>2. u = <<j, times[j] + 1>>
    BY <1>a, <2>1, Zenon
  <2>3. /\ times[j] \in Nat /\ peek[w][j] \in Nat /\ peek[w][j] <= times[j]
        /\ times'[j] = times[j] + 1
    BY <2>1, LifecycleAssumption, SMTT(30) DEF TypeOK, QueueInv
  <2>4. task'[u] = Started(w, j, peek[w][j]) /\ u[1] = j
    BY <1>a, <2>1, <2>2
  <2>5. peek[w][j] > MaxRetries => times'[j] > MaxRetries + 1
    BY <2>3, LifecycleAssumption
  <2>6. times'[j] > 0
    BY <2>3, SMTT(30)
  <2> QED BY <2>4, <2>5, <2>6, LifecycleAssumption DEF TaskInv, Started, NoTask, NoResult
<1>3. ASSUME NEW w \in Workers, Crash(w) PROVE TaskInv(u)'
  <2>1. task'[u] = Ended(task[u]) /\ task[u].by = w
    BY <1>3, ZenonT(60) DEF Crash
  <2>2. task[u].pc # "none"
    BY <1>b, <2>1, LifecycleAssumption, SMTT(30) DEF TaskInv
  <2> QED BY <1>0, <1>b, <2>1, <2>2, TaskEnds, SMTT(30)
<1>4. ASSUME NEW t \in Tasks, TaskStep(t) PROVE TaskInv(u)'
  <2>u. /\ \A p \in PCs : Goto(t, p) => u = t /\ task'[u] = [task[u] EXCEPT !.pc = p]
        /\ \A m, r : Finalize(t, m, r) => u = t
        /\ \A k : task' = [task EXCEPT ![t] = k] => u = t /\ task'[u] = k
    BY <1>a DEF Goto, Finalize
  <2>1. CASE CheckCancel(t)
    <3>1. CASE Finalize(t, "cancel", "KILLED")
      BY <1>b, <2>1, <2>u, <3>1, TaskFinalizes, SMTT(30) DEF CheckCancel, Modes, Terminal
    <3>2. CASE task' = [task EXCEPT ![t] = [@ EXCEPT !.pc = "runget", !.mode = "try"]]
      BY <1>b, <2>1, <2>u, <3>2 DEF CheckCancel, TaskInv, Task
    <3> QED BY <2>1, <3>1, <3>2 DEF CheckCancel
  <2>2. CASE RunningGet(t)
    <3>1. CASE Goto(t, "runpub")
      BY <1>b, <2>2, <2>u, <3>1, SMTT(30) DEF RunningGet, TaskInv, Task, PCs
    <3>2. CASE task' = [task EXCEPT ![t] = [@ EXCEPT !.pc = "runput",
                                                     !.kept = record[t[1]].result]]
      BY <1>b, <2>2, <2>u, <3>2, SMTT(30) DEF RunningGet, TaskInv, Task
    <3> QED BY <2>2, <3>1, <3>2, Zenon DEF RunningGet
  <2>3. CASE RunningPut(t)
    BY <1>b, <2>3, <2>u, SMTT(30) DEF RunningPut, TaskInv, Task, PCs
  <2>4. CASE RunningPublish(t)
    BY <1>b, <2>4, <2>u DEF RunningPublish, TaskInv, Task, PCs
  <2>5. CASE ExecuteResult(t)
    BY <1>b, <2>5, <2>u, TaskFinalizes, LifecycleAssumption DEF ExecuteResult, Modes, Terminal
  <2>6. CASE ExecuteRaise(t)
    BY <1>b, <2>6, <2>u, TaskFinalizes, Zenon DEF ExecuteRaise, Modes, Terminal
  <2>7. CASE Archive(t)
    BY <1>b, <2>7, <2>u, SMTT(30) DEF Archive, TaskInv, Task, PCs
  <2>8. CASE StoreResult(t)
    BY <1>b, <2>8, <2>u, SMTT(30) DEF StoreResult, TaskInv, Task, PCs, TypeOK
  <2>9. CASE TerminalGet(t)
    BY <1>b, <2>9, <2>u, SMTT(30) DEF TerminalGet, TaskInv, Task, PCs
  <2>10. CASE TerminalPut(t)
    BY <1>b, <2>10, <2>u, SMTT(30) DEF TerminalPut, TaskInv, Task, PCs
  <2>11. CASE PublishDone(t)
    BY <1>b, <2>11, <2>u, SMTT(30) DEF PublishDone, TaskInv, Task, PCs
  <2>12. CASE ReleaseSlot(t)
    BY <1>b, <2>12, <2>u, SMTT(30) DEF ReleaseSlot, TaskInv, Task, PCs
  <2>13. CASE DeadLetter(t)
    BY <1>b, <2>13, <2>u, SMTT(30) DEF DeadLetter, TaskInv, Task, PCs
  <2>14. CASE XAck(t)
    BY <1>b, <2>14, <2>u DEF XAck, TaskInv, Task, PCs
  <2>15. CASE XDel(t)
    BY <1>0, <1>b, <2>15, <2>u, TaskEnds, SMTT(30) DEF XDel
  <2> QED BY <1>4, <2>1, <2>2, <2>3, <2>4, <2>5, <2>6, <2>7, <2>8, <2>9, <2>10, <2>11, Zenon,
             <2>12, <2>13, <2>14, <2>15 DEF TaskStep
<1>5. ASSUME NEW t \in Tasks, WatchCancel(t) PROVE TaskInv(u)'
  <2>1. u = t /\ task'[u].pc = task[u].pc /\ task'[u].mode = task[u].mode
    BY <1>5, <1>a, SMTT(30) DEF WatchCancel, Task
  <2> QED BY <1>5, <1>b, <2>1 DEF WatchCancel, TaskInv
<1>6. ASSUME NEW t \in Tasks, DockerUnavailable(t) PROVE TaskInv(u)'
  <2>1. u = t /\ task'[u] = Ended(task[u]) /\ task[u].pc # "none"
    BY <1>6, <1>a DEF DockerUnavailable
  <2> QED BY <1>0, <1>b, <2>1, TaskEnds
<1>7. ASSUME NEW t \in Tasks, CommandRaises(t) PROVE TaskInv(u)'
  <2>1. u = t /\ task[u].pc # "none"
    BY <1>7, <1>a, SMTT(30) DEF CommandRaises, Finalize
  <2>2. CASE Finalize(t, "except", "FAILED")
    BY <1>7, <1>b, <2>1, <2>2, TaskFinalizes DEF CommandRaises, Modes, Terminal
  <2>3. CASE task' = [task EXCEPT ![t] = Ended(@)]
    BY <1>0, <1>a, <1>b, <2>1, <2>3, TaskEnds, SMTT(30)
  <2> QED BY <1>7, <2>2, <2>3, SMTT(30) DEF CommandRaises
<1>8. ASSUME NEW j \in Jobs, ApiStep(j) \/ GoIdle(j) \/ Expiry(j) PROVE FALSE
  BY <1>8, Zenon DEF ApiStep, AcquireSlot, EnqueueJob, SyncPoll, SyncAnswer, DeleteRead, DeleteWrite,
     DeleteRelease, GoIdle, Expiry, ExpireSlot, ExpireCancel, ExpireRecord
<1>9. ASSUME NEW w \in Workers, NEW j \in Jobs, Peek(w, j) PROVE FALSE
  BY <1>9 DEF Peek
<1>10. CASE UNCHANGED vars
  BY <1>10 DEF vars
<1> QED BY <1>1, <1>2, <1>3, <1>4, <1>5, <1>6, <1>7, <1>8, <1>9, <1>10 DEF Next

(***************************************************************************)
(* The queue                                                               *)
(***************************************************************************)

\* XADD puts one more id at the end.
LEMMA AppendEntries ==
  ASSUME NEW q \in Seq(Jobs), NEW j \in Jobs
  PROVE  /\ Entries(Append(q, j)) = Entries(q) \cup {j}
         /\ Distinct(q) /\ j \notin Entries(q) => Distinct(Append(q, j))
<1>1. Len(Append(q, j)) = Len(q) + 1 /\ Len(q) \in Nat
  OBVIOUS
<1>2. \A i \in 1..Len(q) : Append(q, j)[i] = q[i]
  OBVIOUS
<1>3. Append(q, j)[Len(q) + 1] = j
  OBVIOUS
<1>4. Entries(Append(q, j)) = Entries(q) \cup {j}
  BY <1>1, <1>2, <1>3 DEF Entries
<1>5. ASSUME Distinct(q), j \notin Entries(q) PROVE Distinct(Append(q, j))
  BY <1>1, <1>2, <1>3, <1>5 DEF Distinct, Entries
<1> QED BY <1>4, <1>5

\* XREADGROUP takes the first id, and no other, from the backlog.
LEMMA TailEntries ==
  ASSUME NEW q \in Seq(Jobs), q # <<>>, Distinct(q)
  PROVE  /\ Entries(Tail(q)) = Entries(q) \ {Head(q)}
         /\ Head(q) \in Entries(q)
         /\ Distinct(Tail(q))
<1>1. Len(Tail(q)) = Len(q) - 1 /\ Len(q) \in Nat \ {0}
  OBVIOUS
<1>2. \A i \in 1..(Len(q) - 1) : Tail(q)[i] = q[i + 1]
  OBVIOUS
<1>3. Head(q) = q[1]
  OBVIOUS
<1>4. Head(q) \in Entries(q)
  BY <1>1, <1>3 DEF Entries
<1>5. Entries(Tail(q)) \subseteq Entries(q) \ {Head(q)}
  BY <1>1, <1>2, <1>3 DEF Entries, Distinct
<1>6. ASSUME NEW e \in Entries(q) \ {Head(q)} PROVE e \in Entries(Tail(q))
  <2>1. PICK i \in 1..Len(q) : e = q[i]
    BY DEF Entries
  <2>2. i # 1 /\ i - 1 \in 1..(Len(q) - 1)
    BY <1>1, <1>3, <1>6, <2>1
  <2>3. Tail(q)[i - 1] = e
    BY <1>1, <1>2, <2>1, <2>2
  <2> QED BY <1>1, <2>2, <2>3 DEF Entries
<1>7. Distinct(Tail(q))
  BY <1>1, <1>2, SMTT(30) DEF Distinct
<1> QED BY <1>4, <1>5, <1>6, <1>7

\* The backlog, the counts and the pending list stay in step.
LEMMA NextQueueInv ==
  ASSUME TypeOK, TypeOK', \A t \in Tasks : TaskInv(t), QueueInv, [Next]_vars
  PROVE  QueueInv'
<1> USE DEF queueVars, keyVars, apiVars, workVars
<1>a. times \in [Jobs -> Nat] /\ times' \in [Jobs -> Nat]
  BY LifecycleAssumption DEF TypeOK
<1>b. \A j \in Jobs : times[j] <= times'[j]
  BY NextGrows, ZenonT(60) DEF Grows
<1>c. pending \subseteq Jobs /\ Entries(backlog) \subseteq Jobs
  BY SMTT(30) DEF TypeOK, Entries
<1>d. peek \in [Workers -> [Jobs -> Nat]]
  BY LifecycleAssumption, SMTT(30) DEF TypeOK
<1>1. CASE UNCHANGED <<backlog, times, api, peek>> /\ pending' \subseteq pending
  BY <1>1, ZenonT(60) DEF QueueInv, Entries, Distinct
<1>2. ASSUME NEW j \in Jobs, AcquireSlot(j) PROVE QueueInv'
  <2>1. \A i \in Jobs : i # j => api'[i] = api[i]
    BY <1>2, SMTT(30) DEF AcquireSlot, TypeOK
  <2>2. j \notin Entries(backlog) /\ ~(times[j] > 0)
    BY <1>2, Zenon DEF AcquireSlot, QueueInv
  <2>3. UNCHANGED <<backlog, times, peek, pending>>
    BY <1>2, Zenon DEF AcquireSlot
  <2>4. Entries(backlog)' = Entries(backlog) /\ Distinct(backlog)' = Distinct(backlog)
    BY <2>3, Zenon DEF Entries, Distinct
  <2>5. ASSUME NEW i \in Jobs, i \in Entries(backlog) \/ times[i] > 0
        PROVE  api'[i] \notin {"new", "granted", "refused"}
    <3>1. i # j
      BY <2>2, <2>5, Zenon
    <3> QED BY <2>1, <2>5, <3>1, Zenon DEF QueueInv
  <2> QED BY <2>3, <2>4, <2>5, Zenon DEF QueueInv
<1>3. ASSUME NEW j \in Jobs, EnqueueJob(j) PROVE QueueInv'
  <2>0. api[j] = "granted"
    BY <1>3, Zenon DEF EnqueueJob
  <2>1. j \notin Entries(backlog) /\ times[j] = 0
    BY <1>a, <2>0 DEF QueueInv
  <2>2. \E a \in {"async", "waiting", "failed"} : api' = [api EXCEPT ![j] = a]
    BY <1>3, Zenon DEF EnqueueJob
  <2>3. /\ api'[j] \in {"async", "waiting", "failed"}
        /\ \A i \in Jobs : i # j => api'[i] = api[i]
    BY <2>2 DEF TypeOK
  <2>4. UNCHANGED <<times, peek, pending>>
    BY <1>3 DEF EnqueueJob
  <2>5. backlog' = backlog \/ backlog' = Append(backlog, j)
    BY <1>3 DEF EnqueueJob, AddEntry
  <2>6. Entries(backlog') \subseteq Entries(backlog) \cup {j} /\ Distinct(backlog')
    <3>1. backlog \in Seq(Jobs) /\ Distinct(backlog)
      BY DEF TypeOK, QueueInv
    <3>2. CASE backlog' = backlog
      BY <3>1, <3>2
    <3>3. CASE backlog' = Append(backlog, j)
      BY <2>1, <3>1, <3>3, AppendEntries
    <3> QED BY <2>5, <3>2, <3>3, Zenon
  <2>7. Entries(backlog)' = Entries(backlog') /\ (Distinct(backlog)' <=> Distinct(backlog'))
    BY Zenon DEF Entries, Distinct
  <2> QED BY <2>0, <2>1, <2>3, <2>4, <2>6, <2>7, Zenon DEF QueueInv
<1>4. ASSUME NEW j \in Jobs, SyncPoll(j) \/ SyncAnswer(j) PROVE QueueInv'
  <2>1. \E a \in {"done", "late", "200", "408", "failed"} : api' = [api EXCEPT ![j] = a]
    BY <1>4, Zenon DEF SyncPoll, SyncAnswer
  <2>2. /\ api'[j] \in {"done", "late", "200", "408", "failed"}
        /\ \A i \in Jobs : i # j => api'[i] = api[i]
    BY <2>1, SMTT(30) DEF TypeOK
  <2>3. UNCHANGED <<backlog, times, peek, pending>>
    BY <1>4, Zenon DEF SyncPoll, SyncAnswer
  <2> QED BY <2>2, <2>3, SMTT(30) DEF QueueInv, Entries, Distinct
<1>5. ASSUME NEW w \in Workers, Read(w) PROVE QueueInv'
  <2> DEFINE h == Head(backlog)
  <2>1. /\ Entries(backlog') = Entries(backlog) \ {h} /\ h \in Entries(backlog)
        /\ Distinct(backlog')
    BY <1>5, TailEntries, SMTT(30) DEF Read, TypeOK, QueueInv
  <2>2. /\ times'[h] = 1 /\ \A i \in Jobs : i # h => times'[i] = times[i]
    BY <1>5, <1>a, <1>c, <2>1, SMTT(30) DEF Read
  <2>3. pending' = pending \cup {h} /\ UNCHANGED <<api, peek>>
    BY <1>5, Zenon DEF Read
  <2>4. Entries(backlog)' = Entries(backlog') /\ (Distinct(backlog)' <=> Distinct(backlog'))
    BY DEF Entries, Distinct
  <2>5. \A v \in Workers, i \in Jobs : peek'[v][i] <= times'[i]
    BY <1>a, <1>b, <1>d, <2>3 DEF QueueInv
  <2>6. h \in Jobs
    BY <1>c, <2>1, Zenon
  <2> HIDE DEF h
  <2>7. \A i \in Entries(backlog') : times'[i] = 0
    BY <1>c, <2>1, <2>2, Zenon DEF QueueInv
  <2>8. \A i \in Jobs : i \in Entries(backlog') \/ times'[i] > 0
                         => api'[i] \notin {"new", "granted", "refused"}
    <3>1. ASSUME NEW i \in Jobs, i \in Entries(backlog') \/ times'[i] > 0
          PROVE  i \in Entries(backlog) \/ times[i] > 0
      BY <2>1, <2>2, <3>1, Zenon
    <3> QED BY <2>3, <3>1, Zenon DEF QueueInv
  <2>9. \A i \in pending' : times'[i] > 0
    BY <1>a, <1>c, <2>2, <2>3, <2>6, SMTT(30) DEF QueueInv
  <2> QED BY <2>1, <2>4, <2>5, <2>7, <2>8, <2>9, ZenonT(60) DEF QueueInv
<1>6. ASSUME NEW w \in Workers, NEW j \in Jobs, Peek(w, j) PROVE QueueInv'
  <2>1. \A v \in Workers, i \in Jobs : peek'[v][i] <= times[i]
    BY <1>6, <1>a, <1>d DEF Peek, QueueInv
  <2>2. UNCHANGED <<backlog, times, api, pending>>
    BY <1>6, Zenon DEF Peek
  <2> QED BY <2>1, <2>2, ZenonT(60) DEF QueueInv, Entries, Distinct
<1>7. ASSUME NEW w \in Workers, NEW j \in Jobs, Claim(w, j) PROVE QueueInv'
  <2>1. UNCHANGED <<backlog, api, pending>> /\ peek' = [peek EXCEPT ![w][j] = 0]
    BY <1>7, Zenon DEF Claim
  <2>2. \A v \in Workers, i \in Jobs : peek'[v][i] <= times'[i]
    BY <1>a, <1>b, <1>d, <2>1, SMTT(30) DEF QueueInv
  <2>3. \A i \in Jobs : times'[i] # times[i] => i \in pending
    BY <1>7, <1>a, SMTT(30) DEF Claim, TypeOK
  <2>4. \A i \in pending : times[i] > 0
    BY DEF QueueInv
  <2>5. Entries(backlog)' = Entries(backlog) /\ Distinct(backlog)' = Distinct(backlog)
    BY <2>1, SMTT(30) DEF Entries, Distinct
  <2>6. \A i \in Entries(backlog) : times'[i] = 0
    BY <1>a, <1>c, <2>3, <2>4 DEF QueueInv
  <2>7. \A i \in pending : times'[i] > 0
    BY <1>a, <1>b, <1>c, <2>4
  <2>8. \A i \in Jobs : times'[i] > 0 => times[i] > 0
    BY <1>a, <2>3, <2>4, Zenon
  <2> QED BY <2>1, <2>2, <2>5, <2>6, <2>7, <2>8, Zenon DEF QueueInv
<1>8. ASSUME NEW w \in Workers, Crash(w) PROVE QueueInv'
  <2>1. \A v \in Workers, i \in Jobs : peek'[v][i] <= times[i]
    BY <1>8, <1>a, <1>d, SMTT(30) DEF Crash, QueueInv
  <2>2. UNCHANGED <<backlog, times, api, pending>>
    BY <1>8, SMTT(30) DEF Crash
  <2> QED BY <2>1, <2>2, ZenonT(60) DEF QueueInv, Entries, Distinct
<1>9. ASSUME NEW j \in Jobs, DeleteRead(j) \/ DeleteWrite(j) \/ DeleteRelease(j)
             \/ GoIdle(j) \/ Expiry(j)
      PROVE  QueueInv'
  BY <1>1, <1>9, ZenonT(60) DEF DeleteRead, DeleteWrite, DeleteRelease, GoIdle, Expiry, ExpireSlot,
     ExpireCancel, ExpireRecord
<1>10. ASSUME NEW t \in Tasks, TaskStep(t) PROVE QueueInv'
  BY <1>1, <1>10 DEF TaskStep, CheckCancel, RunningGet, RunningPut, RunningPublish,
     ExecuteResult, ExecuteRaise, Archive, StoreResult, TerminalGet, TerminalPut, PublishDone,
     ReleaseSlot, DeadLetter, XAck, XDel
<1>11. ASSUME NEW t \in Tasks, WatchCancel(t) \/ DockerUnavailable(t) \/ CommandRaises(t)
       PROVE  QueueInv'
  BY <1>1, <1>11, SMTT(30) DEF WatchCancel, DockerUnavailable, CommandRaises
<1>12. CASE UNCHANGED vars
  BY <1>1, <1>12, Zenon DEF vars
<1> QED BY <1>2, <1>3, <1>4, <1>5, <1>6, <1>7, <1>8, <1>9, <1>10, <1>11, <1>12, ZenonT(60)
        DEF Next, ApiStep
=============================================================================
