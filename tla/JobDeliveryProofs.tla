------------------------- MODULE JobDeliveryProofs -------------------------
(***************************************************************************)
(* Properties of JobLifecycle that hold while some kind of fault does not  *)
(* occur, for every set of jobs and workers and every bound.  Each theorem *)
(* names the faults it excludes; all others may happen.                    *)
(***************************************************************************)
EXTENDS JobPromiseProofs, FiniteSetTheorems

Entered(k) == k.mode \in {"try", "except"} \/ k.pc = "check"

\* A task that changes was read, was claimed, or was at work and goes on or ends.
TaskMoved(u) ==
  \/ task'[u] = task[u]
  \/ \E w \in Workers : /\ Read(w) /\ u = <<Head(backlog), 1>>
                        /\ task'[u] = Started(w, u[1], 1)
  \/ \E w \in Workers : /\ Claim(w, u[1]) /\ u[1] \in idle /\ u[2] = times[u[1]] + 1
                        /\ task'[u] = Started(w, u[1], peek[w][u[1]])
  \/ /\ task[u].pc # "none" /\ (task'[u].pc = "end" \/ Live(u))
     /\ Entered(task'[u]) => Entered(task[u])

\* Every step of the system moves a task as TaskMoved says.
LEMMA TaskMoves ==
  ASSUME IInv, IInv', [Next]_vars, NEW u \in Tasks
  PROVE  TaskMoved(u)
<1> USE DEF queueVars, keyVars, apiVars, workVars
<1>a. task \in [Tasks -> Task] /\ task' \in [Tasks -> Task] /\ TaskInv(u)
  BY DEF IInv, TypeOK
<1> SUFFICES ASSUME task'[u] # task[u] PROVE TaskMoved(u)
  BY DEF TaskMoved
<1>1. ASSUME NEW w \in Workers, Read(w) PROVE TaskMoved(u)
  <2>1. task' = [task EXCEPT ![<<Head(backlog), 1>>] = Started(w, Head(backlog), 1)]
    BY <1>1 DEF Read
  <2>2. u = <<Head(backlog), 1>> /\ task'[u] = Started(w, Head(backlog), 1)
    BY <1>a, <2>1
  <2> QED BY <1>1, <2>2 DEF TaskMoved
<1>2. ASSUME NEW w \in Workers, NEW j \in Jobs, Claim(w, j) PROVE TaskMoved(u)
  <2>1. /\ task' = [task EXCEPT ![<<j, times[j] + 1>>] = Started(w, j, peek[w][j])]
        /\ j \in idle
    BY <1>2 DEF Claim
  <2>2. u = <<j, times[j] + 1>> /\ task'[u] = Started(w, j, peek[w][j])
    BY <1>a, <2>1
  <2>3. u[1] = j /\ u[2] = times[j] + 1
    BY <2>2
  <2> QED BY <1>2, <2>1, <2>2, <2>3, Zenon DEF TaskMoved
<1>3. ASSUME NEW w \in Workers, Crash(w) PROVE TaskMoved(u)
  <2>1. task'[u] = Ended(task[u]) /\ task[u].by = w
    BY <1>3 DEF Crash
  <2>2. task'[u].pc = "end" /\ task'[u].mode = task[u].mode
    BY <2>1, SMTT(30) DEF Ended, NoTask
  <2>3. task[u].pc # "none"
    BY <1>a, <2>1, LifecycleAssumption, SMTT(30) DEF TaskInv
  <2> QED BY <2>2, <2>3 DEF TaskMoved, Entered
<1>4. ASSUME NEW t \in Tasks, NEW k, task' = [task EXCEPT ![t] = k],
             Live(t), Entered(k) => Entered(task[t])
      PROVE  TaskMoved(u)
  BY <1>4, <1>a DEF TaskMoved, Live
<1>5. ASSUME NEW t \in Tasks, NEW p \in PCs \ {"check"}, Goto(t, p), Live(t)
      PROVE  TaskMoved(u)
  <2>1. u = t /\ task'[u].pc = p /\ task'[u].mode = task[u].mode
    BY <1>5, <1>a, Zenon DEF Goto, Task
  <2> QED BY <1>5, <2>1, Zenon DEF TaskMoved, Entered, Live
<1>6. ASSUME NEW t \in Tasks, NEW m \in Modes, NEW r, Finalize(t, m, r), Live(t),
             m \in {"try", "except"} => Entered(task[t])
      PROVE  TaskMoved(u)
  <2>1. u = t /\ task'[u].pc = "archive" /\ task'[u].mode = m
    BY <1>6, <1>a, Zenon DEF Finalize
  <2> QED BY <1>6, <2>1 DEF TaskMoved, Entered, Live
<1>7. ASSUME NEW t \in Tasks, TaskStep(t) PROVE TaskMoved(u)
  <2>1. CASE CheckCancel(t)
    <3>1. Live(t) /\ Entered(task[t])
      BY <2>1 DEF CheckCancel, Live, Entered
    <3>2. CASE Finalize(t, "cancel", "KILLED")
      BY <1>6, <3>1, <3>2 DEF Modes
    <3>3. CASE task' = [task EXCEPT ![t] = [@ EXCEPT !.pc = "runget", !.mode = "try"]]
      BY <1>4, <3>1, <3>3, Zenon
    <3> QED BY <2>1, <3>2, <3>3, SMTT(30) DEF CheckCancel
  <2>2. CASE ExecuteResult(t) \/ ExecuteRaise(t)
    <3>1. Live(t) /\ TaskInv(t) /\ task[t].pc = "exec"
      BY <2>2 DEF ExecuteResult, ExecuteRaise, Live, IInv
    <3>2. Entered(task[t])
      BY <3>1, Zenon DEF TaskInv, Entered
    <3>3. \E m \in {"try", "except"}, r \in Terminal : Finalize(t, m, r)
      BY <2>2, LifecycleAssumption, Zenon DEF ExecuteResult, ExecuteRaise, Terminal
    <3> QED BY <1>6, <3>1, <3>2, <3>3, SMTT(30) DEF Modes
  <2>3. CASE XDel(t)
    <3>1. u = t /\ task'[u] = Ended(task[u]) /\ task[u].pc = "xdel"
      BY <1>a, <2>3 DEF XDel
    <3>2. task'[u].pc = "end" /\ task'[u].mode = task[u].mode
      BY <3>1, Zenon DEF Ended, NoTask
    <3> QED BY <3>1, <3>2, Zenon DEF TaskMoved, Entered
  <2>4. CASE RunningGet(t) \/ RunningPut(t) \/ RunningPublish(t)
    <3>1. u = t /\ Live(t) /\ task[u].pc \in {"runget", "runput", "runpub"}
      BY <1>a, <2>4, Zenon DEF RunningGet, RunningPut, RunningPublish, Goto, Live
    <3>2. Entered(task[u])
      BY <1>a, <3>1 DEF TaskInv, Entered
    <3> QED BY <3>1, <3>2, Zenon DEF TaskMoved, Live
  <2>5. CASE \/ Archive(t) \/ StoreResult(t) \/ TerminalGet(t) \/ TerminalPut(t)
             \/ PublishDone(t) \/ ReleaseSlot(t) \/ DeadLetter(t) \/ XAck(t)
    <3>1. /\ \E p \in PCs \ {"check"} : Goto(t, p)
          /\ Live(t)
      BY <2>5 DEF Archive, StoreResult, TerminalGet, TerminalPut, PublishDone, ReleaseSlot,
           DeadLetter, XAck, PCs, Live
    <3> QED BY <1>5, <3>1, ZenonT(60)
  <2> QED BY <1>7, <2>1, <2>2, <2>3, <2>4, <2>5, ZenonT(60) DEF TaskStep
<1>8. ASSUME NEW t \in Tasks, WatchCancel(t) PROVE TaskMoved(u)
  <2>1. u = t /\ Live(t) /\ task[u].pc = "exec"
    BY <1>8, <1>a, Zenon DEF WatchCancel, Live
  <2>2. Entered(task[u])
    BY <1>a, <2>1, Zenon DEF TaskInv, Entered
  <2> QED BY <2>1, <2>2 DEF TaskMoved, Live
<1>9. ASSUME NEW t \in Tasks, DockerUnavailable(t) PROVE TaskMoved(u)
  <2>1. u = t /\ task'[u] = Ended(task[u]) /\ task[u].pc = "exec"
    BY <1>9, <1>a DEF DockerUnavailable
  <2>2. task'[u].pc = "end" /\ task'[u].mode = task[u].mode
    BY <2>1 DEF Ended, NoTask
  <2> QED BY <2>1, <2>2, SMTT(30) DEF TaskMoved, Entered
<1>10. ASSUME NEW t \in Tasks, CommandRaises(t) PROVE TaskMoved(u)
  <2>1. u = t /\ Live(t)
    BY <1>10, <1>a, Zenon DEF CommandRaises, Finalize, Live
  <2>2. CASE task[t].mode = "try"
    BY <2>1, <2>2, Zenon DEF TaskMoved, Entered, Live
  <2>3. CASE task[t].mode # "try"
    <3>1. task'[u] = Ended(task[u])
      BY <1>10, <1>a, <2>1, <2>3, Zenon DEF CommandRaises
    <3>2. task'[u].pc = "end" /\ task'[u].mode = task[u].mode
      BY <3>1, Zenon DEF Ended, NoTask
    <3> QED BY <2>1, <3>2, Zenon DEF TaskMoved, Entered, Live
  <2> QED BY <2>2, <2>3, Zenon
<1>11. ASSUME NEW j \in Jobs, ApiStep(j) \/ GoIdle(j) \/ Expiry(j) PROVE FALSE
  BY <1>11, Zenon DEF ApiStep, AcquireSlot, EnqueueJob, SyncPoll, SyncAnswer, DeleteRead,
     DeleteWrite, DeleteRelease, GoIdle, Expiry, ExpireSlot, ExpireCancel, ExpireRecord
<1>12. ASSUME NEW w \in Workers, NEW j \in Jobs, Peek(w, j) PROVE FALSE
  BY <1>12 DEF Peek
<1>13. CASE UNCHANGED vars
  BY <1>13, ZenonT(60) DEF vars
<1> QED BY <1>1, <1>2, <1>3, <1>7, <1>8, <1>9, <1>10, <1>11, <1>12, <1>13, ZenonT(60) DEF Next

(***************************************************************************)
(* Without stalls: one delivery at a time, and a bounded number of runs    *)
(***************************************************************************)

\* An entry that counts as idle has no task at work, an entry has no two, and
\* the counts that claim_stale remembers of an idle entry are up to date.
OverlapInv ==
  /\ \A t \in Tasks : Live(t) => t[1] \notin idle
  /\ \A t, u \in Tasks : Live(t) /\ Live(u) /\ t[1] = u[1] => t = u
  /\ \A j \in idle, w \in Workers : peek[w][j] \in {0, times[j]}
  /\ \A t \in Tasks : Entered(task[t]) => t[2] <= MaxRetries + 1

\* Who comes to be at work was read from the backlog, or claimed while idle.
LEMMA ComesAlive ==
  ASSUME IInv, IInv', [Next]_vars, NEW u \in Tasks, Live(u)', ~Live(u)
  PROVE  \/ \E w \in Workers : Read(w) /\ u[1] = Head(backlog)
         \/ \E w \in Workers : Claim(w, u[1]) /\ u[1] \in idle
<1>1. TaskMoved(u)
  BY TaskMoves
<1>2. task'[u] # task[u] /\ task'[u].pc # "end"
  BY DEF Live
<1> QED BY <1>1, <1>2 DEF TaskMoved

\* The entry that is read has not been delivered.
LEMMA ReadIsFirst ==
  ASSUME IInv, NEW w, Read(w)
  PROVE  /\ Head(backlog) \in Jobs /\ times[Head(backlog)] = 0
         /\ Head(backlog) \notin pending
<1>1. Head(backlog) \in Entries(backlog)
  BY TailEntries DEF Read, IInv, TypeOK, QueueInv
<1>2. Head(backlog) \in Jobs
  BY DEF Read, IInv, TypeOK
<1>3. times[Head(backlog)] = 0
  BY <1>1 DEF IInv, QueueInv
<1>4. \A j \in pending : times[j] > 0
  BY Zenon DEF IInv, QueueInv
<1> QED BY <1>2, <1>3, <1>4

\* What becomes of idle entries, delivery counts and remembered counts.
LEMMA IdleMoves ==
  ASSUME "stall" \notin Faults, IInv, [Next]_vars, NEW i \in idle'
  PROVE  /\ times'[i] = times[i]
         /\ \/ i \in idle
            \/ /\ UNCHANGED task /\ \A d \in Deliveries : ~Live(<<i, d>>)
               /\ \A w \in Workers : peek[w][i] = 0
         /\ \A w \in Workers : peek'[w][i] \in {0, peek[w][i], times[i]}
<1> USE DEF queueVars, keyVars, apiVars, workVars
<1>a. /\ peek \in [Workers -> [Jobs -> 0..MaxDeliveries]] /\ times \in [Jobs -> 0..MaxDeliveries]
      /\ idle \subseteq pending /\ pending \subseteq Jobs
  BY DEF IInv, TypeOK
<1>1. CASE UNCHANGED <<idle, times, peek>>
  BY <1>1
<1>2. ASSUME NEW w \in Workers, Read(w) PROVE UNCHANGED idle /\ times'[i] = times[i] /\ UNCHANGED peek
  <2>1. i \in idle /\ i # Head(backlog)
    BY <1>2, <1>a, ReadIsFirst, Zenon DEF Read
  <2> QED BY <1>2, <1>a, <2>1, Zenon DEF Read
<1>3. ASSUME NEW w \in Workers, NEW j \in Jobs, Claim(w, j)
      PROVE  /\ i \in idle /\ times'[i] = times[i]
             /\ \A v \in Workers : peek'[v][i] \in {0, peek[v][i]}
  <2>1. peek' = [peek EXCEPT ![w][j] = 0]
    BY <1>3 DEF Claim
  <2>2. \/ idle' = idle \ {j} /\ times' = [times EXCEPT ![j] = @ + 1]
        \/ UNCHANGED <<idle, times>>
    BY <1>3 DEF Claim
  <2>3. i \in idle /\ times'[i] = times[i]
    BY <1>a, <2>2
  <2> QED BY <1>a, <2>1, <2>3, SMTT(30)
<1>4. ASSUME NEW w \in Workers, NEW j \in Jobs, Peek(w, j)
      PROVE  /\ UNCHANGED <<idle, times>>
             /\ \A v \in Workers : peek'[v][i] \in {peek[v][i], times[i]}
  <2>1. peek' = [peek EXCEPT ![w][j] = times[j]] /\ UNCHANGED <<idle, times>>
    BY <1>4 DEF Peek
  <2> QED BY <1>a, <2>1, Zenon
<1>5. ASSUME NEW w \in Workers, Crash(w)
      PROVE  /\ UNCHANGED <<idle, times>>
             /\ \A v \in Workers : peek'[v][i] \in {0, peek[v][i]}
  <2>1. peek' = [peek EXCEPT ![w] = [j \in Jobs |-> 0]] /\ UNCHANGED <<idle, times>>
    BY <1>5, Zenon DEF Crash
  <2> QED BY <1>a, <2>1, Zenon
<1>6. ASSUME NEW j \in Jobs, GoIdle(j)
      PROVE  /\ UNCHANGED <<times, peek, task>> /\ idle' = idle \cup {j}
             /\ \A d \in Deliveries : ~Live(<<j, d>>)
             /\ \A w \in Workers : peek[w][j] = 0
  BY <1>6, Zenon DEF GoIdle
<1>7. ASSUME NEW t \in Tasks, XAck(t)
      PROVE  idle' = idle \ {t[1]} /\ UNCHANGED <<times, peek>>
  BY <1>7, Zenon DEF XAck
<1>8. ASSUME NEW t \in Tasks, TaskStep(t), ~XAck(t)
      PROVE  UNCHANGED <<idle, times, peek>>
  BY <1>8, Zenon DEF TaskStep, CheckCancel, RunningGet, RunningPut, RunningPublish, ExecuteResult,
     ExecuteRaise, Archive, StoreResult, TerminalGet, TerminalPut, PublishDone, ReleaseSlot,
     DeadLetter, XDel
<1>9. ASSUME NEW t \in Tasks, WatchCancel(t) \/ DockerUnavailable(t) \/ CommandRaises(t)
      PROVE  UNCHANGED <<idle, times, peek>>
  BY <1>9, Zenon DEF WatchCancel, DockerUnavailable, CommandRaises
<1>10. ASSUME NEW j \in Jobs, ApiStep(j) \/ Expiry(j)
       PROVE  UNCHANGED <<idle, times, peek>>
  BY <1>10, Zenon DEF ApiStep, AcquireSlot, EnqueueJob, SyncPoll, SyncAnswer, DeleteRead,
     DeleteWrite, DeleteRelease, Expiry, ExpireSlot, ExpireCancel, ExpireRecord
<1>11. CASE UNCHANGED vars
  BY <1>1, <1>11, Zenon DEF vars
<1>12. ASSUME NEW w \in Workers, Read(w) \/ Crash(w)
       PROVE  /\ i \in idle /\ times'[i] = times[i]
              /\ \A v \in Workers : peek'[v][i] \in {0, peek[v][i]}
  BY <1>2, <1>5, <1>12, Zenon
<1>13. ASSUME NEW w \in Workers, NEW j \in Jobs, Peek(w, j) \/ Claim(w, j)
       PROVE  /\ i \in idle /\ times'[i] = times[i]
              /\ \A v \in Workers : peek'[v][i] \in {0, peek[v][i], times[i]}
  BY <1>3, <1>4, <1>13
<1>14. ASSUME NEW t \in Tasks, TaskStep(t) \/ WatchCancel(t) \/ DockerUnavailable(t) \/ CommandRaises(t)
       PROVE  i \in idle /\ UNCHANGED <<times, peek>>
  BY <1>7, <1>8, <1>9, <1>14, Zenon
<1>15. ASSUME NEW j \in Jobs, ApiStep(j) \/ GoIdle(j) \/ Expiry(j)
       PROVE  /\ UNCHANGED <<times, peek>>
              /\ \/ i \in idle
                 \/ /\ UNCHANGED task /\ \A d \in Deliveries : ~Live(<<i, d>>)
                    /\ \A w \in Workers : peek[w][i] = 0
  BY <1>6, <1>10, <1>15, Zenon
<1> QED BY <1>11, <1>12, <1>13, <1>14, <1>15, ZenonT(60) DEF Next

\* A count that is not above the limit is, plus one, at most the limit plus one.
LEMMA WithinRetries ==
  ASSUME NEW n \in Nat, NEW m \in Nat, ~(n > m)
  PROVE  n + 1 <= m + 1
  OBVIOUS

\* Every step keeps OverlapInv.
LEMMA NextOverlap ==
  ASSUME "stall" \notin Faults, IInv, IInv', OverlapInv, [Next]_vars
  PROVE  OverlapInv'
<1>a. ASSUME NEW t \in Tasks
      PROVE  t[1] \in Jobs /\ t[2] \in Deliveries /\ t = <<t[1], t[2]>>
  BY DEF Tasks
\* Nobody was at work on an entry that is read or claimed.
<1>b. ASSUME NEW u \in Tasks, Live(u)', ~Live(u), NEW t \in Tasks, t[1] = u[1]
      PROVE  ~Live(t) /\ (Live(t)' => t = u) /\ u[1] \notin idle'
  <2>1. ASSUME NEW w \in Workers, Read(w), u[1] = Head(backlog)
        PROVE  /\ ~Live(t) /\ u[1] \notin idle'
               /\ \A v \in Tasks : task'[v] = task[v] \/ v = <<Head(backlog), 1>>
    <3>1. times[t[1]] = 0 /\ t[1] \notin pending
      BY <1>b, <2>1, ReadIsFirst, Zenon
    <3>2. TaskInv(t) /\ times[t[1]] \in Nat
      BY <1>a, LifecycleAssumption, SMTT(30) DEF IInv, TypeOK
    <3>3. ~Live(t)
      BY <3>1, <3>2, SMTT(30) DEF TaskInv, Live
    <3>4. u[1] \notin idle' /\ task \in [Tasks -> Task]
      BY <1>b, <2>1, <3>1, ZenonT(60) DEF Read, IInv, TypeOK
    <3> QED BY <2>1, <3>3, <3>4, Zenon DEF Read
  <2>2. ASSUME NEW w \in Workers, Claim(w, u[1]), u[1] \in idle
        PROVE  /\ ~Live(t) /\ u[1] \notin idle'
               /\ \A v \in Tasks : task'[v] = task[v] \/ v = <<u[1], times[u[1]] + 1>>
    <3>1. ~Live(t)
      BY <1>b, <2>2, ZenonT(60) DEF OverlapInv
    <3>2. task \in [Tasks -> Task]
      BY DEF IInv, TypeOK
    <3> QED BY <2>2, <3>1, <3>2, ZenonT(60) DEF Claim
  <2>3. PICK x : \A v \in Tasks : task'[v] = task[v] \/ v = x
    BY <1>b, <2>1, <2>2, ComesAlive, Zenon
  <2>4. ~Live(t) /\ u[1] \notin idle'
    BY <1>b, <2>1, <2>2, ComesAlive, Zenon
  <2>5. u = x /\ (Live(t)' => t = x)
    BY <1>b, <2>3, <2>4 DEF Live
  <2> QED BY <2>4, <2>5
<1>1. ASSUME NEW t \in Tasks, Live(t)' PROVE t[1] \notin idle'
  <2>1. CASE ~Live(t)
    BY <1>1, <1>b, <2>1
  <2>2. CASE Live(t)
    <3>1. t[1] \notin idle /\ <<t[1], t[2]>> = t /\ t[2] \in Deliveries
      BY <1>a, <2>2 DEF OverlapInv
    <3> QED BY <2>2, <3>1, IdleMoves
  <2> QED BY <2>1, <2>2, SMTT(30)
<1>2. ASSUME NEW t \in Tasks, NEW u \in Tasks, Live(t)', Live(u)', t[1] = u[1] PROVE t = u
  <2>1. CASE Live(t) /\ Live(u)
    BY <1>2, <2>1 DEF OverlapInv
  <2>2. CASE ~Live(u)
    BY <1>2, <1>b, <2>2
  <2>3. CASE ~Live(t)
    BY <1>2, <1>b, <2>3, SMTT(30)
  <2> QED BY <2>1, <2>2, <2>3
<1>3. ASSUME NEW j \in idle', NEW w \in Workers PROVE peek'[w][j] \in {0, times'[j]}
  <2>1. /\ times'[j] = times[j] /\ peek'[w][j] \in {0, peek[w][j], times[j]}
        /\ j \in idle \/ peek[w][j] = 0
    BY IdleMoves
  <2>2. j \in idle => peek[w][j] \in {0, times[j]}
    BY Zenon DEF OverlapInv
  <2> QED BY <2>1, <2>2
<1>4. ASSUME NEW u \in Tasks, Entered(task'[u]) PROVE u[2] <= MaxRetries + 1
  <2>1. CASE Entered(task[u])
    BY <2>1 DEF OverlapInv
  <2>2. CASE \E w \in Workers : u = <<Head(backlog), 1>>
    BY <2>2, LifecycleAssumption
  <2>3. ASSUME NEW w \in Workers, Claim(w, u[1]), u[1] \in idle, u[2] = times[u[1]] + 1,
               task'[u] = Started(w, u[1], peek[w][u[1]])
        PROVE  u[2] <= MaxRetries + 1
    <3>1. peek[w][u[1]] = times[u[1]] /\ times[u[1]] \in Nat
      BY <1>a, <2>3, LifecycleAssumption, SMTT(30) DEF Claim, OverlapInv, IInv, TypeOK
    <3>2. ~(peek[w][u[1]] > MaxRetries)
      BY <1>4, <2>3 DEF Started, NoTask, Entered
    <3>3. MaxRetries \in Nat
      BY LifecycleAssumption, Zenon
    <3> QED BY <2>3, <3>1, <3>2, <3>3, WithinRetries, Zenon
  <2>4. TaskMoved(u)
    BY TaskMoves
  <2> QED BY <1>4, <2>1, <2>2, <2>3, <2>4, Zenon DEF TaskMoved
<1>5. (\A t \in Tasks : Live(t) => t[1] \notin idle)'
  BY <1>1
<1>6. (\A t, u \in Tasks : Live(t) /\ Live(u) /\ t[1] = u[1] => t = u)'
  BY <1>2
<1> QED BY <1>3, <1>4, <1>5, <1>6 DEF OverlapInv, Entered

\* Without stalls OverlapInv holds throughout.
LEMMA OverlapHolds ==
  ASSUME "stall" \notin Faults
  PROVE  Spec => []OverlapInv
<1>1. Init => OverlapInv
  BY DEF Init, OverlapInv, NoTask, Live, Entered
<1>2. IInv /\ IInv' /\ OverlapInv /\ [Next]_vars => OverlapInv'
  BY NextOverlap
<1> QED BY <1>1, <1>2, SpecIInv, PTL DEF Spec

\* While no live task outlasts claim_min_idle_ms, whatever crashes or fails, no two
\* deliveries of an entry are worked on at once (consumer.py, claim_stale).
THEOREM OneDeliveryAtATime ==
  ASSUME "stall" \notin Faults
  PROVE  Spec => []NoDoubleProcessing
<1>1. OverlapInv => NoDoubleProcessing
  <2> SUFFICES ASSUME OverlapInv, NEW j \in Jobs, NEW d \in Deliveries, NEW e \in Deliveries,
                      Live(<<j, d>>), Live(<<j, e>>)
               PROVE  d = e
    BY DEF NoDoubleProcessing
  <2>1. <<j, d>> \in Tasks /\ <<j, e>> \in Tasks
    BY DEF Tasks
  <2>2. <<j, d>> = <<j, e>>
    BY <2>1, Zenon DEF OverlapInv
  <2> QED BY <2>2
<1> QED BY <1>1, OverlapHolds, PTL

\* Under the same assumption a job's code is started at most max_retries + 1
\* times: the delivery count that claim_stale compares is then the one before its
\* own claim (worker.py, _process).
THEOREM RunsAreBounded ==
  ASSUME "stall" \notin Faults
  PROVE  Spec => []RunsBounded
<1>1. OverlapInv => RunsBounded
  <2> SUFFICES ASSUME OverlapInv, NEW j \in Jobs
               PROVE  Cardinality({d \in Deliveries : task[<<j, d>>].mode \in {"try", "except"}})
                        <= MaxRetries + 1
    BY DEF RunsBounded
  <2> DEFINE runs == {d \in Deliveries : task[<<j, d>>].mode \in {"try", "except"}}
  <2>1. runs \in SUBSET (1..(MaxRetries + 1))
    <3> SUFFICES ASSUME NEW d \in runs PROVE d \in 1..(MaxRetries + 1)
      OBVIOUS
    <3>1. <<j, d>> \in Tasks /\ Entered(task[<<j, d>>])
      BY DEF Tasks, Entered
    <3>2. <<j, d>>[2] <= MaxRetries + 1
      BY <3>1 DEF OverlapInv
    <3> QED BY <3>2, LifecycleAssumption DEF Deliveries
  <2>2. /\ IsFiniteSet(1..(MaxRetries + 1))
        /\ Cardinality(1..(MaxRetries + 1)) = MaxRetries + 1
    BY LifecycleAssumption, FS_Interval
  <2>3. IsFiniteSet(runs) /\ Cardinality(runs) <= MaxRetries + 1
    BY <2>1, <2>2, FS_Subset, ZenonT(60)
  <2> QED BY <2>3, SMTT(30)
<1> QED BY <1>1, OverlapHolds, PTL

(***************************************************************************)
(* Without failed Redis commands: the slot is given back before the ack    *)
(***************************************************************************)

AfterRelease == {"deadletter", "xack", "xdel"}

\* A task past release_slot, and an entry that was acked, hold no slot.
ReleaseInv ==
  /\ \A t \in Tasks : task[t].pc \in AfterRelease => t[1] \notin slots
  /\ \A j \in Jobs : times[j] > 0 /\ j \notin pending => j \notin slots

\* A task gets past release_slot by releasing, or stays past it.
LEMMA ReleaseFirst ==
  ASSUME "redis" \notin Faults, IInv, IInv', [Next]_vars, NEW u \in Tasks,
         task'[u].pc \in AfterRelease
  PROVE  u[1] \notin slots' \/ task[u].pc \in AfterRelease
<1> USE DEF queueVars, keyVars, apiVars, workVars
<1>a. task \in [Tasks -> Task] /\ task' \in [Tasks -> Task]
  BY DEF IInv, TypeOK
<1> SUFFICES ASSUME task'[u] # task[u] PROVE u[1] \notin slots' \/ task[u].pc \in AfterRelease
  OBVIOUS
<1>1. ASSUME NEW w \in Workers, Read(w) PROVE FALSE
  <2>1. task'[u] = Started(w, Head(backlog), 1)
    BY <1>1, <1>a, Zenon DEF Read
  <2> QED BY <2>1 DEF Started, NoTask, AfterRelease
<1>2. ASSUME NEW w \in Workers, NEW j \in Jobs, Claim(w, j) PROVE FALSE
  <2>1. task'[u] = Started(w, j, peek[w][j])
    BY <1>2, <1>a DEF Claim
  <2> QED BY <2>1 DEF Started, NoTask, AfterRelease
<1>3. ASSUME NEW w \in Workers, Crash(w) PROVE FALSE
  BY <1>3, Zenon DEF Crash, Ended, NoTask, AfterRelease
<1>4. ASSUME NEW t \in Tasks, TaskStep(t)
      PROVE  u[1] \notin slots' \/ task[u].pc \in AfterRelease
  <2>1. ASSUME CheckCancel(t) PROVE FALSE
    <3>1. CASE Finalize(t, "cancel", "KILLED")
      BY <1>a, <3>1 DEF Finalize, AfterRelease
    <3>2. CASE task' = [task EXCEPT ![t] = [@ EXCEPT !.pc = "runget", !.mode = "try"]]
      BY <1>a, <3>2, Zenon DEF AfterRelease, Task
    <3> QED BY <2>1, <3>1, <3>2, ZenonT(60) DEF CheckCancel
  <2>2. ASSUME ExecuteResult(t) \/ ExecuteRaise(t) PROVE FALSE
    BY <1>a, <2>2 DEF ExecuteResult, ExecuteRaise, Finalize, AfterRelease
  <2>3. ASSUME XDel(t) PROVE FALSE
    BY <1>a, <2>3 DEF XDel, Ended, NoTask, AfterRelease
  <2>4. ASSUME RunningGet(t) PROVE FALSE
    BY <1>a, <2>4, ZenonT(60) DEF RunningGet, Goto, AfterRelease, Task
  <2>5. ASSUME RunningPut(t) \/ RunningPublish(t) PROVE FALSE
    BY <1>a, <2>5, ZenonT(60) DEF RunningPut, RunningPublish, AfterRelease, Task
  <2>6. ASSUME \/ Archive(t) \/ StoreResult(t) \/ TerminalGet(t) \/ TerminalPut(t)
               \/ PublishDone(t)
        PROVE  FALSE
    <3>1. \E p \in PCs \ AfterRelease : Goto(t, p)
      BY <2>6, Zenon DEF Archive, StoreResult, TerminalGet, TerminalPut, PublishDone, AfterRelease, PCs
    <3> QED BY <1>a, <3>1, SMTT(30) DEF Goto, Task
  <2>7. CASE ReleaseSlot(t)
    <3>1. slots' = slots \ {t[1]}
      BY <2>7, SMTT(30) DEF ReleaseSlot, Trouble
    <3>2. u = t
      BY <1>a, <2>7, SMTT(30) DEF ReleaseSlot, Goto
    <3> QED BY <3>1, <3>2, ZenonT(60)
  <2>8. CASE DeadLetter(t) \/ XAck(t)
    <3>1. u = t /\ task[t].pc \in AfterRelease
      BY <1>a, <2>8 DEF DeadLetter, XAck, Goto, AfterRelease
    <3> QED BY <3>1
  <2> QED BY <1>4, <2>1, <2>2, <2>3, <2>4, <2>5, <2>6, <2>7, <2>8, ZenonT(60) DEF TaskStep
<1>5. ASSUME NEW t \in Tasks, WatchCancel(t) PROVE FALSE
  <2>1. u = t /\ task[t].pc = "exec" /\ task'[u].pc = task[u].pc
    BY <1>5, <1>a DEF WatchCancel, Task
  <2> QED BY <2>1 DEF AfterRelease
<1>6. ASSUME NEW t \in Tasks, DockerUnavailable(t) PROVE FALSE
  BY <1>6, <1>a, Zenon DEF DockerUnavailable, Ended, NoTask, AfterRelease
<1>7. ASSUME NEW t \in Tasks, CommandRaises(t) PROVE FALSE
  BY <1>7, Zenon DEF CommandRaises, Trouble
<1>8. ASSUME NEW j \in Jobs, ApiStep(j) \/ GoIdle(j) \/ Expiry(j) PROVE FALSE
  BY <1>8, Zenon DEF ApiStep, AcquireSlot, EnqueueJob, SyncPoll, SyncAnswer, DeleteRead,
     DeleteWrite, DeleteRelease, GoIdle, Expiry, ExpireSlot, ExpireCancel, ExpireRecord
<1>9. ASSUME NEW w \in Workers, NEW j \in Jobs, Peek(w, j) PROVE FALSE
  BY <1>9, Zenon DEF Peek
<1>10. CASE UNCHANGED vars
  BY <1>10, Zenon DEF vars
<1> QED BY <1>1, <1>2, <1>3, <1>4, <1>5, <1>6, <1>7, <1>8, <1>9, <1>10, SMTT(30) DEF Next

\* A slot is taken only before the job is queued.
LEMMA SlotsShrink ==
  ASSUME IInv, [Next]_vars, NEW j \in slots', j \notin slots
  PROVE  api[j] = "new" /\ j \in Jobs /\ times[j] = 0 /\ UNCHANGED <<task, times>>
<1> USE DEF queueVars, keyVars, apiVars, workVars
<1>1. \A i \in Jobs : AcquireSlot(i) => slots' \in {slots, slots \cup {i}}
  BY Zenon DEF AcquireSlot
<1>2. (\A i \in Jobs : ~AcquireSlot(i)) => slots' \subseteq slots
  BY ZenonT(60) DEF Next, vars, ApiStep, EnqueueJob, SyncPoll, SyncAnswer, DeleteRead, DeleteWrite,
     DeleteRelease, GoIdle, Expiry, ExpireSlot, ExpireCancel, ExpireRecord, Read, Crash, Peek,
     Claim, TaskStep, CheckCancel, RunningGet, RunningPut, RunningPublish, ExecuteResult,
     ExecuteRaise, Archive, StoreResult, TerminalGet, TerminalPut, PublishDone, ReleaseSlot,
     DeadLetter, XAck, XDel, WatchCancel, DockerUnavailable, CommandRaises
<1>3. j \in Jobs /\ AcquireSlot(j)
  BY <1>1, <1>2
<1>4. times[j] \in Nat
  BY <1>3, LifecycleAssumption DEF IInv, TypeOK
<1>5. api[j] = "new" /\ UNCHANGED <<task, times>>
  BY <1>3 DEF AcquireSlot
<1>6. times[j] > 0 => api[j] # "new"
  BY <1>3 DEF IInv, QueueInv
<1> QED BY <1>3, <1>4, <1>5, <1>6

\* An entry leaves the pending list only by XACK, and is delivered into it.
LEMMA PendingMoves ==
  ASSUME IInv, [Next]_vars, NEW j \in Jobs, times'[j] > 0, j \notin pending'
  PROVE  \/ times[j] > 0 /\ j \notin pending
         \/ \E t \in Tasks : XAck(t) /\ t[1] = j
<1> USE DEF queueVars, keyVars, apiVars, workVars
<1>a. times \in [Jobs -> 0..MaxDeliveries] /\ idle \subseteq pending
  BY DEF IInv, TypeOK
<1>1. ASSUME NEW w \in Workers, Read(w) PROVE times[j] > 0 /\ j \notin pending
  BY <1>1, <1>a, Zenon DEF Read
<1>2. ASSUME NEW w \in Workers, NEW i \in Jobs, Claim(w, i) PROVE times[j] > 0 /\ j \notin pending
  BY <1>2, <1>a, Zenon DEF Claim
<1>3. ASSUME NEW t \in Tasks, TaskStep(t), ~XAck(t) PROVE UNCHANGED <<times, pending>>
  BY <1>3, Zenon DEF TaskStep, CheckCancel, RunningGet, RunningPut, RunningPublish, ExecuteResult,
     ExecuteRaise, Archive, StoreResult, TerminalGet, TerminalPut, PublishDone, ReleaseSlot,
     DeadLetter, XDel
<1>4. ASSUME NEW t \in Tasks, XAck(t) PROVE UNCHANGED times /\ pending' = pending \ {t[1]}
  BY <1>4 DEF XAck
<1>5. ASSUME NEW t \in Tasks, WatchCancel(t) \/ DockerUnavailable(t) \/ CommandRaises(t)
      PROVE  UNCHANGED <<times, pending>>
  BY <1>5, Zenon DEF WatchCancel, DockerUnavailable, CommandRaises
<1>6. ASSUME NEW i \in Jobs, ApiStep(i) \/ GoIdle(i) \/ Expiry(i)
      PROVE  UNCHANGED <<times, pending>>
  BY <1>6, Zenon DEF ApiStep, AcquireSlot, EnqueueJob, SyncPoll, SyncAnswer, DeleteRead,
     DeleteWrite, DeleteRelease, GoIdle, Expiry, ExpireSlot, ExpireCancel, ExpireRecord
<1>7. ASSUME NEW w \in Workers, Crash(w) \/ \E i \in Jobs : Peek(w, i)
      PROVE  UNCHANGED <<times, pending>>
  BY <1>7, Zenon DEF Crash, Peek
<1>8. CASE UNCHANGED vars
  BY <1>8, Zenon DEF vars
<1> QED BY <1>1, <1>2, <1>3, <1>4, <1>5, <1>6, <1>7, <1>8, ZenonT(60) DEF Next

\* Without failed Redis commands, and whatever else goes wrong, a job at rest holds
\* no slot: release_slot comes before XACK, and nobody takes a slot for a job that
\* is queued (result_store.py, release_slot; worker.py, _process).
THEOREM RestHoldsNoSlot ==
  ASSUME "redis" \notin Faults
  PROVE  Spec => []SettledHoldsNoSlot
<1>1. Init => ReleaseInv
  BY DEF Init, ReleaseInv, NoTask, AfterRelease
<1>2. ASSUME IInv, IInv', ReleaseInv, [Next]_vars PROVE ReleaseInv'
  <2>1. ASSUME NEW t \in Tasks, task'[t].pc \in AfterRelease PROVE t[1] \notin slots'
    <3>1. t[1] \in Jobs /\ TaskInv(t)
      BY <1>2 DEF Tasks, IInv
    <3>2. t[1] \notin slots' \/ task[t].pc \in AfterRelease
      BY <1>2, <2>1, ReleaseFirst
    <3>3. CASE task[t].pc \in AfterRelease
      <4>1. t[1] \notin slots /\ times[t[1]] > 0
        BY <1>2, <3>1, <3>3 DEF ReleaseInv, TaskInv, AfterRelease
      <4> QED BY <1>2, <4>1, SlotsShrink, SMTT(30)
    <3> QED BY <3>2, <3>3
  <2>2. ASSUME NEW j \in Jobs, times'[j] > 0, j \notin pending' PROVE j \notin slots'
    <3>1. j \notin slots
      <4>1. ASSUME NEW t \in Tasks, XAck(t), t[1] = j PROVE j \notin slots
        BY <1>2, <4>1, Zenon DEF XAck, ReleaseInv, AfterRelease
      <4> QED BY <1>2, <2>2, <4>1, PendingMoves, Zenon DEF ReleaseInv
    <3>2. ASSUME j \in slots' PROVE FALSE
      BY <1>2, <2>2, <3>1, <3>2, SlotsShrink
    <3> QED BY <3>2
  <2> QED BY <2>1, <2>2 DEF ReleaseInv
<1>3. ReleaseInv => SettledHoldsNoSlot
  BY Zenon DEF ReleaseInv, SettledHoldsNoSlot, Settled
<1> QED BY <1>1, <1>2, <1>3, SpecIInv, PTL DEF Spec

(***************************************************************************)
(* Without crashes and failed commands: XLEN is the work still to do       *)
(***************************************************************************)

\* An entry in the stream is undelivered, pending, or acked and about to be
\* deleted.
DepthInv ==
  \A j \in stream : \/ j \in Entries(backlog) \cup pending
                    \/ \E t \in Tasks : t[1] = j /\ task[t].pc = "xdel"

\* A task is a delivery that was counted.
CountInv == \A t \in Tasks : task[t].pc # "none" => t[2] <= times[t[1]]

\* Every step keeps CountInv.
LEMMA NextCount ==
  ASSUME IInv, IInv', CountInv, [Next]_vars
  PROVE  CountInv'
<1> SUFFICES ASSUME NEW u \in Tasks, task'[u].pc # "none" PROVE u[2] <= times'[u[1]]
  BY ZenonT(60) DEF CountInv
<1>1. /\ u[1] \in Jobs /\ u[2] \in Nat /\ times \in [Jobs -> Nat] /\ times' \in [Jobs -> Nat]
      /\ times[u[1]] <= times'[u[1]]
  <2>1. u[1] \in Jobs /\ u[2] \in Nat
    BY LifecycleAssumption DEF Tasks, Deliveries
  <2>2. times \in [Jobs -> Nat] /\ times' \in [Jobs -> Nat]
    BY LifecycleAssumption, SMTT(30) DEF IInv, TypeOK
  <2>3. times[u[1]] <= times'[u[1]]
    BY <2>1, NextGrows, Zenon DEF IInv, Grows
  <2> QED BY <2>1, <2>2, <2>3
<1>2. CASE task[u].pc # "none"
  BY <1>1, <1>2 DEF CountInv
<1>3. ASSUME NEW w \in Workers, Read(w), u = <<Head(backlog), 1>> PROVE u[2] <= times'[u[1]]
  BY <1>1, <1>3, SMTT(30) DEF Read
<1>4. ASSUME NEW w \in Workers, Claim(w, u[1]), u[1] \in idle, u[2] = times[u[1]] + 1
      PROVE  u[2] <= times'[u[1]]
  BY <1>1, <1>4 DEF Claim
<1>5. TaskMoved(u)
  BY TaskMoves, Zenon
<1> QED BY <1>2, <1>3, <1>4, <1>5, Zenon DEF TaskMoved

\* A task between XACK and XDEL goes on to XDEL.
LEMMA DeletesNext ==
  ASSUME "redis" \notin Faults, "crash" \notin Faults, IInv, CountInv, [Next]_vars,
         NEW u \in Tasks, task[u].pc = "xdel"
  PROVE  task'[u] = task[u] \/ XDel(u)
<1> USE DEF queueVars, keyVars, apiVars, workVars
<1>a. /\ task \in [Tasks -> Task] /\ u[1] \in Jobs /\ times[u[1]] \in Nat
      /\ u[2] \in Nat \ {0} /\ u[2] <= times[u[1]]
  <2>1. task \in [Tasks -> Task] /\ times \in [Jobs -> Nat]
    BY LifecycleAssumption DEF IInv, TypeOK
  <2>2. u[1] \in Jobs /\ u[2] \in Nat \ {0}
    BY LifecycleAssumption DEF Tasks, Deliveries
  <2>3. u[2] <= times[u[1]]
    BY DEF CountInv
  <2> QED BY <2>1, <2>2, <2>3, Zenon
<1>1. ASSUME NEW w \in Workers, Read(w) PROVE task'[u] = task[u]
  <2>1. times[Head(backlog)] = 0
    BY <1>1, ReadIsFirst, SMTT(30)
  <2>2. u # <<Head(backlog), 1>>
    BY <1>a, <2>1
  <2> QED BY <1>1, <1>a, <2>2, Zenon DEF Read
<1>2. ASSUME NEW w \in Workers, NEW j \in Jobs, Claim(w, j) PROVE task'[u] = task[u]
  <2>1. u # <<j, times[j] + 1>>
    BY <1>a
  <2> QED BY <1>2, <1>a, <2>1, Zenon DEF Claim
<1>3. ASSUME NEW t \in Tasks, t # u, NEW k, task' = [task EXCEPT ![t] = k] PROVE task'[u] = task[u]
  BY <1>3, <1>a
<1>4. ASSUME NEW t \in Tasks, t # u, NEW p, Goto(t, p) PROVE task'[u] = task[u]
  BY <1>4, <1>a, Zenon DEF Goto
<1>5. ASSUME NEW t \in Tasks, TaskStep(t) PROVE task'[u] = task[u] \/ XDel(u)
  <2>1. CASE t = u
    BY <1>5, <2>1, Zenon DEF TaskStep, CheckCancel, RunningGet, RunningPut, RunningPublish,
      ExecuteResult, ExecuteRaise, Archive, StoreResult, TerminalGet, TerminalPut,
      PublishDone, ReleaseSlot, DeadLetter, XAck
  <2>2. CASE t # u
    <3>1. \/ \E k : task' = [task EXCEPT ![t] = k]
          \/ \E p : Goto(t, p)
      BY <1>5, Zenon DEF TaskStep, CheckCancel, RunningGet, RunningPut, RunningPublish,
        ExecuteResult, ExecuteRaise, Archive, StoreResult, TerminalGet, TerminalPut,
        PublishDone, ReleaseSlot, DeadLetter, XAck, XDel, Finalize
    <3> QED BY <1>3, <1>4, <2>2, <3>1, Zenon
  <2> QED BY <2>1, <2>2, Zenon
<1>6. ASSUME NEW t \in Tasks, WatchCancel(t) PROVE task'[u] = task[u]
  <2>1. t # u
    BY <1>6, Zenon DEF WatchCancel
  <2> QED BY <1>6, <1>a, <2>1 DEF WatchCancel
<1>7. ASSUME NEW t \in Tasks, DockerUnavailable(t) PROVE task'[u] = task[u]
  <2>1. t # u
    BY <1>7, Zenon DEF DockerUnavailable
  <2> QED BY <1>7, <1>a, <2>1, Zenon DEF DockerUnavailable
<1>8. ASSUME NEW t \in Tasks, CommandRaises(t) PROVE FALSE
  BY <1>8, Zenon DEF CommandRaises, Trouble
<1>9. ASSUME NEW w \in Workers, Crash(w) PROVE FALSE
  BY <1>9, Zenon DEF Crash, Trouble
<1>10. ASSUME NEW j \in Jobs, ApiStep(j) \/ GoIdle(j) \/ Expiry(j) PROVE task'[u] = task[u]
  BY <1>10, Zenon DEF ApiStep, AcquireSlot, EnqueueJob, SyncPoll, SyncAnswer, DeleteRead,
     DeleteWrite, DeleteRelease, GoIdle, Expiry, ExpireSlot, ExpireCancel, ExpireRecord
<1>11. ASSUME NEW w \in Workers, NEW j \in Jobs, Peek(w, j) PROVE task'[u] = task[u]
  BY <1>11, ZenonT(60) DEF Peek
<1>12. CASE UNCHANGED vars
  BY <1>12 DEF vars
<1> QED BY <1>1, <1>2, <1>5, <1>6, <1>7, <1>8, <1>9, <1>10, <1>11, <1>12, ZenonT(60) DEF Next

\* An entry is added to the stream and the backlog at once, and leaves the backlog
\* for the pending list, and that by XACK.
LEMMA StreamMoves ==
  ASSUME IInv, IInv', [Next]_vars, NEW j \in stream'
  PROVE  \/ j \in Entries(backlog') \cup pending'
         \/ j \in stream /\ j \notin Entries(backlog) \cup pending
         \/ \E t \in Tasks : XAck(t) /\ t[1] = j
<1> USE DEF queueVars, keyVars, apiVars, workVars
<1>a. backlog \in Seq(Jobs) /\ Distinct(backlog) /\ idle \subseteq pending
  BY DEF IInv, TypeOK, QueueInv
<1>2. ASSUME NEW w \in Workers, Read(w)
      PROVE  j \in Entries(backlog') \cup pending' \/ j \notin Entries(backlog) \cup pending
  <2>1. Entries(backlog') = Entries(backlog) \ {Head(backlog)}
    BY <1>2, <1>a, TailEntries, Zenon DEF Read
  <2>2. pending' = pending \cup {Head(backlog)}
    BY <1>2 DEF Read
  <2> QED BY <2>1, <2>2, Zenon
<1>3. ASSUME NEW w \in Workers, Read(w) PROVE UNCHANGED stream
  BY <1>3 DEF Read
<1>4. ASSUME NEW i \in Jobs, EnqueueJob(i), ~UNCHANGED <<stream, backlog, pending>>
      PROVE  j \in Entries(backlog') \/ (j \in stream /\ j \notin Entries(backlog)) \/ j \in pending'
  <2>1. backlog' = Append(backlog, i) /\ stream' = stream \cup {i} /\ pending' = pending
    BY <1>4 DEF EnqueueJob, AddEntry
  <2>2. api[i] = "granted"
    BY <1>4, ZenonT(60) DEF EnqueueJob
  <2>3. i \notin Entries(backlog)
    BY <2>2 DEF IInv, QueueInv
  <2>4. Entries(backlog') = Entries(backlog) \cup {i}
    BY <1>a, <2>1, <2>3, AppendEntries, Zenon
  <2> QED BY <2>1, <2>4, Zenon
<1>5. ASSUME NEW t \in Tasks, XAck(t) PROVE UNCHANGED <<stream, backlog>> /\ pending' = pending \ {t[1]}
  BY <1>5, Zenon DEF XAck
<1>6. ASSUME NEW t \in Tasks, XDel(t) PROVE stream' \subseteq stream /\ UNCHANGED <<backlog, pending>>
  BY <1>6, ZenonT(60) DEF XDel
<1>7. ASSUME NEW t \in Tasks, TaskStep(t), ~XAck(t), ~XDel(t)
      PROVE  UNCHANGED <<stream, backlog, pending>>
  BY <1>7, Zenon DEF TaskStep, CheckCancel, RunningGet, RunningPut, RunningPublish, ExecuteResult,
     ExecuteRaise, Archive, StoreResult, TerminalGet, TerminalPut, PublishDone, ReleaseSlot,
     DeadLetter
<1>8. ASSUME NEW t \in Tasks, WatchCancel(t) \/ DockerUnavailable(t) \/ CommandRaises(t)
      PROVE  UNCHANGED <<stream, backlog, pending>>
  BY <1>8, Zenon DEF WatchCancel, DockerUnavailable, CommandRaises
<1>9. ASSUME NEW i \in Jobs, ApiStep(i) \/ GoIdle(i) \/ Expiry(i), ~EnqueueJob(i)
      PROVE  UNCHANGED <<stream, backlog, pending>>
  BY <1>9, Zenon DEF ApiStep, AcquireSlot, SyncPoll, SyncAnswer, DeleteRead,
     DeleteWrite, DeleteRelease, GoIdle, Expiry, ExpireSlot, ExpireCancel, ExpireRecord
<1>10. ASSUME NEW w \in Workers, NEW i \in Jobs, Peek(w, i) \/ Claim(w, i)
       PROVE  UNCHANGED <<stream, backlog, pending>>
  BY <1>10, Zenon DEF Peek, Claim
<1>11. ASSUME NEW w \in Workers, Crash(w) PROVE UNCHANGED <<stream, backlog, pending>>
  BY <1>11 DEF Crash
<1>12. ASSUME UNCHANGED vars PROVE UNCHANGED <<stream, backlog, pending>>
  BY <1>12, SMTT(30) DEF vars
<1> DEFINE Goal == \/ j \in Entries(backlog') \cup pending'
                   \/ j \in stream /\ j \notin Entries(backlog) \cup pending
                   \/ \E t \in Tasks : XAck(t) /\ t[1] = j
<1>13. ASSUME UNCHANGED <<stream, backlog, pending>> PROVE Goal
  BY <1>13 DEF Entries
<1> HIDE DEF Goal
<1>14. ASSUME NEW t \in Tasks, TaskStep(t) \/ WatchCancel(t) \/ DockerUnavailable(t) \/ CommandRaises(t)
       PROVE  Goal
  <2>1. ASSUME XAck(t) PROVE Goal
    BY <2>1, <1>5 DEF Goal
  <2>2. ASSUME XDel(t) PROVE Goal
    BY <2>2, <1>6, Zenon DEF Goal
  <2> QED BY <1>7, <1>8, <1>13, <1>14, <2>1, <2>2, ZenonT(60)
<1>15. ASSUME NEW w \in Workers, Read(w) PROVE Goal
  BY <1>2, <1>3, <1>15, SMTT(30) DEF Goal
<1>16. ASSUME NEW i \in Jobs, ApiStep(i) \/ GoIdle(i) \/ Expiry(i) PROVE Goal
  <2>1. ASSUME EnqueueJob(i), ~UNCHANGED <<stream, backlog, pending>> PROVE Goal
    <3>1. pending' = pending
      BY <2>1 DEF EnqueueJob
    <3> QED BY <1>4, <2>1, <3>1, Zenon DEF Goal
  <2> QED BY <1>9, <1>13, <1>16, <2>1, Zenon
<1>17. Goal
  BY <1>10, <1>11, <1>12, <1>13, <1>14, <1>15, <1>16, ZenonT(60) DEF Next
<1> QED BY <1>17, ZenonT(60) DEF Goal

\* While no worker crashes and no Redis command fails, and however deliveries
\* overlap, the stream holds only work that is not yet finished, so that XLEN is
\* the queue's depth (consumer.py, ack and queue_depth).
THEOREM StreamIsDepth ==
  ASSUME "redis" \notin Faults, "crash" \notin Faults
  PROVE  Spec => []StreamIsUnfinishedWork
<1>1. Init => DepthInv /\ CountInv
  BY DEF Init, DepthInv, CountInv, NoTask
<1>2. ASSUME IInv, IInv', DepthInv, CountInv, [Next]_vars PROVE DepthInv'
  <2> SUFFICES ASSUME NEW j \in stream', j \notin Entries(backlog') \cup pending'
               PROVE  \E t \in Tasks : t[1] = j /\ task'[t].pc = "xdel"
    BY SMTT(30) DEF DepthInv, Entries
  <2>1. ASSUME NEW t \in Tasks, XAck(t), t[1] = j PROVE task'[t].pc = "xdel"
    BY <1>2, <2>1, SMTT(30) DEF XAck, Goto, IInv, TypeOK, Task
  <2>2. CASE j \in stream /\ j \notin Entries(backlog) \cup pending
    <3>1. PICK t \in Tasks : t[1] = j /\ task[t].pc = "xdel"
      BY <1>2, <2>2, SMTT(30) DEF DepthInv
    <3>2. ~XDel(t)
      BY <3>1 DEF XDel
    <3>3. task'[t] = task[t]
      BY <1>2, <3>1, <3>2, DeletesNext
    <3> QED BY <3>1, <3>3, SMTT(30)
  <2> QED BY <1>2, <2>1, <2>2, StreamMoves, Zenon
<1>3. ASSUME IInv, IInv', CountInv, [Next]_vars PROVE CountInv'
  BY <1>3, NextCount, SMTT(30)
<1>4. DepthInv => StreamIsUnfinishedWork
  <2> SUFFICES ASSUME DepthInv, NEW j \in stream, j \notin Entries(backlog) \cup pending
               PROVE  \E d \in Deliveries : Live(<<j, d>>)
    BY DEF StreamIsUnfinishedWork
  <2>1. PICK t \in Tasks : t[1] = j /\ task[t].pc = "xdel"
    BY SMTT(30) DEF DepthInv
  <2>2. t = <<j, t[2]>> /\ t[2] \in Deliveries
    BY <2>1 DEF Tasks
  <2> QED BY <2>1, <2>2, SMTT(30) DEF Live
<1> QED BY <1>1, <1>2, <1>3, <1>4, SpecIInv, PTL DEF Spec
=============================================================================
