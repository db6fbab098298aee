-------------------------- MODULE JobPromiseProofs --------------------------
(***************************************************************************)
(* What JobLifecycle promises, for every set of jobs and workers, every    *)
(* bound and every combination of faults: no accepted job is lost, only    *)
(* spent ones are dead-lettered, one cancelled in time never runs, and the *)
(* lifecycle implements JobPromise.                                        *)
(***************************************************************************)
EXTENDS JobLifecycleProofs

(***************************************************************************)
(* Nothing is lost, and only spent jobs are dead-lettered                  *)
(***************************************************************************)

\* An accepted job stays in the stream until its result is stored and announced.
LEMMA NextNothingLost ==
  ASSUME TypeOK, TypeOK', \A t \in Tasks : TaskInv(t), QueueInv, NothingLost, [Next]_vars
  PROVE  NothingLost'
<1> USE DEF queueVars, keyVars, apiVars, workVars
<1>0. Grows
  BY NextGrows, SMTT(30)
<1> SUFFICES ASSUME NEW j \in Jobs, Accepted(j)'
             PROVE  \/ j \in Entries(backlog') \/ j \in pending'
                    \/ result'[j] # NoResult /\ j \in announced'
  BY Zenon DEF NothingLost, Entries
<1>a. times \in [Jobs -> Nat] /\ times' \in [Jobs -> Nat]
  BY LifecycleAssumption, SMTT(30) DEF TypeOK
<1>b. Accepted(j) => \/ j \in Entries(backlog) \/ j \in pending
                     \/ result'[j] # NoResult /\ j \in announced'
  <2>1. /\ result[j] # NoResult => result'[j] # NoResult
        /\ announced \subseteq announced'
    BY <1>0, Zenon DEF Grows
  <2> QED BY <2>1, Zenon DEF NothingLost
<1>1. CASE UNCHANGED <<api, times, backlog>> /\ pending \subseteq pending'
  BY <1>1, <1>b, Zenon DEF Accepted
<1>2. ASSUME NEW i \in Jobs, AcquireSlot(i) PROVE Accepted(j) /\ UNCHANGED <<backlog, pending>>
  BY <1>2, SMTT(30) DEF AcquireSlot, Accepted, TypeOK
<1>3. ASSUME NEW i \in Jobs, SyncPoll(i) \/ SyncAnswer(i)
      PROVE  Accepted(j) /\ UNCHANGED <<backlog, pending>>
  <2>1. /\ api[i] \in {"waiting", "done", "late"}
        /\ \E a \in {"done", "late", "200", "408", "failed"} : api' = [api EXCEPT ![i] = a]
    BY <1>3, Zenon DEF SyncPoll, SyncAnswer
  <2> QED BY <1>3, <2>1, SMTT(30) DEF SyncPoll, SyncAnswer, Accepted, TypeOK
<1>4. ASSUME NEW i \in Jobs, EnqueueJob(i)
      PROVE  \/ j \in Entries(backlog')
             \/ /\ Accepted(j)
                /\ Entries(backlog) \subseteq Entries(backlog')
                /\ UNCHANGED pending
  <2>1. CASE backlog' = Append(backlog, i)
    <3>1. Entries(backlog') = Entries(backlog) \cup {i}
      BY <2>1, AppendEntries, Zenon DEF TypeOK
    <3>2. i # j => api'[j] = api[j]
      BY <1>4, SMTT(30) DEF EnqueueJob, TypeOK
    <3> QED BY <1>4, <3>1, <3>2, Zenon DEF EnqueueJob, Accepted
  <2>2. CASE backlog' = backlog /\ api' = [api EXCEPT ![i] = "failed"]
    BY <1>4, <2>2, SMTT(30) DEF EnqueueJob, Accepted, TypeOK
  <2> QED BY <1>4, <2>1, <2>2, SMTT(30) DEF EnqueueJob, AddEntry
<1>5. ASSUME NEW w \in Workers, Read(w)
      PROVE  \/ j \in pending'
             \/ Accepted(j) /\ (j \in Entries(backlog) => j \in Entries(backlog'))
  <2> DEFINE h == Head(backlog)
  <2>1. Entries(backlog') = Entries(backlog) \ {h} /\ h \in Entries(backlog)
    BY <1>5, TailEntries, SMTT(30) DEF Read, TypeOK, QueueInv
  <2>2. h \in pending' /\ UNCHANGED api
    BY <1>5, SMTT(30) DEF Read
  <2>3. j # h => times'[j] = times[j]
    BY <1>5, <1>a, SMTT(30) DEF Read
  <2> HIDE DEF h
  <2> QED BY <2>1, <2>2, <2>3, Zenon DEF Accepted
<1>6. ASSUME NEW w \in Workers, NEW i \in Jobs, Claim(w, i)
      PROVE  \/ j \in pending'
             \/ Accepted(j) /\ UNCHANGED <<backlog, pending>>
  BY <1>6, <1>a, ZenonT(60) DEF Claim, Accepted, TypeOK
<1>7. ASSUME NEW t \in Tasks, XAck(t)
      PROVE  \/ result'[j] # NoResult /\ j \in announced'
             \/ Accepted(j) /\ (j \in pending => j \in pending') /\ UNCHANGED backlog
  <2>1. result[t[1]] # NoResult /\ t[1] \in announced
    BY <1>7 DEF XAck, TaskInv
  <2> QED BY <1>7, <2>1 DEF XAck, Accepted
<1>8. ASSUME NEW i \in Jobs, \/ DeleteRead(i) \/ DeleteWrite(i) \/ DeleteRelease(i)
                             \/ GoIdle(i) \/ Expiry(i)
      PROVE  UNCHANGED <<api, times, backlog>> /\ pending \subseteq pending'
  BY <1>8, Zenon DEF DeleteRead, DeleteWrite, DeleteRelease, GoIdle, Expiry, ExpireSlot,
     ExpireCancel, ExpireRecord
<1>9. ASSUME NEW t \in Tasks, TaskStep(t), ~XAck(t)
      PROVE  UNCHANGED <<api, times, backlog>> /\ pending \subseteq pending'
  BY <1>9, Zenon DEF TaskStep, CheckCancel, RunningGet, RunningPut, RunningPublish,
     ExecuteResult, ExecuteRaise, Archive, StoreResult, TerminalGet, TerminalPut, PublishDone,
     ReleaseSlot, DeadLetter, XDel
<1>10. ASSUME NEW t \in Tasks, WatchCancel(t) \/ DockerUnavailable(t) \/ CommandRaises(t)
       PROVE  UNCHANGED <<api, times, backlog>> /\ pending \subseteq pending'
  BY <1>10, Zenon DEF WatchCancel, DockerUnavailable, CommandRaises
<1>11. ASSUME NEW w \in Workers, Crash(w) \/ \E i \in Jobs : Peek(w, i)
       PROVE  UNCHANGED <<api, times, backlog>> /\ pending \subseteq pending'
  BY <1>11, Zenon DEF Crash, Peek
<1>12. CASE UNCHANGED vars
  BY <1>1, <1>12, SMTT(30) DEF vars
<1>13. CASE \E i \in Jobs : ApiStep(i) \/ GoIdle(i) \/ Expiry(i)
  BY <1>b, <1>1, <1>2, <1>3, <1>4, <1>8, <1>13, Zenon DEF ApiStep
<1>14. CASE \E w \in Workers : Read(w) \/ Crash(w)
  <2>1. ASSUME NEW w \in Workers, Read(w)
        PROVE  \/ j \in Entries(backlog') \/ j \in pending'
               \/ result'[j] # NoResult /\ j \in announced'
    <3>1. pending \subseteq pending'
      BY <2>1, Zenon DEF Read
    <3> QED BY <1>5, <1>b, <2>1, <3>1, SMTT(30)
  <2> QED BY <1>1, <1>11, <1>14, <2>1, SMTT(30)
<1>15. CASE \E w \in Workers, i \in Jobs : Peek(w, i) \/ Claim(w, i)
  BY <1>b, <1>1, <1>6, <1>11, <1>15, Zenon
<1>16. CASE \E t \in Tasks : \/ TaskStep(t) \/ WatchCancel(t) \/ DockerUnavailable(t)
                             \/ CommandRaises(t)
  BY <1>b, <1>1, <1>7, <1>9, <1>10, <1>16, Zenon
<1> QED BY <1>12, <1>13, <1>14, <1>15, <1>16 DEF Next

\* Only a task on the dead-letter branch adds to the dead-letter stream.
LEMMA NextDeadLetters ==
  ASSUME TypeOK, TypeOK', \A t \in Tasks : TaskInv(t), QueueInv, DeadLettersAreSpent, [Next]_vars
  PROVE  DeadLettersAreSpent'
<1> USE DEF queueVars, keyVars, apiVars, workVars
<1>0. Grows
  BY NextGrows
<1>a. times \in [Jobs -> Nat] /\ times' \in [Jobs -> Nat] /\ MaxRetries \in Nat
  BY LifecycleAssumption, SMTT(30) DEF TypeOK
<1>b. dead \subseteq Jobs
  BY Zenon DEF TypeOK
<1>c. \A j \in dead : /\ result'[j] # NoResult
                      /\ \/ j \in Malformed
                         \/ times'[j] > MaxRetries + 1
                         \/ MaxRetries = 0 /\ times'[j] > 0
  BY <1>0, <1>a, <1>b, SMTT(30) DEF Grows, DeadLettersAreSpent
<1>1. CASE UNCHANGED dead
  BY <1>c, <1>1, Zenon DEF DeadLettersAreSpent
<1>2. ASSUME NEW t \in Tasks, DeadLetter(t) PROVE DeadLettersAreSpent'
  <2>1. /\ result[t[1]] # NoResult
        /\ \/ t[1] \in Malformed
           \/ times[t[1]] > MaxRetries + 1
           \/ MaxRetries = 0 /\ times[t[1]] > 0
    <3>1. task[t].pc = "deadletter" /\ TaskInv(t)
      BY <1>2, Zenon DEF DeadLetter
    <3> QED BY <3>1 DEF TaskInv
  <2>2. UNCHANGED <<result, times>> /\ dead' = dead \cup {t[1]}
    BY <1>2, Zenon DEF DeadLetter
  <2> QED BY <1>c, <2>1, <2>2, Zenon DEF DeadLettersAreSpent
<1>3. ASSUME NEW j \in Jobs, ApiStep(j) \/ GoIdle(j) \/ Expiry(j) PROVE UNCHANGED dead
  BY <1>3, Zenon DEF ApiStep, AcquireSlot, EnqueueJob, SyncPoll, SyncAnswer, DeleteRead, DeleteWrite,
     DeleteRelease, GoIdle, Expiry, ExpireSlot, ExpireCancel, ExpireRecord
<1>4. ASSUME NEW w \in Workers, \/ Read(w) \/ Crash(w)
                                \/ \E j \in Jobs : Peek(w, j) \/ Claim(w, j)
      PROVE  UNCHANGED dead
  BY <1>4, ZenonT(60) DEF Read, Crash, Peek, Claim
<1>5. ASSUME NEW t \in Tasks, TaskStep(t), ~DeadLetter(t) PROVE UNCHANGED dead
  BY <1>5 DEF TaskStep, CheckCancel, RunningGet, RunningPut, RunningPublish,
     ExecuteResult, ExecuteRaise, Archive, StoreResult, TerminalGet, TerminalPut, PublishDone,
     ReleaseSlot, XAck, XDel
<1>6. ASSUME NEW t \in Tasks, WatchCancel(t) \/ DockerUnavailable(t) \/ CommandRaises(t)
      PROVE  UNCHANGED dead
  BY <1>6, Zenon DEF WatchCancel, DockerUnavailable, CommandRaises
<1>7. CASE UNCHANGED vars
  BY <1>7, <1>1 DEF vars
<1> QED BY <1>1, <1>2, <1>3, <1>4, <1>5, <1>6, <1>7, Zenon DEF Next

\* The initial state satisfies the inductive invariant.
LEMMA InitIInv == Init => IInv
<1> SUFFICES ASSUME Init PROVE IInv
  OBVIOUS
<1>1. TypeOK
  BY InitTypeOK, Zenon
<1>2. Entries(backlog) = {}
  BY SMTT(30) DEF Init, Entries
<1>3. \A t \in Tasks : TaskInv(t)
  BY Zenon DEF Init, TaskInv, NoTask
<1>4. QueueInv
  BY <1>2, SMTT(30) DEF Init, QueueInv, Distinct
<1>5. NothingLost /\ DeadLettersAreSpent
  BY DEF Init, NothingLost, DeadLettersAreSpent, Accepted
<1> QED BY <1>1, <1>3, <1>4, <1>5 DEF IInv

\* Every step keeps it.
LEMMA NextIInv == IInv /\ [Next]_vars => IInv'
<1> SUFFICES ASSUME IInv, [Next]_vars PROVE IInv'
  OBVIOUS
<1>1. TypeOK'
  BY NextTypeOK DEF IInv
<1>2. (\A t \in Tasks : TaskInv(t))'
  BY <1>1, NextTaskInv DEF IInv, Tasks, Deliveries
<1>3. QueueInv' /\ NothingLost' /\ DeadLettersAreSpent'
  BY <1>1, NextQueueInv, NextNothingLost, NextDeadLetters DEF IInv
<1> QED BY <1>1, <1>2, <1>3 DEF IInv

\* IInv is an invariant of every behaviour.
LEMMA SpecIInv == Spec => []IInv
  BY InitIInv, NextIInv, PTL DEF Spec

\* TypeOK holds for every instance.
THEOREM TypeCorrect == Spec => []TypeOK
<1>1. IInv => TypeOK
  BY DEF IInv
<1> QED BY <1>1, SpecIInv, PTL

\* However many workers crash, stall or race, and whichever Redis commands of
\* the API and of _process fail, an accepted job is in the stream, pending, or
\* has a stored and announced result.
THEOREM NeverLost == Spec => []NothingLost
<1>1. IInv => NothingLost
  BY DEF IInv
<1> QED BY <1>1, SpecIInv, PTL

\* _process dead-letters only entries that do not parse or have used up their
\* deliveries, and only after storing a result for them.
THEOREM OnlySpentAreDead == Spec => []DeadLettersAreSpent
<1>1. IInv => DeadLettersAreSpent
  BY DEF IInv
<1> QED BY <1>1, SpecIInv, PTL

(***************************************************************************)
(* A job cancelled in the backlog never runs                               *)
(***************************************************************************)

\* A flagged job keeps its flag, and no delivery of it is in the try block.
CancelInv ==
  \A j \in Jobs : killed[j] = "queued" =>
     /\ j \in cancelled
     /\ \A d \in Deliveries : task[<<j, d>>].mode \notin {"try", "except"}

\* A task enters the try block only by finding no cancel flag.
LEMMA EntersTry ==
  ASSUME TypeOK, TypeOK', \A t \in Tasks : TaskInv(t), [Next]_vars,
         NEW u \in Tasks, task'[u].mode \in {"try", "except"},
         task[u].mode \notin {"try", "except"}
  PROVE  u[1] \notin cancelled
<1> USE DEF queueVars, keyVars, apiVars, workVars
<1>a. task \in [Tasks -> Task] /\ task' \in [Tasks -> Task]
  BY DEF TypeOK
<1>b. TaskInv(u) /\ task[u] \in Task /\ task'[u] # task[u]
  BY <1>a
<1>1. ASSUME NEW w \in Workers, Read(w) PROVE FALSE
  <2>1. task' = [task EXCEPT ![<<Head(backlog), 1>>] = Started(w, Head(backlog), 1)]
    BY <1>1, <1>b DEF Read
  <2>2. task'[u] = Started(w, Head(backlog), 1)
    BY <1>a, <1>b, <2>1
  <2> QED BY <2>2 DEF Started, NoTask
<1>2. ASSUME NEW w \in Workers, NEW j \in Jobs, Claim(w, j) PROVE FALSE
  <2>1. task' = [task EXCEPT ![<<j, times[j] + 1>>] = Started(w, j, peek[w][j])]
    BY <1>2, <1>b DEF Claim
  <2>2. task'[u] = Started(w, j, peek[w][j])
    BY <1>a, <1>b, <2>1, SMTT(30)
  <2> QED BY <2>2 DEF Started, NoTask
<1>3. ASSUME NEW w \in Workers, Crash(w) PROVE FALSE
  BY <1>3, <1>b, ZenonT(60) DEF Crash, Ended, NoTask
<1>4. ASSUME NEW t \in Tasks, TaskStep(t) PROVE u[1] \notin cancelled
  <2>1. CASE CheckCancel(t)
    <3>1. CASE t[1] \in cancelled
      BY <1>a, <1>b, <2>1, <3>1 DEF CheckCancel, Finalize
    <3>2. CASE t[1] \notin cancelled
      BY <1>a, <1>b, <2>1, <3>2, Zenon DEF CheckCancel
    <3> QED BY <3>1, <3>2
  <2>2. CASE ExecuteResult(t) \/ ExecuteRaise(t)
    <3>1. u = t
      BY <1>a, <1>b, <2>2 DEF ExecuteResult, ExecuteRaise, Finalize
    <3> QED BY <1>b, <2>2, <3>1 DEF ExecuteResult, ExecuteRaise, TaskInv
  <2>3. CASE XDel(t)
    BY <1>a, <1>b, <2>3 DEF XDel, Ended, NoTask
  <2>4. ASSUME NEW p \in PCs, Goto(t, p) PROVE FALSE
    BY <1>a, <1>b, <2>4 DEF Goto, Task
  <2>5. CASE RunningPut(t) \/ RunningPublish(t)
    <3>1. u = t
      BY <1>a, <1>b, <2>5, Zenon DEF RunningPut, RunningPublish
    <3> QED BY <1>b, <2>5, <3>1 DEF RunningPut, RunningPublish, TaskInv
  <2>6. CASE RunningGet(t)
    <3>1. u = t
      BY <1>a, <1>b, <2>6, ZenonT(60) DEF RunningGet, Goto
    <3> QED BY <1>b, <2>6, <3>1 DEF RunningGet, TaskInv
  <2>7. \/ Archive(t) \/ StoreResult(t) \/ TerminalGet(t) \/ TerminalPut(t)
        \/ PublishDone(t) \/ ReleaseSlot(t) \/ DeadLetter(t) \/ XAck(t)
        => \E p \in PCs : Goto(t, p)
    BY DEF Archive, StoreResult, TerminalGet, TerminalPut, PublishDone, ReleaseSlot,
           DeadLetter, XAck, PCs
  <2> QED BY <1>4, <2>1, <2>2, <2>3, <2>4, <2>5, <2>6, <2>7 DEF TaskStep
<1>5. ASSUME NEW t \in Tasks, WatchCancel(t) PROVE FALSE
  BY <1>5, <1>a, <1>b DEF WatchCancel, Task
<1>6. ASSUME NEW t \in Tasks, DockerUnavailable(t) PROVE FALSE
  BY <1>6, <1>a, <1>b DEF DockerUnavailable, Ended, NoTask
<1>7. ASSUME NEW t \in Tasks, CommandRaises(t) PROVE FALSE
  <2>1. u = t
    BY <1>7, <1>a, <1>b DEF CommandRaises, Finalize
  <2>2. task' = [task EXCEPT ![t] = Ended(@)]
    BY <1>7, <2>1, Zenon DEF CommandRaises
  <2> QED BY <1>a, <2>1, <2>2, Zenon DEF Ended, NoTask
<1>8. ASSUME NEW j \in Jobs, ApiStep(j) \/ GoIdle(j) \/ Expiry(j) PROVE FALSE
  BY <1>8, <1>b, Zenon DEF ApiStep, AcquireSlot, EnqueueJob, SyncPoll, SyncAnswer, DeleteRead, DeleteWrite,
     DeleteRelease, GoIdle, Expiry, ExpireSlot, ExpireCancel, ExpireRecord
<1>9. ASSUME NEW w \in Workers, NEW j \in Jobs, Peek(w, j) PROVE FALSE
  BY <1>9, <1>b DEF Peek
<1>10. CASE UNCHANGED vars
  BY <1>10, <1>b DEF vars
<1> QED BY <1>1, <1>2, <1>3, <1>4, <1>5, <1>6, <1>7, <1>8, <1>9, <1>10 DEF Next

\* While flags do not expire, CancelInv is kept.
LEMMA NextCancelInv ==
  ASSUME "cancelTTL" \notin Faults, IInv, IInv', CancelInv, [Next]_vars
  PROVE  CancelInv'
<1> USE DEF queueVars, keyVars, apiVars, workVars
<1>1. cancelled \subseteq cancelled'
  BY ZenonT(60) DEF Next, vars, ApiStep, AcquireSlot, EnqueueJob, SyncPoll, SyncAnswer, DeleteRead, DeleteWrite,
     DeleteRelease, GoIdle, Expiry, ExpireSlot, ExpireCancel, ExpireRecord, Read, Crash, Peek,
     Claim, TaskStep, CheckCancel, RunningGet, RunningPut, RunningPublish, ExecuteResult,
     ExecuteRaise, Archive, StoreResult, TerminalGet, TerminalPut, PublishDone, ReleaseSlot,
     DeadLetter, XAck, XDel, WatchCancel, DockerUnavailable, CommandRaises
<1>2. \A j \in Jobs : killed'[j] = "queued" /\ killed[j] # "queued"
         => j \in Entries(backlog) /\ j \in cancelled' /\ UNCHANGED task
  <2>1. ASSUME NEW i \in Jobs, DeleteWrite(i), NEW j \in Jobs,
               killed'[j] = "queued", killed[j] # "queued"
        PROVE  j \in Entries(backlog) /\ j \in cancelled' /\ UNCHANGED task
    <3>1. killed' = [killed EXCEPT ![i] = IF @ = "queued" \/ i \in Entries(backlog)
                                          THEN "queued" ELSE "taken"]
          /\ cancelled' = cancelled \cup {i}
      BY <2>1 DEF DeleteWrite
    <3>2. i = j /\ i \in Entries(backlog)
      BY <2>1, <3>1 DEF IInv, TypeOK
    <3> QED BY <2>1, <3>1, <3>2 DEF DeleteWrite
  <2>2. (\A i \in Jobs : ~DeleteWrite(i)) => UNCHANGED killed
    BY ZenonT(60) DEF Next, vars, ApiStep, AcquireSlot, EnqueueJob, SyncPoll, SyncAnswer, DeleteRead,
     DeleteRelease, GoIdle, Expiry, ExpireSlot, ExpireCancel, ExpireRecord, Read, Crash, Peek,
     Claim, TaskStep, CheckCancel, RunningGet, RunningPut, RunningPublish, ExecuteResult,
     ExecuteRaise, Archive, StoreResult, TerminalGet, TerminalPut, PublishDone, ReleaseSlot,
     DeadLetter, XAck, XDel, WatchCancel, DockerUnavailable, CommandRaises
  <2> QED BY <2>1, <2>2
<1> SUFFICES ASSUME NEW j \in Jobs, killed'[j] = "queued", NEW d \in Deliveries
             PROVE  j \in cancelled' /\ task'[<<j, d>>].mode \notin {"try", "except"}
  BY <1>1, <1>2 DEF CancelInv, Deliveries
<1>3. <<j, d>> \in Tasks
  BY DEF Tasks
<1>4. CASE killed[j] = "queued"
  <2>1. j \in cancelled /\ task[<<j, d>>].mode \notin {"try", "except"}
    BY <1>4 DEF CancelInv
  <2> QED BY <1>1, <1>3, <2>1, EntersTry DEF IInv
<1>5. CASE killed[j] # "queued"
  <2>1. j \in Entries(backlog) /\ j \in cancelled' /\ UNCHANGED task
    BY <1>2, <1>5
  <2>2. times[j] = 0
    BY <2>1 DEF IInv, QueueInv
  <2>3. task[<<j, d>>].mode = "prelude"
    BY <1>3, <2>2 DEF IInv, TaskInv
  <2> QED BY <2>1, <2>3
<1> QED BY <1>4, <1>5, SMTT(30)

\* DELETE of a job no worker has read: as long as the cancel flag does not
\* expire first, _process never enters _run_job for any delivery of it.
THEOREM CancelledInTimeNeverRuns ==
  ASSUME "cancelTTL" \notin Faults
  PROVE  Spec => []CancelledBeforePickupNeverRuns
<1>1. Init => CancelInv
  BY DEF Init, CancelInv
<1>2. IInv /\ IInv' /\ CancelInv /\ [Next]_vars => CancelInv'
  BY NextCancelInv
<1>3. CancelInv => CancelledBeforePickupNeverRuns
  BY DEF CancelInv, CancelledBeforePickupNeverRuns
<1> QED BY <1>1, <1>2, <1>3, SpecIInv, PTL DEF Spec

(***************************************************************************)
(* The lifecycle implements the promise                                    *)
(***************************************************************************)

\* The refinement mapping of Promise, named for the proof.
AcceptedSet == {j \in Jobs : j \in Entries(backlog) \/ times[j] > 0}
StoredSet == {j \in Jobs : result[j] # NoResult}
FinishedSet == {j \in Jobs : times[j] > 0 /\ j \notin pending}

\* Every step of the lifecycle accepts, stores or finishes one job, or none.
LEMMA NextPromise ==
  ASSUME IInv, IInv', [Next]_vars
  PROVE  [Promise!Next]_(Promise!promise)
<1> USE DEF queueVars, keyVars, apiVars, workVars
<1>a. times \in [Jobs -> Nat] /\ times' \in [Jobs -> Nat]
  BY LifecycleAssumption DEF IInv, TypeOK
<1>b. UNCHANGED <<AcceptedSet, StoredSet, FinishedSet>> => UNCHANGED Promise!promise
  BY DEF Promise!promise, AcceptedSet, StoredSet, FinishedSet
<1>c. \A j \in Jobs : Promise!Accept(j) <=> /\ j \notin AcceptedSet
                                             /\ AcceptedSet' = AcceptedSet \cup {j}
                                             /\ UNCHANGED <<StoredSet, FinishedSet>>
  BY DEF Promise!Accept, AcceptedSet, StoredSet, FinishedSet
<1>d. \A j \in Jobs : Promise!Store(j) <=> /\ j \in AcceptedSet \ StoredSet
                                            /\ StoredSet' = StoredSet \cup {j}
                                            /\ UNCHANGED <<AcceptedSet, FinishedSet>>
  BY DEF Promise!Store, AcceptedSet, StoredSet, FinishedSet
<1>e. \A j \in Jobs : Promise!Finish(j) <=> /\ j \in StoredSet \ FinishedSet
                                             /\ FinishedSet' = FinishedSet \cup {j}
                                             /\ UNCHANGED <<AcceptedSet, StoredSet>>
  BY DEF Promise!Finish, AcceptedSet, StoredSet, FinishedSet
<1> SUFFICES \/ UNCHANGED <<AcceptedSet, StoredSet, FinishedSet>>
             \/ \E j \in Jobs : Promise!Accept(j) \/ Promise!Store(j) \/ Promise!Finish(j)
  BY <1>b DEF Promise!Next
<1>1. CASE UNCHANGED <<backlog, times, result, pending>>
  BY <1>1 DEF AcceptedSet, StoredSet, FinishedSet, Entries
<1>2. ASSUME NEW i \in Jobs, EnqueueJob(i), backlog' # backlog PROVE Promise!Accept(i)
  <2>1. backlog' = Append(backlog, i)
    BY <1>2, Zenon DEF EnqueueJob, AddEntry
  <2>2. Entries(backlog') = Entries(backlog) \cup {i}
    BY <2>1, AppendEntries, ZenonT(60) DEF IInv, TypeOK
  <2>3. i \notin Entries(backlog) /\ ~(times[i] > 0)
    BY <1>2 DEF EnqueueJob, IInv, QueueInv
  <2>4. UNCHANGED <<times, result, pending>>
    BY <1>2 DEF EnqueueJob
  <2>5. AcceptedSet' = AcceptedSet \cup {i} /\ i \notin AcceptedSet
    BY <2>2, <2>3, <2>4, Zenon DEF AcceptedSet, Entries
  <2>6. UNCHANGED <<StoredSet, FinishedSet>>
    BY <2>4 DEF StoredSet, FinishedSet
  <2> QED BY <1>c, <2>5, <2>6
<1>3. ASSUME NEW w \in Workers, Read(w) PROVE UNCHANGED <<AcceptedSet, StoredSet, FinishedSet>>
  <2> DEFINE h == Head(backlog)
  <2>1. Entries(backlog') = Entries(backlog) \ {h} /\ h \in Entries(backlog)
    BY <1>3, TailEntries, Zenon DEF Read, IInv, TypeOK, QueueInv
  <2>2. h \in Jobs /\ times[h] = 0
    <3>1. h \in Jobs
      BY <1>3 DEF Read, IInv, TypeOK
    <3> QED BY <2>1, <3>1, Zenon DEF IInv, QueueInv
  <2>3. times'[h] = 1 /\ \A i \in Jobs : i # h => times'[i] = times[i]
    BY <1>3, <1>a, <2>2 DEF Read
  <2>4. pending' = pending \cup {h} /\ UNCHANGED result
    BY <1>3 DEF Read
  <2> HIDE DEF h
  <2>5. Entries(backlog)' = Entries(backlog')
    BY DEF Entries
  <2>6. UNCHANGED AcceptedSet
    <3>1. \A i \in Jobs : i \in Entries(backlog') \/ times'[i] > 0
                          <=> i \in Entries(backlog) \/ times[i] > 0
      <4> SUFFICES ASSUME NEW i \in Jobs
                   PROVE  i \in Entries(backlog') \/ times'[i] > 0
                          <=> i \in Entries(backlog) \/ times[i] > 0
        OBVIOUS
      <4>1. CASE i = h
        <5>1. times'[i] > 0
          BY <2>3, <4>1
        <5>2. i \in Entries(backlog)
          BY <2>1, <4>1
        <5> QED BY <5>1, <5>2, SMTT(30)
      <4>2. CASE i # h
        <5>1. times'[i] = times[i]
          BY <2>3, <4>2
        <5>2. i \in Entries(backlog') <=> i \in Entries(backlog)
          BY <2>1, <4>2
        <5> QED BY <5>1, <5>2
      <4> QED BY <4>1, <4>2, SMTT(30)
    <3> QED BY <2>5, <3>1, Zenon DEF AcceptedSet
  <2>7. UNCHANGED <<StoredSet, FinishedSet>>
    BY <2>2, <2>3, <2>4, SMTT(30) DEF StoredSet, FinishedSet
  <2> QED BY <2>6, <2>7, Zenon
<1>4. ASSUME NEW w \in Workers, NEW j \in Jobs, Claim(w, j)
      PROVE  UNCHANGED <<AcceptedSet, StoredSet, FinishedSet>>
  <2>1. UNCHANGED <<backlog, pending, result>>
    BY <1>4 DEF Claim
  <2>2. \A i \in Jobs : times'[i] > 0 <=> times[i] > 0
    <3>1. CASE times' = [times EXCEPT ![j] = @ + 1] /\ j \in idle
      <4>1. times[j] > 0
        BY <3>1 DEF IInv, TypeOK, QueueInv
      <4> QED BY <1>a, <3>1, <4>1, SMTT(30)
    <3> QED BY <1>4, <3>1 DEF Claim
  <2> QED BY <2>1, <2>2, SMTT(30) DEF AcceptedSet, StoredSet, FinishedSet, Entries
<1>5. ASSUME NEW t \in Tasks, StoreResult(t)
      PROVE  Promise!Store(t[1]) \/ UNCHANGED <<AcceptedSet, StoredSet, FinishedSet>>
  <2>1. t[1] \in Jobs /\ times[t[1]] > 0 /\ task[t].res # NoResult
    BY <1>5, Zenon DEF StoreResult, IInv, TaskInv, Tasks
  <2>2. UNCHANGED <<backlog, times, pending>>
    BY <1>5, ZenonT(60) DEF StoreResult
  <2>3. StoredSet' = StoredSet \cup {t[1]}
    BY <1>5, <2>1, SMTT(30) DEF StoreResult, StoredSet, IInv, TypeOK
  <2>4. UNCHANGED <<AcceptedSet, FinishedSet>> /\ t[1] \in AcceptedSet
    BY <2>1, <2>2 DEF AcceptedSet, FinishedSet, Entries
  <2>5. CASE t[1] \in StoredSet
    BY <2>3, <2>4, <2>5
  <2>6. CASE t[1] \notin StoredSet
    BY <1>d, <2>1, <2>3, <2>4, <2>6
  <2> QED BY <2>5, <2>6, Zenon
<1>6. ASSUME NEW t \in Tasks, XAck(t)
      PROVE  Promise!Finish(t[1]) \/ UNCHANGED <<AcceptedSet, StoredSet, FinishedSet>>
  <2>1. t[1] \in Jobs /\ times[t[1]] > 0 /\ result[t[1]] # NoResult
    BY <1>6, Zenon DEF XAck, IInv, TaskInv, Tasks
  <2>2. UNCHANGED <<backlog, times, result>> /\ pending' = pending \ {t[1]}
    BY <1>6 DEF XAck
  <2>3. FinishedSet' = FinishedSet \cup {t[1]}
    BY <2>1, <2>2 DEF FinishedSet
  <2>4. UNCHANGED <<AcceptedSet, StoredSet>> /\ t[1] \in StoredSet
    BY <2>1, <2>2 DEF AcceptedSet, StoredSet, Entries
  <2>5. CASE t[1] \in FinishedSet
    BY <2>3, <2>4, <2>5, SMTT(30)
  <2>6. CASE t[1] \notin FinishedSet
    BY <1>e, <2>1, <2>3, <2>4, <2>6, SMTT(30)
  <2> QED BY <2>5, <2>6, Zenon
<1>7. ASSUME NEW i \in Jobs, ApiStep(i) \/ GoIdle(i) \/ Expiry(i),
             ~(EnqueueJob(i) /\ backlog' # backlog)
      PROVE  UNCHANGED <<backlog, times, result, pending>>
  BY <1>7, Zenon DEF ApiStep, AcquireSlot, EnqueueJob, SyncPoll, SyncAnswer, DeleteRead, DeleteWrite,
     DeleteRelease, GoIdle, Expiry, ExpireSlot, ExpireCancel, ExpireRecord
<1>8. ASSUME NEW w \in Workers, Crash(w) \/ \E j \in Jobs : Peek(w, j)
      PROVE  UNCHANGED <<backlog, times, result, pending>>
  BY <1>8, Zenon DEF Crash, Peek
<1>9. ASSUME NEW t \in Tasks, TaskStep(t), ~StoreResult(t), ~XAck(t)
      PROVE  UNCHANGED <<backlog, times, result, pending>>
  BY <1>9, Zenon DEF TaskStep, CheckCancel, RunningGet, RunningPut, RunningPublish,
     ExecuteResult, ExecuteRaise, Archive, TerminalGet, TerminalPut, PublishDone,
     ReleaseSlot, DeadLetter, XDel
<1>10. ASSUME NEW t \in Tasks, WatchCancel(t) \/ DockerUnavailable(t) \/ CommandRaises(t)
       PROVE  UNCHANGED <<backlog, times, result, pending>>
  BY <1>10 DEF WatchCancel, DockerUnavailable, CommandRaises
<1>11. CASE UNCHANGED vars
  BY <1>1, <1>11 DEF vars
<1>12. CASE \E i \in Jobs : ApiStep(i) \/ GoIdle(i) \/ Expiry(i)
  BY <1>1, <1>2, <1>7, <1>12
<1>13. CASE \E w \in Workers : \/ Read(w) \/ Crash(w)
                               \/ \E j \in Jobs : Peek(w, j) \/ Claim(w, j)
  BY <1>1, <1>3, <1>4, <1>8, <1>13, Zenon
<1>14. CASE \E t \in Tasks : \/ TaskStep(t) \/ WatchCancel(t) \/ DockerUnavailable(t)
                             \/ CommandRaises(t)
  <2>1. \A t \in Tasks : t[1] \in Jobs
    BY DEF Tasks
  <2> QED BY <1>1, <1>5, <1>6, <1>9, <1>10, <1>14, <2>1
<1> QED BY <1>11, <1>12, <1>13, <1>14, Zenon DEF Next

\* At-least-once delivery with ack after store implements JobPromise.
THEOREM LifecycleKeepsPromise == Spec => KeepsPromise
<1>1. Init => Promise!Init
  BY DEF Init, Promise!Init, Entries
<1>2. IInv /\ IInv' /\ [Next]_vars => [Promise!Next]_(Promise!promise)
  BY NextPromise
<1> QED BY <1>1, <1>2, SpecIInv, PTL DEF Spec, KeepsPromise, Promise!Spec
=============================================================================
