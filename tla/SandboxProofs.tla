---------------------------- MODULE SandboxProofs ----------------------------
(***************************************************************************)
(* Proofs about Sandbox, for every number of deliveries, overlapping or    *)
(* not, and every choice of faults and bounds.                             *)
(***************************************************************************)
EXTENDS Sandbox, WellFoundedInduction, TLAPS

\* clamp_timeout stays between one second and MAX_TIMEOUT_SECONDS, whatever the
\* payload says, for every language's limit (resource_limits.py:40).
LEMMA TimeoutInRange ==
  ASSUME NEW l \in Languages, NEW t \in Int
  PROVE  clamp_timeout(DefaultTimeout[l], RequestedTimeout(t)) \in 1..MAX_TIMEOUT_SECONDS
<1>1. DefaultTimeout[l] \in 10..25
  BY DEF DefaultTimeout, Languages
<1>2. RequestedTimeout(t) \in Int
  BY DEF RequestedTimeout
<1> HIDE DEF RequestedTimeout
<1>. QED
  BY <1>1, <1>2 DEF clamp_timeout, MinOf, MaxOf, MAX_TIMEOUT_SECONDS

\* What the reaper makes of a quantity and a unit.
LEMMA ReadBack ==
  ASSUME NEW t, NEW q \in Nat, t.qty = q
  PROVE  /\ t.unit = "subsecond" => _parse_relative_age(t) = 0
         /\ t.unit = "second" => _parse_relative_age(t) = q
         /\ t.unit = "minute" => _parse_relative_age(t) = q * 60
         /\ t.unit = "hour" => _parse_relative_age(t) = q * 3600
         /\ t.unit = "day" => _parse_relative_age(t) = q * 86400
         /\ t.unit = "week" => _parse_relative_age(t) = q * 604800
<1>1. t.unit = "subsecond" => _parse_relative_age(t) = 0
  BY DEF _parse_relative_age
<1>2. t.unit = "second" => _parse_relative_age(t) = q
  BY DEF _parse_relative_age, _UNIT_SECONDS
<1>3. t.unit = "minute" => _parse_relative_age(t) = q * 60
  BY DEF _parse_relative_age, _UNIT_SECONDS, Minute
<1>4. t.unit = "hour" => _parse_relative_age(t) = q * 3600
  BY DEF _parse_relative_age, _UNIT_SECONDS, Minute, Hour
<1>5. t.unit = "day" => _parse_relative_age(t) = q * 86400
  BY DEF _parse_relative_age, _UNIT_SECONDS, Minute, Hour, Day
<1>6. t.unit = "week" => _parse_relative_age(t) = q * 604800
  BY DEF _parse_relative_age, _UNIT_SECONDS, Minute, Hour, Day
<1>. QED
  BY <1>1, <1>2, <1>3, <1>4, <1>5, <1>6

\* What the reaper reads back from Docker's rendering of an age decides the
\* orphan threshold exactly, up to the age where Docker prints months, a unit
\* the reaper does not know (cleanup.py:120).
THEOREM OrphanAgeIsExact ==
  ASSUME NEW a \in Nat, a < 1439 * Hour
  PROVE  _parse_relative_age(HumanDuration(a)) >= ORPHAN_AGE_SECONDS
           <=> a >= ORPHAN_AGE_SECONDS
<1> DEFINE hours == (a + Hour \div 2) \div Hour
<1>1. Hour = 3600 /\ Hour \div 2 = 1800 /\ Minute = 60
  BY DEF Hour, Minute
<1>2. hours \in Nat /\ hours * 3600 <= a + 1800 /\ a + 1800 < hours * 3600 + 3600
  BY <1>1
<1>3. hours < 1440
  BY <1>1, <1>2
<1>4. CASE a < 1
  <2>1. HumanDuration(a).qty = 0 /\ HumanDuration(a).unit = "subsecond"
    BY <1>4 DEF HumanDuration, Minute, Hour
  <2>. QED  BY <1>4, <2>1, ReadBack DEF ORPHAN_AGE_SECONDS
<1>5. CASE 1 <= a /\ a < 60
  <2>1. HumanDuration(a).qty = a /\ HumanDuration(a).unit = "second"
    BY <1>1, <1>5 DEF HumanDuration, Minute, Hour
  <2>. QED  BY <1>5, <2>1, ReadBack DEF ORPHAN_AGE_SECONDS
<1>6. CASE 60 <= a /\ a < 3600
  <2>1. HumanDuration(a).qty = a \div 60 /\ HumanDuration(a).unit = "minute"
    BY <1>1, <1>6 DEF HumanDuration, Minute, Hour
  <2>2. a \div 60 \in Nat /\ (a \div 60 >= 5 <=> a >= 300)
    BY <1>6
  <2>. QED  BY <2>1, <2>2, ReadBack DEF ORPHAN_AGE_SECONDS
<1>7. CASE 3600 <= a /\ hours < 48
  <2>1. HumanDuration(a).qty = hours /\ HumanDuration(a).unit = "hour"
    BY <1>1, <1>7 DEF HumanDuration, Minute, Hour
  <2>2. hours >= 1
    BY <1>2, <1>7
  <2>. QED  BY <1>2, <1>7, <2>1, <2>2, ReadBack DEF ORPHAN_AGE_SECONDS
<1>8. CASE 48 <= hours /\ hours < 336
  <2>1. 3600 <= a
    BY <1>2, <1>8
  <2>2. HumanDuration(a).qty = hours \div 24 /\ HumanDuration(a).unit = "day"
    BY <1>1, <1>8, <2>1 DEF HumanDuration, Minute, Hour
  <2>3. hours \div 24 \in Nat /\ hours \div 24 >= 1
    BY <1>2, <1>8
  <2>. QED  BY <2>1, <2>2, <2>3, ReadBack DEF ORPHAN_AGE_SECONDS
<1>9. CASE 336 <= hours
  <2>1. 3600 <= a
    BY <1>2, <1>9
  <2>2. HumanDuration(a).qty = hours \div 168 /\ HumanDuration(a).unit = "week"
    BY <1>1, <1>3, <1>9, <2>1 DEF HumanDuration, Minute, Hour
  <2>3. hours \div 168 \in Nat /\ hours \div 168 >= 1
    BY <1>2, <1>9
  <2>. QED  BY <2>1, <2>2, <2>3, ReadBack DEF ORPHAN_AGE_SECONDS
<1>. QED
  BY <1>2, <1>4, <1>5, <1>6, <1>7, <1>8, <1>9

(***************************************************************************)
(* The inductive invariant                                                 *)
(***************************************************************************)

\* The types of the variables that the invariant is about; RestInv has the others.
Typing ==
  /\ run \in [Runs -> Run]
  /\ workdir \subseteq Runs /\ creates \subseteq Runs
  /\ sampler \subseteq Runs /\ excused \subseteq Runs
  /\ age \in [Runs -> 0..MaxAge]
  /\ client \in [Runs -> Client]
  /\ container \in Container
  /\ daemon \in {"up", "down"}
  /\ pump \in [Runs -> {"off", "open", "failed", "eof"}]
  /\ reaper \in [pc: {"wait", "sweep", "dead"}, target: Runs \cup {Nobody}]

Early(r) == run[r].pc \in {"idle", "verify", "workdir", "spawn"}
Waiting(r) == run[r].pc \in {"await", "grace", "killwait"}

\* A run that has not spawned its client has nothing with Docker yet.
EarlyInv ==
  \A r \in Runs : Early(r) => /\ container.id # r /\ reaper.target # r
                              /\ r \notin creates /\ client[r].st = "none"
                              /\ r \notin sampler

\* A client that could still start a container is waited for.
ClientInv ==
  \A r \in Runs : client[r].st \in {"creating", "created", "attached"}
                    => Waiting(r) \/ r \in excused

\* A run creates one container at most, which does not run before its client
\* asks for that.
ContainerInv ==
  /\ container = NoContainer \/ container.id \in Runs
  /\ container.id \notin creates /\ reaper.target \notin creates
  /\ \A r \in Runs : client[r].st = "created" /\ container.id = r
                       => container.st = "created"

\* A container is not older than the run that made it.
AgeInv ==
  \A r \in Runs : Begun(r) /\ container.id = r => container.age <= age[r]

\* What the reaper is about to remove is not in use by a young run.
TargetInv ==
  \A r \in Runs : container.id = r /\ reaper.target = r
                    => \/ container.st = "exited" \/ ~Live(r)
                       \/ age[r] >= ORPHAN_AGE_SECONDS

\* A sampler whose run has gone past the drain was left by an exception.
SamplerInv ==
  \A r \in sampler : Waiting(r) \/ run[r].pc = "drain" \/ r \in excused
                       \/ pump[r] = "failed"

IInv == /\ Typing /\ EarlyInv /\ ClientInv /\ ContainerInv /\ AgeInv /\ TargetInv
        /\ SamplerInv /\ NothingRunsUnsupervised

(***************************************************************************)
(* Lemmas about the operators that the actions share                       *)
(***************************************************************************)

\* Where a step of execute leaves the run, and every other run.
LEMMA GotoMoves ==
  ASSUME run \in [Runs -> Run], NEW r \in Runs, NEW label \in PCs, Goto(r, label)
  PROVE  /\ run' \in [Runs -> Run]
         /\ run'[r].pc = label
         /\ \A s \in Runs : s # r => run'[s] = run[s]
  BY DEF Goto, Run

\* The same for the steps that write the outcome or the status too.
LEMMA OutcomeMoves ==
  ASSUME run \in [Runs -> Run], NEW r \in Runs, NEW label \in PCs, NEW o \in Outcomes,
         run' = [run EXCEPT ![r] = [@ EXCEPT !.pc = label, !.outcome = o]]
  PROVE  /\ run' \in [Runs -> Run]
         /\ run'[r].pc = label
         /\ \A s \in Runs : s # r => run'[s] = run[s]
<1>1. [run[r] EXCEPT !.pc = label, !.outcome = o] \in Run
  BY Zenon DEF Run
<1>2. [run[r] EXCEPT !.pc = label, !.outcome = o].pc = label
  BY DEF Run
<1>. QED
  BY <1>1, <1>2

\* A step that sets the place and the status of one run.
LEMMA StatusMoves ==
  ASSUME run \in [Runs -> Run], NEW r \in Runs, NEW label \in PCs, NEW o \in Statuses,
         run' = [run EXCEPT ![r] = [@ EXCEPT !.pc = label, !.status = o]]
  PROVE  /\ run' \in [Runs -> Run]
         /\ run'[r].pc = label
         /\ \A s \in Runs : s # r => run'[s] = run[s]
<1>1. [run[r] EXCEPT !.pc = label, !.status = o] \in Run
  BY Zenon DEF Run
<1>2. [run[r] EXCEPT !.pc = label, !.status = o].pc = label
  BY DEF Run
<1>. QED
  BY <1>1, <1>2

\* A client that ends has exited for its run, or there is no run to hear of it.
LEMMA EndedClient ==
  ASSUME client \in [Runs -> Client], NEW r \in Runs, NEW rc \in Int
  PROVE  /\ ClientEnds(r, rc) \in [Runs -> Client]
         /\ \A s \in Runs : s # r => ClientEnds(r, rc)[s] = client[s]
         /\ ClientEnds(r, rc)[r].st \in {"exited", "none"}
<1>1. /\ Heard(r, [st |-> "exited", rc |-> rc]) \in Client
      /\ Heard(r, [st |-> "exited", rc |-> rc]).st \in {"exited", "none"}
  BY DEF Heard, NoClient, Client
<1>. QED
  BY <1>1 DEF ClientEnds

\* A client that Docker refuses something.
LEMMA RefusedClient ==
  ASSUME client \in [Runs -> Client], NEW r \in Runs
  PROVE  /\ ClientEnds(r, 125) \in [Runs -> Client]
         /\ \A s \in Runs : s # r => ClientEnds(r, 125)[s] = client[s]
         /\ ClientEnds(r, 125)[r].st \in {"exited", "none"}
<1>1. 125 \in Int
  OBVIOUS
<1>. QED
  BY <1>1, EndedClient, Zenon

\* A removed container ends the client that is attached to it and no other.
LEMMA RemovalEndsClient ==
  ASSUME Typing
  PROVE  /\ ClientsAfterRemoval \in [Runs -> Client]
         /\ \A s \in Runs : \/ ClientsAfterRemoval[s] = client[s]
                            \/ /\ ClientsAfterRemoval[s].st \in {"exited", "none"}
                               /\ client[s].st = "attached"
<1>1. container.rc \in Int /\ _SIGKILL_EXIT \in Int /\ client \in [Runs -> Client]
  BY DEF Typing, Container, _SIGKILL_EXIT
<1>2. CASE container.id \in Runs /\ client[container.id].st = "attached"
  <2>1. PICK rc \in Int : ClientsAfterRemoval = ClientEnds(container.id, rc)
    BY <1>1, <1>2, Zenon DEF ClientsAfterRemoval
  <2>. QED
    <3> DEFINE c == container.id
    <3>1. /\ ClientEnds(c, rc) \in [Runs -> Client]
          /\ \A s \in Runs : s # c => ClientEnds(c, rc)[s] = client[s]
          /\ ClientEnds(c, rc)[c].st \in {"exited", "none"}
      <4>1. c \in Runs
        BY <1>2
      <4> HIDE DEF c
      <4>. QED
        BY <1>1, <4>1, EndedClient
    <3>. QED
      BY <1>2, <2>1, <3>1, Zenon
<1>3. CASE ~(container.id \in Runs /\ client[container.id].st = "attached")
  BY <1>1, <1>3, Zenon DEF ClientsAfterRemoval
<1>. QED
  BY <1>2, <1>3

\* What docker rm -f by name may change.
LEMMA RmByName ==
  ASSUME Typing
  PROVE  /\ ClientsAfterRm \in [Runs -> Client]
         /\ \A s \in Runs : \/ ClientsAfterRm[s] = client[s]
                            \/ /\ ClientsAfterRm[s].st \in {"exited", "none"}
                               /\ client[s].st = "attached"
         /\ RemovedByName \in {NoContainer, container}
         /\ daemon = "up" => RemovedByName = NoContainer
  BY RemovalEndsClient DEF Typing, ClientsAfterRm, RemovedByName

\* What the start of its program does to a container.
LEMMA ContainerStarts ==
  ASSUME container \in Container, container' = [container EXCEPT !.st = "running", !.age = 0]
  PROVE  /\ container' \in Container /\ container'.id = container.id
         /\ container'.st = "running" /\ container'.age = 0
<1>1. container' = [id |-> container.id, st |-> "running", age |-> 0, rc |-> container.rc]
  BY Zenon DEF Container
<1>2. container.id \in Runs \cup {Nobody} /\ container.rc \in Int
  BY DEF Container
<1>. QED
  BY <1>1, <1>2 DEF Container, ORPHAN_AGE_SECONDS

\* The lesser of two numbers is at most either.
LEMMA LeastOfTwo ==
  ASSUME NEW a \in Nat, NEW b \in Nat
  PROVE  MinOf(a, b) \in 0..b /\ MinOf(a, b) <= a
  BY DEF MinOf

\* A tick is at least a second.
LEMMA StepIsPositive == Step \in Nat \ {0}
  BY SandboxAssumption

\* NoContainer is nobody's.
LEMMA NoContainerFacts ==
  ASSUME Typing
  PROVE  /\ NoContainer \in Container /\ NoContainer.id \notin Runs
         /\ NoContainer.id \notin creates /\ NoContainer.st = "none"
  BY SandboxAssumption DEF Typing, NoContainer, Nobody, Runs, Container, ORPHAN_AGE_SECONDS

\* The timeout, served a tick late, is due before the orphan age.
LEMMA TimeoutIsYoung == Timeout \in Nat \ {0} /\ Timeout + Step <= ORPHAN_AGE_SECONDS
<1>1. Timeout \in 1..MAX_TIMEOUT_SECONDS
  BY TimeoutInRange, SandboxAssumption DEF Timeout
<1>. QED
  BY <1>1, SandboxAssumption DEF MAX_TIMEOUT_SECONDS, ORPHAN_AGE_SECONDS

\* A step that moves one run respects what the run has with Docker.
Respects(r) ==
  /\ Early(r)' => Early(r)
  /\ Begun(r)' => Begun(r)
  /\ Live(r)' => Live(r) \/ Early(r)
  /\ Live(r)' \/ container.id # r
  /\ \/ Waiting(r)' \/ r \in excused'
     \/ client[r].st \notin {"creating", "created", "attached"}
  /\ r \in sampler' => Waiting(r)' \/ run'[r].pc = "drain" \/ r \in excused'
                          \/ pump[r] = "failed"

\* A step that moves one run and touches nothing of Docker's keeps the invariant,
\* if it respects what the run has there.
LEMMA RunMoves ==
  ASSUME IInv, NEW r \in Runs,
         run' \in [Runs -> Run], \A s \in Runs : s # r => run'[s] = run[s],
         UNCHANGED <<workdir, age, client, creates, container, daemon, pump, reaper>>,
         excused \subseteq excused', excused' \subseteq Runs, sampler' \subseteq sampler,
         Respects(r)
  PROVE  IInv'
<1> USE DEF IInv, Respects
<1>1. Typing'
  BY DEF Typing
<1>2. EarlyInv'
  BY DEF EarlyInv, Early
<1>3. ClientInv'
  BY DEF ClientInv, Waiting
<1>4. ContainerInv'
  BY DEF ContainerInv
<1>5. AgeInv'
  BY DEF AgeInv, Begun, Live
<1>6. TargetInv'
  BY DEF TargetInv, Live, EarlyInv
<1>7. SamplerInv'
  BY DEF SamplerInv, Waiting, Typing
<1>8. NothingRunsUnsupervised'
  BY SMTT(30) DEF NothingRunsUnsupervised, Live, ContainerInv, NoContainer
<1>. QED
  BY <1>1, <1>2, <1>3, <1>4, <1>5, <1>6, <1>7, <1>8, SMTT(30)

\* Nor do the pumps disturb it.
LEMMA PumpMoves ==
  ASSUME IInv, NEW r \in Runs,
         UNCHANGED <<run, workdir, age, client, creates, container, daemon, sampler, reaper,
                     excused>>,
         \/ pump' = pump
         \/ pump' = [pump EXCEPT ![r] = "failed"]
         \/ pump[r] = "open" /\ pump' = [pump EXCEPT ![r] = "eof"]
  PROVE  IInv'
<1> USE DEF IInv
<1>1. Typing' /\ \A s \in Runs : pump[s] = "failed" => pump'[s] = "failed"
  BY DEF Typing
<1>2. SamplerInv'
  BY <1>1 DEF SamplerInv, Waiting, Typing
<1>. QED
  BY <1>1, <1>2 DEF EarlyInv, Early, ClientInv, Waiting, ContainerInv, AgeInv, Begun, Live,
                    TargetInv, NothingRunsUnsupervised

\* A container in some state is one run's.
LEMMA ListedIsSomeones ==
  ASSUME ContainerInv, container.st \in {"created", "running", "exited"}
  PROVE  container.id \in Runs
  BY DEF ContainerInv, NoContainer

\* An age is a number of seconds.
LEMMA AgesAreSeconds ==
  ASSUME Typing, NEW r \in Runs
  PROVE  age[r] \in Nat
  BY DEF Typing, MaxAge, ORPHAN_AGE_SECONDS

\* A new directory's age is zero, which is an age.
LEMMA FreshAge ==
  ASSUME age \in [Runs -> 0..MaxAge], NEW r \in Runs, age' = [age EXCEPT ![r] = 0]
  PROVE  age' \in [Runs -> 0..MaxAge] /\ \A s \in Runs : s # r => age'[s] = age[s]
  BY DEF MaxAge, ORPHAN_AGE_SECONDS

\* What should_reap accepts has exited, or its run is over or as old as an orphan:
\* a container is no older than its run.
LEMMA ReapedIsOver ==
  ASSUME IInv, container.id \in Runs, should_reap(container.st, container.age)
  PROVE  \/ container.st = "exited" \/ ~Live(container.id)
         \/ age[container.id] >= ORPHAN_AGE_SECONDS
<1> USE DEF IInv
<1>1. SUFFICES ASSUME container.st # "exited", Live(container.id)
               PROVE  age[container.id] >= ORPHAN_AGE_SECONDS
  OBVIOUS
<1>2. Begun(container.id)
  BY <1>1 DEF EarlyInv, Early, Begun, Live
<1>3. container.age <= age[container.id] /\ age[container.id] \in Nat
  BY <1>2, AgesAreSeconds, Zenon DEF AgeInv
<1>4. container.age \in Nat /\ container.age < 1439 * Hour
  BY DEF Typing, Container, ORPHAN_AGE_SECONDS, Hour, Minute
<1>5. container.age >= ORPHAN_AGE_SECONDS
  BY <1>1, <1>4, OrphanAgeIsExact DEF should_reap
<1>. QED
  BY <1>3, <1>4, <1>5 DEF ORPHAN_AGE_SECONDS

\* Every step keeps the invariant.
LEMMA StepKeepsIInv ==
  ASSUME IInv, [Next]_vars
  PROVE  IInv'
<1> USE DEF IInv
<1>1. ASSUME NEW r \in Runs, Execute(r) PROVE IInv'
  <2>1. /\ run' \in [Runs -> Run] /\ run'[r].pc = "verify"
        /\ \A s \in Runs : s # r => run'[s] = run[s]
    BY <1>1, GotoMoves, Zenon DEF Execute, Typing, PCs
  <2>2. UNCHANGED <<workdir, age, client, creates, container, daemon, pump, reaper, sampler,
                    excused>>
    BY <1>1, ZenonT(60) DEF Execute, procVars, taskVars
  <2>3. Respects(r)
    BY <1>1, <2>1, <2>2, SMTT(30)
      DEF Execute, Respects, EarlyInv, Early, Begun, Live, Waiting
  <2>. QED
    BY <1>1, <2>1, <2>2, <2>3, RunMoves DEF Execute, Typing
<1>2. ASSUME NEW r \in Runs, _verify_image(r) PROVE IInv'
  <2>1. /\ run' \in [Runs -> Run] /\ (run'[r].pc = "workdir" \/ run'[r].pc = "ended")
        /\ \A s \in Runs : s # r => run'[s] = run[s]
    BY <1>2, GotoMoves, Zenon DEF _verify_image, Typing, PCs
  <2>2. UNCHANGED <<workdir, age, client, creates, container, daemon, pump, reaper, sampler,
                    excused>>
    BY <1>2, ZenonT(60) DEF _verify_image, procVars, taskVars
  <2>3. Respects(r)
    BY <1>2, <2>1, <2>2
      DEF _verify_image, Respects, EarlyInv, Early, Begun, Live, Waiting
  <2>. QED
    BY <1>2, <2>1, <2>2, <2>3, RunMoves DEF _verify_image, Typing
<1>3. ASSUME NEW r \in Runs, _await_completion(r) PROVE IInv'
  <2>1. /\ run' \in [Runs -> Run] /\ run'[r].pc = "drain"
        /\ \A s \in Runs : s # r => run'[s] = run[s]
    BY <1>3, OutcomeMoves, Zenon DEF _await_completion, Typing, PCs, Outcomes
  <2>2. UNCHANGED <<workdir, age, client, creates, container, daemon, pump, reaper, sampler,
                    excused>>
    BY <1>3 DEF _await_completion, procVars, taskVars
  <2>3. Respects(r)
    BY <1>3, <2>1, <2>2, ZenonT(60)
      DEF _await_completion, Exited, Respects, EarlyInv, Early, Begun, Live, Waiting
  <2>. QED
    BY <1>3, <2>1, <2>2, <2>3, RunMoves, Zenon DEF _await_completion, Typing
<1>4. ASSUME NEW r \in Runs, TerminateEnds(r) PROVE IInv'
  <2>1. /\ run' \in [Runs -> Run] /\ run'[r].pc = "drain"
        /\ \A s \in Runs : s # r => run'[s] = run[s]
    BY <1>4, GotoMoves, Zenon DEF TerminateEnds, Typing, PCs
  <2>2. UNCHANGED <<workdir, age, client, creates, container, daemon, pump, reaper, sampler,
                    excused>>
    BY <1>4 DEF TerminateEnds, procVars, taskVars
  <2>3. Respects(r)
    BY <1>4, <2>1, <2>2, Zenon
      DEF TerminateEnds, Exited, Respects, EarlyInv, Early, Begun, Live, Waiting
  <2>. QED
    BY <1>4, <2>1, <2>2, <2>3, RunMoves DEF TerminateEnds, Typing
<1>5. ASSUME NEW r \in Runs, FinishRun(r) PROVE IInv'
  <2>1. StatusOf(run[r].outcome, client[r].rc) \in Statuses
    BY Zenon DEF StatusOf, Statuses
  <2>2. /\ run' \in [Runs -> Run] /\ run'[r].pc = "cleanup"
        /\ \A s \in Runs : s # r => run'[s] = run[s]
    BY <1>5, <2>1, GotoMoves, StatusMoves, ZenonT(60) DEF FinishRun, Typing, PCs
  <2>3. /\ UNCHANGED <<workdir, age, client, creates, container, daemon, pump, reaper, excused>>
        /\ sampler' \subseteq sampler
        /\ r \in sampler' => pump[r] = "failed"
    BY <1>5 DEF FinishRun, procVars
  <2>4. Respects(r)
    BY <1>5, <2>2, <2>3 DEF FinishRun, Respects, ClientInv, Early, Begun, Live, Waiting
  <2>. QED
    BY <2>2, <2>3, <2>4, RunMoves DEF Typing
<1>6. ASSUME NEW r \in Runs, CommandRaises(r) PROVE IInv'
  <2>1. /\ run' \in [Runs -> Run] /\ run'[r].pc = "cleanup"
        /\ \A s \in Runs : s # r => run'[s] = run[s]
    BY <1>6, GotoMoves, Zenon DEF CommandRaises, Typing, PCs
  <2>2. /\ UNCHANGED <<workdir, age, client, creates, container, daemon, pump, reaper, sampler>>
        /\ excused' = excused \cup {r}
    BY <1>6, ZenonT(60) DEF CommandRaises, procVars, taskVars
  <2>3. Respects(r)
    BY <1>6, <2>1, <2>2 DEF CommandRaises, Respects, Early, Begun, Live, Waiting
  <2>. QED
    BY <2>1, <2>2, <2>3, RunMoves DEF Typing
<1>7. ASSUME NEW r \in Runs, _prepare_workdir(r) PROVE IInv'
  <2>1. /\ run' \in [Runs -> Run] /\ (run'[r].pc = "spawn" \/ run'[r].pc = "ended")
        /\ \A s \in Runs : s # r => run'[s] = run[s]
    BY <1>7, GotoMoves, Zenon DEF _prepare_workdir, Typing, PCs
  <2>2. /\ UNCHANGED <<client, creates, container, daemon, pump, sampler, reaper, excused>>
        /\ workdir' = workdir \cup {r} /\ age' = [age EXCEPT ![r] = 0]
        /\ run[r].pc = "workdir"
    BY <1>7, ZenonT(60) DEF _prepare_workdir, procVars, taskVars
  <2>3. container.id # r /\ reaper.target # r /\ r \notin creates /\ client[r].st = "none"
          /\ r \notin sampler
    BY <2>2, SMTT(30) DEF EarlyInv, Early
  <2>4. Typing'
    <3>1. age' \in [Runs -> 0..MaxAge]
      BY <2>2, FreshAge, Zenon DEF Typing
    <3>2. workdir' \subseteq Runs
      BY <2>2, Zenon DEF Typing
    <3>. QED
      BY <2>1, <2>2, <3>1, <3>2, Zenon DEF Typing
  <2>5. EarlyInv'
    BY <2>1, <2>2, <2>3 DEF EarlyInv, Early
  <2>6. ClientInv'
    BY <2>1, <2>2, <2>3, SMTT(30) DEF ClientInv, Waiting
  <2>7. ContainerInv'
    BY <2>1, <2>2, <2>3, SMTT(30) DEF ContainerInv
  <2>8. AgeInv'
    BY <2>1, <2>2, <2>3, SMTT(30) DEF AgeInv, Begun, Live, Typing
  <2>9. TargetInv'
    BY <2>1, <2>2, <2>3 DEF TargetInv, Live
  <2>10. SamplerInv'
    BY <2>1, <2>2, <2>3, SMTT(30) DEF SamplerInv, Waiting, Typing
  <2>11. NothingRunsUnsupervised'
    BY <2>1, <2>2, <2>3, ListedIsSomeones, Zenon DEF NothingRunsUnsupervised, Live
  <2>. QED
    BY <2>4, <2>5, <2>6, <2>7, <2>8, <2>9, <2>10, <2>11
<1>8. ASSUME NEW r \in Runs, _spawn(r) PROVE IInv'
  <2>1. /\ run' \in [Runs -> Run] /\ run'[r].pc = "await"
        /\ \A s \in Runs : s # r => run'[s] = run[s]
    BY <1>8, GotoMoves DEF _spawn, Typing, PCs
  <2>2. /\ UNCHANGED <<workdir, age, container, daemon, reaper, excused>>
        /\ client' = [client EXCEPT ![r] = [st |-> "creating", rc |-> 0]]
        /\ creates' = creates \cup {r} /\ pump' = [pump EXCEPT ![r] = "open"]
        /\ sampler' = sampler \cup {r} /\ run[r].pc = "spawn"
    BY <1>8 DEF _spawn, _sample
  <2>3. container.id # r /\ reaper.target # r
    BY <2>2 DEF EarlyInv, Early
  <2>4. Typing'
    BY <2>1, <2>2, <2>3, SMTT(30) DEF Typing, Client
  <2>5. EarlyInv'
    BY <2>1, <2>2, <2>3 DEF EarlyInv, Early, Typing
  <2>6. ClientInv'
    BY <2>1, <2>2, <2>3 DEF ClientInv, Waiting, Typing
  <2>7. ContainerInv'
    BY <2>1, <2>2, <2>3 DEF ContainerInv
  <2>8. AgeInv'
    BY <2>1, <2>2, <2>3, Zenon DEF AgeInv, Begun, Live
  <2>9. TargetInv'
    BY <2>1, <2>2, <2>3 DEF TargetInv, Live
  <2>10. SamplerInv'
    BY <2>1, <2>2, <2>3, ZenonT(60) DEF SamplerInv, Waiting, Typing
  <2>11. NothingRunsUnsupervised'
    BY <2>1, <2>2, <2>3, ListedIsSomeones, Zenon DEF NothingRunsUnsupervised, Live
  <2>. QED
    BY <2>4, <2>5, <2>6, <2>7, <2>8, <2>9, <2>10, <2>11
<1>9. ASSUME NEW r \in Runs, DaemonCreate(r) PROVE IInv'
  <2>1. /\ UNCHANGED <<run, workdir, age, daemon, pump, sampler, reaper, excused>>
        /\ r \in creates /\ creates' = creates \ {r}
    BY <1>9, SMTT(30) DEF DaemonCreate, taskVars
  <2>2. ~Early(r) /\ reaper.target # r
    BY <2>1 DEF EarlyInv, ContainerInv
  <2>3. \/ UNCHANGED container
        \/ /\ container = NoContainer
           /\ container' = [id |-> r, st |-> "created", age |-> 0, rc |-> 0]
    BY <1>9, Zenon DEF DaemonCreate, NoContainer
  <2>4. /\ client' \in [Runs -> Client]
        /\ \A s \in Runs : s # r => client'[s] = client[s]
        /\ \/ client'[r] = client[r]
           \/ client[r].st = "creating" /\ client'[r].st \in {"created", "exited", "none"}
    <3>1. client \in [Runs -> Client]
      BY DEF Typing
    <3>2. CASE client' = ClientEnds(r, 125) /\ client[r].st = "creating"
      <4>1. /\ ClientEnds(r, 125) \in [Runs -> Client]
            /\ \A s \in Runs : s # r => ClientEnds(r, 125)[s] = client[s]
            /\ ClientEnds(r, 125)[r].st \in {"exited", "none"}
        BY <3>1, RefusedClient, Zenon
      <4>. QED
        BY <3>2, <4>1, Zenon
    <3>3. CASE client' = [client EXCEPT ![r] = [@ EXCEPT !.st = "created"]]
                 /\ client[r].st = "creating"
      BY <3>1, <3>3 DEF Client
    <3>. QED
      BY <1>9, <3>1, <3>2, <3>3, Zenon DEF DaemonCreate
  <2>5. Typing'
    BY <2>1, <2>2, <2>3, <2>4, SMTT(30) DEF Typing, Container, ORPHAN_AGE_SECONDS
  <2>6. EarlyInv'
    BY <2>1, <2>2, <2>3, <2>4, SMTT(30) DEF EarlyInv, Early, Typing
  <2>7. ClientInv'
    BY <2>1, <2>2, <2>3, <2>4 DEF ClientInv, Waiting
  <2>8. ContainerInv'
    BY <2>1, <2>2, <2>3, <2>4, SMTT(30) DEF ContainerInv, NoContainer, Nobody, Typing, Container
  <2>9. AgeInv'
    BY <2>1, <2>2, <2>3, <2>4 DEF AgeInv, Begun, Live, Typing
  <2>10. TargetInv'
    BY <2>1, <2>2, <2>3, <2>4, SMTT(30) DEF TargetInv, Live
  <2>11. SamplerInv'
    BY <2>1, <2>2, <2>3, <2>4, SMTT(30) DEF SamplerInv, Waiting
  <2>12. NothingRunsUnsupervised'
    BY <2>1, <2>2, <2>3, <2>4 DEF NothingRunsUnsupervised, Live, ContainerInv, NoContainer
  <2>. QED
    BY <2>5, <2>6, <2>7, <2>8, <2>9, <2>10, <2>11, <2>12
<1>10. ASSUME NEW r \in Runs, ClientStart(r) PROVE IInv'
  <2>1. UNCHANGED <<run, workdir, age, creates, daemon, pump, sampler, reaper, excused>>
    BY <1>10 DEF ClientStart, taskVars
  <2>2. /\ client[r].st = "created" /\ (Waiting(r) \/ r \in excused) /\ ~Early(r)
        /\ container.id = r => container.st = "created"
    BY <1>10 DEF ClientStart, ClientInv, EarlyInv, ContainerInv
  <2>3. \/ container' = container
        \/ /\ container' \in Container /\ container.id = r /\ container'.id = r
           /\ container'.st = "running" /\ container'.age = 0
    BY <1>10, ContainerStarts DEF ClientStart, Typing
  <2>4. /\ client' \in [Runs -> Client]
        /\ \A s \in Runs : s # r => client'[s] = client[s]
        /\ client'[r].st \in {"attached", "exited", "none"}
    <3>1. client \in [Runs -> Client]
      BY DEF Typing
    <3>2. CASE client' = ClientEnds(r, 125)
      <4>1. /\ ClientEnds(r, 125) \in [Runs -> Client]
            /\ \A s \in Runs : s # r => ClientEnds(r, 125)[s] = client[s]
            /\ ClientEnds(r, 125)[r].st \in {"exited", "none"}
        BY <3>1, RefusedClient, Zenon
      <4>. QED
        BY <3>2, <4>1, Zenon
    <3>3. CASE client' = [client EXCEPT ![r] = Heard(r, [@ EXCEPT !.st = "attached"])]
      BY <3>1, <3>3 DEF Client, Heard, NoClient
    <3>. QED
      BY <1>10, <3>2, <3>3, Zenon DEF ClientStart
  <2>5. Typing'
    BY <2>1, <2>2, <2>3, <2>4 DEF Typing
  <2>6. EarlyInv'
    BY <2>1, <2>2, <2>3, <2>4, ZenonT(60) DEF EarlyInv, Early, Typing
  <2>7. ClientInv'
    BY <2>1, <2>2, <2>3, <2>4 DEF ClientInv, Waiting
  <2>8. ContainerInv'
    BY <2>1, <2>2, <2>3, <2>4, SMTT(30) DEF ContainerInv, NoContainer, Nobody, Typing, Container
  <2>9. AgeInv'
    BY <2>1, <2>2, <2>3, <2>4 DEF AgeInv, Begun, Live, Typing
  <2>10. TargetInv'
    BY <2>1, <2>2, <2>3, <2>4, Zenon DEF TargetInv, Live, Typing
  <2>11. SamplerInv'
    BY <2>1, <2>2, <2>3, <2>4, Zenon DEF SamplerInv, Waiting
  <2>12. NothingRunsUnsupervised'
    BY <2>1, <2>2, <2>3, <2>4 DEF NothingRunsUnsupervised, Live, Typing, Waiting
  <2>. QED
    BY <2>5, <2>6, <2>7, <2>8, <2>9, <2>10, <2>11, <2>12
<1>11. ASSUME ProgramExit PROVE IInv'
  <2>1. /\ UNCHANGED <<run, workdir, age, client, creates, daemon, pump, sampler, reaper, excused>>
        /\ container.st = "running"
        /\ \E rc \in Int : container' = [container EXCEPT !.st = "exited", !.rc = rc]
    BY <1>11, SandboxAssumption, Zenon DEF ProgramExit, taskVars
  <2>2. /\ container' \in Container /\ container'.id = container.id
        /\ container'.st = "exited" /\ container'.age = container.age
    BY <2>1, Zenon DEF Typing, Container
  <2>3. Typing'
    BY <2>1, <2>2 DEF Typing
  <2>4. EarlyInv'
    BY <2>1, <2>2 DEF EarlyInv, Early
  <2>5. ClientInv'
    BY <2>1, <2>2 DEF ClientInv, Waiting
  <2>6. ContainerInv'
    BY <2>1, <2>2 DEF ContainerInv, NoContainer, Nobody, Typing, Container
  <2>7. AgeInv'
    BY <2>1, <2>2 DEF AgeInv, Begun, Live
  <2>8. TargetInv'
    BY <2>1, <2>2 DEF TargetInv, Live
  <2>9. SamplerInv'
    BY <2>1, <2>2 DEF SamplerInv, Waiting
  <2>10. NothingRunsUnsupervised'
    BY <2>1, <2>2 DEF NothingRunsUnsupervised, Live
  <2>. QED
    BY <2>3, <2>4, <2>5, <2>6, <2>7, <2>8, <2>9, <2>10, Zenon
<1>12. ASSUME AutoRemove PROVE IInv'
  <2>1. /\ UNCHANGED <<run, workdir, age, creates, daemon, pump, sampler, reaper, excused>>
        /\ container' = NoContainer /\ client' = ClientsAfterRemoval
    BY <1>12 DEF AutoRemove, taskVars
  <2>2. /\ client' \in [Runs -> Client]
        /\ \A s \in Runs : \/ client'[s] = client[s]
                           \/ client'[s].st \in {"exited", "none"} /\ client[s].st = "attached"
    BY <2>1, RemovalEndsClient
  <2>3. /\ NoContainer \in Container /\ NoContainer.id \notin Runs
        /\ NoContainer.id \notin creates /\ NoContainer.st = "none"
    BY NoContainerFacts
  <2>4. Typing'
    BY <2>1, <2>2, <2>3, Zenon DEF Typing
  <2>5. EarlyInv'
    BY <2>1, <2>2, <2>3, SMTT(30) DEF EarlyInv, Early
  <2>6. ClientInv'
    BY <2>1, <2>2, <2>3 DEF ClientInv, Waiting
  <2>7. ContainerInv'
    BY <2>1, <2>2, <2>3 DEF ContainerInv
  <2>8. AgeInv'
    BY <2>1, <2>2, <2>3, SMTT(30) DEF AgeInv, Begun, Live
  <2>9. TargetInv'
    BY <2>1, <2>2, <2>3 DEF TargetInv, Live
  <2>10. SamplerInv'
    BY <2>1, <2>2, <2>3, SMTT(30) DEF SamplerInv, Waiting
  <2>11. NothingRunsUnsupervised'
    BY <2>1, <2>2, <2>3 DEF NothingRunsUnsupervised, Live
  <2>. QED
    BY <2>4, <2>5, <2>6, <2>7, <2>8, <2>9, <2>10, <2>11
<1>13. ASSUME NEW r \in Runs, NEW text \in Texts, _pump(r, text) PROVE IInv'
  <2>1. /\ UNCHANGED <<run, workdir, age, client, creates, container, daemon, sampler, reaper,
                       excused>>
        /\ pump' = pump \/ pump' = [pump EXCEPT ![r] = "failed"]
    BY <1>13 DEF _pump, procVars
  <2>. QED
    BY <2>1, PumpMoves, ZenonT(60)
<1>14. ASSUME NEW r \in Runs, PumpEnds(r) PROVE IInv'
  <2>1. /\ UNCHANGED <<run, workdir, age, client, creates, container, daemon, sampler, reaper,
                       excused>>
        /\ pump[r] = "open" /\ pump' = [pump EXCEPT ![r] = "eof"]
    BY <1>14 DEF PumpEnds, procVars
  <2>. QED
    BY <2>1, PumpMoves, Zenon
<1>15. ASSUME NEW r \in Runs, Sigterm(r) PROVE IInv'
  <2>1. /\ run' \in [Runs -> Run] /\ run[r].pc = "await" /\ run'[r].pc = "grace"
        /\ \A s \in Runs : s # r => run'[s] = run[s]
    BY <1>15, OutcomeMoves, Zenon DEF Sigterm, Typing, PCs, Outcomes
  <2>2. /\ UNCHANGED <<workdir, age, client, creates, daemon, pump, sampler, reaper, excused>>
        /\ container \in Container
    BY <1>15 DEF Sigterm, taskVars, Typing
  <2>3. \/ container' = container
        \/ /\ container.st = "running"
           /\ container' = [container EXCEPT !.st = "exited", !.rc = 143]
    BY <1>15 DEF Sigterm
  <2>4. \/ container' = container
        \/ /\ container' \in Container /\ container'.id = container.id
           /\ container'.age = container.age
           /\ container.st = "running" /\ container'.st = "exited"
    <3>1. CASE container' = [container EXCEPT !.st = "exited", !.rc = 143]
      <4>1. container' = [id |-> container.id, st |-> "exited", age |-> container.age, rc |-> 143]
        BY <2>2, <3>1, Zenon DEF Container
      <4>. QED
        BY <2>2, <2>3, <4>1 DEF Container
    <3>. QED
      BY <2>3, <3>1
  <2>5. Typing'
    BY <2>1, <2>2, <2>3, <2>4 DEF Typing
  <2>6. EarlyInv'
    BY <2>1, <2>2, <2>3, <2>4 DEF EarlyInv, Early
  <2>7. ClientInv'
    BY <2>1, <2>2, <2>3, <2>4 DEF ClientInv, Waiting
  <2>8. ContainerInv'
    BY <2>1, <2>2, <2>3, <2>4 DEF ContainerInv, NoContainer
  <2>9. AgeInv'
    BY <2>1, <2>2, <2>3, <2>4 DEF AgeInv, Begun, Live
  <2>10. TargetInv'
    BY <2>1, <2>2, <2>3, <2>4 DEF TargetInv, Live
  <2>11. SamplerInv'
    BY <2>1, <2>2, <2>3, <2>4 DEF SamplerInv, Waiting, Typing
  <2>12. NothingRunsUnsupervised'
    BY <2>1, <2>2, <2>3, <2>4, ListedIsSomeones, Zenon DEF NothingRunsUnsupervised, Live
  <2>. QED
    BY <2>5, <2>6, <2>7, <2>8, <2>9, <2>10, <2>11, <2>12
<1>16. ASSUME NEW r \in Runs, Sigkill(r) PROVE IInv'
  <2>1. /\ run' \in [Runs -> Run] /\ run[r].pc = "grace" /\ run'[r].pc = "killwait"
        /\ \A s \in Runs : s # r => run'[s] = run[s]
    BY <1>16, GotoMoves DEF Sigkill, Typing, PCs
  <2>2. /\ UNCHANGED <<workdir, age, client, creates, daemon, pump, sampler, reaper, excused>>
        /\ container \in Container
    BY <1>16 DEF Sigkill, taskVars, Typing
  <2>3. \/ container' = container
        \/ /\ container.st = "running"
           /\ container' = [container EXCEPT !.st = "exited", !.rc = 137]
    BY <1>16 DEF Sigkill, _SIGKILL_EXIT
  <2>4. \/ container' = container
        \/ /\ container' \in Container /\ container'.id = container.id
           /\ container'.age = container.age
           /\ container.st = "running" /\ container'.st = "exited"
    <3>1. CASE container' = [container EXCEPT !.st = "exited", !.rc = 137]
      <4>1. container' = [id |-> container.id, st |-> "exited", age |-> container.age, rc |-> 137]
        BY <2>2, <3>1, Zenon DEF Container
      <4>. QED
        BY <2>2, <2>3, <4>1 DEF Container
    <3>. QED
      BY <2>3, <3>1
  <2>5. Typing'
    BY <2>1, <2>2, <2>3, <2>4 DEF Typing
  <2>6. EarlyInv'
    BY <2>1, <2>2, <2>3, <2>4 DEF EarlyInv, Early
  <2>7. ClientInv'
    BY <2>1, <2>2, <2>3, <2>4 DEF ClientInv, Waiting
  <2>8. ContainerInv'
    BY <2>1, <2>2, <2>3, <2>4 DEF ContainerInv, NoContainer
  <2>9. AgeInv'
    BY <2>1, <2>2, <2>3, <2>4 DEF AgeInv, Begun, Live
  <2>10. TargetInv'
    BY <2>1, <2>2, <2>3, <2>4 DEF TargetInv, Live
  <2>11. SamplerInv'
    BY <2>1, <2>2, <2>3, <2>4 DEF SamplerInv, Waiting, Typing
  <2>12. NothingRunsUnsupervised'
    BY <2>1, <2>2, <2>3, <2>4, ListedIsSomeones, Zenon DEF NothingRunsUnsupervised, Live
  <2>. QED
    BY <2>5, <2>6, <2>7, <2>8, <2>9, <2>10, <2>11, <2>12
<1>17. ASSUME NEW r \in Runs, GiveUp(r) PROVE IInv'
  <2>1. /\ run' \in [Runs -> Run] /\ run[r].pc = "killwait" /\ run'[r].pc = "drain"
        /\ \A s \in Runs : s # r => run'[s] = run[s]
    BY <1>17, GotoMoves DEF GiveUp, Typing, PCs
  <2>2. /\ UNCHANGED <<workdir, age, daemon, pump, sampler, reaper, excused>>
        /\ creates' \subseteq creates
    BY <1>17 DEF GiveUp, taskVars
  <2>3. container' = container \/ container' = NoContainer
    BY <1>17, RmByName, SMTT(30) DEF GiveUp
  <2>4. /\ client' \in [Runs -> Client] /\ client'[r].st = "exited"
        /\ \A s \in Runs : s # r =>
             \/ client'[s] = client[s]
             \/ client'[s].st \in {"exited", "none"} /\ client[s].st = "attached"
    BY <1>17, RmByName DEF GiveUp, Client
  <2>5. /\ NoContainer \in Container /\ NoContainer.id \notin Runs
        /\ NoContainer.id \notin creates /\ NoContainer.st = "none"
    BY NoContainerFacts
  <2>6. Typing'
    BY <2>1, <2>2, <2>3, <2>4, <2>5, Zenon DEF Typing
  <2>7. EarlyInv'
    BY <2>1, <2>2, <2>3, <2>4, <2>5, ZenonT(60) DEF EarlyInv, Early
  <2>8. ClientInv'
    BY <2>1, <2>2, <2>3, <2>4, <2>5 DEF ClientInv, Waiting
  <2>9. ContainerInv'
    BY <2>1, <2>2, <2>3, <2>4, <2>5 DEF ContainerInv
  <2>10. AgeInv'
    BY <2>1, <2>2, <2>3, <2>4, <2>5, Zenon DEF AgeInv, Begun, Live
  <2>11. TargetInv'
    BY <2>1, <2>2, <2>3, <2>4, <2>5, ZenonT(60) DEF TargetInv, Live
  <2>12. SamplerInv'
    BY <2>1, <2>2, <2>3, <2>4, <2>5, ZenonT(60) DEF SamplerInv, Waiting, Typing
  <2>13. NothingRunsUnsupervised'
    BY <2>1, <2>2, <2>3, <2>4, <2>5, Zenon DEF NothingRunsUnsupervised, Live, ContainerInv
  <2>. QED
    BY <2>6, <2>7, <2>8, <2>9, <2>10, <2>11, <2>12, <2>13
<1>18. ASSUME NEW r \in Runs, _cleanup(r) PROVE IInv'
  <2>1. /\ run' \in [Runs -> Run] /\ run[r].pc = "cleanup" /\ run'[r].pc = "ended"
        /\ \A s \in Runs : s # r => run'[s] = run[s]
    BY <1>18, Zenon DEF _cleanup, Typing, RunAt, Run, PCs, Outcomes, Statuses
  <2>2. /\ UNCHANGED <<creates, daemon, sampler, reaper>>
        /\ workdir' = workdir \ {r} /\ age' = [age EXCEPT ![r] = 0]
        /\ pump' = [pump EXCEPT ![r] = IF @ = "failed" THEN @ ELSE "off"]
        /\ excused \subseteq excused' /\ excused' \subseteq Runs
        /\ daemon # "up" => r \in excused'
    BY <1>18, SMTT(30) DEF _cleanup, Typing
  <2>3. /\ age' \in [Runs -> 0..MaxAge] /\ \A s \in Runs : s # r => age'[s] = age[s]
        /\ pump' \in [Runs -> {"off", "open", "failed", "eof"}]
        /\ \A s \in Runs : pump[s] = "failed" => pump'[s] = "failed"
    <3>1. age \in [Runs -> 0..MaxAge] /\ pump \in [Runs -> {"off", "open", "failed", "eof"}]
      BY Zenon DEF Typing
    <3>. QED
      BY <2>2, <3>1, FreshAge, Zenon
  <2>4. /\ container' = container \/ container' = NoContainer
        /\ daemon = "up" => container' = NoContainer
    BY <1>18, RmByName, SMTT(30) DEF _cleanup
  <2>5. /\ client' \in [Runs -> Client] /\ client'[r].st # "exited"
        /\ \A s \in Runs : \/ client'[s].st = client[s].st
                           \/ client'[s].st \in {"exited", "none"} /\ client[s].st = "attached"
                           \/ s = r /\ client'[s].st = "none"
    BY <1>18, RmByName, SMTT(30) DEF _cleanup, Forgotten, NoClient, Client
  <2>6. /\ NoContainer \in Container /\ NoContainer.id \notin Runs
        /\ NoContainer.id \notin creates /\ NoContainer.st = "none"
    BY NoContainerFacts
  <2>7. Typing'
    BY <2>1, <2>2, <2>3, <2>4, <2>5, <2>6, SMTT(30) DEF Typing
  <2>8. EarlyInv'
    <3>. SUFFICES ASSUME NEW s \in Runs, Early(s)'
                  PROVE  /\ container'.id # s /\ reaper'.target # s
                         /\ s \notin creates' /\ client'[s].st = "none"
                         /\ s \notin sampler'
      BY DEF EarlyInv
    <3>1. s # r /\ Early(s)
      BY <2>1, SMTT(30) DEF Early
    <3>2. /\ container.id # s /\ reaper.target # s /\ s \notin creates
          /\ client[s].st = "none" /\ s \notin sampler
      BY <3>1 DEF EarlyInv
    <3>3. container'.id # s
      BY <2>4, <2>6, <3>2, Zenon
    <3>4. client'[s].st = "none"
      BY <2>5, <3>2, ZenonT(60)
    <3>. QED
      BY <2>2, <3>2, <3>3, <3>4
  <2>9. ClientInv'
    BY <2>1, <2>2, <2>3, <2>4, <2>5, <2>6 DEF ClientInv, Waiting
  <2>10. ContainerInv'
    <3>1. CASE container' = container
      BY <2>2, <2>5, <3>1, SMTT(30) DEF ContainerInv
    <3>2. CASE container' = NoContainer
      BY <2>2, <2>6, <3>2 DEF ContainerInv
    <3>. QED
      BY <2>4, <3>1, <3>2, SMTT(30)
  <2>11. AgeInv'
    <3>. SUFFICES ASSUME NEW s \in Runs, Begun(s)', container'.id = s
                  PROVE  container'.age <= age'[s]
      BY DEF AgeInv
    <3>1. s # r /\ Begun(s)
      BY <2>1, SMTT(30) DEF Begun, Live
    <3>2. container' = container
      BY <2>4, <2>6
    <3>3. container.age <= age[s]
      BY <3>1, <3>2, SMTT(30) DEF AgeInv
    <3>4. age'[s] = age[s]
      BY <2>3, <3>1
    <3>. QED
      BY <3>2, <3>3, <3>4
  <2>12. TargetInv'
    <3>. SUFFICES ASSUME NEW s \in Runs, container'.id = s, reaper'.target = s
                  PROVE  container'.st = "exited" \/ ~Live(s)' \/ age'[s] >= ORPHAN_AGE_SECONDS
      BY DEF TargetInv
    <3>1. container' = container /\ reaper' = reaper
      BY <2>2, <2>4, <2>6, SMTT(30)
    <3>2. container.st = "exited" \/ ~Live(s) \/ age[s] >= ORPHAN_AGE_SECONDS
      BY <3>1 DEF TargetInv
    <3>3. Live(s)' => Live(s) /\ age'[s] = age[s]
      BY <2>1, <2>3, Zenon DEF Live
    <3>. QED
      BY <3>1, <3>2, <3>3, Zenon
  <2>13. SamplerInv'
    BY <2>1, <2>2, <2>3, <2>4, <2>5, <2>6, SMTT(30) DEF SamplerInv, Waiting, Typing
  <2>14. NothingRunsUnsupervised'
    <3>1. CASE container' = NoContainer
      BY <2>6, <3>1, Zenon DEF NothingRunsUnsupervised
    <3>2. ASSUME container' = container, daemon # "up", container.st = "running"
          PROVE  NothingRunsUnsupervised'
      <4>1. container.id \in Runs /\ (Live(container.id) \/ container.id \in excused)
        BY <3>2, ListedIsSomeones, Zenon DEF NothingRunsUnsupervised
      <4>2. CASE container.id = r
        BY <2>2, <3>2, <4>2, Zenon DEF NothingRunsUnsupervised
      <4>3. CASE container.id # r
        BY <2>1, <2>2, <3>2, <4>1, <4>3, Zenon DEF NothingRunsUnsupervised, Live
      <4>. QED
        BY <4>2, <4>3
    <3>. QED
      BY <2>4, <3>1, <3>2, Zenon DEF NothingRunsUnsupervised
  <2>. QED
    BY <2>7, <2>8, <2>9, <2>10, <2>11, <2>12, <2>13, <2>14
<1>19. ASSUME NEW r \in Runs, Crash(r) PROVE IInv'
  <2>1. /\ run' \in [Runs -> Run] /\ Live(r) /\ run'[r].pc = "dead"
        /\ \A s \in Runs : s # r => run'[s] = run[s]
    BY <1>19 DEF Crash, Typing, RunAt, Run, PCs, Outcomes, Statuses
  <2>2. /\ UNCHANGED <<workdir, age, container, daemon, reaper>>
        /\ creates' \subseteq creates /\ sampler' = sampler \ {r}
        /\ excused' = excused \cup {r} /\ pump' = [pump EXCEPT ![r] = "off"]
        /\ client' = [client EXCEPT ![r] = NoClient] \/ client' = [client EXCEPT ![r] = Forgotten(@)]
    BY <1>19, ZenonT(60) DEF Crash
  <2>a. /\ client' \in [Runs -> Client]
        /\ \A s \in Runs : s # r => client'[s] = client[s]
        /\ client'[r] = client[r] \/ client'[r].st = "none"
    BY <2>2 DEF Typing, Forgotten, NoClient, Client
  <2>3. Typing'
    BY <2>1, <2>2, <2>a DEF Typing
  <2>4. EarlyInv'
    BY <2>1, <2>2, <2>a, ZenonT(60) DEF EarlyInv, Early
  <2>5. ClientInv'
    BY <2>1, <2>2, <2>a, Zenon DEF ClientInv, Waiting
  <2>6. ContainerInv'
    BY <2>1, <2>2, <2>a, Zenon DEF ContainerInv
  <2>7. AgeInv'
    BY <2>1, <2>2, ZenonT(60) DEF AgeInv, Begun, Live
  <2>8. TargetInv'
    BY <2>1, <2>2 DEF TargetInv, Live
  <2>9. SamplerInv'
    BY <2>1, <2>2, ZenonT(60) DEF SamplerInv, Waiting, Typing
  <2>10. NothingRunsUnsupervised'
    BY <2>1, <2>2, SMTT(30)
      DEF NothingRunsUnsupervised, Live, Typing, Container, ContainerInv, NoContainer
  <2>. QED
    BY <2>3, <2>4, <2>5, <2>6, <2>7, <2>8, <2>9, <2>10
<1>20. ASSUME Tick PROVE IInv'
  <2>1. /\ UNCHANGED <<run, workdir, client, creates, daemon, pump, sampler, reaper, excused>>
        /\ age' = [r \in Runs |-> IF r \in workdir \/ Begun(r)
                                   THEN MinOf(age[r] + Step, MaxAge) ELSE age[r]]
        /\ container' = IF container = NoContainer THEN container ELSE
             [container EXCEPT !.age = MinOf(@ + Step, ORPHAN_AGE_SECONDS)]
    BY <1>20 DEF Tick, taskVars
  <2>2. /\ age' \in [Runs -> 0..MaxAge]
        /\ \A r \in Runs : Begun(r) => age'[r] = MinOf(age[r] + Step, MaxAge)
        /\ \A r \in Runs : age[r] >= ORPHAN_AGE_SECONDS => age'[r] >= ORPHAN_AGE_SECONDS
    <3>1. ASSUME NEW a \in 0..MaxAge
          PROVE  /\ MinOf(a + Step, MaxAge) \in 0..MaxAge
                 /\ a >= ORPHAN_AGE_SECONDS => MinOf(a + Step, MaxAge) >= ORPHAN_AGE_SECONDS
      BY StepIsPositive DEF MinOf, MaxAge, ORPHAN_AGE_SECONDS
    <3>2. age \in [Runs -> 0..MaxAge]
      BY DEF Typing
    <3>. QED
      BY <2>1, <3>1, <3>2, Zenon
  <2>3. container \in Container /\ container.age \in 0..ORPHAN_AGE_SECONDS
    BY DEF Typing, Container
  <2>4. /\ MinOf(container.age + Step, ORPHAN_AGE_SECONDS) \in 0..ORPHAN_AGE_SECONDS
        /\ MinOf(container.age + Step, ORPHAN_AGE_SECONDS) <= container.age + Step
    <3>1. container.age + Step \in Nat /\ ORPHAN_AGE_SECONDS \in Nat
      BY <2>3, StepIsPositive, SMTT(30) DEF ORPHAN_AGE_SECONDS
    <3>. QED
      BY <3>1, LeastOfTwo
  <2>5. /\ container' \in Container /\ container'.id = container.id
        /\ container'.st = container.st
        /\ \/ container' = container /\ container = NoContainer
           \/ container'.age = MinOf(container.age + Step, ORPHAN_AGE_SECONDS)
    BY <2>1, <2>3, <2>4, SMTT(30) DEF Container
  <2>6. ASSUME NEW r \in Runs, Begun(r), container'.id = r PROVE container'.age <= age'[r]
    <3>1. /\ age[r] \in 0..MaxAge /\ container.age <= age[r] /\ container # NoContainer
          /\ age'[r] = MinOf(age[r] + Step, MaxAge)
      BY <2>2, <2>5, <2>6, NoContainerFacts, Zenon DEF AgeInv, Typing
    <3>2. container'.age = MinOf(container.age + Step, ORPHAN_AGE_SECONDS)
      BY <2>5, <3>1, Zenon
    <3>3. ASSUME NEW c \in Nat, NEW a \in Nat, c <= a
          PROVE  MinOf(c + Step, ORPHAN_AGE_SECONDS) <= MinOf(a + Step, MaxAge)
      BY <3>3, StepIsPositive DEF MinOf, MaxAge, ORPHAN_AGE_SECONDS
    <3>4. container.age \in Nat /\ age[r] \in Nat
      BY <2>3, <3>1 DEF MaxAge, ORPHAN_AGE_SECONDS
    <3>. QED
      BY <3>1, <3>2, <3>3, <3>4, Zenon
  <2>7. Typing'
    BY <2>1, <2>2, <2>3, <2>4, <2>5 DEF Typing
  <2>8. EarlyInv'
    BY <2>1, <2>2, <2>3, <2>4, <2>5 DEF EarlyInv, Early
  <2>9. ClientInv'
    BY <2>1, <2>2, <2>3, <2>4, <2>5 DEF ClientInv, Waiting
  <2>10. ContainerInv'
    BY <2>1, <2>2, <2>3, <2>4, <2>5, SMTT(30) DEF ContainerInv, NoContainer
  <2>11. AgeInv'
    BY <2>1, <2>6, Zenon DEF AgeInv, Begun, Live
  <2>12. TargetInv'
    BY <2>1, <2>2, <2>5, Zenon DEF TargetInv, Live
  <2>13. SamplerInv'
    BY <2>1, <2>2, <2>3, <2>4, <2>5 DEF SamplerInv, Waiting, Typing
  <2>14. NothingRunsUnsupervised'
    BY <2>1, <2>2, <2>3, <2>4, <2>5 DEF NothingRunsUnsupervised, Live
  <2>. QED
    BY <2>7, <2>8, <2>9, <2>10, <2>11, <2>12, <2>13, <2>14
<1>21. ASSUME _reap_containers, reaper' # reaper PROVE IInv'
  <2>1. /\ UNCHANGED <<run, workdir, age, client, creates, container, daemon, pump, sampler,
                       excused>>
        /\ should_reap(container.st, container.age)
        /\ reaper' = [pc |-> "sweep", target |-> container.id]
    BY <1>21, Zenon DEF _reap_containers, procVars, taskVars
  <2>2. container.st \in {"created", "running", "exited"}
    BY <2>1, Zenon DEF should_reap
  <2>3. container.id \in Runs
    BY <2>2, ListedIsSomeones, Zenon
  <2>4. container.st = "exited" \/ ~Live(container.id) \/ age[container.id] >= ORPHAN_AGE_SECONDS
    BY <2>1, <2>3, ReapedIsOver, Zenon
  <2>5. Typing' /\ reaper'.target = container.id
    BY <2>1, <2>3, Zenon DEF Typing
  <2>6. EarlyInv' /\ ContainerInv' /\ TargetInv'
    BY <2>1, <2>3, <2>4, <2>5, Zenon DEF EarlyInv, Early, ContainerInv, TargetInv, Live
  <2>. QED
    BY <2>1, <2>5, <2>6, Zenon DEF ClientInv, Waiting, AgeInv, Begun, Live, SamplerInv,
                            NothingRunsUnsupervised
<1>22. ASSUME _reap_containers, reaper' = reaper PROVE IInv'
  <2>1. /\ UNCHANGED <<run, age, client, creates, container, daemon, pump, sampler, reaper,
                       excused>>
        /\ _reap_workdirs
    BY <1>22, Zenon DEF _reap_containers, procVars, taskVars, Nobody
  <2>2. workdir' \subseteq Runs
    BY <2>1 DEF _reap_workdirs, Typing
  <2>3. Typing'
    BY <2>1, <2>2, Zenon DEF Typing
  <2>4. EarlyInv'
    BY <2>1, Zenon DEF EarlyInv, Early
  <2>5. ClientInv'
    BY <2>1, Zenon DEF ClientInv, Waiting
  <2>6. ContainerInv'
    BY <2>1, <2>2, Zenon DEF ContainerInv
  <2>7. AgeInv'
    BY <2>1, <2>2, Zenon DEF AgeInv, Begun, Live
  <2>8. TargetInv'
    BY <2>1, <2>2 DEF TargetInv, Live
  <2>9. SamplerInv'
    BY <2>1, <2>2, Zenon DEF SamplerInv, Waiting
  <2>10. NothingRunsUnsupervised'
    BY <2>1, <2>2, ZenonT(60) DEF NothingRunsUnsupervised, Live
  <2>. QED
    BY <2>3, <2>4, <2>5, <2>6, <2>7, <2>8, <2>9, <2>10
<1>23. ASSUME ReapListed PROVE IInv'
  <2>1. /\ UNCHANGED <<run, age, creates, daemon, pump, sampler, excused>> /\ _reap_workdirs
        /\ reaper' = [pc |-> "wait", target |-> Nobody]
    BY <1>23 DEF ReapListed, taskVars
  <2>2. workdir' \subseteq Runs
    BY <2>1 DEF _reap_workdirs, Typing
  <2>3. container' = container \/ container' = NoContainer
    BY <1>23, ZenonT(60) DEF ReapListed
  <2>4. /\ client' \in [Runs -> Client]
        /\ \A s \in Runs : \/ client'[s] = client[s]
                           \/ client'[s].st \in {"exited", "none"} /\ client[s].st = "attached"
    BY <1>23, RemovalEndsClient DEF ReapListed, Typing
  <2>5. /\ NoContainer \in Container /\ NoContainer.id \notin Runs
        /\ NoContainer.id \notin creates /\ NoContainer.st = "none"
    BY NoContainerFacts
  <2>6. Nobody \notin Runs /\ reaper'.target = Nobody
    BY <2>1 DEF Nobody, Runs
  <2>7. \A r \in Runs : container'.id = r => container' = container
    BY <2>3, <2>5, Zenon
  <2>8. Typing'
    BY <2>1, <2>2, <2>3, <2>4, <2>5, Zenon DEF Typing
  <2>9. EarlyInv'
    BY <2>1, <2>4, <2>6, <2>7, ZenonT(60) DEF EarlyInv, Early
  <2>10. ClientInv'
    BY <2>1, <2>4, Zenon DEF ClientInv, Waiting
  <2>11. ContainerInv'
    BY <2>1, <2>3, <2>4, <2>5, <2>6, SMTT(30) DEF ContainerInv, Typing
  <2>12. AgeInv'
    BY <2>1, <2>2, <2>7, Zenon DEF AgeInv, Begun, Live
  <2>13. TargetInv'
    BY <2>1, <2>6, Zenon DEF TargetInv, Live
  <2>14. SamplerInv'
    BY <2>1, Zenon DEF SamplerInv, Waiting
  <2>15. NothingRunsUnsupervised'
    BY <2>1, <2>3, <2>5, ZenonT(60) DEF NothingRunsUnsupervised, Live
  <2>. QED
    BY <2>8, <2>9, <2>10, <2>11, <2>12, <2>13, <2>14, <2>15
<1>24. ASSUME UNCHANGED <<run, workdir, age, client, creates, container, pump, sampler, excused>>,
            UNCHANGED reaper \/ reaper' = [pc |-> "dead", target |-> Nobody],
            daemon' \in {"up", "down"}
     PROVE  IInv'
  <2>1. Nobody \notin Runs /\ (reaper' = reaper \/ reaper'.target = Nobody)
    BY <1>24, SMTT(30) DEF Nobody, Runs
  <2>2. Typing'
    <3>1. reaper' \in [pc: {"wait", "sweep", "dead"}, target: Runs \cup {Nobody}]
      <4>1. reaper \in [pc: {"wait", "sweep", "dead"}, target: Runs \cup {Nobody}]
        BY Zenon DEF Typing
      <4>2. [pc |-> "dead", target |-> Nobody]
              \in [pc: {"wait", "sweep", "dead"}, target: Runs \cup {Nobody}]
        BY Zenon
      <4>. QED
        BY <1>24, <4>1, <4>2, Zenon
    <3>. QED
      BY <1>24, <3>1, Zenon DEF Typing
  <2>3. EarlyInv' /\ ContainerInv' /\ TargetInv'
    BY <1>24, <2>1, SMTT(30) DEF EarlyInv, Early, ContainerInv, TargetInv, Live, Typing
  <2>. QED
    BY <1>24, <2>2, <2>3, Zenon DEF ClientInv, Waiting, AgeInv, Begun, Live, SamplerInv,
                            NothingRunsUnsupervised
<1>25. ASSUME NEW r \in Runs, Cancel(r) PROVE IInv'
  BY <1>24, <1>25, Zenon DEF Cancel, procVars, taskVars, Typing
<1>26. CASE Outage \/ Recover \/ ReaperRaises
  BY <1>24, <1>26, ZenonT(60) DEF Outage, Recover, ReaperRaises, procVars, taskVars, Typing
<1>27. CASE UNCHANGED vars
  BY <1>24, <1>27 DEF vars, procVars, taskVars, Typing
<1>28. ASSUME NEW r \in Runs, RunStep(r) PROVE IInv'
  BY <1>28, <1>2, <1>3, <1>4, <1>5, <1>7, <1>8, <1>15, <1>16, <1>17, <1>18, Zenon DEF RunStep
<1>29. CASE ReapStep
  BY <1>29, <1>21, <1>22, <1>23, ZenonT(60) DEF ReapStep
<1>. QED
  BY <1>1, <1>6, <1>9, <1>10, <1>11, <1>12, <1>13, <1>14, <1>19, <1>20, <1>25, <1>26, <1>27,
     <1>28, <1>29, ZenonT(60) DEF Next

\* The invariant holds initially.
LEMMA InitIInv == Init => IInv
<1> SUFFICES ASSUME Init PROVE IInv
  OBVIOUS
<1> USE DEF Init, RunAt
<1>1. Typing
  BY SandboxAssumption, SMTT(30) DEF Typing, Run, PCs, Outcomes, Statuses, Client, NoClient, Container,
       NoContainer, Nobody, MaxAge, ORPHAN_AGE_SECONDS
<1>2. EarlyInv
  BY DEF EarlyInv, Early, NoContainer, NoClient, Nobody, Runs
<1>3. ClientInv /\ ContainerInv /\ SamplerInv
  BY ZenonT(60) DEF ClientInv, ContainerInv, SamplerInv, NoContainer, NoClient, Nobody, Runs
<1>4. AgeInv /\ TargetInv /\ NothingRunsUnsupervised
  BY DEF AgeInv, TargetInv, NothingRunsUnsupervised, NoContainer, Begun, Live, Nobody, Runs
<1>. QED
  BY <1>1, <1>2, <1>3, <1>4 DEF IInv

\* The invariant holds throughout.
LEMMA IInvHolds == Spec => []IInv
  BY InitIInv, StepKeepsIInv, PTL DEF Spec

(***************************************************************************)
(* The theorems                                                            *)
(***************************************************************************)

\* A program runs only under a live execute, however late Docker created its
\* container and whichever delivery's it is (executor.py, _terminate, _cleanup).
THEOREM ProgramsAreSupervised == Spec => []NothingRunsUnsupervised
<1>1. IInv => NothingRunsUnsupervised
  BY DEF IInv
<1>. QED
  BY <1>1, IInvHolds, PTL

\* No sampler outlives a run that did not raise (executor.py, _run).
THEOREM SamplersEnd == Spec => []SamplerEndsWithRun
<1>1. IInv => SamplerEndsWithRun
  BY DEF IInv, SamplerInv, SamplerEndsWithRun, Waiting, Live
<1>. QED
  BY <1>1, IInvHolds, PTL

\* The reaper removes no container that a live execute younger than the orphan age
\* is using, although its listing may be old when it does (cleanup.py,
\* _reap_containers).
THEOREM ActiveContainersAreSpared == Spec => ReaperSparesActive
<1> DEFINE Spares == reaper' # reaper /\ container.st \in {"created", "running"}
                       /\ Live(container.id)
                       => container' = container \/ age[container.id] >= ORPHAN_AGE_SECONDS
<1>1. ASSUME IInv, Next PROVE Spares
  <2>1. SUFFICES ASSUME reaper' # reaper, container.st \in {"created", "running"},
                        Live(container.id), container' # container,
                        ~(age[container.id] >= ORPHAN_AGE_SECONDS)
                 PROVE  FALSE
    OBVIOUS
  <2>2. CASE ReapListed
    <3>1. container.id = reaper.target
      BY <2>1, <2>2, ZenonT(60) DEF ReapListed
    <3>2. container.id \in Runs
      <4>1. ContainerInv /\ container # NoContainer
        BY <1>1, <2>1, NoContainerFacts DEF IInv
      <4>. QED
        BY <4>1, Zenon DEF ContainerInv
    <3>. QED
      BY <1>1, <2>1, <3>1, <3>2 DEF IInv, TargetInv
  <2>3. CASE _reap_containers \/ ReaperRaises
    BY <2>1, <2>3, Zenon DEF _reap_containers, ReaperRaises, procVars
  <2>4. ~ReapStep /\ ~ReaperRaises => UNCHANGED reaper
    BY <1>1, ZenonT(60) DEF Next, RunStep, Execute, _verify_image, _prepare_workdir, _spawn,
         _await_completion, Sigterm, Sigkill, TerminateEnds, GiveUp, FinishRun, _cleanup, Cancel,
         CommandRaises, DaemonCreate, ClientStart, Crash, PumpEnds, _pump, ProgramExit,
         AutoRemove, Outage, Recover, Tick
  <2>. QED
    BY <2>1, <2>2, <2>3, <2>4 DEF ReapStep
<1>2. UNCHANGED vars => Spares
  BY DEF vars
<1>3. IInv /\ [Next]_vars => [Spares]_vars
  BY <1>1, <1>2
<1>. QED
  BY <1>3, IInvHolds, PTL DEF Spec, ReaperSparesActive

(***************************************************************************)
(* The output cap.  Bytes is a recursive function; its facts are proved by *)
(* the least counterexample.                                               *)
(***************************************************************************)

\* A set of naturals that is not empty has a least element.
LEMMA LeastNatural ==
  ASSUME NEW T, T \subseteq Nat, T # {}
  PROVE  \E n \in T : \A m \in T : n <= m
<1> DEFINE R == {ss \in Nat \X Nat : ss[1] < ss[2]}
<1>1. PICK n \in T : \A m \in T : ~(<<m, n>> \in R)
  <2> HIDE DEF R
  <2>1. IsWellFoundedOn(R, Nat)
    BY NatLessThanWellFounded DEF OpToRel, R
  <2>. QED
    BY <2>1, WFMin, Zenon
<1>2. ASSUME NEW m \in T PROVE n <= m
  <2>1. m \in Nat /\ n \in Nat /\ ~(<<m, n>> \in R)
    BY <1>1
  <2>2. m < n => <<m, n>> \in R
    BY <2>1
  <2>. QED
    BY <2>1, <2>2
<1>. QED
  BY <1>1, <1>2

\* The equation that the running sum of a text satisfies.
SumOf(text, n, f) ==
  f = [i \in 0..n |-> IF i = 0 THEN 0 ELSE f[i - 1] + text[i]]

\* The running sum of a text exists: Bytes is well defined.
LEMMA SumExists ==
  ASSUME NEW text \in Seq(Nat), NEW n \in Nat
  PROVE  \E f : SumOf(text, n, f)
<1> DEFINE T == {k \in Nat : ~ \E f : SumOf(text, k, f)}
<1>. SUFFICES ASSUME T # {} PROVE FALSE
  BY Zenon
<1>1. PICK k \in T : \A m \in T : k <= m
  BY LeastNatural, Zenon
<1>2. k # 0
  <2>1. SumOf(text, 0, [i \in 0..0 |-> 0])
    BY DEF SumOf
  <2>. QED
    BY <2>1
<1>3. PICK f : SumOf(text, k - 1, f)
  BY <1>1, <1>2
<1> DEFINE g == [i \in 0..k |-> IF i = k THEN f[k - 1] + text[k] ELSE f[i]]
<1>4. ASSUME NEW i \in 0..k PROVE g[i] = IF i = 0 THEN 0 ELSE g[i - 1] + text[i]
  <2>1. CASE i = k
    BY <1>2, <2>1
  <2>2. CASE i # k
    <3>1. i \in 0..(k - 1) /\ f[i] = IF i = 0 THEN 0 ELSE f[i - 1] + text[i]
      BY <1>3, <2>2 DEF SumOf
    <3>. QED
      BY <2>2, <3>1
  <2>. QED
    BY <2>1, <2>2
<1>5. SumOf(text, k, g)
  BY <1>4 DEF SumOf
<1>. QED
  BY <1>5

\* The size of a text is a number of bytes, and that of no text is 0.
LEMMA BytesType ==
  ASSUME NEW text \in Seq(Nat)
  PROVE  Bytes(text) \in Nat /\ (text = <<>> => Bytes(text) = 0)
<1> DEFINE f == CHOOSE g : g = [i \in 0..Len(text) |-> IF i = 0 THEN 0 ELSE g[i - 1] + text[i]]
<1>1. Bytes(text) = f[Len(text)]
  BY DEF Bytes
<1>2. f = [i \in 0..Len(text) |-> IF i = 0 THEN 0 ELSE f[i - 1] + text[i]]
  <2>1. Len(text) \in Nat
    OBVIOUS
  <2>2. \E g : SumOf(text, Len(text), g)
    BY <2>1, SumExists
  <2>. QED
    BY <2>2, Zenon DEF SumOf
<1> HIDE DEF f
<1> DEFINE T == {k \in 0..Len(text) : f[k] \notin Nat}
<1>3. T = {}
  <2>. SUFFICES ASSUME T # {} PROVE FALSE
    OBVIOUS
  <2>1. PICK k \in T : \A m \in T : k <= m
    <3>1. T \subseteq Nat
      OBVIOUS
    <3> HIDE DEF T
    <3>. QED
      BY <3>1, LeastNatural, Zenon
  <2>2. k # 0
    BY <1>2
  <2>3. f[k - 1] \in Nat /\ text[k] \in Nat
    BY <2>1, <2>2
  <2>4. f[k] = f[k - 1] + text[k]
    BY <1>2, <2>2, Zenon
  <2>. QED
    BY <2>3, <2>4
<1>4. Len(text) \in 0..Len(text) /\ (text = <<>> => Len(text) = 0)
  OBVIOUS
<1>5. f[0] = 0 /\ f[Len(text)] \in Nat
  <2>1. 0 \in 0..Len(text)
    OBVIOUS
  <2>2. f[0] = 0
    BY <1>2, <2>1
  <2>. QED
    BY <1>3, <1>4, <2>2
<1>. QED
  BY <1>1, <1>4, <1>5

\* encoded[:room].decode("utf-8", "ignore") fits the room.
LEMMA CutFits ==
  ASSUME NEW text \in Seq(Nat), NEW room \in Nat
  PROVE  Cut(text, room) \in Seq(Nat) /\ Bytes(Cut(text, room)) <= room
<1> DEFINE fits == {i \in 0..Len(text) : Bytes(SubSeq(text, 1, i)) <= room}
           T == {n \in 0..Len(text) : \A i \in fits : i <= n}
<1>1. 0 \in fits
  <2>1. SubSeq(text, 1, 0) = <<>>
    OBVIOUS
  <2>2. SubSeq(text, 1, 0) \in Seq(Nat) /\ 0 \in 0..Len(text)
    OBVIOUS
  <2>3. Bytes(SubSeq(text, 1, 0)) = 0
    BY <2>1, <2>2, BytesType, Zenon
  <2>. QED
    BY <2>2, <2>3
<1>2. PICK n \in T : \A m \in T : n <= m
  <2>1. Len(text) \in T
    OBVIOUS
  <2>2. T \subseteq Nat /\ T # {}
    BY <2>1
  <2>. QED
    BY <2>2, LeastNatural, Zenon
<1>3. n \in fits
  <2>. SUFFICES ASSUME n \notin fits PROVE FALSE
    OBVIOUS
  <2>1. n # 0
    BY <1>1
  <2>2. n - 1 \in T
    <3> HIDE DEF fits
    <3>1. \A i \in fits : i <= n /\ i # n /\ i \in Nat
      BY DEF fits
    <3>. QED
      BY <2>1, <3>1
  <2>3. n \in Nat
    OBVIOUS
  <2>4. n <= n - 1
    <3> HIDE DEF T
    <3>. QED
      BY <1>2, <2>2
  <2>. QED
    BY <2>3, <2>4
<1> DEFINE c == CHOOSE i \in fits : \A k \in fits : k <= i
<1>4. c \in fits
  <2> HIDE DEF fits
  <2>1. \E i \in fits : \A k \in fits : k <= i
    BY <1>2, <1>3
  <2>. QED
    BY <2>1
<1>5. Cut(text, room) = SubSeq(text, 1, c)
  BY Zenon DEF Cut
<1> HIDE DEF c
<1>. QED
  BY <1>4, <1>5
\* What append keeps true of a capture: it holds no more than it has counted, that
\* is within the cap, and the flag is up exactly when a character was dropped.
Sound(c, max_bytes) ==
  /\ c \in Capture /\ c.used <= max_bytes /\ c.kept <= c.used
  /\ c.truncated <=> c.lost

\* What fits the room that is left fits the cap.
LEMMA RoomFits ==
  ASSUME NEW used \in Nat, NEW kept \in Nat, NEW left \in Nat, NEW size \in Nat, NEW cap \in Nat,
         kept <= used, used + left = cap, size <= left
  PROVE  /\ kept + size \in Nat /\ used + size \in Nat
         /\ kept + size <= used + size /\ used + size <= cap /\ kept + size <= cap
  OBVIOUS

\* _OutputCapture.append never exceeds the cap and never drops a character in
\* silence, whatever the texts and however they straddle it (executor.py).
LEMMA AppendKeepsSound ==
  ASSUME NEW max_bytes \in Nat, NEW c, Sound(c, max_bytes), NEW text \in Seq(Nat)
  PROVE  Sound(append(c, text, max_bytes), max_bytes)
<1> DEFINE room == max_bytes - c.used
           cut == Cut(text, room)
           d == append(c, text, max_bytes)
<1>1. /\ c \in Capture /\ c.used \in Nat /\ c.kept \in Nat /\ c.used <= max_bytes
      /\ c.kept <= c.used /\ c.truncated \in BOOLEAN /\ c.lost \in BOOLEAN
      /\ c.truncated <=> c.lost
  BY DEF Sound, Capture
<1>2. room \in Nat /\ Bytes(text) \in Nat /\ c.used + room = max_bytes
  BY <1>1, BytesType
<1>3. cut \in Seq(Nat) /\ Bytes(cut) <= room /\ Bytes(cut) \in Nat
  <2> HIDE DEF room
  <2>. QED
    BY <1>2, CutFits, BytesType, Zenon
<1>4. CASE c.used >= max_bytes
  <2>1. d = [[c EXCEPT !.truncated = TRUE] EXCEPT !.lost = TRUE]
    BY <1>1, <1>4 DEF append, Capture
  <2> HIDE DEF d
  <2>. QED
    BY <1>1, <2>1, Zenon DEF Sound, Capture, d
<1>5. CASE c.used < max_bytes /\ Bytes(text) > room
  <2>1. cut # text
    BY <1>2, <1>3, <1>5
  <2>2. d = [used |-> max_bytes, kept |-> c.kept + Bytes(cut), truncated |-> TRUE, lost |-> TRUE]
    <3> HIDE DEF cut
    <3>1. ~(c.used >= max_bytes)
      BY <1>1, <1>5
    <3>. QED
      BY <1>5, <2>1, <3>1, Zenon DEF append, cut
  <2> HIDE DEF d, cut, room
  <2>3. c.kept + Bytes(cut) \in Nat /\ c.kept + Bytes(cut) <= max_bytes
    BY <1>1, <1>2, <1>3, RoomFits, Zenon
  <2>. QED
    BY <2>2, <2>3 DEF Sound, Capture, d
<1>6. CASE c.used < max_bytes /\ ~(Bytes(text) > room)
  <2>2. d = [used |-> c.used + Bytes(text), kept |-> c.kept + Bytes(text),
             truncated |-> c.truncated, lost |-> c.lost]
    <3>1. ~(c.used >= max_bytes)
      BY <1>1, <1>6
    <3>. QED
      BY <1>1, <1>6, <3>1 DEF append
  <2> HIDE DEF d, room
  <2>3. /\ c.kept + Bytes(text) \in Nat /\ c.used + Bytes(text) \in Nat
        /\ c.kept + Bytes(text) <= c.used + Bytes(text) /\ c.used + Bytes(text) <= max_bytes
    <3>1. Bytes(text) <= room
      BY <1>6, <1>2, Z3
    <3>. QED
      BY <1>1, <1>2, <3>1, RoomFits, Zenon
  <2>. QED
    BY <1>1, <2>2, <2>3 DEF Sound, Capture, d
<1>. QED
  BY <1>1, <1>4, <1>5, <1>6

(***************************************************************************)
(* The rest of the types                                                   *)
(***************************************************************************)

RestInv ==
  /\ cancel \subseteq Runs /\ ran \subseteq Runs
  /\ troubles \in 0..MaxTroubles
  /\ capture \in [Runs -> Capture]

CaptureInv == \A r \in Runs : Sound(capture[r], MaxOutput)

\* A new capture is sound.
LEMMA EmptyIsSound == EmptyCapture \in Capture /\ Sound(EmptyCapture, MaxOutput)
  BY SandboxAssumption DEF EmptyCapture, Capture, Sound

\* What a step may do to these four variables.
Counted == UNCHANGED troubles \/ \E kind : Trouble(kind)
Modest(r) ==
  /\ cancel' \subseteq cancel \cup {r} /\ ran' \subseteq ran /\ Counted
  /\ UNCHANGED capture \/ capture' = [capture EXCEPT ![r] = EmptyCapture]

\* The steps of one run change no other run's capture.
LEMMA StepIsModest ==
  ASSUME NEW r \in Runs,
         \/ Execute(r) \/ RunStep(r) \/ Cancel(r) \/ CommandRaises(r) \/ DaemonCreate(r)
         \/ ClientStart(r) \/ Crash(r) \/ PumpEnds(r)
  PROVE  Modest(r)
<1> USE DEF Modest, Counted, taskVars, procVars
<1>1. CASE Execute(r)
  BY <1>1, Zenon DEF Execute
<1>2. CASE _verify_image(r)
  BY <1>2, Zenon DEF _verify_image
<1>3. CASE _prepare_workdir(r)
  BY <1>3, Zenon DEF _prepare_workdir
<1>4. CASE _spawn(r)
  BY <1>4, Zenon DEF _spawn
<1>5. CASE _await_completion(r)
  BY <1>5, Zenon DEF _await_completion
<1>6. CASE Sigterm(r)
  BY <1>6, Zenon DEF Sigterm
<1>7. CASE Sigkill(r)
  BY <1>7, Zenon DEF Sigkill
<1>8. CASE TerminateEnds(r)
  BY <1>8, Zenon DEF TerminateEnds
<1>9. CASE GiveUp(r)
  BY <1>9, Zenon DEF GiveUp
<1>10. CASE FinishRun(r)
  BY <1>10, Zenon DEF FinishRun
<1>11. CASE _cleanup(r)
  BY <1>11, Zenon DEF _cleanup
<1>12. CASE Cancel(r)
  BY <1>12, Zenon DEF Cancel
<1>13. CASE CommandRaises(r)
  BY <1>13, Zenon DEF CommandRaises
<1>14. CASE DaemonCreate(r)
  BY <1>14, Zenon DEF DaemonCreate
<1>15. CASE ClientStart(r)
  BY <1>15, Zenon DEF ClientStart
<1>16. CASE Crash(r)
  BY <1>16, Zenon DEF Crash
<1>17. CASE PumpEnds(r)
  BY <1>17, Zenon DEF PumpEnds
<1> HIDE DEF Modest
<1>. QED
  BY <1>1, <1>2, <1>3, <1>4, <1>5, <1>6, <1>7, <1>8, <1>9, <1>10, <1>11, <1>12, <1>13, <1>14,
     <1>15, <1>16, <1>17, Zenon DEF RunStep

\* Every step keeps the types of the captures and their soundness.
LEMMA StepKeepsRest ==
  ASSUME IInv, RestInv, CaptureInv, [Next]_vars
  PROVE  RestInv' /\ CaptureInv'
<1>1. ASSUME Counted PROVE troubles' \in 0..MaxTroubles
  BY <1>1, SandboxAssumption DEF Counted, Trouble, RestInv
<1>2. ASSUME NEW r \in Runs, NEW c \in Capture, Sound(c, MaxOutput),
             capture' = [capture EXCEPT ![r] = c]
      PROVE  capture' \in [Runs -> Capture] /\ CaptureInv'
  BY <1>2 DEF RestInv, CaptureInv
<1>3. ASSUME UNCHANGED capture PROVE capture' \in [Runs -> Capture] /\ CaptureInv'
  BY <1>3 DEF RestInv, CaptureInv
<1>4. ASSUME NEW r \in Runs, Modest(r) PROVE RestInv' /\ CaptureInv'
  <2>1. cancel' \subseteq Runs /\ ran' \subseteq Runs /\ Counted
    BY <1>4 DEF Modest, RestInv
  <2>2. capture' \in [Runs -> Capture] /\ CaptureInv'
    BY <1>2, <1>3, <1>4, EmptyIsSound, Zenon DEF Modest
  <2>. QED
    BY <1>1, <2>1, <2>2, Zenon DEF RestInv
<1>5. ASSUME NEW r \in Runs, NEW text \in Texts, _pump(r, text) PROVE RestInv' /\ CaptureInv'
  <2>1. UNCHANGED <<cancel, ran>> /\ Counted
    BY <1>5, Zenon DEF _pump, Counted
  <2>2. Sound(append(capture[r], text, MaxOutput), MaxOutput)
    BY AppendKeepsSound, SandboxAssumption DEF CaptureInv
  <2>3. append(capture[r], text, MaxOutput) \in Capture
    BY <2>2, Zenon DEF Sound
  <2>4. capture' = [capture EXCEPT ![r] = append(capture[r], text, MaxOutput)]
    BY <1>5 DEF _pump
  <2>5. capture' \in [Runs -> Capture] /\ CaptureInv'
    BY <1>2, <2>2, <2>3, <2>4, Zenon
  <2>. QED
    BY <1>1, <2>1, <2>5, Zenon DEF RestInv
<1>6. CASE ProgramExit
  <2>1. UNCHANGED <<cancel, capture, troubles>>
    BY <1>6, Zenon DEF ProgramExit, taskVars
  <2>2. ran' \subseteq ran \cup {container.id} /\ container.st = "running"
    BY <1>6, Zenon DEF ProgramExit
  <2>3. container.id \in Runs
    <3>1. ContainerInv /\ container # NoContainer
      BY <2>2, NoContainerFacts DEF IInv
    <3>. QED
      BY <3>1, Zenon DEF ContainerInv
  <2>4. ran' \subseteq Runs
    BY <2>2, <2>3, Zenon DEF RestInv
  <2>. QED
    BY <1>3, <2>1, <2>4, Zenon DEF RestInv
<1>7. CASE AutoRemove \/ Outage \/ Recover \/ Tick \/ ReapStep \/ ReaperRaises \/ UNCHANGED vars
  <2>1. UNCHANGED <<cancel, ran, capture>> /\ Counted
    <3>1. CASE AutoRemove \/ Outage \/ Recover
      BY <3>1, Zenon DEF AutoRemove, Outage, Recover, taskVars, Counted
    <3>2. CASE Tick \/ ReaperRaises \/ UNCHANGED vars
      BY <3>2, Zenon DEF Tick, ReaperRaises, vars, taskVars, Counted
    <3>3. CASE ReapStep
      BY <3>3, Zenon DEF ReapStep, _reap_containers, ReapListed, taskVars, Counted
    <3>. QED
      BY <1>7, <3>1, <3>2, <3>3, Zenon
  <2>. QED
    BY <1>1, <1>3, <2>1, Zenon DEF RestInv
<1>. QED
  BY <1>4, <1>5, <1>6, <1>7, StepIsModest, Zenon DEF Next

\* The captures are sound throughout.
LEMMA RestHolds == Spec => [](IInv /\ RestInv /\ CaptureInv)
<1>1. Init => RestInv /\ CaptureInv
  BY EmptyIsSound, SandboxAssumption DEF Init, RestInv, CaptureInv
<1>. QED
  BY <1>1, StepKeepsRest, IInvHolds, PTL DEF Spec

\* Every variable of the sandbox keeps its type, for every number of deliveries.
THEOREM SandboxTypeCorrect == Spec => []TypeOK
<1>1. IInv /\ RestInv => TypeOK
  BY Zenon DEF IInv, Typing, RestInv, TypeOK
<1>. QED
  BY <1>1, RestHolds, PTL

\* What a run keeps of its output is within output_max_bytes, and the truncated
\* flag of its result says whether anything was dropped, for every cap and all
\* texts, of characters of any width (executor.py, _OutputCapture).
THEOREM TruncationIsHonest == Spec => []TruncationIsReported
<1>1. CaptureInv => TruncationIsReported
  BY SandboxAssumption DEF CaptureInv, Sound, Capture, TruncationIsReported
<1>. QED
  BY <1>1, RestHolds, PTL

(***************************************************************************)
(* Who moves, and when                                                     *)
(***************************************************************************)

\* The steps of a live execute, with those that befall it.
OwnStep(r) == RunStep(r) \/ Cancel(r) \/ CommandRaises(r) \/ Crash(r)

\* They leave every other run where it is.
LEMMA OthersStay ==
  ASSUME run \in [Runs -> Run], NEW r \in Runs, OwnStep(r)
  PROVE  Live(r) /\ \A s \in Runs : s # r => run'[s] = run[s]
<1> DEFINE Alone == \A s \in Runs : s # r => run'[s] = run[s]
<1>1. ASSUME NEW x, run' = [run EXCEPT ![r] = x] PROVE Alone
  BY <1>1, Zenon
<1>2. CASE _verify_image(r) \/ _prepare_workdir(r) \/ _spawn(r)
  <2>1. Live(r)
    BY <1>2 DEF _verify_image, _prepare_workdir, _spawn, Live
  <2>. QED
    BY <1>1, <1>2, <2>1, Zenon DEF _verify_image, _prepare_workdir, _spawn, Goto
<1>3. CASE _await_completion(r) \/ Sigterm(r) \/ Cancel(r)
  <2>1. Live(r)
    BY <1>3 DEF _await_completion, Sigterm, Cancel, Live
  <2>. QED
    BY <1>1, <1>3, <2>1, Zenon DEF _await_completion, Sigterm, Cancel
<1>4. CASE TerminateEnds(r) \/ Sigkill(r) \/ GiveUp(r)
  <2>1. Live(r)
    BY <1>4 DEF TerminateEnds, Sigkill, GiveUp, Live
  <2>. QED
    BY <1>1, <1>4, <2>1, Zenon DEF TerminateEnds, Sigkill, GiveUp, Goto
<1>5. CASE FinishRun(r) \/ CommandRaises(r)
  <2>1. Live(r)
    BY <1>5 DEF FinishRun, CommandRaises, Live
  <2>. QED
    BY <1>1, <1>5, <2>1, Zenon DEF FinishRun, CommandRaises, Goto
<1>6. CASE _cleanup(r) \/ Crash(r)
  <2>1. Live(r)
    BY <1>6 DEF _cleanup, Crash, Live
  <2>. QED
    BY <1>1, <1>6, <2>1, Zenon DEF _cleanup, Crash
<1>. QED
  BY <1>2, <1>3, <1>4, <1>5, <1>6, Zenon DEF OwnStep, RunStep

\* Every other step but the delivery of the job moves no run.
LEMMA WhoMoves ==
  ASSUME [Next]_vars
  PROVE  \/ UNCHANGED run
         \/ \E r \in Runs : Execute(r) \/ OwnStep(r)
<1>1. ASSUME NEW r \in Runs, DaemonCreate(r) \/ ClientStart(r) \/ PumpEnds(r)
      PROVE  UNCHANGED run
  BY <1>1, Zenon DEF DaemonCreate, ClientStart, PumpEnds
<1>2. ASSUME NEW r \in Runs, NEW text \in Texts, _pump(r, text) PROVE UNCHANGED run
  BY <1>2, Zenon DEF _pump
<1>3. CASE ProgramExit \/ AutoRemove \/ Outage \/ Recover \/ Tick
  BY <1>3, Zenon DEF ProgramExit, AutoRemove, Outage, Recover, Tick
<1>4. CASE ReapStep \/ ReaperRaises \/ UNCHANGED vars
  BY <1>4, Zenon DEF ReapStep, _reap_containers, ReapListed, ReaperRaises, vars
<1>. QED
  BY <1>1, <1>2, <1>3, <1>4, Zenon DEF Next, OwnStep

\* While the timer of its timeout runs, a run is younger than an orphan.
Timed(r) == run[r].pc \in {"spawn", "await"}
DueInv == \A r \in Runs : Timed(r) => age[r] < ORPHAN_AGE_SECONDS

\* Every step keeps DueInv.
LEMMA StepKeepsDue ==
  ASSUME IInv, DueInv, [Next]_vars
  PROVE  DueInv'
<1>a. run \in [Runs -> Run] /\ age \in [Runs -> 0..MaxAge]
  BY Zenon DEF IInv, Typing
<1>1. ASSUME UNCHANGED <<run, age>> PROVE DueInv'
  BY <1>1, Zenon DEF DueInv, Timed
<1>2. ASSUME NEW r \in Runs, \A s \in Runs : s # r => run'[s] = run[s] /\ age'[s] = age[s],
             Timed(r)' => age'[r] < ORPHAN_AGE_SECONDS
      PROVE  DueInv'
  BY <1>2, Zenon DEF DueInv, Timed
<1>3. CASE Tick
  <2>1. UNCHANGED run /\ \A r \in Runs : Timed(r) => age[r] < Timeout
    BY <1>3, Zenon DEF Tick, Timed
  <2>2. ASSUME NEW r \in Runs, Timed(r) PROVE age'[r] < ORPHAN_AGE_SECONDS
    <3>1. age[r] \in Nat /\ age[r] < Timeout
      BY <1>a, <2>1, <2>2 DEF MaxAge, ORPHAN_AGE_SECONDS
    <3>2. age'[r] = MinOf(age[r] + Step, MaxAge) \/ age'[r] = age[r]
      BY <1>3, <1>a, Zenon DEF Tick
    <3>. QED
      BY <3>1, <3>2, TimeoutIsYoung, StepIsPositive DEF MinOf, MaxAge, ORPHAN_AGE_SECONDS
  <2>. QED
    BY <2>1, <2>2, Zenon DEF DueInv, Timed
<1>4. ASSUME NEW r \in Runs, _prepare_workdir(r) PROVE DueInv'
  <2>1. OwnStep(r) /\ age' = [age EXCEPT ![r] = 0]
    BY <1>4, Zenon DEF OwnStep, RunStep, _prepare_workdir
  <2>2. age'[r] = 0 /\ \A s \in Runs : s # r => age'[s] = age[s]
    BY <1>a, <2>1, Zenon
  <2>3. age'[r] < ORPHAN_AGE_SECONDS
    BY <2>2 DEF ORPHAN_AGE_SECONDS
  <2>. QED
    BY <1>2, <2>1, <2>2, <2>3, <1>a, OthersStay, Zenon
<1>5. ASSUME NEW r \in Runs, _spawn(r) PROVE DueInv'
  <2>1. OwnStep(r) /\ UNCHANGED age /\ Timed(r)
    BY <1>5, Zenon DEF OwnStep, RunStep, _spawn, Timed
  <2>2. age'[r] < ORPHAN_AGE_SECONDS
    BY <2>1, Zenon DEF DueInv
  <2>. QED
    BY <1>2, <2>1, <2>2, <1>a, OthersStay, Zenon
<1>6. ASSUME NEW r \in Runs, _cleanup(r) PROVE DueInv'
  <2>1. OwnStep(r) /\ age' = [age EXCEPT ![r] = 0] /\ run' = [run EXCEPT ![r] = RunAt("ended")]
    BY <1>6, Zenon DEF OwnStep, RunStep, _cleanup
  <2>2. \A s \in Runs : s # r => age'[s] = age[s]
    BY <1>a, <2>1, Zenon
  <2>3. ~Timed(r)'
    BY <1>a, <2>1 DEF RunAt, Timed
  <2>. QED
    BY <1>2, <2>1, <2>2, <2>3, <1>a, OthersStay, Zenon
\* The other steps that move a run take it out of the wait.
<1>7. ASSUME NEW r \in Runs, Execute(r) \/ OwnStep(r), UNCHANGED age, ~Timed(r)' PROVE DueInv'
  <2>1. \A s \in Runs : s # r => run'[s] = run[s]
    BY <1>7, <1>a, OthersStay, Zenon DEF Execute, Goto
  <2>. QED
    BY <1>2, <1>7, <2>1, Zenon
<1>8. ASSUME NEW r \in Runs, NEW label \in PCs, Goto(r, label), label \notin {"spawn", "await"}
      PROVE  ~Timed(r)'
  BY <1>8, <1>a, GotoMoves DEF Timed
<1>9. ASSUME NEW r \in Runs, Execute(r) \/ _verify_image(r) \/ TerminateEnds(r) \/ Sigkill(r)
                             \/ GiveUp(r) \/ CommandRaises(r)
      PROVE  UNCHANGED age /\ ~Timed(r)'
  <2>1. UNCHANGED age
    BY <1>9, Zenon DEF Execute, _verify_image, TerminateEnds, Sigkill, GiveUp, CommandRaises
  <2>2. \E label \in {"verify", "workdir", "ended", "drain", "killwait", "cleanup"} : Goto(r, label)
    BY <1>9, Zenon DEF Execute, _verify_image, TerminateEnds, Sigkill, GiveUp, CommandRaises
  <2>. QED
    BY <1>8, <2>1, <2>2 DEF PCs
<1>10. ASSUME NEW r \in Runs, _await_completion(r) \/ Sigterm(r) \/ FinishRun(r) \/ Crash(r)
       PROVE  UNCHANGED age /\ ~Timed(r)'
  <2>1. UNCHANGED age
    BY <1>10, Zenon DEF _await_completion, Sigterm, FinishRun, Crash
  <2>2. CASE _await_completion(r) \/ Sigterm(r)
    <3>1. \E o : \E label \in {"drain", "grace"} :
            run' = [run EXCEPT ![r] = [@ EXCEPT !.pc = label, !.outcome = o]]
      BY <2>2, Zenon DEF _await_completion, Sigterm
    <3>2. run'[r].pc \in {"drain", "grace"}
      BY <1>a, <3>1, Zenon DEF Run
    <3>. QED
      BY <2>1, <3>2 DEF Timed
  <2>3. CASE FinishRun(r)
    <3>1. \/ Goto(r, "cleanup")
          \/ \E o : run' = [run EXCEPT ![r] = [@ EXCEPT !.pc = "cleanup", !.status = o]]
      BY <2>3, Zenon DEF FinishRun
    <3>2. run'[r].pc = "cleanup"
      BY <1>a, <3>1, Zenon DEF Goto, Run
    <3>. QED
      BY <2>1, <3>2 DEF Timed
  <2>4. CASE Crash(r)
    <3>1. run'[r] = RunAt("dead")
      BY <1>a, <2>4, Zenon DEF Crash
    <3>. QED
      BY <2>1, <3>1 DEF Timed, RunAt
  <2>. QED
    BY <1>10, <2>2, <2>3, <2>4
<1>11. ASSUME NEW r \in Runs, Cancel(r) PROVE DueInv'
  BY <1>1, <1>11, Zenon DEF Cancel
<1>12. CASE \E r \in Runs : Execute(r) \/ OwnStep(r)
  BY <1>12, <1>4, <1>5, <1>6, <1>7, <1>9, <1>10, <1>11, Zenon DEF OwnStep, RunStep
<1>13. CASE UNCHANGED run /\ ~Tick /\ ~ \E r \in Runs : Execute(r) \/ OwnStep(r)
  <2>1. UNCHANGED age
    <3>1. ASSUME NEW r \in Runs, DaemonCreate(r) \/ ClientStart(r) \/ PumpEnds(r)
          PROVE  UNCHANGED age
      BY <3>1, Zenon DEF DaemonCreate, ClientStart, PumpEnds
    <3>2. ASSUME NEW r \in Runs, NEW text \in Texts, _pump(r, text) PROVE UNCHANGED age
      BY <3>2, Zenon DEF _pump
    <3>3. CASE ProgramExit \/ AutoRemove \/ Outage \/ Recover
      BY <3>3, Zenon DEF ProgramExit, AutoRemove, Outage, Recover
    <3>4. CASE ReapStep \/ ReaperRaises \/ UNCHANGED vars
      BY <3>4, Zenon DEF ReapStep, _reap_containers, ReapListed, ReaperRaises, vars
    <3>. QED
      BY <1>13, <3>1, <3>2, <3>3, <3>4, Zenon DEF Next, OwnStep
  <2>. QED
    BY <1>1, <1>13, <2>1, Zenon
<1>. QED
  BY <1>3, <1>12, <1>13, WhoMoves, Zenon

\* DueInv holds throughout.
LEMMA DueHolds == Spec => [](IInv /\ DueInv)
<1>1. Init => DueInv
  BY DEF Init, DueInv, Timed, RunAt
<1>. QED
  BY <1>1, StepKeepsDue, IInvHolds, PTL DEF Spec

\* A container that is removed by its listing while its run awaits the client has
\* exited.
LEMMA SweepIsLate ==
  ASSUME IInv, DueInv, NEW r \in Runs, run[r].pc = "await", container.id = r, reaper.target = r
  PROVE  container.st = "exited"
<1>1. Live(r) /\ Timed(r) /\ age[r] \in Nat
  BY AgesAreSeconds, Zenon DEF Live, Timed, IInv
<1>2. ~(age[r] >= ORPHAN_AGE_SECONDS)
  BY <1>1 DEF DueInv, ORPHAN_AGE_SECONDS
<1>. QED
  BY <1>1, <1>2, Zenon DEF IInv, TargetInv

(***************************************************************************)
(* What COMPLETED means.  The run sandbox_completed shows that it may not  *)
(* mean that the program ran.  That takes a second delivery, or a daemon   *)
(* that refuses to start the container.                                    *)
(***************************************************************************)

\* While its client is waited for, a run has its container, and what has exited is
\* a program that came to its own end.
RanOf(r) ==
  /\ run[r].pc = "await" =>
       /\ client[r].st = "created" => container.id = r
       /\ client[r].st = "exited" => r \in ran
       /\ container.id = r /\ container.st = "exited" => r \in ran
  /\ run[r].outcome = "completed" => r \in ran
  /\ run[r].status = "COMPLETED" => r \in ran

RanInv == \A r \in Runs : RanOf(r)

\* Only the step that writes them changes a run's outcome and status.
LEMMA GotoKeeps ==
  ASSUME run \in [Runs -> Run], NEW r \in Runs, NEW label, Goto(r, label)
  PROVE  /\ run'[r].pc = label
         /\ run'[r].outcome = run[r].outcome /\ run'[r].status = run[r].status
  BY Zenon DEF Goto, Run

\* Every step keeps RanInv.
LEMMA StepKeepsRan ==
  ASSUME Deliveries = 1, "start" \notin Faults, IInv, DueInv, RanInv, [Next]_vars
  PROVE  RanInv'
<1>. SUFFICES ASSUME NEW r \in Runs PROVE RanOf(r)'
  BY Zenon DEF RanInv
<1>a. RanOf(r) /\ run \in [Runs -> Run] /\ run[r] \in Run /\ Typing /\ ContainerInv
  BY Zenon DEF RanInv, IInv, Typing
<1>b. \A s \in Runs : s = r
  BY DEF Runs
<1>c. client \in [Runs -> Client] /\ container \in Container
  BY <1>a, Zenon DEF Typing
\* A step that leaves the run alone.
<1>1. ASSUME run'[r] = run[r], client'[r] = client[r], ran \subseteq ran',
             container'.id = container.id, container'.st = container.st
      PROVE  RanOf(r)'
  BY <1>1, <1>a, Zenon DEF RanOf
\* A step that ends the wait, or is before or after it.
<1>2. ASSUME run'[r].pc # "await", ran' = ran,
             run'[r].outcome = "completed" => r \in ran,
             run'[r].status = "COMPLETED" => r \in ran
      PROVE  RanOf(r)'
  BY <1>2, Zenon DEF RanOf
<1>3. ASSUME NEW label, Goto(r, label), label # "await", ran' = ran PROVE RanOf(r)'
  <2>1. /\ run'[r].pc = label
        /\ run'[r].outcome = run[r].outcome /\ run'[r].status = run[r].status
    BY <1>3, <1>a, GotoKeeps
  <2>. QED
    BY <1>2, <1>3, <1>a, <2>1, Zenon DEF RanOf
<1>4. CASE Execute(r) \/ _verify_image(r) \/ _prepare_workdir(r) \/ TerminateEnds(r) \/ Sigkill(r)
           \/ GiveUp(r) \/ CommandRaises(r)
  <2>1. ran' = ran
    BY <1>4, Zenon DEF Execute, _verify_image, _prepare_workdir, TerminateEnds, Sigkill, GiveUp,
       CommandRaises
  <2>2. \E label \in {"verify", "workdir", "ended", "spawn", "drain", "killwait", "cleanup"} :
          Goto(r, label)
    BY <1>4, Zenon DEF Execute, _verify_image, _prepare_workdir, TerminateEnds, Sigkill, GiveUp,
       CommandRaises
  <2>. QED
    BY <1>3, <2>1, <2>2
<1>5. CASE _spawn(r)
  <2>1. /\ Goto(r, "await") /\ UNCHANGED <<ran, container>>
        /\ client' = [client EXCEPT ![r] = [st |-> "creating", rc |-> 0]]
    BY <1>5, Zenon DEF _spawn
  <2>2. client'[r].st = "creating"
    BY <1>c, <2>1
  <2>3. container'.id # r
    <3>1. Early(r)
      BY <1>5, Zenon DEF _spawn, Early
    <3>. QED
      BY <2>1, <3>1, Zenon DEF IInv, EarlyInv
  <2>4. run'[r].outcome = run[r].outcome /\ run'[r].status = run[r].status
    BY <1>a, <2>1, GotoKeeps
  <2>. QED
    BY <1>a, <2>1, <2>2, <2>3, <2>4 DEF RanOf
<1>6. CASE _await_completion(r)
  <2>1. /\ run' = [run EXCEPT ![r] = [@ EXCEPT !.pc = "drain", !.outcome = "completed"]]
        /\ run[r].pc = "await" /\ client[r].st = "exited" /\ ran' = ran
    BY <1>6, Zenon DEF _await_completion, Exited
  <2>2. r \in ran
    BY <1>a, <2>1, Zenon DEF RanOf
  <2>3. run'[r].pc = "drain"
    BY <1>a, <2>1, Zenon DEF Run
  <2>. QED
    BY <1>2, <2>1, <2>2, <2>3
<1>7. CASE Sigterm(r)
  <2>1. PICK o \in {"killed", "timeout"} :
          run' = [run EXCEPT ![r] = [@ EXCEPT !.pc = "grace", !.outcome = o]]
    BY <1>7, Zenon DEF Sigterm
  <2>2. run'[r].pc = "grace" /\ run'[r].outcome = o /\ run'[r].status = run[r].status
    BY <1>a, <2>1, Zenon DEF Run
  <2>3. ran' = ran
    BY <1>7, Zenon DEF Sigterm
  <2>. QED
    BY <1>2, <1>a, <2>2, <2>3 DEF RanOf
<1>8. CASE FinishRun(r)
  <2>1. ran' = ran
    BY <1>8, Zenon DEF FinishRun
  <2>2. CASE Goto(r, "cleanup")
    BY <1>3, <2>1, <2>2, Zenon
  <2>3. ASSUME NEW o, o = StatusOf(run[r].outcome, client[r].rc),
               run' = [run EXCEPT ![r] = [@ EXCEPT !.pc = "cleanup", !.status = o]]
        PROVE  RanOf(r)'
    <3>1. run'[r].pc = "cleanup" /\ run'[r].outcome = run[r].outcome /\ run'[r].status = o
      BY <1>a, <2>3, Zenon DEF Run
    <3>2. o = "COMPLETED" => run[r].outcome = "completed"
      BY <2>3 DEF StatusOf
    <3>. QED
      BY <1>2, <1>a, <2>1, <3>1, <3>2 DEF RanOf
  <2>. QED
    BY <1>8, <2>2, <2>3, Zenon DEF FinishRun
<1>9. CASE _cleanup(r) \/ Crash(r)
  <2>1. \E label \in {"ended", "dead"} : run' = [run EXCEPT ![r] = RunAt(label)]
    BY <1>9, Zenon DEF _cleanup, Crash
  <2>2. run'[r].pc # "await" /\ run'[r].outcome = "none" /\ run'[r].status = "none"
    BY <1>a, <2>1 DEF RunAt
  <2>. QED
    BY <2>2 DEF RanOf
<1>10. CASE DaemonCreate(r)
  <2>1. container = NoContainer
    <3>1. r \in creates
      BY <1>10, Zenon DEF DaemonCreate
    <3>. QED
      BY <1>a, <1>b, <3>1, Zenon DEF ContainerInv
  <2>2. ~Trouble("start")
    BY Zenon DEF Trouble
  <2>3. /\ container' = [NoContainer EXCEPT !.id = r, !.st = "created"]
        /\ client' = IF client[r].st = "creating"
                       THEN [client EXCEPT ![r] = [@ EXCEPT !.st = "created"]] ELSE client
        /\ UNCHANGED <<run, ran>>
    BY <1>10, <2>1, <2>2, Zenon DEF DaemonCreate
  <2>4. container'.id = r /\ container'.st = "created"
    BY <2>3, Zenon DEF NoContainer
  <2>5. client'[r].st = "created" \/ client'[r] = client[r]
    BY <1>c, <2>3, Zenon DEF Client
  <2>. QED
    BY <1>a, <2>3, <2>4, <2>5 DEF RanOf
<1>11. CASE ClientStart(r)
  <2>1. UNCHANGED <<run, ran>> /\ client[r].st = "created"
    BY <1>11, Zenon DEF ClientStart
  <2>2. CASE run[r].pc # "await"
    BY <1>a, <2>1, <2>2, Zenon DEF RanOf
  <2>3. CASE run[r].pc = "await"
    <3>1. container.id = r
      BY <1>a, <2>1, <2>3, Zenon DEF RanOf
    <3>2. /\ container' = [container EXCEPT !.st = "running", !.age = 0]
          /\ client' = [client EXCEPT ![r] = Heard(r, [@ EXCEPT !.st = "attached"])]
          /\ Live(r)
      BY <1>11, <2>3, <3>1 DEF ClientStart, Live
    <3>3. container'.st = "running"
      BY <1>c, <3>2, ContainerStarts
    <3>4. client'[r].st = "attached"
      BY <1>c, <3>2, Zenon DEF Client, Heard
    <3>. QED
      BY <1>a, <2>1, <3>3, <3>4 DEF RanOf
  <2>. QED
    BY <2>2, <2>3
<1>12. CASE \/ Cancel(r) \/ PumpEnds(r) \/ (\E text \in Texts : _pump(r, text)) \/ Outage \/ Recover
            \/ ReaperRaises \/ _reap_containers \/ UNCHANGED vars
  <2>1. UNCHANGED <<run, client, container, ran>>
    BY <1>12, Zenon DEF Cancel, PumpEnds, _pump, Outage, Recover, ReaperRaises, _reap_containers,
       vars, procVars
  <2>. QED
    BY <1>1, <2>1, Zenon
<1>13. CASE Tick
  <2>1. UNCHANGED <<run, client, ran>>
    BY <1>13, Zenon DEF Tick
  <2>2. container' = container \/ \E a : container' = [container EXCEPT !.age = a]
    BY <1>13, Zenon DEF Tick
  <2>3. container'.id = container.id /\ container'.st = container.st
    BY <1>c, <2>2, Zenon DEF Container
  <2>. QED
    BY <1>1, <2>1, <2>3, Zenon
<1>14. CASE ProgramExit
  <2>1. UNCHANGED <<run, client>>
    BY <1>14, Zenon DEF ProgramExit
  <2>2. ran' = IF Live(container.id) THEN ran \cup {container.id} ELSE ran
    BY <1>14, Zenon DEF ProgramExit
  <2>3. container'.id = container.id
    <3>1. \E rc : container' = [container EXCEPT !.st = "exited", !.rc = rc]
      BY <1>14, Zenon DEF ProgramExit
    <3>. QED
      BY <1>c, <3>1, Zenon DEF Container
  <2>4. run[r].pc = "await" => Live(r)
    BY DEF Live
  <2>. QED
    BY <1>a, <2>1, <2>2, <2>3, <2>4 DEF RanOf
\* A removal in the middle of the wait is that of a container that has exited.
<1>15. ASSUME container' = NoContainer, client' = ClientsAfterRemoval, UNCHANGED <<run, ran>>,
              run[r].pc = "await" /\ container.id = r => container.st = "exited"
       PROVE  RanOf(r)'
  <2>1. CASE run[r].pc # "await"
    BY <1>15, <1>a, <2>1, Zenon DEF RanOf
  <2>2. CASE run[r].pc = "await"
    <3>1. client[r].st # "created"
      BY <1>15, <1>a, <2>2, Zenon DEF RanOf, ContainerInv
    <3>2. \/ client'[r] = client[r]
          \/ client'[r].st \in {"exited", "none"} /\ client[r].st = "attached"
      BY <1>15, <1>a, RemovalEndsClient
    <3>3. client'[r] = client[r] \/ container.id = r
      BY <1>15, <1>b, Zenon DEF ClientsAfterRemoval
    <3>4. client'[r].st = "exited" => r \in ran
      BY <1>15, <1>a, <2>2, <3>3, Zenon DEF RanOf
    <3>5. client'[r].st # "created" /\ container'.id # r
      BY <1>15, <1>a, <3>1, <3>2, NoContainerFacts
    <3>. QED
      BY <1>15, <1>a, <3>4, <3>5, Zenon DEF RanOf
  <2>. QED
    BY <2>1, <2>2
<1>16. CASE AutoRemove
  BY <1>15, <1>16, Zenon DEF AutoRemove
<1>17. CASE ReapListed
  <2>1. UNCHANGED <<run, ran>>
    BY <1>17, Zenon DEF ReapListed
  <2>2. CASE UNCHANGED <<container, client>>
    BY <1>1, <2>1, <2>2, Zenon
  <2>3. CASE container.id = reaper.target /\ container' = NoContainer /\ client' = ClientsAfterRemoval
    <3>1. ASSUME run[r].pc = "await", container.id = r PROVE container.st = "exited"
      BY <2>3, <3>1, SweepIsLate, Zenon
    <3>. QED
      BY <1>15, <2>1, <2>3, <3>1, Zenon
  <2>. QED
    BY <1>17, <2>2, <2>3, Zenon DEF ReapListed
<1>18. CASE \E s \in Runs : \/ Execute(s) \/ RunStep(s) \/ Cancel(s) \/ CommandRaises(s)
                             \/ DaemonCreate(s) \/ ClientStart(s) \/ Crash(s) \/ PumpEnds(s)
                             \/ \E text \in Texts : _pump(s, text)
  <2>1. \/ Execute(r) \/ RunStep(r) \/ Cancel(r) \/ CommandRaises(r) \/ DaemonCreate(r)
        \/ ClientStart(r) \/ Crash(r) \/ PumpEnds(r) \/ \E text \in Texts : _pump(r, text)
    <3>1. PICK s \in Runs : \/ Execute(s) \/ RunStep(s) \/ Cancel(s) \/ CommandRaises(s)
                            \/ DaemonCreate(s) \/ ClientStart(s) \/ Crash(s) \/ PumpEnds(s)
                            \/ \E text \in Texts : _pump(s, text)
      BY <1>18, Zenon
    <3>2. s = r
      BY <1>b, Zenon
    <3>. QED
      BY <3>1, <3>2, Zenon
  <2>. QED
    BY <2>1, <1>4, <1>5, <1>6, <1>7, <1>8, <1>9, <1>10, <1>11, <1>12, Zenon DEF RunStep
<1>. QED
  BY <1>12, <1>13, <1>14, <1>16, <1>17, <1>18, ZenonT(60) DEF Next, ReapStep

\* types/index.ts:27, "the user code ran to completion", is true of a job that is
\* delivered once and whose container the daemon does not refuse to start, in the
\* face of crashes, outages, docker commands that cannot be spawned and output that
\* cannot be forwarded (executor.py, _await_completion and _build_result).
THEOREM OnlyDeliveryCompletedRan ==
  ASSUME Deliveries = 1, "start" \notin Faults
  PROVE  Spec => []CompletedMeansRan
<1>1. Init => RanInv
  BY DEF Init, RanInv, RanOf, RunAt
<1>2. IInv /\ DueInv /\ RanInv /\ [Next]_vars => RanInv'
  BY StepKeepsRan
<1>3. RanInv => CompletedMeansRan
  BY Zenon DEF RanInv, RanOf, CompletedMeansRan
<1>. QED
  BY <1>1, <1>2, <1>3, DueHolds, PTL DEF Spec

(***************************************************************************)
(* What FAILED means.  Deliveries that do not overlap are needed: the      *)
(* cleanup of one removes the container of another by its name, which ends *)
(* the other's client with 137 as well.                                    *)
(***************************************************************************)

\* One execute at a time.
Serial == \A r, s \in Runs : Live(r) /\ Live(s) => r = s

\* While a client is waited for, 137 is the end of a program that nobody here
\* killed; what the client said is kept until the result is built.
OomOf(r) ==
  /\ run[r].pc = "await" =>
       /\ client[r].st = "exited" /\ client[r].rc = 137 => r \in ran
       /\ container.id = r /\ container.st = "exited" => r \in ran
  /\ run[r].outcome = "completed" =>
       client[r].st = "exited" /\ (client[r].rc = 137 => r \in ran)
  /\ run[r].status = "FAILED" => r \in ran

OomInv == \A r \in Runs : OomOf(r)

\* Without overlap a delivery begins only when no other is live.
LEMMA StepKeepsSerial ==
  ASSUME "overlap" \notin Faults, IInv, Serial, [Next]_vars
  PROVE  Serial'
<1>a. run \in [Runs -> Run]
  BY Zenon DEF IInv, Typing
<1>1. CASE UNCHANGED run
  BY <1>1, Zenon DEF Serial, Live
<1>2. ASSUME NEW r \in Runs, Execute(r) PROVE Serial'
  <2>1. /\ \A s \in Runs : ~Live(s)
        /\ \A s \in Runs : s # r => run'[s] = run[s]
    BY <1>2, <1>a, Zenon DEF Execute, Goto
  <2>. QED
    BY <2>1, Zenon DEF Serial, Live
<1>3. ASSUME NEW r \in Runs, OwnStep(r) PROVE Serial'
  BY <1>3, <1>a, OthersStay, Zenon DEF Serial, Live
<1>. QED
  BY <1>1, <1>2, <1>3, WhoMoves, Zenon

\* A step that leaves run r to itself.
Spared(r) ==
  /\ run'[r] = run[r]
  /\ r \in ran => r \in ran'
  /\ client[r].st = "exited" => client'[r] = client[r]
  /\ run[r].pc = "await" =>
       /\ client'[r] = client[r]
       /\ container'.id = r => container'.id = container.id /\ container'.st = container.st

\* A step that spares a run keeps what OomInv says of it.
LEMMA SparedKeepsOom ==
  ASSUME NEW r \in Runs, OomOf(r), Spared(r)
  PROVE  OomOf(r)'
  BY Zenon DEF OomOf, Spared

\* The steps that another run takes or that befall it spare run r.
LEMMA OthersSpare ==
  ASSUME "overlap" \notin Faults, IInv, Serial, NEW r \in Runs, NEW t \in Runs, t # r,
         \/ Execute(t) \/ OwnStep(t) \/ DaemonCreate(t) \/ ClientStart(t)
  PROVE  Spared(r)
<1>a. Typing /\ run \in [Runs -> Run] /\ client \in [Runs -> Client] /\ container \in Container
  BY Zenon DEF IInv, Typing
<1>1. CASE Execute(t)
  <2>1. run'[r] = run[r] /\ UNCHANGED <<client, container, ran>>
    BY <1>1, <1>a, Zenon DEF Execute, Goto, procVars
  <2>. QED
    BY <2>1, Zenon DEF Spared
<1>2. CASE OwnStep(t)
  <2>1. run'[r] = run[r] /\ Live(t)
    BY <1>2, <1>a, OthersStay, Zenon
  <2>2. run[r].pc # "await"
    BY <2>1 DEF Serial, Live
  <2>3. r \in ran => r \in ran'
    BY <1>2, Zenon DEF OwnStep, RunStep, _verify_image, _prepare_workdir, _spawn, _await_completion,
      Sigterm, Sigkill, TerminateEnds, GiveUp, FinishRun, _cleanup, Cancel, CommandRaises, Crash
  <2>4. client[r].st = "exited" => client'[r] = client[r]
    <3>1. CASE GiveUp(t) \/ _cleanup(t)
      <4>1. client'[r] = ClientsAfterRm[r]
        BY <3>1, <1>a, RmByName, Zenon DEF GiveUp, _cleanup
      <4>. QED
        BY <4>1, <1>a, RmByName, Zenon
    <3>2. CASE Crash(t) \/ _spawn(t)
      BY <3>2, <1>a, Zenon DEF Crash, _spawn
    <3>3. CASE UNCHANGED client
      BY <3>3
    <3>. QED
      BY <1>2, <3>1, <3>2, <3>3, Zenon DEF OwnStep, RunStep, _verify_image, _prepare_workdir,
        _await_completion, Sigterm, Sigkill, TerminateEnds, FinishRun, Cancel, CommandRaises, procVars
  <2>. QED
    BY <2>1, <2>2, <2>3, <2>4, Zenon DEF Spared
<1>3. CASE DaemonCreate(t)
  <2>1. UNCHANGED <<run, ran>>
    BY <1>3, Zenon DEF DaemonCreate
  <2>2. client'[r] = client[r]
    BY <1>3, <1>a, Zenon DEF DaemonCreate, ClientEnds
  <2>3. container'.id = r => container' = container
    <3>1. container' = container \/ container' = [NoContainer EXCEPT !.id = t, !.st = "created"]
      BY <1>3, Zenon DEF DaemonCreate
    <3>2. [NoContainer EXCEPT !.id = t, !.st = "created"].id = t
      BY Zenon DEF NoContainer
    <3>. QED
      BY <3>1, <3>2, Zenon
  <2>. QED
    BY <2>1, <2>2, <2>3, Zenon DEF Spared
<1>4. CASE ClientStart(t)
  <2>1. UNCHANGED <<run, ran>>
    BY <1>4, Zenon DEF ClientStart
  <2>2. client'[r] = client[r]
    BY <1>4, <1>a, Zenon DEF ClientStart, ClientEnds
  <2>3. container'.id = r => container' = container
    <3>1. \/ container' = container
          \/ container.id = t /\ container' = [container EXCEPT !.st = "running", !.age = 0]
      BY <1>4, Zenon DEF ClientStart
    <3>. QED
      BY <1>a, <3>1, ContainerStarts
  <2>. QED
    BY <2>1, <2>2, <2>3, Zenon DEF Spared
<1>. QED
  BY <1>1, <1>2, <1>3, <1>4

\* The steps of run r itself.
LEMMA OwnKeepsOom ==
  ASSUME IInv, NEW r \in Runs, OomOf(r), Execute(r) \/ OwnStep(r)
  PROVE  OomOf(r)'
<1>a. /\ Typing /\ run \in [Runs -> Run] /\ run[r] \in Run
      /\ client \in [Runs -> Client] /\ container \in Container
  BY Zenon DEF IInv, Typing
\* A step that ends the wait, or is before or after it.
<1>2. ASSUME run'[r].pc # "await", ran' = ran,
             run'[r].outcome = "completed" =>
               client'[r].st = "exited" /\ (client'[r].rc = 137 => r \in ran),
             run'[r].status = "FAILED" => r \in ran
      PROVE  OomOf(r)'
  BY <1>2, Zenon DEF OomOf
<1>3. ASSUME NEW label, Goto(r, label), label # "await", ran' = ran,
             client[r].st = "exited" => client'[r] = client[r]
      PROVE OomOf(r)'
  <2>1. /\ run'[r].pc = label
        /\ run'[r].outcome = run[r].outcome /\ run'[r].status = run[r].status
    BY <1>3, <1>a, GotoKeeps, Zenon
  <2>. QED
    BY <1>2, <1>3, <2>1, Zenon DEF OomOf
<1>4. CASE Execute(r) \/ _verify_image(r) \/ _prepare_workdir(r) \/ TerminateEnds(r) \/ Sigkill(r)
           \/ CommandRaises(r)
  <2>1. ran' = ran /\ client' = client
    BY <1>4, Zenon DEF Execute, _verify_image, _prepare_workdir, TerminateEnds, Sigkill,
       CommandRaises, procVars
  <2>2. \E label \in {"verify", "workdir", "ended", "spawn", "drain", "killwait", "cleanup"} :
          Goto(r, label)
    BY <1>4, Zenon DEF Execute, _verify_image, _prepare_workdir, TerminateEnds, Sigkill,
       CommandRaises
  <2>. QED
    BY <1>3, <2>1, <2>2
<1>5. CASE GiveUp(r)
  <2>1. /\ Goto(r, "drain") /\ ran' = ran
        /\ client' = [ClientsAfterRm EXCEPT ![r] =
                        IF @.st = "exited" THEN @ ELSE [st |-> "exited", rc |-> -9]]
    BY <1>5, Zenon DEF GiveUp
  <2>2. client[r].st = "exited" => client'[r] = client[r]
    <3>1. client[r].st = "exited" => ClientsAfterRm[r] = client[r]
      BY <1>a, RmByName, Zenon
    <3>. QED
      BY <1>a, <2>1, <3>1, RmByName, Zenon
  <2>. QED
    BY <1>3, <2>1, <2>2
<1>6. CASE _spawn(r)
  <2>1. /\ Goto(r, "await") /\ UNCHANGED <<ran, container>>
        /\ client' = [client EXCEPT ![r] = [st |-> "creating", rc |-> 0]]
    BY <1>6, Zenon DEF _spawn
  <2>2. client'[r].st = "creating"
    BY <1>a, <2>1, Zenon
  <2>3. container'.id # r /\ client[r].st # "exited"
    <3>1. Early(r)
      BY <1>6, Zenon DEF _spawn, Early
    <3>. QED
      BY <2>1, <3>1, Zenon DEF IInv, EarlyInv
  <2>4. run'[r].outcome = run[r].outcome /\ run'[r].status = run[r].status
    BY <1>a, <2>1, GotoKeeps, Zenon
  <2>. QED
    BY <2>1, <2>2, <2>3, <2>4 DEF OomOf
<1>7. CASE _await_completion(r)
  <2>1. /\ run' = [run EXCEPT ![r] = [@ EXCEPT !.pc = "drain", !.outcome = "completed"]]
        /\ run[r].pc = "await" /\ client[r].st = "exited" /\ ran' = ran /\ client' = client
    BY <1>7, Zenon DEF _await_completion, Exited, procVars
  <2>2. run'[r].pc = "drain" /\ run'[r].status = run[r].status
    BY <1>a, <2>1, Zenon DEF Run
  <2>. QED
    BY <1>2, <2>1, <2>2 DEF OomOf
<1>8. CASE Sigterm(r)
  <2>1. PICK o \in {"killed", "timeout"} :
          run' = [run EXCEPT ![r] = [@ EXCEPT !.pc = "grace", !.outcome = o]]
    BY <1>8, Zenon DEF Sigterm
  <2>2. run'[r].pc = "grace" /\ run'[r].outcome = o /\ run'[r].status = run[r].status
    BY <1>a, <2>1, Zenon DEF Run
  <2>3. ran' = ran
    BY <1>8, Zenon DEF Sigterm
  <2>. QED
    BY <1>2, <2>2, <2>3 DEF OomOf
<1>9. CASE FinishRun(r)
  <2>1. ran' = ran /\ client' = client
    BY <1>9, Zenon DEF FinishRun, procVars
  <2>2. CASE Goto(r, "cleanup")
    BY <1>3, <2>1, <2>2, Zenon
  <2>3. ASSUME NEW o, o = StatusOf(run[r].outcome, client[r].rc),
               run' = [run EXCEPT ![r] = [@ EXCEPT !.pc = "cleanup", !.status = o]]
        PROVE  OomOf(r)'
    <3>1. run'[r].pc = "cleanup" /\ run'[r].outcome = run[r].outcome /\ run'[r].status = o
      BY <1>a, <2>3, Zenon DEF Run
    <3>2. o = "FAILED" => run[r].outcome = "completed" /\ client[r].rc = 137
      BY <2>3, Zenon DEF StatusOf, _SIGKILL_EXIT
    <3>. QED
      BY <1>2, <2>1, <3>1, <3>2 DEF OomOf
  <2>. QED
    BY <1>9, <2>2, <2>3, Zenon DEF FinishRun
<1>10. CASE _cleanup(r) \/ Crash(r)
  <2>1. \E label \in {"ended", "dead"} : run' = [run EXCEPT ![r] = RunAt(label)]
    BY <1>10, Zenon DEF _cleanup, Crash
  <2>2. run'[r].pc # "await" /\ run'[r].outcome = "none" /\ run'[r].status = "none"
    BY <1>a, <2>1 DEF RunAt
  <2>. QED
    BY <2>2, Zenon DEF OomOf
<1>11. CASE Cancel(r)
  <2>1. UNCHANGED <<run, client, container, ran>>
    BY <1>11, Zenon DEF Cancel, procVars
  <2>. QED
    BY <2>1, SparedKeepsOom, Zenon DEF Spared
<1>. QED
  BY <1>4, <1>5, <1>6, <1>7, <1>8, <1>9, <1>10, <1>11, Zenon DEF OwnStep, RunStep

\* Every step keeps OomInv.
LEMMA StepKeepsOom ==
  ASSUME "overlap" \notin Faults, IInv, DueInv, Serial, OomInv, [Next]_vars
  PROVE  OomInv'
<1>. SUFFICES ASSUME NEW r \in Runs PROVE OomOf(r)'
  BY Zenon DEF OomInv
<1>a. /\ OomOf(r) /\ Typing /\ ContainerInv
      /\ client \in [Runs -> Client] /\ container \in Container
  BY Zenon DEF OomInv, IInv, Typing
<1>1. CASE Spared(r)
  BY <1>1, <1>a, SparedKeepsOom, Zenon
\* A removal in the middle of the wait is that of a container that has exited.
<1>2. ASSUME container' = NoContainer, client' = ClientsAfterRemoval, UNCHANGED <<run, ran>>,
             run[r].pc = "await" /\ container.id = r => container.st = "exited"
      PROVE  OomOf(r)'
  <2>1. container'.id # r
    BY <1>2, <1>a, NoContainerFacts, Zenon
  <2>2. client[r].st = "exited" => client'[r] = client[r]
    BY <1>2, <1>a, RemovalEndsClient
  <2>3. client'[r] = client[r] \/ container.id = r
    <3>1. ASSUME container.id \in Runs, container.id # r, NEW rc
          PROVE  ClientEnds(container.id, rc)[r] = client[r]
      BY <3>1, <1>a, Zenon DEF ClientEnds
    <3>. QED
      BY <1>2, <3>1, Zenon DEF ClientsAfterRemoval
  <2>. QED
    BY <1>2, <1>a, <2>1, <2>2, <2>3, Zenon DEF OomOf
<1>3. CASE AutoRemove
  BY <1>2, <1>3, Zenon DEF AutoRemove
<1>4. CASE ReapListed
  <2>1. UNCHANGED <<run, ran>>
    BY <1>4, Zenon DEF ReapListed
  <2>2. CASE UNCHANGED <<container, client>>
    BY <1>1, <2>1, <2>2, Zenon DEF Spared
  <2>3. CASE container.id = reaper.target /\ container' = NoContainer /\ client' = ClientsAfterRemoval
    <3>1. ASSUME run[r].pc = "await", container.id = r PROVE container.st = "exited"
      BY <2>3, <3>1, SweepIsLate, Zenon
    <3>. QED
      BY <1>2, <2>1, <2>3, <3>1, Zenon
  <2>. QED
    BY <1>4, <2>2, <2>3, Zenon DEF ReapListed
<1>5. CASE ProgramExit
  <2>1. UNCHANGED <<run, client>>
    BY <1>5, Zenon DEF ProgramExit
  <2>2. ran' = IF Live(container.id) THEN ran \cup {container.id} ELSE ran
    BY <1>5, Zenon DEF ProgramExit
  <2>3. container'.id = container.id
    <3>1. \E rc : container' = [container EXCEPT !.st = "exited", !.rc = rc]
      BY <1>5, Zenon DEF ProgramExit
    <3>. QED
      BY <1>a, <3>1, Zenon DEF Container
  <2>4. run[r].pc = "await" => Live(r)
    BY DEF Live
  <2>. QED
    BY <1>a, <2>1, <2>2, <2>3, <2>4 DEF OomOf
<1>6. CASE Tick
  <2>1. UNCHANGED <<run, client, ran>>
    BY <1>6, Zenon DEF Tick
  <2>2. container' = container \/ \E a : container' = [container EXCEPT !.age = a]
    BY <1>6, Zenon DEF Tick
  <2>3. container'.id = container.id /\ container'.st = container.st
    BY <1>a, <2>2, Zenon DEF Container
  <2>. QED
    BY <1>1, <2>1, <2>3, Zenon DEF Spared
<1>7. CASE DaemonCreate(r)
  <2>1. /\ UNCHANGED <<run, ran>>
        /\ container' = container \/ container' = [NoContainer EXCEPT !.id = r, !.st = "created"]
    BY <1>7, Zenon DEF DaemonCreate
  <2>2. container'.id = r /\ container'.st = "exited" => container' = container
    BY <2>1, Zenon DEF NoContainer
  <2>3. client[r].st = "exited" => client' = client
    BY <1>7, Zenon DEF DaemonCreate
  <2>4. client'[r].st = "exited" /\ client'[r].rc = 137 => client'[r] = client[r]
    <3>1. CASE client' = ClientEnds(r, 125)
      <4>1. client'[r] = [st |-> "exited", rc |-> 125] \/ client'[r] = NoClient
        BY <3>1, <1>a, Zenon DEF ClientEnds, Heard
      <4>. QED
        BY <4>1 DEF NoClient
    <3>2. CASE client' = [client EXCEPT ![r] = [@ EXCEPT !.st = "created"]]
      BY <3>2, <1>a DEF Client
    <3>. QED
      BY <1>7, <3>1, <3>2, Zenon DEF DaemonCreate
  <2>. QED
    BY <1>a, <2>1, <2>2, <2>3, <2>4, Zenon DEF OomOf
<1>8. CASE ClientStart(r)
  <2>1. UNCHANGED <<run, ran>> /\ client[r].st = "created"
    BY <1>8, Zenon DEF ClientStart
  <2>2. container'.id = r => container'.st = "running"
    <3>1. \/ container.id # r /\ container' = container
          \/ container' = [container EXCEPT !.st = "running", !.age = 0]
      BY <1>8, Zenon DEF ClientStart
    <3>. QED
      BY <1>a, <3>1, ContainerStarts
  <2>3. ~(client'[r].st = "exited" /\ client'[r].rc = 137)
    <3>1. CASE client' = ClientEnds(r, 125)
      <4>1. client'[r] = [st |-> "exited", rc |-> 125] \/ client'[r] = NoClient
        BY <3>1, <1>a, Zenon DEF ClientEnds, Heard
      <4>. QED
        BY <4>1 DEF NoClient
    <3>2. CASE client' = [client EXCEPT ![r] = Heard(r, [@ EXCEPT !.st = "attached"])]
      BY <3>2, <1>a DEF Client, Heard, NoClient
    <3>. QED
      BY <1>8, <3>1, <3>2, Zenon DEF ClientStart
  <2>. QED
    BY <1>a, <2>1, <2>2, <2>3 DEF OomOf
<1>9. CASE \E t \in Runs : Execute(t) \/ OwnStep(t) \/ DaemonCreate(t) \/ ClientStart(t)
  BY <1>1, <1>7, <1>8, <1>9, <1>a, OthersSpare, OwnKeepsOom, Zenon
<1>10. CASE \/ \E t \in Runs : PumpEnds(t) \/ \E text \in Texts : _pump(t, text)
            \/ Outage \/ Recover \/ ReaperRaises \/ _reap_containers \/ UNCHANGED vars
  <2>1. UNCHANGED <<run, client, container, ran>>
    BY <1>10, Zenon DEF PumpEnds, _pump, Outage, Recover, ReaperRaises, _reap_containers,
       vars, procVars
  <2>. QED
    BY <1>1, <2>1, Zenon DEF Spared
<1>. QED
  BY <1>3, <1>4, <1>5, <1>6, <1>9, <1>10, ZenonT(60) DEF Next, OwnStep, ReapStep

\* executor.py:42, "When we did not initiate the kill, this means the cgroup OOM
\* killer fired": where deliveries do not overlap, FAILED is only ever said of a
\* program that came to its own end, whatever the ladder, the cleanup of an earlier
\* run and the reaper remove, in the face of all other faults.
THEOREM OomIsTheKernels ==
  ASSUME "overlap" \notin Faults
  PROVE  Spec => []OomIsNotOurKill
<1>1. Init => Serial /\ OomInv
  BY DEF Init, Serial, Live, OomInv, OomOf, RunAt
<1>2. IInv /\ DueInv /\ Serial /\ OomInv /\ [Next]_vars => Serial' /\ OomInv'
  BY StepKeepsSerial, StepKeepsOom
<1>3. OomInv => OomIsNotOurKill
  BY Zenon DEF OomInv, OomOf, OomIsNotOurKill
<1>. QED
  BY <1>1, <1>2, <1>3, DueHolds, PTL DEF Spec
=============================================================================
