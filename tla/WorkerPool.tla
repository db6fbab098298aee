----------------------------- MODULE WorkerPool -----------------------------
(***************************************************************************)
(* The consume loop of one WorkerDaemon: how many messages it fetches, the *)
(* semaphore that bounds its tasks, Redis errors in the loop, stop and     *)
(* drain.  Each await of the loop is an action; what happens between two   *)
(* awaits is one step.  What a task does is JobLifecycle's matter: here it *)
(* ends, and its entry is acked or stays pending.  The other workers of    *)
(* the consumer group are one action, Elsewhere.                           *)
(***************************************************************************)
EXTENDS Integers, FiniteSets

CONSTANTS N,                   \* entries that are added to the stream
          worker_concurrency,
          read_count,
          MaxTroubles          \* bound: failures and stalls in one behaviour

ASSUME PoolAssumption ==
  /\ N \in Nat /\ MaxTroubles \in Nat
  /\ worker_concurrency \in Nat \ {0} /\ read_count \in Nat \ {0}

Entries == 1..N
MaxDeliveries == 1 + MaxTroubles
Tasks == Entries \X (1..MaxDeliveries)   \* one delivery of an entry

VARIABLES
  loop,      \* where the loop awaits, and the count of its next fetch
  listed,    \* entries of the XPENDING reply that are yet to be claimed
  hand,      \* messages fetched and not yet dispatched
  semaphore, \* its value
  inflight,  \* the tasks of _inflight
  stopping,
  reaper,    \* run_forever: "on", "over", or "dead" of an exception
  closed,    \* whether redis.aclose was reached
  group,     \* whether the consumer group exists
  unsent, backlog, pending, idle, times,  \* the stream, and the group's entries
  troubles   \* bound

streamVars == <<unsent, backlog, pending, idle, times>>
vars == <<loop, listed, hand, semaphore, inflight, stopping, reaper, closed, group,
          streamVars, troubles>>

Least(a, b) == IF a <= b THEN a ELSE b
At(label) == [pc |-> label, count |-> 0]
Capacity(tasks) == worker_concurrency - Cardinality(tasks)

\* A reply with at most n entries of S, oldest first.
Front(S, n) == {T \in SUBSET S : /\ Cardinality(T) = Least(n, Cardinality(S))
                                 /\ \A e \in T, f \in S \ T : e < f}

Trouble == troubles < MaxTroubles /\ troubles' = troubles + 1

\* Mutant of Top: the stop flag is not looked at while there is a free slot.
TopIgnoresStop(tasks) ==
  LET capacity == Capacity(tasks)
  IN  /\ loop' = IF capacity > 0 THEN [pc |-> "depth", count |-> Least(read_count, capacity)]
                 ELSE IF stopping THEN At("drain") ELSE At("sleep")
      /\ UNCHANGED closed

\* The top of the loop, as far as its next await.  Without tasks, drain and the
\* reaper's cancellation do not yield to the reaper: if it is still on, awaiting
\* it raises CancelledError and the connection is not closed.
Top(tasks) ==
  LET capacity == Capacity(tasks)
  IN  /\ loop' = IF stopping THEN At(IF tasks = {} THEN "stopped" ELSE "drain")
                 ELSE IF capacity <= 0 THEN At("sleep")
                 ELSE [pc |-> "depth", count |-> Least(read_count, capacity)]
      /\ closed' = (stopping /\ tasks = {} /\ reaper # "on")

\* Mutant of AfterStale: the capacity from before the reclaimed messages.
ReadStaleCapacity(tasks) ==
  /\ loop' = [pc |-> "read", count |-> loop.count]
  /\ UNCHANGED closed

\* After the reclaimed messages: the capacity again, and the read.
AfterStale(tasks) ==
  LET capacity == Capacity(tasks)
  IN  IF capacity <= 0 THEN Top(tasks)
      ELSE /\ loop' = [pc |-> "read", count |-> Least(read_count, capacity)]
           /\ UNCHANGED closed

Init ==
  /\ loop = At("start") /\ group \in BOOLEAN
  /\ listed = {} /\ hand = {} /\ inflight = {}
  /\ semaphore = worker_concurrency
  /\ stopping = FALSE /\ reaper = "on" /\ closed = FALSE
  /\ unsent = Entries /\ backlog = {} /\ pending = {} /\ idle = {}
  /\ times = [e \in Entries |-> 0]
  /\ troubles = 0

(***************************************************************************)
(* The consume loop                                                        *)
(***************************************************************************)

\* run creates the group, or learns that it exists, and remembers that: from
\* now on ensure_group does nothing.  A worker that cannot is started again.
ensure_group ==
  /\ loop.pc = "start"
  /\ group' = TRUE
  /\ Top(inflight)
  /\ UNCHANGED <<listed, hand, semaphore, inflight, stopping, reaper, streamVars, troubles>>

queue_depth ==
  /\ loop.pc = "depth"
  /\ loop' = [loop EXCEPT !.pc = "pending"]
  /\ UNCHANGED <<listed, hand, semaphore, inflight, stopping, reaper, closed, group,
                 streamVars, troubles>>

\* Mutant of XPending: no entry ever counts as idle.
XPendingNeverIdle ==
  /\ loop.pc = "pending" /\ group
  /\ AfterStale(inflight)
  /\ UNCHANGED <<listed, hand, semaphore, inflight, stopping, reaper, group, streamVars,
                 troubles>>

\* claim_stale asks for idle entries, its own included.
XPending ==
  /\ loop.pc = "pending" /\ group
  /\ listed' \in Front(idle, loop.count)
  /\ IF listed' = {} THEN AfterStale(inflight)
     ELSE loop' = [loop EXCEPT !.pc = "claim"] /\ UNCHANGED closed
  /\ UNCHANGED <<hand, semaphore, inflight, stopping, reaper, group, streamVars, troubles>>

\* It claims them one by one; one that is no longer idle is not returned.
XClaim ==
  /\ loop.pc = "claim" /\ group
  /\ \E e \in listed :
       /\ \A f \in listed : e <= f
       /\ listed' = listed \ {e}
       /\ IF e \in idle
            THEN /\ idle' = idle \ {e}
                 /\ times' = [times EXCEPT ![e] = @ + 1]
                 /\ hand' = hand \cup {<<e, times[e] + 1>>}
            ELSE UNCHANGED <<idle, times, hand>>
  /\ IF listed' # {} THEN UNCHANGED <<loop, closed>>
     ELSE IF hand' = {} THEN AfterStale(inflight)
     ELSE loop' = [loop EXCEPT !.pc = "stale"] /\ UNCHANGED closed
  /\ UNCHANGED <<semaphore, inflight, stopping, reaper, group, unsent, backlog, pending,
                 troubles>>

\* XREADGROUP returns up to count new entries, or nothing after block_ms.
Read ==
  /\ loop.pc = "read" /\ group
  /\ \E T \in Front(backlog, loop.count) :
       /\ backlog' = backlog \ T
       /\ pending' = pending \cup T
       /\ times' = [e \in Entries |-> IF e \in T THEN 1 ELSE times[e]]
       /\ hand' = {<<e, 1>> : e \in T}
  /\ IF hand' = {} THEN Top(inflight)
     ELSE loop' = [loop EXCEPT !.pc = "new"] /\ UNCHANGED closed
  /\ UNCHANGED <<listed, semaphore, inflight, stopping, reaper, group, unsent, idle,
                 troubles>>

\* Mutant of _dispatch: the messages left when a stop is requested are dropped.
DispatchUnlessStopping ==
  /\ loop.pc \in {"stale", "new"} /\ semaphore > 0
  /\ inflight' = IF stopping THEN inflight ELSE inflight \cup hand
  /\ semaphore' = IF stopping THEN semaphore ELSE semaphore - Cardinality(hand)
  /\ hand' = {}
  /\ IF loop.pc = "stale" THEN AfterStale(inflight') ELSE Top(inflight')
  /\ UNCHANGED <<listed, stopping, reaper, group, streamVars, troubles>>

\* As many messages as the semaphore lets through without waiting become tasks;
\* acquire does not yield while the value is positive.
_dispatch ==
  /\ loop.pc \in {"stale", "new"} /\ semaphore > 0
  /\ \E T \in SUBSET hand :
       /\ Cardinality(T) = Least(semaphore, Cardinality(hand))
       /\ hand' = hand \ T
       /\ inflight' = inflight \cup T
       /\ semaphore' = semaphore - Cardinality(T)
  /\ IF hand' # {} THEN UNCHANGED <<loop, closed>>
     ELSE IF loop.pc = "stale" THEN AfterStale(inflight') ELSE Top(inflight')
  /\ UNCHANGED <<listed, stopping, reaper, group, streamVars, troubles>>

\* A command of the loop raises RedisError.  XCLAIM and XREADGROUP may have taken
\* effect: what they delivered, and what was claimed before, is in no task.
RedisError ==
  /\ loop.pc \in {"depth", "pending", "claim", "read"}
  /\ Trouble
  /\ \/ UNCHANGED <<backlog, pending, idle, times>>
     \/ /\ loop.pc = "claim" /\ group
        /\ \E e \in listed \cap idle :
             /\ \A f \in listed : e <= f
             /\ idle' = idle \ {e} /\ times' = [times EXCEPT ![e] = @ + 1]
        /\ UNCHANGED <<backlog, pending>>
     \/ /\ loop.pc = "read" /\ group
        /\ \E T \in Front(backlog, loop.count) \ {{}} :
             /\ backlog' = backlog \ T /\ pending' = pending \cup T
             /\ times' = [e \in Entries |-> IF e \in T THEN 1 ELSE times[e]]
        /\ UNCHANGED idle
  /\ loop' = At("backoff") /\ listed' = {} /\ hand' = {}
  /\ UNCHANGED <<semaphore, inflight, stopping, reaper, closed, group, unsent>>

\* Without the group every command but XLEN raises NOGROUP.
NoGroup ==
  /\ loop.pc \in {"pending", "claim", "read"} /\ ~group
  /\ loop' = At("backoff") /\ listed' = {} /\ hand' = {}
  /\ UNCHANGED <<semaphore, inflight, stopping, reaper, closed, group, streamVars, troubles>>

\* The sleep for a slot, or _backoff, is over.
Wake ==
  /\ loop.pc \in {"sleep", "backoff"}
  /\ Top(inflight)
  /\ UNCHANGED <<listed, hand, semaphore, inflight, stopping, reaper, group, streamVars,
                 troubles>>

\* gather returns; the reaper may have ended in the meantime.
_drain ==
  /\ loop.pc = "drain" /\ inflight = {}
  /\ loop' = At("stopped")
  /\ closed' = (reaper # "on")
  /\ UNCHANGED <<listed, hand, semaphore, inflight, stopping, reaper, group, streamVars,
                 troubles>>

(***************************************************************************)
(* Tasks, signals and the surroundings                                     *)
(***************************************************************************)

\* Mutant of TaskEnds: a task that raised gives its slot back no more.
TaskEndsUnreleased(t) ==
  /\ t \in inflight
  /\ inflight' = inflight \ {t}
  /\ \/ /\ pending' = pending \ {t[1]} /\ idle' = idle \ {t[1]}
        /\ semaphore' = semaphore + 1 /\ UNCHANGED troubles
     \/ Trouble /\ UNCHANGED <<pending, idle, semaphore>>
  /\ UNCHANGED <<loop, listed, hand, stopping, reaper, closed, group, unsent, backlog,
                 times>>

\* Mutant of TaskEnds: a task releases its slot in _process and in the callback.
TaskEndsTwice(t) ==
  /\ t \in inflight
  /\ inflight' = inflight \ {t}
  /\ semaphore' = semaphore + 2
  /\ pending' = pending \ {t[1]} /\ idle' = idle \ {t[1]}
  /\ UNCHANGED <<loop, listed, hand, stopping, reaper, closed, group, unsent, backlog,
                 times, troubles>>

\* The task returns with its entry acked, or raises or returns without.  Its two
\* done callbacks run one after the other.
TaskEnds(t) ==
  /\ t \in inflight
  /\ inflight' = inflight \ {t}
  /\ semaphore' = semaphore + 1
  /\ \/ pending' = pending \ {t[1]} /\ idle' = idle \ {t[1]} /\ UNCHANGED troubles
     \/ Trouble /\ UNCHANGED <<pending, idle>>
  /\ UNCHANGED <<loop, listed, hand, stopping, reaper, closed, group, unsent, backlog,
                 times>>

request_stop ==
  /\ ~stopping
  /\ stopping' = TRUE
  /\ UNCHANGED <<loop, listed, hand, semaphore, inflight, reaper, closed, group,
                 streamVars, troubles>>

\* run_forever ends of a docker command that raises, or after reaper.stop().
ReaperEnds ==
  /\ reaper = "on"
  /\ \/ Trouble /\ reaper' = "dead"
     \/ loop.pc = "drain" /\ reaper' = "over" /\ UNCHANGED troubles
  /\ UNCHANGED <<loop, listed, hand, semaphore, inflight, stopping, closed, group,
                 streamVars>>

\* The API adds an entry.
Enqueue ==
  /\ \E e \in unsent :
       /\ \A f \in unsent : e <= f
       /\ unsent' = unsent \ {e}
       /\ backlog' = backlog \cup {e}
  /\ UNCHANGED <<loop, listed, hand, semaphore, inflight, stopping, reaper, closed, group,
                 pending, idle, times, troubles>>

\* Redis loses its data: what was in the stream, and the group.
DataLoss ==
  /\ group /\ loop.pc # "start"
  /\ Trouble
  /\ group' = FALSE /\ backlog' = {} /\ pending' = {} /\ idle' = {}
  /\ UNCHANGED <<loop, listed, hand, semaphore, inflight, stopping, reaper, closed, unsent,
                 times>>

HeldHere(e) == \E t \in hand \cup inflight : t[1] = e

\* An entry has been pending for claim_min_idle_ms.  If a task has it, the task
\* takes longer than that.
GoIdle(e) ==
  /\ e \in pending \ idle
  /\ IF HeldHere(e) THEN Trouble ELSE UNCHANGED troubles
  /\ idle' = idle \cup {e}
  /\ UNCHANGED <<loop, listed, hand, semaphore, inflight, stopping, reaper, closed, group,
                 unsent, backlog, pending, times>>

\* Another worker reads or claims the entry and finishes it.
Elsewhere(e) ==
  /\ e \in backlog \cup idle /\ group
  /\ backlog' = backlog \ {e} /\ pending' = pending \ {e} /\ idle' = idle \ {e}
  /\ UNCHANGED <<loop, listed, hand, semaphore, inflight, stopping, reaper, closed, group,
                 unsent, times, troubles>>

LoopStep == ensure_group \/ queue_depth \/ XPending \/ XClaim \/ Read \/ _dispatch \/ NoGroup
              \/ Wake \/ _drain

Next ==
  \/ LoopStep \/ RedisError \/ DataLoss \/ request_stop \/ ReaperEnds \/ Enqueue
  \/ \E t \in Tasks : TaskEnds(t)
  \/ \E e \in Entries : GoIdle(e) \/ Elsewhere(e)

\* The loop's awaits and the tasks end, and time passes.  Nobody need stop the
\* worker, and no other worker need exist.
Fairness ==
  /\ WF_vars(LoopStep)
  /\ \A t \in Tasks : WF_vars(TaskEnds(t))
  /\ \A e \in Entries : WF_vars(~HeldHere(e) /\ GoIdle(e))

Spec == Init /\ [][Next]_vars
FairSpec == Spec /\ Fairness

(***************************************************************************)
(* Properties                                                              *)
(***************************************************************************)

\* Every variable has its type.
TypeOK ==
  /\ loop \in [pc: {"start", "depth", "pending", "claim", "stale", "read", "new", "sleep",
                    "backoff", "drain", "stopped"}, count: Nat]
  /\ listed \subseteq Entries
  /\ hand \subseteq Tasks /\ inflight \subseteq Tasks
  /\ semaphore \in 0..worker_concurrency
  /\ stopping \in BOOLEAN /\ closed \in BOOLEAN /\ group \in BOOLEAN
  /\ reaper \in {"on", "over", "dead"}
  /\ unsent \subseteq Entries /\ backlog \subseteq Entries
  /\ pending \subseteq Entries /\ idle \subseteq pending
  /\ times \in [Entries -> 0..MaxDeliveries]
  /\ troubles \in 0..MaxTroubles

\* "Only as many messages as there are free pool slots are fetched" (worker.py,
\* _consume_loop): although tasks end and messages are reclaimed between the
\* count and the reply, whatever was fetched finds the semaphore free, so no
\* message waits and the loop comes back to its stop check.
DispatchNeverWaits ==
  loop.pc \in {"stale", "new"} => Cardinality(hand) <= semaphore

\* Every slot is free or has a task, also after tasks that raised: the count of
\* _inflight and the semaphore never part (worker.py, _dispatch's callbacks).
NoSlotLeaks == semaphore + Cardinality(inflight) = worker_concurrency

\* A message that was fetched becomes a task, even when a stop is requested
\* meanwhile; only a Redis error in the same pass drops it (worker.py,
\* _consume_loop).
FetchedIsStarted ==
  [][hand \subseteq hand' \cup inflight' \/ loop'.pc = "backoff"]_vars

\* A worker told to stop does: the loop notices, and _drain waits for the tasks
\* and for nothing else (worker.py, run).
StopEnds == stopping ~> loop.pc = "stopped" /\ inflight = {}

\* Until the worker is stopped, an entry that was added is worked on to the end,
\* also one that a lost reply or a failed task left pending, as long as the group
\* is not lost: nobody creates it again (worker.py, _consume_loop; consumer.py,
\* ensure_group).
EntryIsServed ==
  \A e \in Entries :
    e \in backlog \cup pending ~> e \notin backlog \cup pending \/ stopping \/ ~group
=============================================================================
