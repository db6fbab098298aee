-------------------------- MODULE WorkerPoolProofs --------------------------
(***************************************************************************)
(* Proofs about WorkerPool, for every number of entries, every pool size   *)
(* and read count, and every bound on the troubles.                        *)
(***************************************************************************)
EXTENDS WorkerPool, FiniteSetTheorems, TLAPS

LoopPCs == {"start", "depth", "pending", "claim", "stale", "read", "new", "sleep", "backoff",
            "drain", "stopped"}
Loop == [pc: LoopPCs, count: Nat]

\* The entries: where each is, and that one never delivered counts no delivery.
StreamInv ==
  /\ unsent \subseteq Entries /\ backlog \subseteq Entries /\ pending \subseteq Entries
  /\ idle \subseteq pending
  /\ unsent \cap backlog = {} /\ pending \cap (unsent \cup backlog) = {}
  /\ times \in [Entries -> Nat]
  /\ \A e \in unsent \cup backlog : times[e] = 0

\* A task is a delivery that has been made, and is either in hand or started.
TaskInv ==
  /\ IsFiniteSet(hand) /\ IsFiniteSet(inflight)
  /\ hand \cap inflight = {}
  /\ \A t \in hand \cup inflight : /\ t \in Entries \X (Nat \ {0})
                                    /\ t[2] <= times[t[1]]

\* Every slot is free or has a task.
SlotInv == semaphore \in Nat /\ NoSlotLeaks

\* What the loop has asked for, or been given, fits the semaphore.
FetchInv ==
  /\ loop \in Loop
  /\ listed \subseteq Entries
  /\ loop.pc \in {"depth", "pending", "read"} => loop.count <= semaphore
  /\ loop.pc = "claim" => Cardinality(hand) + Cardinality(listed) <= semaphore
  /\ loop.pc # "claim" => listed = {}
  /\ loop.pc \notin {"claim", "stale", "new"} => hand = {}

IInv == StreamInv /\ TaskInv /\ SlotInv /\ FetchInv /\ DispatchNeverWaits

(***************************************************************************)
(* Lemmas                                                                  *)
(***************************************************************************)

\* Sets of entries are finite.
LEMMA EntriesFinite ==
  ASSUME NEW S \in SUBSET Entries
  PROVE  IsFiniteSet(S) /\ Cardinality(S) \in Nat
<1>1. IsFiniteSet(Entries)
  BY FS_Interval, PoolAssumption DEF Entries
<1>2. IsFiniteSet(S)
  BY <1>1, FS_Subset
<1>. QED
  BY <1>2, FS_CardinalityType

\* A reply holds no more than was asked for.
LEMMA ReplyFits ==
  ASSUME NEW S \in SUBSET Entries, NEW n \in Nat, NEW T \in Front(S, n)
  PROVE  T \subseteq S /\ Cardinality(T) \in Nat /\ Cardinality(T) <= n
<1>1. T \subseteq S /\ Cardinality(T) = Least(n, Cardinality(S))
  BY DEF Front
<1>2. Cardinality(S) \in Nat
  BY EntriesFinite
<1>. QED
  BY <1>1, <1>2 DEF Least

\* Where the loop comes to, it asks for no more than it has slots.
LEMMA LoopAsks ==
  ASSUME NEW tasks, NEW capacity \in Int, capacity = Capacity(tasks),
         Top(tasks) \/ AfterStale(tasks)
  PROVE  /\ loop' \in Loop
         /\ loop'.pc \in {"depth", "read", "sleep", "drain", "stopped"}
         /\ loop'.pc \in {"depth", "read"} => loop'.count <= capacity
<1>1. ASSUME Top(tasks)
      PROVE  \/ loop' = At("stopped") \/ loop' = At("drain") \/ loop' = At("sleep")
             \/ /\ capacity > 0
                /\ loop' = [pc |-> "depth", count |-> Least(read_count, capacity)]
  BY <1>1 DEF Top
<1>2. ASSUME AfterStale(tasks)
      PROVE  \/ Top(tasks)
             \/ /\ capacity > 0
                /\ loop' = [pc |-> "read", count |-> Least(read_count, capacity)]
  BY <1>2 DEF AfterStale
<1>3. capacity > 0 => /\ Least(read_count, capacity) \in Nat
                      /\ Least(read_count, capacity) <= capacity
  BY PoolAssumption DEF Least
<1>. QED
  BY <1>1, <1>2, <1>3 DEF At, Loop, LoopPCs

\* A pass of the loop that begins, or goes on to its read, asks for no more
\* than is free.
LEMMA LoopGoesOn ==
  ASSUME TaskInv', SlotInv', hand' = {}, listed' = {},
         Top(inflight') \/ AfterStale(inflight')
  PROVE  FetchInv' /\ DispatchNeverWaits'
<1>1. /\ Cardinality(inflight') \in Nat /\ semaphore' \in Nat
      /\ Capacity(inflight') = semaphore'
  BY FS_CardinalityType, PoolAssumption DEF TaskInv, SlotInv, NoSlotLeaks, Capacity
<1>2. /\ loop' \in Loop
      /\ loop'.pc \in {"depth", "read", "sleep", "drain", "stopped"}
      /\ loop'.pc \in {"depth", "read"} => loop'.count <= semaphore'
  BY <1>1, LoopAsks
<1>. QED
  BY <1>2 DEF FetchInv, DispatchNeverWaits

\* Deliveries that go away, and counts that grow, leave the tasks as they are.
LEMMA TasksKept ==
  ASSUME TaskInv, hand' \subseteq hand, inflight' \subseteq inflight,
         times \in [Entries -> Nat], times' \in [Entries -> Nat],
         \A e \in Entries : times[e] <= times'[e]
  PROVE  TaskInv'
<1>1. IsFiniteSet(hand') /\ IsFiniteSet(inflight')
  BY FS_Subset DEF TaskInv
<1>2. ASSUME NEW t \in hand' \cup inflight'
      PROVE  t \in Entries \X (Nat \ {0}) /\ t[2] <= times'[t[1]]
  BY DEF TaskInv
<1>. QED
  BY <1>1, <1>2 DEF TaskInv

\* A step of the loop that holds no message and leaves the stream alone.
LEMMA LoopOnly ==
  ASSUME IInv, hand' = {}, listed' = {}, UNCHANGED <<semaphore, inflight, streamVars>>,
         \/ Top(inflight) \/ AfterStale(inflight)
         \/ loop' = At("backoff") \/ loop' = At("stopped")
  PROVE  IInv'
<1>1. StreamInv' /\ SlotInv'
  BY DEF IInv, StreamInv, SlotInv, NoSlotLeaks, streamVars
<1>2. TaskInv'
  BY TasksKept DEF IInv, StreamInv, streamVars
<1>3. CASE Top(inflight) \/ AfterStale(inflight)
  <2>1. Top(inflight') \/ AfterStale(inflight')
    BY <1>3, Zenon
  <2>. QED
    BY <1>1, <1>2, <2>1, LoopGoesOn DEF IInv
<1>4. CASE loop' = At("backoff") \/ loop' = At("stopped")
  <2>1. FetchInv' /\ DispatchNeverWaits'
    BY <1>4 DEF At, FetchInv, DispatchNeverWaits, Loop, LoopPCs
  <2>. QED
    BY <1>1, <1>2, <2>1 DEF IInv
<1>. QED
  BY <1>3, <1>4

\* What XREADGROUP and XCLAIM do to the stream.
LEMMA ReadMoves ==
  ASSUME StreamInv, NEW T \in SUBSET backlog,
         backlog' = backlog \ T, pending' = pending \cup T, UNCHANGED <<unsent, idle>>,
         times' = [e \in Entries |-> IF e \in T THEN 1 ELSE times[e]]
  PROVE  /\ StreamInv' /\ times' \in [Entries -> Nat]
         /\ \A e \in Entries : times[e] <= times'[e]
         /\ \A e \in T : times[e] = 0 /\ times'[e] = 1
<1>1. times' \in [Entries -> Nat] /\ \A e \in T : times[e] = 0 /\ times'[e] = 1
  BY DEF StreamInv
<1>2. \A e \in Entries : times[e] <= times'[e]
  BY DEF StreamInv
<1>3. \A e \in Entries \ T : times'[e] = times[e]
  OBVIOUS
<1>4. StreamInv'
  BY <1>1, <1>3 DEF StreamInv
<1>. QED
  BY <1>1, <1>2, <1>4

\* Every step keeps the invariant.
LEMMA StepKeepsIInv ==
  ASSUME IInv, [Next]_vars
  PROVE  IInv'
<1>1. CASE ensure_group \/ Wake \/ NoGroup
  <2>1. NoGroup \/ (hand = {} /\ listed = {})
    BY <1>1 DEF ensure_group, Wake, IInv, FetchInv
  <2>2. /\ hand' = {} /\ listed' = {} /\ UNCHANGED <<semaphore, inflight, streamVars>>
        /\ Top(inflight) \/ loop' = At("backoff")
    BY <1>1, <2>1 DEF ensure_group, Wake, NoGroup
  <2>. QED
    BY <2>2, LoopOnly
<1>2. CASE _drain
  <2>1. hand' = {} /\ listed' = {} /\ loop' = At("stopped")
          /\ UNCHANGED <<semaphore, inflight, streamVars>>
    BY <1>2 DEF _drain, IInv, FetchInv
  <2>. QED
    BY <2>1, LoopOnly
<1>3. CASE queue_depth
  <2>1. /\ loop.pc = "depth" /\ loop' = [loop EXCEPT !.pc = "pending"]
        /\ UNCHANGED <<listed, hand, semaphore, inflight, unsent, backlog, pending, idle, times>>
    BY <1>3 DEF queue_depth, streamVars
  <2>2. loop' \in Loop /\ loop'.pc = "pending" /\ loop'.count = loop.count
    BY <2>1 DEF IInv, FetchInv, Loop, LoopPCs
  <2>3. StreamInv' /\ TaskInv' /\ SlotInv'
    BY <2>1 DEF IInv, StreamInv, TaskInv, SlotInv, NoSlotLeaks
  <2>4. FetchInv' /\ DispatchNeverWaits'
    BY <2>1, <2>2 DEF IInv, FetchInv, DispatchNeverWaits
  <2>. QED
    BY <2>3, <2>4 DEF IInv
<1>4. CASE XPending
  <2>1. /\ loop.pc = "pending" /\ listed' \in Front(idle, loop.count) /\ hand = {}
        /\ UNCHANGED <<hand, semaphore, inflight, unsent, backlog, pending, idle, times>>
    BY <1>4 DEF XPending, streamVars, IInv, FetchInv
  <2>2. CASE listed' = {}
    <3>1. AfterStale(inflight)
      BY <1>4, <2>2 DEF XPending
    <3>. QED
      BY <2>1, <2>2, <3>1, LoopOnly DEF streamVars
  <2>3. CASE listed' # {}
    <3>1. loop' = [loop EXCEPT !.pc = "claim"]
      BY <1>4, <2>3 DEF XPending
    <3>2. loop' \in Loop /\ loop'.pc = "claim"
      BY <3>1 DEF IInv, FetchInv, Loop, LoopPCs
    <3>3. loop.count \in Nat /\ loop.count <= semaphore /\ semaphore \in Nat
      BY <2>1 DEF IInv, FetchInv, SlotInv, Loop
    <3>4. listed' \subseteq idle /\ Cardinality(listed') \in Nat
            /\ Cardinality(listed') <= loop.count
      BY <2>1, <3>3, ReplyFits DEF IInv, StreamInv
    <3>5. Cardinality(hand') + Cardinality(listed') <= semaphore'
      BY <2>1, <3>3, <3>4, FS_EmptySet
    <3>6. StreamInv' /\ TaskInv' /\ SlotInv'
      BY <2>1 DEF IInv, StreamInv, TaskInv, SlotInv, NoSlotLeaks
    <3>7. FetchInv' /\ DispatchNeverWaits'
      BY <2>1, <3>2, <3>4, <3>5 DEF IInv, FetchInv, DispatchNeverWaits, StreamInv
    <3>. QED
      BY <3>6, <3>7 DEF IInv
  <2>. QED
    BY <2>2, <2>3
<1>5. CASE XClaim
  <2>1. PICK e \in listed :
          /\ listed' = listed \ {e}
          /\ \/ /\ e \in idle /\ idle' = idle \ {e}
                /\ times' = [times EXCEPT ![e] = @ + 1]
                /\ hand' = hand \cup {<<e, times[e] + 1>>}
             \/ UNCHANGED <<idle, times, hand>>
    BY <1>5 DEF XClaim
  <2>2. /\ loop.pc = "claim"
        /\ UNCHANGED <<semaphore, inflight, unsent, backlog, pending>>
    BY <1>5 DEF XClaim
  <2>3. e \in Entries /\ listed \subseteq Entries
    BY <2>1 DEF IInv, FetchInv
  <2>4. StreamInv' /\ times' \in [Entries -> Nat]
          /\ \A f \in Entries : times[f] <= times'[f]
    BY <2>1, <2>2, <2>3 DEF IInv, StreamInv
  <2>5. SlotInv'
    BY <2>2 DEF IInv, SlotInv, NoSlotLeaks
  <2>6. TaskInv'
    <3>1. CASE hand' = hand
      BY <2>2, <2>4, <3>1, TasksKept DEF IInv, StreamInv
    <3>2. CASE hand' = hand \cup {<<e, times[e] + 1>>} /\ times' = [times EXCEPT ![e] = @ + 1]
      <4>1. <<e, times[e] + 1>> \in Entries \X (Nat \ {0}) /\ times'[e] = times[e] + 1
        BY <2>3, <3>2 DEF IInv, StreamInv
      <4>2. <<e, times[e] + 1>> \notin inflight
        BY <2>3, <4>1 DEF IInv, TaskInv, StreamInv
      <4>3. IsFiniteSet(hand') /\ IsFiniteSet(inflight')
        BY <2>2, <3>2, FS_AddElement, Zenon DEF IInv, TaskInv
      <4>4. hand' \cap inflight' = {}
        BY <2>2, <3>2, <4>2 DEF IInv, TaskInv
      <4>5. ASSUME NEW t \in hand' \cup inflight'
            PROVE  t \in Entries \X (Nat \ {0}) /\ t[2] <= times'[t[1]]
        <5>1. CASE t = <<e, times[e] + 1>>
          BY <4>1, <5>1
        <5>2. CASE t \in hand \cup inflight
          BY <2>4, <5>2 DEF IInv, TaskInv, StreamInv
        <5>. QED
          BY <2>2, <3>2, <5>1, <5>2
      <4>. QED
        BY <4>3, <4>4, <4>5 DEF TaskInv
    <3>. QED
      BY <2>1, <3>1, <3>2
  <2>7. /\ Cardinality(listed') \in Nat /\ Cardinality(hand') \in Nat /\ semaphore \in Nat
        /\ Cardinality(hand') + Cardinality(listed') <= semaphore
    <3>1. /\ Cardinality(listed) \in Nat /\ Cardinality(hand) \in Nat
          /\ Cardinality(listed') = Cardinality(listed) - 1
      BY <2>1, <2>3, EntriesFinite, FS_RemoveElement, FS_CardinalityType DEF IInv, TaskInv
    <3>2. /\ Cardinality(hand') = Cardinality(hand) \/ Cardinality(hand') = Cardinality(hand) + 1
      BY <2>1, FS_AddElement, Zenon DEF IInv, TaskInv
    <3>3. Cardinality(listed') \in Nat
      BY <2>1, <2>3, EntriesFinite
    <3>4. semaphore \in Nat /\ Cardinality(hand) + Cardinality(listed) <= semaphore
      BY <2>2 DEF IInv, SlotInv, FetchInv
    <3>. QED
      BY <3>1, <3>2, <3>3, <3>4
  <2>8. CASE listed' # {}
    <3>1. FetchInv' /\ DispatchNeverWaits'
      BY <1>5, <2>1, <2>2, <2>7, <2>8 DEF XClaim, IInv, FetchInv, DispatchNeverWaits
    <3>. QED
      BY <2>4, <2>5, <2>6, <3>1 DEF IInv
  <2>9. CASE listed' = {} /\ hand' = {}
    <3>1. AfterStale(inflight')
      BY <1>5, <2>2, <2>9, SMTT(30) DEF XClaim
    <3>. QED
      BY <2>4, <2>5, <2>6, <2>9, <3>1, LoopGoesOn, SMTT(30) DEF IInv
  <2>10. CASE listed' = {} /\ hand' # {}
    <3>1. loop' = [loop EXCEPT !.pc = "stale"]
      BY <1>5, <2>10 DEF XClaim
    <3>2. loop' \in Loop /\ loop'.pc = "stale"
      BY <3>1 DEF IInv, FetchInv, Loop, LoopPCs
    <3>3. FetchInv' /\ DispatchNeverWaits'
      BY <2>2, <2>7, <2>10, <3>2 DEF FetchInv, DispatchNeverWaits
    <3>. QED
      BY <2>4, <2>5, <2>6, <3>3 DEF IInv
  <2>. QED
    BY <2>8, <2>9, <2>10
<1>6. CASE Read
  <2>1. PICK T \in Front(backlog, loop.count) :
          /\ backlog' = backlog \ T
          /\ pending' = pending \cup T
          /\ times' = [e \in Entries |-> IF e \in T THEN 1 ELSE times[e]]
          /\ hand' = {<<e, 1>> : e \in T}
    BY <1>6 DEF Read
  <2>2. /\ loop.pc = "read" /\ listed = {} /\ UNCHANGED <<listed, semaphore, inflight, unsent, idle>>
    BY <1>6 DEF Read, IInv, FetchInv
  <2>3. loop.count \in Nat /\ loop.count <= semaphore /\ semaphore \in Nat
    BY <2>2 DEF IInv, FetchInv, SlotInv, Loop
  <2>4. T \subseteq backlog /\ Cardinality(T) \in Nat /\ Cardinality(T) <= semaphore
          /\ T \subseteq Entries /\ IsFiniteSet(T)
    BY <2>3, ReplyFits, EntriesFinite DEF IInv, StreamInv
  <2>5. /\ StreamInv' /\ times' \in [Entries -> Nat]
        /\ \A e \in Entries : times[e] <= times'[e]
        /\ \A e \in T : times[e] = 0 /\ times'[e] = 1
    BY <2>1, <2>2, <2>4, ReadMoves, Zenon DEF IInv
  <2>6. SlotInv'
    BY <2>2 DEF IInv, SlotInv, NoSlotLeaks
  <2>7. IsFiniteSet(hand') /\ Cardinality(hand') = Cardinality(T)
    <3>1. hand' = T \X {1}
      BY <2>1
    <3>2. IsFiniteSet({1}) /\ Cardinality({1}) = 1
      BY FS_Singleton, Zenon
    <3>3. IsFiniteSet(T \X {1}) /\ Cardinality(T \X {1}) = Cardinality(T) * Cardinality({1})
      BY <2>4, <3>2, FS_Product
    <3>. QED
      BY <2>4, <3>1, <3>2, <3>3
  <2>8. TaskInv'
    <3>1. \A t \in hand' : t[1] \in T /\ t[2] = 1 /\ t \in Entries \X (Nat \ {0})
      BY <2>1, <2>4
    <3>2. hand' \cap inflight' = {}
      BY <2>2, <2>4, <2>5, <3>1 DEF IInv, TaskInv
    <3>3. \A t \in hand' : t[2] <= times'[t[1]]
      BY <2>5, <3>1
    <3>4. \A t \in inflight' : t \in Entries \X (Nat \ {0}) /\ t[2] <= times'[t[1]]
      BY <2>2, <2>5 DEF IInv, TaskInv, StreamInv
    <3>5. IsFiniteSet(inflight')
      BY <2>2 DEF IInv, TaskInv
    <3>. QED
      BY <2>7, <3>1, <3>2, <3>3, <3>4, <3>5 DEF TaskInv
  <2>9. FetchInv' /\ DispatchNeverWaits'
    <3>1. CASE hand' = {}
      <4>1. Top(inflight')
        BY <1>6, <2>2, <3>1 DEF Read
      <4>. QED
        BY <2>2, <2>6, <2>8, <3>1, <4>1, LoopGoesOn
    <3>2. CASE hand' # {}
      <4>1. loop' = [loop EXCEPT !.pc = "new"]
        BY <1>6, <3>2 DEF Read
      <4>2. loop' \in Loop /\ loop'.pc = "new"
        BY <4>1 DEF IInv, FetchInv, Loop, LoopPCs
      <4>. QED
        BY <2>2, <2>4, <2>7, <4>2 DEF FetchInv, DispatchNeverWaits
    <3>. QED
      BY <3>1, <3>2
  <2>. QED
    BY <2>5, <2>6, <2>8, <2>9 DEF IInv
<1>7. CASE _dispatch
  <2>1. PICK T \in SUBSET hand :
          /\ Cardinality(T) = Least(semaphore, Cardinality(hand))
          /\ hand' = hand \ T
          /\ inflight' = inflight \cup T
          /\ semaphore' = semaphore - Cardinality(T)
    BY <1>7 DEF _dispatch
  <2>2. /\ loop.pc \in {"stale", "new"} /\ listed = {}
        /\ UNCHANGED <<listed, unsent, backlog, pending, idle, times>>
    BY <1>7 DEF _dispatch, streamVars, IInv, FetchInv
  <2>3. /\ Cardinality(hand) \in Nat /\ semaphore \in Nat /\ Cardinality(hand) <= semaphore
        /\ IsFiniteSet(hand) /\ IsFiniteSet(inflight) /\ hand \cap inflight = {}
    BY <2>2, FS_CardinalityType DEF IInv, TaskInv, SlotInv, DispatchNeverWaits
  <2>4. Cardinality(T) = Cardinality(hand)
    BY <2>1, <2>3 DEF Least
  <2>5. T = hand
    BY <2>3, <2>4, FS_Subset
  <2>6. hand' = {} /\ inflight' = inflight \cup hand /\ semaphore' = semaphore - Cardinality(hand)
    BY <2>1, <2>5
  <2>7. /\ IsFiniteSet(inflight') /\ Cardinality(inflight) \in Nat
        /\ Cardinality(inflight') = Cardinality(inflight) + Cardinality(hand)
    <3>1. /\ IsFiniteSet(inflight \cup hand)
          /\ Cardinality(inflight \cup hand)
               = Cardinality(inflight) + Cardinality(hand) - Cardinality(inflight \cap hand)
      BY <2>3, FS_Union
    <3>2. inflight \cap hand = {}
      BY <2>3
    <3>3. Cardinality(inflight \cap hand) = 0
      BY <3>2, FS_EmptySet
    <3>4. Cardinality(inflight) \in Nat
      BY <2>3, FS_CardinalityType
    <3>. QED
      BY <2>3, <2>6, <3>1, <3>3, <3>4
  <2>8. SlotInv'
    BY <2>3, <2>6, <2>7, PoolAssumption DEF IInv, SlotInv, NoSlotLeaks
  <2>9. StreamInv'
    BY <2>2 DEF IInv, StreamInv
  <2>10. TaskInv'
    <3>1. \A t \in hand' \cup inflight' : t \in hand \cup inflight
      BY <2>6
    <3>2. IsFiniteSet(hand') /\ hand' \cap inflight' = {}
      BY <2>6, FS_EmptySet
    <3>. QED
      BY <2>2, <2>7, <3>1, <3>2 DEF IInv, TaskInv
  <2>11. Top(inflight') \/ AfterStale(inflight')
    BY <1>7, <2>6 DEF _dispatch
  <2>12. FetchInv' /\ DispatchNeverWaits'
    BY <2>2, <2>6, <2>8, <2>10, <2>11, LoopGoesOn
  <2>. QED
    BY <2>8, <2>9, <2>10, <2>12 DEF IInv
<1>8. CASE RedisError
  <2>1. /\ loop' = At("backoff") /\ listed' = {} /\ hand' = {}
        /\ UNCHANGED <<semaphore, inflight, unsent>>
    BY <1>8, SMTT(30) DEF RedisError
  <2>2. StreamInv' /\ times' \in [Entries -> Nat] /\ \A e \in Entries : times[e] <= times'[e]
    <3>1. CASE UNCHANGED <<backlog, pending, idle, times>>
      BY <2>1, <3>1 DEF IInv, StreamInv
    <3>2. CASE /\ \E e \in listed \cap idle : /\ idle' = idle \ {e}
                                              /\ times' = [times EXCEPT ![e] = @ + 1]
               /\ UNCHANGED <<backlog, pending>>
      <4>1. PICK e \in listed \cap idle : /\ idle' = idle \ {e}
                                           /\ times' = [times EXCEPT ![e] = @ + 1]
        BY <3>2, Zenon
      <4>2. e \in pending /\ e \in Entries
        BY DEF IInv, StreamInv
      <4>. QED
        BY <2>1, <3>2, <4>1, <4>2 DEF IInv, StreamInv
    <3>3. CASE /\ loop.pc = "read"
               /\ \E T \in Front(backlog, loop.count) :
                    /\ backlog' = backlog \ T /\ pending' = pending \cup T
                    /\ times' = [e \in Entries |-> IF e \in T THEN 1 ELSE times[e]]
               /\ UNCHANGED idle
      <4>1. PICK T \in Front(backlog, loop.count) :
              /\ backlog' = backlog \ T /\ pending' = pending \cup T
              /\ times' = [e \in Entries |-> IF e \in T THEN 1 ELSE times[e]]
        BY <3>3
      <4>2. T \in SUBSET backlog
        BY DEF Front
      <4>. QED
        BY <2>1, <3>3, <4>1, <4>2, ReadMoves DEF IInv
    <3>. QED
      BY <1>8, <3>1, <3>2, <3>3 DEF RedisError
  <2>3. SlotInv'
    BY <2>1 DEF IInv, SlotInv, NoSlotLeaks
  <2>4. TaskInv'
    BY <2>1, <2>2, TasksKept DEF IInv, StreamInv
  <2>5. FetchInv' /\ DispatchNeverWaits'
    BY <2>1 DEF At, FetchInv, DispatchNeverWaits, Loop, LoopPCs
  <2>. QED
    BY <2>2, <2>3, <2>4, <2>5 DEF IInv
<1>9. ASSUME NEW t \in Tasks, TaskEnds(t)
      PROVE  IInv'
  <2>1. /\ t \in inflight /\ inflight' = inflight \ {t} /\ semaphore' = semaphore + 1
        /\ UNCHANGED <<loop, listed, hand, unsent, backlog, times>>
        /\ \/ pending' = pending \ {t[1]} /\ idle' = idle \ {t[1]}
           \/ UNCHANGED <<pending, idle>>
    BY <1>9 DEF TaskEnds
  <2>2. StreamInv'
    BY <2>1 DEF IInv, StreamInv
  <2>3. TaskInv'
    BY <2>1, TasksKept DEF IInv, StreamInv
  <2>4. /\ Cardinality(inflight) \in Nat /\ Cardinality(inflight') = Cardinality(inflight) - 1
        /\ Cardinality(hand) \in Nat
    BY <2>1, FS_RemoveElement, FS_CardinalityType DEF IInv, TaskInv
  <2>5. SlotInv' /\ semaphore \in Nat
    BY <2>1, <2>4, PoolAssumption DEF IInv, SlotInv, NoSlotLeaks
  <2>6. Cardinality(listed) \in Nat /\ loop.count \in Nat
    BY EntriesFinite DEF IInv, FetchInv, Loop
  <2>7. FetchInv' /\ DispatchNeverWaits'
    BY <2>1, <2>4, <2>5, <2>6 DEF IInv, FetchInv, DispatchNeverWaits
  <2>. QED
    BY <2>2, <2>3, <2>5, <2>7 DEF IInv
<1>10. CASE \/ request_stop \/ ReaperEnds \/ Enqueue \/ DataLoss \/ UNCHANGED vars
            \/ \E e \in Entries : GoIdle(e) \/ Elsewhere(e)
  <2>1. UNCHANGED <<loop, listed, hand, semaphore, inflight, times>>
    BY <1>10 DEF request_stop, ReaperEnds, Enqueue, DataLoss, GoIdle, Elsewhere, vars, streamVars
  <2>2. StreamInv'
    <3>1. CASE request_stop \/ ReaperEnds \/ UNCHANGED vars
      BY <3>1 DEF request_stop, ReaperEnds, vars, streamVars, IInv, StreamInv
    <3>2. CASE Enqueue
      BY <3>2 DEF Enqueue, IInv, StreamInv
    <3>3. CASE DataLoss
      BY <3>3 DEF DataLoss, IInv, StreamInv
    <3>4. ASSUME NEW e \in Entries, GoIdle(e) \/ Elsewhere(e)
          PROVE  StreamInv'
      BY <3>4 DEF GoIdle, Elsewhere, IInv, StreamInv
    <3>. QED
      BY <1>10, <3>1, <3>2, <3>3, <3>4
  <2>3. TaskInv' /\ SlotInv' /\ FetchInv' /\ DispatchNeverWaits'
    BY <2>1 DEF IInv, TaskInv, SlotInv, NoSlotLeaks, FetchInv, DispatchNeverWaits
  <2>. QED
    BY <2>2, <2>3, SMTT(30) DEF IInv
<1>. QED
  BY <1>1, <1>2, <1>3, <1>4, <1>5, <1>6, <1>7, <1>8, <1>9, <1>10, Zenon DEF Next, LoopStep

\* The invariant holds initially.
LEMMA InitIInv == Init => IInv
<1>. SUFFICES ASSUME Init PROVE IInv
  OBVIOUS
<1>1. StreamInv
  BY DEF Init, StreamInv
<1>2. TaskInv
  BY FS_EmptySet DEF Init, TaskInv
<1>3. SlotInv
  BY FS_EmptySet, PoolAssumption DEF Init, SlotInv, NoSlotLeaks
<1>4. FetchInv /\ DispatchNeverWaits
  BY DEF Init, At, FetchInv, DispatchNeverWaits, Loop, LoopPCs
<1>. QED
  BY <1>1, <1>2, <1>3, <1>4 DEF IInv

\* The invariant holds throughout.
LEMMA IInvHolds == Spec => []IInv
  BY InitIInv, StepKeepsIInv, PTL DEF Spec

(***************************************************************************)
(* The theorems                                                            *)
(***************************************************************************)

\* For every pool size, read count and load, every slot is free or has a task:
\* the two done callbacks of _dispatch keep the semaphore and _inflight together
\* (worker.py).
THEOREM SlotsAreKept == Spec => []NoSlotLeaks
<1>1. IInv => NoSlotLeaks
  BY DEF IInv, SlotInv
<1>. QED
  BY <1>1, IInvHolds, PTL

\* For every pool size, read count and load, what the loop has fetched finds the
\* semaphore free: the capacity it counted before its awaits is still there when
\* the reply comes (worker.py, _consume_loop).
THEOREM DispatchIsImmediate == Spec => []DispatchNeverWaits
<1>1. IInv => DispatchNeverWaits
  BY DEF IInv
<1>. QED
  BY <1>1, IInvHolds, PTL

\* For every pool size, read count and load, a fetched message becomes a task,
\* stop or no stop; only a Redis error in the same pass drops it, and leaves it
\* pending (worker.py, _consume_loop).
THEOREM FetchedAreStarted == Spec => FetchedIsStarted
<1>1. ASSUME IInv, [Next]_vars
      PROVE  [hand \subseteq hand' \cup inflight' \/ loop'.pc = "backoff"]_vars
  <2>1. CASE XClaim
    BY <2>1 DEF XClaim
  <2>2. CASE Read
    BY <1>1, <2>2 DEF Read, IInv, FetchInv
  <2>3. CASE _dispatch
    BY <2>3 DEF _dispatch
  <2>4. CASE RedisError \/ NoGroup
    BY <2>4 DEF RedisError, NoGroup, At
  <2>5. CASE ensure_group \/ Wake \/ _drain \/ queue_depth \/ XPending
    BY <2>5 DEF ensure_group, Wake, _drain, queue_depth, XPending
  <2>6. CASE DataLoss \/ request_stop \/ ReaperEnds \/ Enqueue
    BY <2>6 DEF DataLoss, request_stop, ReaperEnds, Enqueue
  <2>7. CASE \/ \E t \in Tasks : TaskEnds(t)
             \/ \E e \in Entries : GoIdle(e) \/ Elsewhere(e)
    BY <2>7 DEF TaskEnds, GoIdle, Elsewhere
  <2>. QED
    BY <1>1, <2>1, <2>2, <2>3, <2>4, <2>5, <2>6, <2>7, Zenon DEF Next, LoopStep
<1>. QED
  BY <1>1, IInvHolds, PTL DEF Spec, FetchedIsStarted

(***************************************************************************)
(* The types, and the number of deliveries                                 *)
(***************************************************************************)

\* The entry can be claimed, or will be: nobody here is at work on it, or who is
\* takes longer than claim_min_idle_ms.
Claimable(e) == e \in pending /\ (e \in idle \/ ~HeldHere(e))

\* Every delivery of an entry but the first was paid for by a failure or a stall.
CountInv ==
  /\ troubles \in 0..MaxTroubles
  /\ \A e \in Entries : times[e] <= 1 + troubles /\ (Claimable(e) => times[e] <= troubles)

FlagInv ==
  /\ stopping \in BOOLEAN /\ closed \in BOOLEAN /\ group \in BOOLEAN
  /\ reaper \in {"on", "over", "dead"}
  /\ ~group => pending = {}

\* Every step keeps FlagInv.
LEMMA StepKeepsFlags ==
  ASSUME FlagInv, [Next]_vars
  PROVE  FlagInv'
<1>1. CASE ensure_group \/ queue_depth \/ Wake \/ _drain \/ NoGroup
  BY <1>1, Zenon DEF ensure_group, queue_depth, Wake, _drain, NoGroup, Top, FlagInv, streamVars
<1>2. CASE XPending
  BY <1>2, Zenon DEF XPending, AfterStale, Top, FlagInv, streamVars
<1>3. CASE XClaim
  BY <1>3, Zenon DEF XClaim, AfterStale, Top, FlagInv
<1>4. CASE Read
  BY <1>4, Zenon DEF Read, Top, FlagInv
<1>5. CASE _dispatch
  BY <1>5, Zenon DEF _dispatch, AfterStale, Top, FlagInv, streamVars
<1>6. CASE RedisError
  BY <1>6 DEF RedisError, FlagInv
<1>7. CASE DataLoss \/ request_stop \/ ReaperEnds \/ Enqueue \/ UNCHANGED vars
  BY <1>7, Zenon DEF DataLoss, request_stop, ReaperEnds, Enqueue, FlagInv, streamVars, vars
<1>8. ASSUME NEW t \in Tasks, TaskEnds(t) PROVE FlagInv'
  BY <1>8 DEF TaskEnds, FlagInv
<1>9. ASSUME NEW e \in Entries, GoIdle(e) \/ Elsewhere(e) PROVE FlagInv'
  BY <1>9 DEF GoIdle, Elsewhere, FlagInv
<1>. QED
  BY <1>1, <1>2, <1>3, <1>4, <1>5, <1>6, <1>7, <1>8, <1>9, Zenon DEF Next, LoopStep

\* Every step keeps CountInv.
LEMMA StepKeepsCounts ==
  ASSUME IInv, IInv', FlagInv, CountInv, [Next]_vars
  PROVE  CountInv'
<1>a. /\ times \in [Entries -> Nat] /\ times' \in [Entries -> Nat]
      /\ troubles \in Nat /\ troubles <= MaxTroubles /\ MaxTroubles \in Nat
      /\ idle \subseteq pending /\ pending \subseteq Entries
  BY PoolAssumption DEF IInv, StreamInv, CountInv
<1>b. \A e \in Entries : times[e] <= 1 + troubles /\ (Claimable(e) => times[e] <= troubles)
  BY DEF CountInv
\* A trouble pays for one more delivery of every entry.
<1>c. ASSUME Trouble,
             \A e \in Entries : times'[e] = times[e] \/ times'[e] = 1
                                 \/ (e \in idle /\ times'[e] = times[e] + 1)
      PROVE  CountInv'
  <2>1. troubles' = troubles + 1 /\ troubles' \in 0..MaxTroubles
    BY <1>a, <1>c DEF Trouble
  <2>2. ASSUME NEW e \in Entries PROVE times'[e] <= troubles'
    <3>1. e \in idle => Claimable(e)
      BY <1>a DEF Claimable
    <3>. QED
      BY <1>a, <1>b, <1>c, <2>1, <3>1
  <2>. QED
    BY <1>a, <2>1, <2>2 DEF CountInv
\* Without one, an entry stays as it is, is read or claimed into the hand, or goes.
<1>d. ASSUME UNCHANGED troubles,
             \A e \in Entries : \/ times'[e] = times[e] /\ (Claimable(e)' => Claimable(e))
                                \/ times'[e] = 1 /\ ~Claimable(e)'
                                \/ e \in idle /\ times'[e] = times[e] + 1 /\ ~Claimable(e)'
      PROVE  CountInv'
  <2>2. ASSUME NEW e \in Entries
        PROVE  times'[e] <= 1 + troubles' /\ (Claimable(e)' => times'[e] <= troubles')
    <3>1. e \in idle => Claimable(e)
      BY <1>a DEF Claimable
    <3>. QED
      BY <1>a, <1>b, <1>d, <3>1
  <2>. QED
    BY <1>a, <1>d, <2>2 DEF CountInv
<1>1. CASE UNCHANGED <<pending, idle, hand, inflight, times, troubles>>
  BY <1>1, <1>d DEF Claimable, HeldHere
<1>2. CASE \/ ensure_group \/ queue_depth \/ Wake \/ _drain \/ XPending \/ request_stop \/ Enqueue
           \/ UNCHANGED vars
  BY <1>1, <1>2 DEF ensure_group, queue_depth, Wake, _drain, XPending, request_stop, Enqueue, vars,
     streamVars
<1>3. CASE XClaim
  <2>1. PICK e \in listed :
          \/ /\ e \in idle /\ idle' = idle \ {e}
             /\ times' = [times EXCEPT ![e] = @ + 1]
             /\ hand' = hand \cup {<<e, times[e] + 1>>}
          \/ UNCHANGED <<idle, times, hand>>
    BY <1>3 DEF XClaim
  <2>2. UNCHANGED <<inflight, pending, troubles>> /\ e \in Entries
    BY <1>3 DEF XClaim, IInv, FetchInv
  <2>3. CASE UNCHANGED <<idle, times, hand>>
    BY <1>1, <2>2, <2>3
  <2>4. CASE /\ e \in idle /\ idle' = idle \ {e}
             /\ times' = [times EXCEPT ![e] = @ + 1]
             /\ hand' = hand \cup {<<e, times[e] + 1>>}
    <3>1. times'[e] = times[e] + 1 /\ \A f \in Entries \ {e} : times'[f] = times[f]
      BY <1>a, <2>2, <2>4
    <3>2. \E t \in hand' : t[1] = e
      <4>1. <<e, times[e] + 1>> \in hand' /\ <<e, times[e] + 1>>[1] = e
        BY <2>4
      <4>. QED
        BY <4>1, Zenon
    <3>3. ~Claimable(e)'
      BY <2>4, <3>2 DEF Claimable, HeldHere
    <3>4. \A f \in Entries \ {e} : Claimable(f)' => Claimable(f)
      BY <2>2, <2>4 DEF Claimable, HeldHere
    <3>. QED
      BY <1>d, <2>2, <2>4, <3>1, <3>3, <3>4
  <2>. QED
    BY <2>1, <2>3, <2>4
<1>4. CASE Read
  <2>1. PICK T \in Front(backlog, loop.count) :
          /\ pending' = pending \cup T
          /\ times' = [e \in Entries |-> IF e \in T THEN 1 ELSE times[e]]
          /\ hand' = {<<e, 1>> : e \in T}
    BY <1>4 DEF Read
  <2>2. UNCHANGED <<inflight, idle, troubles>> /\ hand = {}
    BY <1>4 DEF Read, IInv, FetchInv
  <2>3. T \subseteq backlog /\ T \cap pending = {}
    BY DEF Front, IInv, StreamInv
  <2>4. ASSUME NEW e \in T PROVE ~Claimable(e)'
    <3>1. <<e, 1>> \in hand' /\ <<e, 1>>[1] = e
      BY <2>1
    <3>2. e \notin idle'
      BY <1>a, <2>2, <2>3
    <3>. QED
      BY <3>1, <3>2 DEF Claimable, HeldHere
  <2>5. ASSUME NEW e \in Entries \ T, Claimable(e)' PROVE Claimable(e)
    BY <2>1, <2>2, <2>5 DEF Claimable, HeldHere
  <2>6. \A e \in Entries : times'[e] = IF e \in T THEN 1 ELSE times[e]
    BY <2>1
  <2>. QED
    BY <1>d, <2>2, <2>4, <2>5, <2>6
<1>5. CASE _dispatch
  <2>1. hand' \cup inflight' = hand \cup inflight /\ UNCHANGED <<pending, idle, times, troubles>>
    BY <1>5 DEF _dispatch, streamVars
  <2>. QED
    BY <1>d, <2>1 DEF Claimable, HeldHere
<1>6. CASE RedisError
  <2>1. Trouble /\ listed \subseteq Entries /\ backlog \subseteq Entries
    BY <1>6 DEF RedisError, IInv, FetchInv, StreamInv
  <2>2. \/ UNCHANGED times
        \/ \E e \in listed \cap idle : times' = [times EXCEPT ![e] = @ + 1]
        \/ \E T : times' = [e \in Entries |-> IF e \in T THEN 1 ELSE times[e]]
    BY <1>6 DEF RedisError
  <2>3. \A e \in Entries : times'[e] = times[e] \/ times'[e] = 1
                             \/ (e \in idle /\ times'[e] = times[e] + 1)
    BY <1>a, <2>1, <2>2
  <2>. QED
    BY <1>c, <2>1, <2>3
<1>7. CASE NoGroup
  <2>1. pending' = {} /\ UNCHANGED <<times, troubles>>
    BY <1>7 DEF NoGroup, FlagInv, streamVars
  <2>. QED
    BY <1>d, <2>1 DEF Claimable
<1>8. CASE DataLoss
  <2>1. Trouble /\ UNCHANGED times
    BY <1>8 DEF DataLoss
  <2>. QED
    BY <1>c, <2>1
<1>9. CASE ReaperEnds
  <2>1. UNCHANGED <<pending, idle, hand, inflight, times>> /\ (Trouble \/ UNCHANGED troubles)
    BY <1>9 DEF ReaperEnds, streamVars
  <2>. QED
    BY <1>1, <1>c, <2>1
<1>10. ASSUME NEW t \in Tasks, TaskEnds(t) PROVE CountInv'
  <2>1. UNCHANGED <<hand, times>> /\ inflight' = inflight \ {t}
    BY <1>10 DEF TaskEnds
  <2>2. CASE Trouble
    BY <1>c, <2>1, <2>2
  <2>3. CASE pending' = pending \ {t[1]} /\ idle' = idle \ {t[1]} /\ UNCHANGED troubles
    <3>1. \A e \in Entries : Claimable(e)' => Claimable(e)
      BY <2>1, <2>3 DEF Claimable, HeldHere
    <3>. QED
      BY <1>d, <2>1, <2>3, <3>1
  <2>. QED
    BY <1>10, <2>2, <2>3 DEF TaskEnds
<1>11. ASSUME NEW e \in Entries, GoIdle(e) PROVE CountInv'
  <2>1. UNCHANGED <<pending, hand, inflight, times>> /\ idle' = idle \cup {e} /\ e \in pending
    BY <1>11 DEF GoIdle
  <2>2. CASE Trouble
    BY <1>c, <2>1, <2>2
  <2>3. CASE ~HeldHere(e) /\ UNCHANGED troubles
    <3>1. \A f \in Entries : Claimable(f)' => Claimable(f)
      BY <2>1, <2>3 DEF Claimable, HeldHere
    <3>. QED
      BY <1>d, <2>1, <2>3, <3>1
  <2>. QED
    BY <1>11, <2>2, <2>3 DEF GoIdle
<1>12. ASSUME NEW e \in Entries, Elsewhere(e) PROVE CountInv'
  <2>1. /\ UNCHANGED <<hand, inflight, times, troubles>>
        /\ idle' = idle \ {e} /\ pending' = pending \ {e}
    BY <1>12 DEF Elsewhere
  <2>2. \A f \in Entries : Claimable(f)' => Claimable(f)
    BY <2>1 DEF Claimable, HeldHere
  <2>. QED
    BY <1>d, <2>1, <2>2
<1>. QED
  BY <1>2, <1>3, <1>4, <1>5, <1>6, <1>7, <1>8, <1>9, <1>10, <1>11, <1>12, Zenon DEF Next, LoopStep

\* For every pool size, read count and load, every variable keeps its shape; in
\* particular an entry is delivered at most once more than there were failures and
\* stalls, and no more tasks exist than slots (worker.py, _consume_loop and
\* _dispatch; consumer.py, claim_stale).
THEOREM PoolTypeCorrect == Spec => []TypeOK
<1>1. Init => FlagInv /\ CountInv
  <2>1. Init => FlagInv
    BY Zenon DEF Init, FlagInv
  <2>2. Init => \A e \in Entries : times[e] = 0 /\ troubles = 0
    BY DEF Init
  <2>3. Init => CountInv
    BY <2>2, PoolAssumption DEF Init, CountInv
  <2>. QED
    BY <2>1, <2>3
<1>2. IInv /\ FlagInv /\ CountInv => TypeOK
  <2>. SUFFICES ASSUME IInv, FlagInv, CountInv PROVE TypeOK
    OBVIOUS
  <2>1. times \in [Entries -> 0..MaxDeliveries]
    BY PoolAssumption DEF IInv, StreamInv, CountInv, MaxDeliveries
  <2>2. hand \cup inflight \subseteq Tasks
    <3>. SUFFICES ASSUME NEW t \in hand \cup inflight PROVE t \in Tasks
      OBVIOUS
    <3>1. t \in Entries \X (Nat \ {0}) /\ t[2] <= times[t[1]]
      BY DEF IInv, TaskInv
    <3>2. MaxDeliveries \in Nat /\ times[t[1]] \in 0..MaxDeliveries
      BY <2>1, <3>1, PoolAssumption DEF MaxDeliveries
    <3>3. t[1] \in Entries /\ t[2] \in 1..MaxDeliveries /\ t = <<t[1], t[2]>>
      BY <3>1, <3>2
    <3>. QED
      BY <3>3 DEF Tasks
  <2>3. semaphore \in 0..worker_concurrency
    BY FS_CardinalityType, PoolAssumption DEF IInv, TaskInv, SlotInv, NoSlotLeaks
  <2>. QED
    BY <2>1, <2>2, <2>3 DEF IInv, StreamInv, FetchInv, FlagInv, CountInv, TypeOK, Loop, LoopPCs
<1>3. IInv /\ IInv' /\ FlagInv /\ CountInv /\ [Next]_vars => FlagInv' /\ CountInv'
  BY StepKeepsFlags, StepKeepsCounts
<1>. QED
  BY <1>1, <1>2, <1>3, IInvHolds, PTL DEF Spec
=============================================================================
