----------------------- MODULE WebSocketStreamProofs -----------------------
(***************************************************************************)
(* Proofs about the rate limiter and the streaming connections that ask    *)
(* it, for any number of users, addresses, replicas and connections.       *)
(***************************************************************************)
EXTENDS WebSocketStream, FiniteSetTheorems, WellFoundedInduction, TLAPS

\* The members of admitted that SlidingWindow counts.
Recent(key) == {m \in admitted[key] : m.at > now - (WINDOW - MaxSkew)}

LimiterTyped ==
  /\ now \in 0..MaxTime /\ asked \in Nat
  /\ zset \in [Keys -> SUBSET Member] /\ admitted \in [Keys -> SUBSET Member]

\* A member's score is the time it was added, by a clock ahead by no more than
\* MaxSkew; a sorted set never has more members than the limit, and still has
\* every member that is recent.
KeyInv(key) ==
  /\ IsFiniteSet(zset[key])
  /\ Cardinality(zset[key]) <= LimitOf(key)
  /\ \A m \in admitted[key] : m.at <= now /\ m.at <= m.score
  /\ Recent(key) \subseteq zset[key]

LimiterInv == LimiterTyped /\ \A key \in Keys : KeyInv(key)

(***************************************************************************)
(* The limiter                                                             *)
(***************************************************************************)

\* A limit is a number.
LEMMA LimitIsNat ==
  ASSUME NEW key
  PROVE  LimitOf(key) \in Nat
BY StreamAssumption DEF LimiterAssumption, LimitOf, ipLimit

\* A clock is ahead by MaxSkew at most.
LEMMA ClockBounds ==
  ASSUME LimiterTyped, NEW p \in Replicas
  PROVE  Clock(p) \in Nat /\ now <= Clock(p) /\ Clock(p) <= now + MaxSkew
BY StreamAssumption DEF LimiterAssumption, LimiterTyped, Clock

\* The script admits no request beyond the limit, and what it evicts is not recent.
LEMMA ScriptKeepsKey ==
  ASSUME LimiterInv, NEW key \in Keys, NEW p \in Replicas, LimitOf(key) > 0,
         zset'[key] = Kept(zset[key], Clock(p)) \cup Added(key, p),
         admitted'[key] = admitted[key] \cup Added(key, p), now' = now
  PROVE  KeyInv(key)' /\ zset'[key] \subseteq Member /\ admitted'[key] \subseteq Member
<1>. DEFINE kept == Kept(zset[key], Clock(p))
            new == [id |-> asked, score |-> Clock(p), at |-> now]
<1>1. Clock(p) \in Nat /\ now <= Clock(p) /\ Clock(p) <= now + MaxSkew
  BY ClockBounds DEF LimiterInv
<1>2. /\ now \in Nat /\ asked \in Nat /\ MaxSkew \in Nat /\ WINDOW \in Nat
      /\ LimitOf(key) \in Nat
  BY LimitIsNat, StreamAssumption DEF LimiterAssumption, LimiterInv, LimiterTyped
<1>3. /\ kept \subseteq zset[key] /\ zset[key] \subseteq Member /\ admitted[key] \subseteq Member
      /\ IsFiniteSet(zset[key]) /\ Cardinality(zset[key]) <= LimitOf(key)
  BY DEF LimiterInv, LimiterTyped, KeyInv, Kept
<1>4. /\ IsFiniteSet(kept) /\ Cardinality(kept) \in Nat
      /\ Cardinality(kept) <= LimitOf(key)
  BY <1>2, <1>3, FS_Subset, FS_CardinalityType
<1>5. new \in Member /\ new.at = now /\ new.score = Clock(p)
  BY <1>1, <1>2 DEF Member
<1>6. \/ Added(key, p) = {}
      \/ Added(key, p) = {new} /\ Cardinality(kept) < LimitOf(key)
  BY DEF Added, Admits
<1>7. Recent(key) \subseteq kept
  <2>. SUFFICES ASSUME NEW m \in Recent(key) PROVE m \in kept
    OBVIOUS
  <2>1. /\ m \in zset[key] /\ m \in Member /\ m.at > now - (WINDOW - MaxSkew)
        /\ m.at <= m.score
    BY <1>3 DEF Recent, LimiterInv, KeyInv
  <2>2. m.at \in Nat /\ m.score \in Nat
    BY <2>1 DEF Member
  <2>3. m.score > Clock(p) - WINDOW
    BY <1>1, <1>2, <2>1, <2>2
  <2>. QED
    BY <2>1, <2>3 DEF Kept
<1>8. IsFiniteSet(zset'[key]) /\ Cardinality(zset'[key]) <= LimitOf(key)
  <2>1. CASE Added(key, p) = {}
    BY <1>4, <2>1
  <2>2. CASE Added(key, p) = {new} /\ Cardinality(kept) < LimitOf(key)
    <3>1. /\ IsFiniteSet(kept \cup {new})
          /\ Cardinality(kept \cup {new}) \in {Cardinality(kept), Cardinality(kept) + 1}
      BY <1>4, FS_AddElement, Zenon
    <3>. QED
      BY <1>2, <1>4, <2>2, <3>1
  <2>. QED
    BY <1>6, <2>1, <2>2
<1>9. \A m \in admitted'[key] : m.at <= now' /\ m.at <= m.score
  BY <1>1, <1>2, <1>5, <1>6 DEF LimiterInv, KeyInv
<1>10. Recent(key)' \subseteq zset'[key]
  <2>1. \A m \in Recent(key)' : m \in Recent(key) \/ m \in Added(key, p)
    BY DEF Recent
  <2>. QED
    BY <1>7, <2>1
<1>11. LimitOf(key)' = LimitOf(key)
  BY DEF LimitOf, ipLimit
<1>. QED
  BY <1>3, <1>5, <1>6, <1>8, <1>9, <1>10, <1>11 DEF KeyInv

\* A request asks both scopes.
LEMMA RequestKeepsLimiter ==
  ASSUME LimiterInv, NEW u \in Users, NEW ip \in Addresses, NEW p \in Replicas,
         evaluateRateLimit(u, ip, p)
  PROVE  LimiterInv'
<1>1. now' = now /\ asked' = asked + 1
  BY DEF evaluateRateLimit
<1>2. ASSUME NEW key \in Keys
      PROVE  KeyInv(key)' /\ zset'[key] \subseteq Member /\ admitted'[key] \subseteq Member
  <2>1. CASE key \in {u, ip} /\ LimitOf(key) > 0
    <3>1. /\ zset'[key] = Kept(zset[key], Clock(p)) \cup Added(key, p)
          /\ admitted'[key] = admitted[key] \cup Added(key, p)
      BY <2>1 DEF evaluateRateLimit
    <3>. QED
      BY <1>1, <2>1, <3>1, ScriptKeepsKey
  <2>2. CASE ~(key \in {u, ip} /\ LimitOf(key) > 0)
    <3>1. zset'[key] = zset[key] /\ admitted'[key] = admitted[key]
      BY <2>2, Zenon DEF evaluateRateLimit, Added
    <3>2. LimitOf(key)' = LimitOf(key)
      BY DEF LimitOf, ipLimit
    <3>3. Recent(key)' = Recent(key)
      BY <1>1, <3>1 DEF Recent
    <3>. QED
      BY <1>1, <3>1, <3>2, <3>3 DEF LimiterInv, LimiterTyped, KeyInv
  <2>. QED
    BY <2>1, <2>2
<1>3. zset' \in [Keys -> SUBSET Member] /\ admitted' \in [Keys -> SUBSET Member]
  <2>1. /\ zset' = [key \in Keys |-> zset'[key]] /\ admitted' = [key \in Keys |-> admitted'[key]]
    BY DEF evaluateRateLimit
  <2>. QED
    BY <1>2, <2>1
<1>. QED
  BY <1>1, <1>2, <1>3 DEF LimiterInv, LimiterTyped

\* A member is recent for a while, and a set that expires has no recent member.
LEMMA TickKeepsLimiter ==
  ASSUME LimiterInv, LimiterTick
  PROVE  LimiterInv'
<1>1. now' = now + 1 /\ asked' = asked /\ now' \in 0..MaxTime /\ now \in Nat
  BY StreamAssumption DEF LimiterTick, LimiterAssumption, LimiterInv, LimiterTyped
<1>2. MaxSkew \in Nat /\ WINDOW \in Nat
  BY StreamAssumption DEF LimiterAssumption
<1>3. ASSUME NEW key \in Keys
      PROVE  KeyInv(key)' /\ zset'[key] \subseteq Member /\ admitted'[key] \subseteq Member
  <2>1. admitted'[key] \subseteq admitted[key]
    BY DEF LimiterTick
  <2>2. zset'[key] = IF admitted'[key] = {} THEN {} ELSE zset[key]
    BY DEF LimiterTick
  <2>3. zset[key] \subseteq Member /\ admitted[key] \subseteq Member
    BY DEF LimiterInv, LimiterTyped
  <2>4. LimitOf(key)' = LimitOf(key) /\ LimitOf(key) \in Nat
    BY LimitIsNat DEF LimitOf, ipLimit
  <2>5. IsFiniteSet(zset'[key]) /\ Cardinality(zset'[key]) <= LimitOf(key)
    BY <2>2, <2>4, FS_EmptySet DEF LimiterInv, KeyInv
  <2>6. \A m \in admitted'[key] : m.at \in Nat /\ m.at <= now' /\ m.at <= m.score
    BY <1>1, <2>1, <2>3 DEF LimiterInv, KeyInv, Member
  <2>7. Recent(key)' \subseteq Recent(key)
    BY <1>1, <1>2, <2>1, <2>6 DEF Recent
  <2>8. Recent(key)' \subseteq zset'[key]
    BY <2>2, <2>7 DEF LimiterInv, KeyInv, Recent
  <2>. QED
    BY <2>1, <2>2, <2>3, <2>4, <2>5, <2>6, <2>8 DEF KeyInv
<1>4. zset' \in [Keys -> SUBSET Member] /\ admitted' \in [Keys -> SUBSET Member]
  <2>1. /\ zset' = [key \in Keys |-> zset'[key]] /\ admitted' = [key \in Keys |-> admitted'[key]]
    BY DEF LimiterTick
  <2>. QED
    BY <1>3, <2>1
<1>. QED
  BY <1>1, <1>3, <1>4 DEF LimiterInv, LimiterTyped

\* The limiter's invariant holds initially.
LEMMA LimiterStarts ==
  ASSUME LimiterInit
  PROVE  LimiterInv
<1>1. MaxTime \in Nat
  BY StreamAssumption DEF LimiterAssumption
<1>2. LimiterTyped
  BY <1>1 DEF LimiterInit, LimiterTyped
<1>3. ASSUME NEW key \in Keys PROVE KeyInv(key)
  <2>1. zset[key] = {} /\ admitted[key] = {}
    BY DEF LimiterInit
  <2>. QED
    BY <2>1, FS_EmptySet, LimitIsNat DEF KeyInv, Recent
<1>. QED
  BY <1>2, <1>3 DEF LimiterInv

\* The limiter's invariant is what SlidingWindow needs.
LEMMA WindowFits == LimiterInv => SlidingWindow
<1>. SUFFICES ASSUME LimiterInv, NEW key \in Keys
              PROVE  Cardinality(Recent(key)) <= LimitOf(key)
  BY DEF SlidingWindow, Recent
<1>1. /\ IsFiniteSet(zset[key]) /\ Recent(key) \in SUBSET zset[key]
      /\ Cardinality(zset[key]) <= LimitOf(key)
  BY DEF LimiterInv, KeyInv
<1>2. /\ IsFiniteSet(Recent(key)) /\ Cardinality(Recent(key)) <= Cardinality(zset[key])
  BY <1>1, FS_Subset
<1>3. Cardinality(Recent(key)) \in Nat /\ Cardinality(zset[key]) \in Nat /\ LimitOf(key) \in Nat
  BY <1>1, <1>2, FS_CardinalityType, LimitIsNat
<1>. QED
  BY <1>1, <1>2, <1>3

\* A set of members has an oldest one.
LEMMA OldestExists ==
  ASSUME NEW S \in SUBSET Member, S # {}
  PROVE  \E m \in S : \A k \in S : m.score <= k.score
<1>. DEFINE scores == {m.score : m \in S}
<1>1. scores \subseteq Nat /\ scores # {}
  BY DEF Member
<1>2. \E x \in scores : \A y \in scores : ~ (<<y, x>> \in OpToRel(<, Nat))
  <2>. HIDE DEF scores
  <2>. QED
    BY <1>1, NatLessThanWellFounded, WFMin, Zenon
<1>3. PICK x \in scores : \A y \in scores : ~ (<<y, x>> \in OpToRel(<, Nat))
  BY <1>2, Zenon
<1>4. \A y \in scores : x <= y
  <2>1. \A y \in scores : ~(y < x)
    BY <1>1, <1>3, Zenon DEF OpToRel
  <2>. QED
    BY <1>1, <2>1, SMTT(30)
<1>5. PICK m \in S : x = m.score
  OBVIOUS
<1>. QED
  BY <1>4, <1>5

\* The wait ends when the oldest member leaves, and no member leaves before.
LEMMA RetryFits == LimiterInv => RetryIsExact
<1>. SUFFICES ASSUME LimiterInv, NEW key \in Keys, NEW p \in Replicas,
                     LimitOf(key) > 0, ~Admits(key, Clock(p))
              PROVE  /\ Admits(key, Clock(p) + RetryAfter(key, Clock(p)))
                     /\ \A t \in 0..(RetryAfter(key, Clock(p)) - 1) : ~Admits(key, Clock(p) + t)
  BY Zenon DEF RetryIsExact
<1>. DEFINE instant == Clock(p)
            kept == Kept(zset[key], instant)
            oldest == CHOOSE m \in kept : \A k \in kept : m.score <= k.score
            wait == oldest.score + WINDOW - instant
<1>1. /\ instant \in Nat /\ WINDOW \in Nat /\ LimitOf(key) \in Nat
      /\ zset[key] \subseteq Member /\ IsFiniteSet(zset[key])
      /\ Cardinality(zset[key]) <= LimitOf(key)
  BY ClockBounds, LimitIsNat, StreamAssumption
    DEF LimiterAssumption, LimiterInv, LimiterTyped, KeyInv
<1>2. kept \subseteq zset[key] /\ ~(Cardinality(kept) < LimitOf(key))
  BY DEF Kept, Admits
<1>3. kept # {}
  BY <1>2, FS_EmptySet
<1>4. oldest \in kept /\ \A k \in kept : oldest.score <= k.score
  <2>1. \E m \in kept : \A k \in kept : m.score <= k.score
    BY <1>1, <1>2, <1>3, OldestExists, SMTT(30)
  <2>. QED
    BY <2>1, Zenon
<1>5. /\ oldest \in Member /\ oldest.score \in Nat /\ oldest.score > instant - WINDOW
      /\ oldest \in zset[key]
  BY <1>1, <1>2, <1>4 DEF Kept, Member
<1>. HIDE DEF oldest
<1>6. wait \in Int /\ wait >= 1
  BY <1>1, <1>5
<1>7. RetryAfter(key, instant) = wait
  BY <1>3, <1>6 DEF RetryAfter, oldest
<1>8. Admits(key, instant + wait)
  <2>. DEFINE later == Kept(zset[key], instant + wait)
  <2>1. later \in SUBSET zset[key] /\ oldest \notin later
    BY <1>1, <1>5 DEF Kept
  <2>2. IsFiniteSet(later) /\ Cardinality(later) <= Cardinality(zset[key])
          /\ Cardinality(later) # Cardinality(zset[key])
    BY <1>1, <1>5, <2>1, FS_Subset, SMTT(30)
  <2>3. Cardinality(later) \in Nat /\ Cardinality(zset[key]) \in Nat
    BY <1>1, <2>2, FS_CardinalityType, SMTT(30)
  <2>4. Cardinality(later) < LimitOf(key)
    BY <1>1, <2>2, <2>3
  <2>. QED
    BY <2>4 DEF Admits
<1>9. ASSUME NEW t \in 0..(wait - 1)
      PROVE  ~Admits(key, instant + t)
  <2>1. Kept(zset[key], instant + t) = kept
    <3>1. ASSUME NEW m \in zset[key]
          PROVE  m.score > (instant + t) - WINDOW <=> m.score > instant - WINDOW
      <4>1. m.score \in Nat /\ t \in Nat /\ t < wait
        BY <1>1, <1>6, <3>1 DEF Member
      <4>2. m.score > instant - WINDOW => oldest.score <= m.score
        BY <1>4, <3>1, SMTT(30) DEF Kept
      <4>. QED
        BY <1>1, <1>5, <4>1, <4>2
    <3>. QED
      BY <3>1 DEF Kept
  <2>. QED
    BY <1>2, <2>1 DEF Admits
<1>. QED
  BY <1>7, <1>8, <1>9

(***************************************************************************)
(* The connections                                                         *)
(***************************************************************************)

JobStates == {"none", "queued", "published", "done"}

\* The gauge has been decremented exactly if the one cleanup is over.  Before the
\* subscription is awaited there is no job; from the transaction on somebody
\* listens, or the cleanup has begun.
LocalInv(s, j) ==
  /\ s \in Connection
  /\ s.cleanedUp <=> s.cleanup # "none"
  /\ s.decs = IF s.cleanup = "done" THEN 1 ELSE 0
  /\ s.start \in {"idle", "rate", "slot", "subscribe"} => j = "none"
  /\ s.start = "enqueue" \/ j # "none" => s.subscriber = "listening" \/ s.cleanedUp

SlotInv == slots \subseteq Conns /\ IsFiniteSet(slots) /\ others \in 0..SlotLimit

ConnsInv == /\ conn \in [Conns -> Connection] /\ job \in [Conns -> JobStates]
            /\ \A c \in Conns : LocalInv(conn[c], job[c])

IInv == LimiterInv /\ SlotInv /\ ConnsInv /\ troubles \in 0..MaxTroubles

\* Closing the socket keeps LocalInv.
LEMMA ClosedLocal ==
  ASSUME NEW s, NEW j, LocalInv(s, j)
  PROVE  LocalInv(Closed(s), j)
<1>1. s \in Connection
  BY DEF LocalInv
<1>2. Closed(s) \in Connection
  BY <1>1, Zenon DEF Closed, Connection
<1>3. /\ Closed(s).cleanedUp = s.cleanedUp /\ Closed(s).cleanup = s.cleanup
      /\ Closed(s).decs = s.decs /\ Closed(s).start = s.start
      /\ Closed(s).subscriber = s.subscriber
  BY <1>1 DEF Closed, Connection
<1>. QED
  BY <1>2, <1>3 DEF LocalInv

\* The end of onStart keeps LocalInv.
LEMMA OverLocal ==
  ASSUME NEW s, NEW j, LocalInv(s, j)
  PROVE  LocalInv([s EXCEPT !.start = "over"], j)
BY DEF LocalInv, Connection

\* The end of the one cleanup.
LEMMA UncountLocal ==
  ASSUME NEW s \in Connection, NEW j, s.cleanedUp, s.cleanup # "done", s.decs = 0,
         s.start \in {"idle", "rate", "slot", "subscribe"} => j = "none"
  PROVE  LocalInv(Uncount(s), j)
<1>. DEFINE over == [s EXCEPT !.cleanup = "done", !.decs = @ + 1]
<1>1. LocalInv(over, j)
  <2>. DEFINE done == [s EXCEPT !.cleanup = "done"]
  <2>1. over \in Connection
    <3>1. done \in Connection /\ done.decs = 0
      BY DEF Connection
    <3>2. over = [done EXCEPT !.decs = 1]
      BY DEF Connection
    <3>. HIDE DEF done, over
    <3>. QED
      BY <3>1, <3>2 DEF Connection
  <2>2. /\ over.cleanedUp /\ over.cleanup = "done" /\ over.decs = 1 /\ over.start = s.start
    BY DEF Connection
  <2>. QED
    BY <2>1, <2>2 DEF LocalInv
<1>. HIDE DEF over
<1>2. LocalInv(Closed(over), j)
  BY <1>1, ClosedLocal
<1>. QED
  BY <1>1, <1>2 DEF Uncount, over

\* From the slot's release on.
LEMMA ClearTimerLocal ==
  ASSUME NEW s \in Connection, NEW j, s.cleanedUp, s.cleanup # "done", s.decs = 0,
         s.start \in {"idle", "rate", "slot", "subscribe"} => j = "none"
  PROVE  LocalInv(ClearTimer(s), j)
<1>. DEFINE cleared == [s EXCEPT !.lifetimeTimer = IF @ = "set" THEN "over" ELSE @]
<1>1. /\ cleared \in Connection /\ cleared.cleanedUp /\ cleared.cleanup = s.cleanup
      /\ cleared.decs = 0 /\ cleared.start = s.start
  BY DEF Connection
<1>. HIDE DEF cleared
<1>2. LocalInv([cleared EXCEPT !.cleanup = "quit"], j)
  BY <1>1 DEF LocalInv, Connection
<1>3. LocalInv(Uncount(cleared), j)
  BY <1>1, UncountLocal
<1>. QED
  BY <1>2, <1>3 DEF ClearTimer, cleared

\* cleanup keeps LocalInv.
LEMMA CleanupLocal ==
  ASSUME NEW s, NEW j, LocalInv(s, j)
  PROVE  LocalInv(cleanup(s), j)
<1>1. CASE s.cleanedUp
  BY <1>1 DEF cleanup
<1>2. CASE ~s.cleanedUp
  <2>. DEFINE begun == [s EXCEPT !.cleanedUp = TRUE]
  <2>1. /\ begun \in Connection /\ begun.cleanedUp /\ begun.cleanup = "none"
        /\ begun.decs = 0 /\ begun.start = s.start
        /\ s.start \in {"idle", "rate", "slot", "subscribe"} => j = "none"
    BY <1>2, Zenon DEF LocalInv, Connection
  <2>. HIDE DEF begun
  <2>2. LocalInv([begun EXCEPT !.cleanup = "release"], j)
    BY <2>1 DEF LocalInv, Connection
  <2>3. LocalInv(ClearTimer(begun), j)
    BY <2>1, ClearTimerLocal
  <2>. QED
    BY <1>2, <2>2, <2>3 DEF cleanup, begun
<1>. QED
  BY <1>1, <1>2

\* finish keeps LocalInv.
LEMMA FinishLocal ==
  ASSUME NEW s, NEW j, LocalInv(s, j)
  PROVE  LocalInv(finish(s), j)
<1>. DEFINE begun == [s EXCEPT !.settled = TRUE, !.closes = TRUE]
<1>1. LocalInv(begun, j)
  BY ZenonT(60) DEF LocalInv, Connection
<1>. HIDE DEF begun
<1>2. LocalInv(cleanup(begun), j)
  BY <1>1, CleanupLocal
<1>. QED
  BY <1>2 DEF finish, begun

\* onStart's catch block keeps LocalInv.
LEMMA FailsLocal ==
  ASSUME ConnsInv, NEW c \in Conns
  PROVE  LocalInv(finish(At(c, "over")), job[c])
<1>1. LocalInv(At(c, "over"), job[c])
  BY OverLocal DEF ConnsInv, At
<1>. QED
  BY <1>1, FinishLocal

\* A step of one connection and its job keeps ConnsInv.
LEMMA OneConn ==
  ASSUME ConnsInv, NEW c \in Conns, NEW s, NEW j \in JobStates, LocalInv(s, j),
         conn' = [conn EXCEPT ![c] = s], job' = [job EXCEPT ![c] = j]
  PROVE  ConnsInv'
<1>1. s \in Connection
  BY DEF LocalInv
<1>2. conn' \in [Conns -> Connection] /\ job' \in [Conns -> JobStates]
  BY <1>1 DEF ConnsInv
<1>3. conn'[c] = s /\ job'[c] = j
  BY DEF ConnsInv
<1>4. \A d \in Conns \ {c} : conn'[d] = conn[d] /\ job'[d] = job[d]
  BY DEF ConnsInv
<1>5. \A d \in Conns : LocalInv(conn'[d], job'[d])
  <2>. SUFFICES ASSUME NEW d \in Conns PROVE LocalInv(conn'[d], job'[d])
    OBVIOUS
  <2>1. CASE d = c
    BY <1>3, <2>1
  <2>2. CASE d # c
    BY <1>4, <2>2 DEF ConnsInv
  <2>. QED
    BY <2>1, <2>2
<1>. QED
  BY <1>2, <1>5 DEF ConnsInv

\* A step of one connection keeps ConnsInv.
LEMMA OnlyConn ==
  ASSUME ConnsInv, NEW c \in Conns, NEW s, LocalInv(s, job[c]), Becomes(c, s), job' = job
  PROVE  ConnsInv'
<1>1. job[c] \in JobStates /\ job' = [job EXCEPT ![c] = job[c]]
  BY DEF ConnsInv
<1>. QED
  BY <1>1, OneConn, Zenon DEF Becomes

\* A step that leaves the limiter alone keeps its invariant.
LEMMA LimiterKept == ASSUME LimiterInv, UNCHANGED limiterVars PROVE LimiterInv'
<1>1. LimiterTyped'
  BY DEF LimiterInv, LimiterTyped, limiterVars
<1>2. ASSUME NEW key \in Keys PROVE KeyInv(key)'
  BY DEF LimiterInv, KeyInv, Recent, limiterVars, LimitOf, ipLimit
<1>. QED
  BY <1>1, <1>2 DEF LimiterInv

\* Troubles stay within their bound.
LEMMA TroubleBounded ==
  ASSUME troubles \in 0..MaxTroubles, Trouble \/ UNCHANGED troubles
  PROVE  troubles' \in 0..MaxTroubles
BY StreamAssumption DEF Trouble

\* The steps that change one connection's locals and nothing else.
LEMMA LocalStep ==
  ASSUME ConnsInv, NEW c \in Conns,
         \/ Quit(c) \/ Connect(c) \/ OnMessage(c) \/ Subscribed(c) \/ Accepted(c)
         \/ OnStartRaises(c) \/ Disconnect(c) \/ Vanish(c) \/ Heartbeat(c) \/ Pong(c)
         \/ SocketError(c) \/ LifetimeOver(c) \/ Backpressure(c)
  PROVE  ConnsInv'
<1>1. LocalInv(conn[c], job[c]) /\ conn[c] \in Connection /\ job[c] \in JobStates
  BY SMTT(30) DEF ConnsInv
<1>2. CASE Quit(c)
  <2>. DEFINE s == [conn[c] EXCEPT !.subscriber = "gone"]
  <2>1. conn[c].cleanup = "quit" /\ Becomes(c, Uncount(s)) /\ job' = job
    BY <1>2 DEF Quit
  <2>2. /\ s \in Connection /\ s.cleanedUp /\ s.cleanup # "done" /\ s.decs = 0
        /\ s.start \in {"idle", "rate", "slot", "subscribe"} => job[c] = "none"
    BY <1>1, <2>1 DEF LocalInv, Connection
  <2>. HIDE DEF s
  <2>3. LocalInv(Uncount(s), job[c])
    BY <2>2, UncountLocal
  <2>. QED
    BY <2>1, <2>3, OnlyConn
<1>3. CASE Connect(c)
  <2>1. Becomes(c, [conn[c] EXCEPT !.ws = "open"]) /\ job' = job
    BY <1>3 DEF Connect
  <2>2. LocalInv([conn[c] EXCEPT !.ws = "open"], job[c])
    BY <1>1 DEF LocalInv, Connection
  <2>. QED
    BY <2>1, <2>2, OnlyConn
<1>4. CASE OnMessage(c)
  <2>1. conn[c].start = "idle" /\ job' = job /\ (Becomes(c, At(c, "rate")) \/ Fails(c))
    BY <1>4 DEF OnMessage
  <2>2. LocalInv(At(c, "rate"), job[c])
    BY <1>1, <2>1 DEF At, LocalInv, Connection
  <2>. QED
    BY <2>1, <2>2, FailsLocal, OnlyConn, SMTT(30) DEF Fails
<1>5. CASE Subscribed(c)
  <2>. DEFINE timed == [conn[c] EXCEPT !.lifetimeTimer = "set"]
  <2>1. /\ conn[c].start = "subscribe" /\ job' = job
        /\ \/ Becomes(c, [timed EXCEPT !.start = "enqueue", !.subscriber = "listening"])
           \/ Becomes(c, finish([timed EXCEPT !.start = "over"]))
    BY <1>5 DEF Subscribed
  <2>2. LocalInv(timed, job[c])
    BY <1>1 DEF LocalInv, Connection
  <2>3. timed.start = "subscribe"
    BY <1>1, <2>1 DEF Connection
  <2>. HIDE DEF timed
  <2>4. LocalInv([timed EXCEPT !.start = "over"], job[c])
    BY <2>2, OverLocal
  <2>5. LocalInv(finish([timed EXCEPT !.start = "over"]), job[c])
    BY <2>4, FinishLocal
  <2>6. LocalInv([timed EXCEPT !.start = "enqueue", !.subscriber = "listening"], job[c])
    <3>. DEFINE s == [timed EXCEPT !.start = "enqueue", !.subscriber = "listening"]
    <3>1. timed \in Connection
      BY <2>2 DEF LocalInv
    <3>2. s \in Connection
      BY <3>1, ZenonT(60) DEF Connection
    <3>3. /\ s.start = "enqueue" /\ s.subscriber = "listening" /\ s.cleanedUp = timed.cleanedUp
          /\ s.cleanup = timed.cleanup /\ s.decs = timed.decs
      BY <3>1 DEF Connection
    <3>. HIDE DEF s
    <3>. QED
      BY <2>2, <3>2, <3>3 DEF LocalInv, s
  <2>. QED
    BY <2>1, <2>5, <2>6, OnlyConn
<1>6. CASE Accepted(c)
  BY <1>1, <1>6, OverLocal, OnlyConn, SMTT(30) DEF Accepted, At
<1>7. CASE OnStartRaises(c)
  BY <1>7, FailsLocal, OnlyConn, SMTT(30) DEF OnStartRaises, Fails
<1>8. CASE Disconnect(c)
  <2>1. LocalInv(cleanup(Closed(conn[c])), job[c])
    BY <1>1, ClosedLocal, CleanupLocal
  <2>. QED
    BY <1>8, <2>1, OnlyConn, SMTT(30) DEF Disconnect
<1>9. CASE Vanish(c)
  <2>1. LocalInv([conn[c] EXCEPT !.silent = TRUE], job[c])
    BY <1>1, ZenonT(60) DEF LocalInv, Connection
  <2>. QED
    BY <1>9, <2>1, OnlyConn DEF Vanish
<1>10. CASE Heartbeat(c)
  <2>1. LocalInv(cleanup(Closed(conn[c])), job[c])
    BY <1>1, ClosedLocal, CleanupLocal
  <2>2. LocalInv([conn[c] EXCEPT !.isAlive = FALSE], job[c])
    BY <1>1, ZenonT(60) DEF LocalInv, Connection
  <2>3. /\ job' = job
        /\ \/ Becomes(c, [conn[c] EXCEPT !.isAlive = FALSE])
           \/ Becomes(c, cleanup(Closed(conn[c])))
    BY <1>10 DEF Heartbeat
  <2>. QED
    BY <2>1, <2>2, <2>3, OnlyConn
<1>11. CASE Pong(c)
  <2>1. LocalInv([conn[c] EXCEPT !.isAlive = TRUE], job[c])
    BY <1>1, ZenonT(60) DEF LocalInv, Connection
  <2>. QED
    BY <1>11, <2>1, OnlyConn DEF Pong
<1>12. CASE SocketError(c)
  <2>1. LocalInv(finish(Closed(conn[c])), job[c])
    BY <1>1, ClosedLocal, FinishLocal
  <2>. QED
    BY <1>12, <2>1, OnlyConn DEF SocketError
<1>13. CASE LifetimeOver(c)
  <2>. DEFINE s == [conn[c] EXCEPT !.lifetimeTimer = "over"]
  <2>1. LocalInv(s, job[c])
    BY <1>1 DEF LocalInv, Connection
  <2>. HIDE DEF s
  <2>2. LocalInv(finish(s), job[c])
    BY <2>1, FinishLocal, SMTT(30)
  <2>. QED
    BY <1>13, <2>2, OnlyConn DEF LifetimeOver, s
<1>14. CASE Backpressure(c)
  BY <1>1, <1>14, FinishLocal, OnlyConn DEF Backpressure
<1>. QED
  BY <1>2, <1>3, <1>4, <1>5, <1>6, <1>7, <1>8, <1>9, <1>10, <1>11, <1>12, <1>13, <1>14, SMTT(30)

\* Every step keeps the invariant.
LEMMA StepKeepsIInv ==
  ASSUME IInv, [Next]_vars
  PROVE  IInv'
<1>1. LimiterInv /\ SlotInv /\ ConnsInv /\ troubles \in 0..MaxTroubles
  BY DEF IInv
<1>2. ASSUME NEW c \in Conns,
             \/ Quit(c) \/ Connect(c) \/ OnMessage(c) \/ Subscribed(c) \/ Accepted(c)
             \/ OnStartRaises(c) \/ Disconnect(c) \/ Vanish(c) \/ Heartbeat(c) \/ Pong(c)
             \/ SocketError(c) \/ LifetimeOver(c) \/ Backpressure(c)
      PROVE  IInv'
  <2>1. UNCHANGED limiterVars /\ UNCHANGED slotVars /\ (Trouble \/ UNCHANGED troubles)
    BY <1>2, Zenon DEF Quit, Connect, OnMessage, Subscribed, Accepted, OnStartRaises,
      Disconnect, Vanish, Heartbeat, Pong, SocketError, LifetimeOver, Backpressure
  <2>2. ConnsInv'
    BY <1>1, <1>2, LocalStep
  <2>3. SlotInv'
    BY <1>1, <2>1, SMTT(30) DEF SlotInv, slotVars
  <2>. QED
    BY <1>1, <2>1, <2>2, <2>3, LimiterKept, TroubleBounded DEF IInv
<1>3. ASSUME NEW c \in Conns, ReleaseSlot(c)
      PROVE  IInv'
  <2>. DEFINE s == [conn[c] EXCEPT !.slotJobId = FALSE]
  <2>1. /\ conn[c].cleanup = "release" /\ Becomes(c, ClearTimer(s))
        /\ slots' = slots \ {c} \/ slots' = slots
        /\ UNCHANGED limiterVars /\ others' = others /\ job' = job
        /\ Trouble \/ UNCHANGED troubles
    BY <1>3 DEF ReleaseSlot
  <2>2. /\ s \in Connection /\ s.cleanedUp /\ s.cleanup # "done" /\ s.decs = 0
        /\ s.start \in {"idle", "rate", "slot", "subscribe"} => job[c] = "none"
    <3>1. LocalInv(conn[c], job[c]) /\ conn[c] \in Connection
      BY <1>1 DEF ConnsInv
    <3>. QED
      BY <2>1, <3>1, ZenonT(60) DEF LocalInv, Connection
  <2>. HIDE DEF s
  <2>3. LocalInv(ClearTimer(s), job[c])
    BY <2>2, ClearTimerLocal
  <2>4. ConnsInv'
    BY <1>1, <2>1, <2>3, OnlyConn
  <2>5. SlotInv'
    BY <1>1, <2>1, FS_RemoveElement DEF SlotInv
  <2>. QED
    BY <1>1, <2>1, <2>4, <2>5, LimiterKept, TroubleBounded, SMTT(30) DEF IInv
<1>4. ASSUME NEW c \in Conns, RateVerdict(c)
      PROVE  IInv'
  <2>1. /\ conn[c].start = "rate" /\ UNCHANGED slotVars /\ job' = job
        /\ Fails(c) \/ Becomes(c, At(c, "slot"))
        /\ Trouble \/ UNCHANGED troubles
        /\ UNCHANGED limiterVars \/ \E p \in Replicas : evaluateRateLimit(User, Address, p)
    BY <1>4, SMTT(30) DEF RateVerdict
  <2>2. LimiterInv'
    BY <1>1, <2>1, LimiterKept, RequestKeepsLimiter, StreamAssumption, SMTT(30)
  <2>3. LocalInv(At(c, "slot"), job[c])
    BY <1>1, <2>1, SMTT(30) DEF At, ConnsInv, LocalInv, Connection
  <2>4. ConnsInv'
    BY <1>1, <2>1, <2>3, FailsLocal, OnlyConn, SMTT(30) DEF Fails
  <2>5. SlotInv'
    BY <1>1, <2>1 DEF SlotInv, slotVars
  <2>. QED
    BY <1>1, <2>1, <2>2, <2>4, <2>5, TroubleBounded DEF IInv
<1>5. ASSUME NEW c \in Conns, SlotVerdict(c)
      PROVE  IInv'
  <2>. DEFINE s == [At(c, "subscribe") EXCEPT !.slotJobId = TRUE, !.subscriber = "new"]
  <2>1. /\ conn[c].start = "slot" /\ UNCHANGED limiterVars /\ others' = others /\ job' = job
        /\ Fails(c) \/ Becomes(c, s)
        /\ slots' = slots \cup {c} \/ slots' = slots
        /\ Trouble \/ UNCHANGED troubles
    BY <1>5 DEF SlotVerdict
  <2>2. LocalInv(At(c, "subscribe"), job[c]) /\ At(c, "subscribe").start = "subscribe"
    BY <1>1, <2>1 DEF At, ConnsInv, LocalInv, Connection
  <2>3. At(c, "subscribe") \in Connection /\ job[c] = "none"
    BY <2>2 DEF LocalInv
  <2>4. s \in Connection
    BY <2>3, Zenon DEF Connection
  <2>5. /\ s.start = "subscribe" /\ s.cleanedUp = At(c, "subscribe").cleanedUp
        /\ s.cleanup = At(c, "subscribe").cleanup /\ s.decs = At(c, "subscribe").decs
    BY <2>2, <2>3 DEF Connection
  <2>. HIDE DEF s
  <2>6. LocalInv(s, job[c])
    BY <2>2, <2>3, <2>4, <2>5, SMTT(30) DEF LocalInv
  <2>7. ConnsInv'
    BY <1>1, <2>1, <2>6, FailsLocal, OnlyConn, SMTT(30) DEF Fails
  <2>8. SlotInv'
    BY <1>1, <2>1, FS_AddElement DEF SlotInv
  <2>. QED
    BY <1>1, <2>1, <2>7, <2>8, LimiterKept, TroubleBounded DEF IInv
<1>6. ASSUME NEW c \in Conns, Enqueue(c) \/ WorkerDone(c) \/ WorkerRelease(c)
      PROVE  IInv'
  <2>1. /\ UNCHANGED limiterVars /\ UNCHANGED troubles /\ others' = others
        /\ slots' = slots \/ slots' = slots \ {c}
    BY <1>6 DEF Enqueue, WorkerDone, WorkerRelease, slotVars
  <2>2. SlotInv'
    BY <1>1, <2>1, FS_RemoveElement DEF SlotInv
  <2>3. LocalInv(conn[c], job[c]) /\ conn = [conn EXCEPT ![c] = conn[c]]
    BY <1>1 DEF ConnsInv
  <2>4. CASE Enqueue(c)
    <3>1. LocalInv(conn[c], "queued")
      BY <2>3, <2>4 DEF Enqueue, LocalInv
    <3>. QED
      BY <1>1, <2>1, <2>2, <2>3, <2>4, <3>1, OneConn, LimiterKept, ZenonT(60)
        DEF Enqueue, IInv, JobStates
  <2>5. CASE WorkerDone(c)
    <3>1. LocalInv(conn[c], "published")
      BY <2>3, <2>5 DEF WorkerDone, LocalInv
    <3>2. LocalInv(finish(conn[c]), "published")
      BY <3>1, FinishLocal
    <3>3. ConnsInv'
      <4>1. /\ job' = [job EXCEPT ![c] = "published"] /\ "published" \in JobStates
            /\ \/ conn' = [conn EXCEPT ![c] = finish(conn[c])]
               \/ conn' = [conn EXCEPT ![c] = conn[c]]
        BY <2>3, <2>5 DEF WorkerDone, Becomes, JobStates
      <4>. QED
        BY <1>1, <3>1, <3>2, <4>1, OneConn, Zenon
    <3>. QED
      BY <1>1, <2>1, <2>2, <3>3, LimiterKept, SMTT(30) DEF IInv
  <2>6. CASE WorkerRelease(c)
    <3>1. LocalInv(conn[c], "done")
      BY <2>3, <2>6 DEF WorkerRelease, LocalInv
    <3>. QED
      BY <1>1, <2>1, <2>2, <2>3, <2>6, <3>1, OneConn, LimiterKept, Zenon
        DEF WorkerRelease, IInv, JobStates
  <2>. QED
    BY <1>6, <2>4, <2>5, <2>6, SMTT(30)
<1>7. CASE HttpRequest \/ HttpJobEnds
  <2>1. UNCHANGED <<conn, job>> /\ slots' = slots /\ UNCHANGED troubles
    BY <1>7 DEF HttpRequest, HttpJobEnds
  <2>2. ConnsInv'
    BY <1>1, <2>1 DEF ConnsInv
  <2>3. LimiterInv'
    BY <1>1, <1>7, LimiterKept, RequestKeepsLimiter, StreamAssumption
      DEF HttpRequest, HttpJobEnds
  <2>4. others \in Nat /\ Cardinality(slots) \in Nat /\ SlotLimit \in Nat
    BY <1>1, FS_CardinalityType, StreamAssumption DEF SlotInv
  <2>5. others' \in 0..SlotLimit
    BY <1>1, <1>7, <2>4 DEF HttpRequest, HttpJobEnds, SlotFree, SlotInv
  <2>. QED
    BY <1>1, <2>1, <2>2, <2>3, <2>5, SMTT(30) DEF IInv, SlotInv
<1>8. CASE Tick
  <2>1. LimiterInv'
    BY <1>1, <1>8, TickKeepsLimiter, SMTT(30) DEF Tick
  <2>. QED
    BY <1>1, <1>8, <2>1 DEF Tick, IInv, SlotInv, ConnsInv, slotVars
<1>9. CASE UNCHANGED vars
  BY <1>1, <1>9, LimiterKept DEF vars, IInv, SlotInv, ConnsInv, slotVars
<1>. QED
  BY <1>2, <1>3, <1>4, <1>5, <1>6, <1>7, <1>8, <1>9, Zenon
    DEF Next, StartStep, CleanupStep, WorkerStep

\* The invariant holds initially.
LEMMA InitIInv == Init => IInv
<1>. SUFFICES ASSUME Init PROVE IInv
  OBVIOUS
<1>1. LimiterInv
  BY LimiterStarts, SMTT(30) DEF Init
<1>2. NewConn \in Connection
  BY SMTT(30) DEF NewConn, Connection
<1>3. LocalInv(NewConn, "none")
  BY <1>2 DEF LocalInv, NewConn
<1>. HIDE DEF NewConn
<1>4. ConnsInv
  BY <1>2, <1>3 DEF Init, ConnsInv, JobStates
<1>5. SlotInv /\ troubles \in 0..MaxTroubles
  BY FS_EmptySet, StreamAssumption DEF Init, SlotInv
<1>. QED
  BY <1>1, <1>4, <1>5 DEF IInv

\* The invariant holds throughout.
LEMMA IInvHolds == Spec => []IInv
BY InitIInv, StepKeepsIInv, PTL DEF Spec

(***************************************************************************)
(* The theorems                                                            *)
(***************************************************************************)

\* Type correctness of the streams and the limiter they share.
THEOREM TypeCorrect == Spec => []TypeOK
<1>1. IInv => TypeOK
  BY DEF IInv, TypeOK, ConnsInv, SlotInv, JobStates, LimiterInv, LimiterTyped
<1>. QED
  BY <1>1, IInvHolds, PTL

\* However requests of any users, addresses and replicas interleave, no window as
\* long as WINDOW less the clocks' skew admits more than the limit (rateLimiter.ts,
\* the Lua script).
THEOREM WindowIsHonoured == Spec => []SlidingWindow
<1>1. IInv => SlidingWindow
  BY WindowFits DEF IInv
<1>. QED
  BY <1>1, IInvHolds, PTL

\* The wait the script answers is exact, for every limit and window
\* (rateLimiter.ts, retryAfterMs).
THEOREM RetryAnswerIsExact == Spec => []RetryIsExact
<1>1. IInv => RetryIsExact
  BY RetryFits DEF IInv
<1>. QED
  BY <1>1, IInvHolds, PTL

\* For any number of connections, a job that a worker may have begun is listened
\* to unless its connection is being cleaned up (websocket.ts, onStart).
THEOREM NoEarlyOutputIsMissed == Spec => []EarlyOutputIsHeard
<1>1. IInv => EarlyOutputIsHeard
  BY DEF IInv, ConnsInv, LocalInv, EarlyOutputIsHeard, Listening
<1>. QED
  BY <1>1, IInvHolds, PTL

\* The safety half of ClosedIsUncounted: the gauge is never decremented twice for
\* one connection, and not before its cleanup is over (websocket.ts, cleanup).
UncountedOnce ==
  \A c \in Conns : conn[c].decs = IF conn[c].cleanup = "done" THEN 1 ELSE 0

\* It holds however finish, close, error, timer and heartbeat interleave.
THEOREM GaugeIsKept == Spec => []UncountedOnce
<1>1. IInv => UncountedOnce
  BY DEF IInv, ConnsInv, LocalInv, UncountedOnce
<1>. QED
  BY <1>1, IInvHolds, PTL
=============================================================================
