---------------------------- MODULE RateLimiter ----------------------------
(***************************************************************************)
(* SlidingWindowRateLimiter: one sorted set per scope in Redis, read and   *)
(* written by a Lua script with the clock of the API replica that calls    *)
(* it.  A request asks for its user's scope and its address's scope.       *)
(***************************************************************************)
EXTENDS Integers, FiniteSets

CONSTANTS Users,
          Addresses,
          Replicas,      \* API processes
          Skew,          \* how far each one's Date.now is ahead
          MaxSkew,
          WINDOW,        \* windowMs, in ticks
          UserLimit,     \* limitForTier of the users
          PremiumLimit,  \* RATE_LIMIT_PREMIUM_PER_MINUTE
          MaxTime        \* bound

Keys == Users \cup Addresses
Member == [id: Nat, score: Nat, at: Nat]
LimiterAssumption ==
  /\ Skew \in [Replicas -> 0..MaxSkew]
  /\ MaxSkew \in Nat /\ WINDOW \in Nat \ {0} /\ MaxTime \in Nat
  /\ UserLimit \in Nat /\ PremiumLimit \in Nat
  /\ Users \cap Addresses = {}

VARIABLES
  now,       \* time
  zset,      \* per key, its members: score, and the time they were added
  asked,     \* the number of requests so far, which tells members apart
  admitted   \* history: per key, the members added within the last window.  A
             \* request let through because Redis failed is in neither

limiterVars == <<now, zset, asked, admitted>>

ipLimit == IF UserLimit >= PremiumLimit THEN UserLimit ELSE PremiumLimit
LimitOf(key) == IF key \in Users THEN UserLimit ELSE ipLimit

Clock(p) == now + Skew[p]

\* What ZREMRANGEBYSCORE 0 .. now - window leaves.
Kept(members, clock) == {m \in members : m.score > clock - WINDOW}

Admits(key, clock) == Cardinality(Kept(zset[key], clock)) < LimitOf(key)

\* Mutant of RetryAfter: the wait is until the newest member leaves.
RetryNewest(key, clock) ==
  LET kept == Kept(zset[key], clock)
      newest == CHOOSE m \in kept : \A k \in kept : m.score >= k.score
      retry == IF kept = {} THEN WINDOW ELSE newest.score + WINDOW - clock
  IN  IF retry < 1 THEN 1 ELSE retry

\* The third number of the script's answer, when it does not admit.
RetryAfter(key, clock) ==
  LET kept == Kept(zset[key], clock)
      oldest == CHOOSE m \in kept : \A k \in kept : m.score <= k.score
      retry == IF kept = {} THEN WINDOW ELSE oldest.score + WINDOW - clock
  IN  IF retry < 1 THEN 1 ELSE retry

\* Mutant of Added: the script admits one request beyond the limit.
AddedBeyondLimit(key, p) ==
  IF LimitOf(key) > 0 /\ Cardinality(Kept(zset[key], Clock(p))) <= LimitOf(key)
    THEN {[id |-> asked, score |-> Clock(p), at |-> now]} ELSE {}

\* What the script adds for a request.  A limit of zero is answered without it.
Added(key, p) ==
  IF LimitOf(key) > 0 /\ Admits(key, Clock(p))
    THEN {[id |-> asked, score |-> Clock(p), at |-> now]} ELSE {}

\* evaluateRateLimit: both scopes are asked, whatever the other one answers.
evaluateRateLimit(u, ip, p) ==
  /\ zset' = [key \in Keys |->
                IF key \in {u, ip} /\ LimitOf(key) > 0
                  THEN Kept(zset[key], Clock(p)) \cup Added(key, p) ELSE zset[key]]
  /\ admitted' = [key \in Keys |->
                    IF key \in {u, ip} THEN admitted[key] \cup Added(key, p)
                                       ELSE admitted[key]]
  /\ asked' = asked + 1
  /\ UNCHANGED now

Blocked(u, ip, p) == Added(u, p) = {} \/ Added(ip, p) = {}

\* Time passes.  PEXPIRE removes a key a window after its last member was added.
LimiterTick ==
  /\ now < MaxTime
  /\ now' = now + 1
  /\ admitted' = [key \in Keys |-> {m \in admitted[key] : m.at + WINDOW > now'}]
  /\ zset' = [key \in Keys |-> IF admitted'[key] = {} THEN {} ELSE zset[key]]
  /\ UNCHANGED asked

LimiterInit ==
  /\ now = 0 /\ asked = 0
  /\ zset = [key \in Keys |-> {}] /\ admitted = [key \in Keys |-> {}]
LimiterNext ==
  \/ LimiterTick
  \/ \E u \in Users, ip \in Addresses, p \in Replicas : evaluateRateLimit(u, ip, p)
LimiterSpec == LimiterInit /\ [][LimiterNext]_limiterVars

\* "This counts requests in the trailing windowMs at the instant of each request"
\* (rateLimiter.ts): whatever the interleaving of replicas, no window as long as
\* WINDOW less the skew of their clocks has more admitted requests than the limit.
SlidingWindow ==
  \A key \in Keys :
    Cardinality({m \in admitted[key] : m.at > now - (WINDOW - MaxSkew)}) <= LimitOf(key)

\* retryAfterMs is the time "until the next request would be admitted", no more
\* and no less, by the clock of the replica that says it (rateLimiter.ts).
RetryIsExact ==
  \A key \in Keys, p \in Replicas :
    LimitOf(key) > 0 /\ ~Admits(key, Clock(p)) =>
      LET wait == RetryAfter(key, Clock(p))
      IN  /\ Admits(key, Clock(p) + wait)
          /\ \A t \in 0..(wait - 1) : ~Admits(key, Clock(p) + t)
=============================================================================
