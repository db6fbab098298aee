--------------------------- MODULE CircuitBreaker ---------------------------
(***************************************************************************)
(* CircuitBreaker of services/redis.ts around concurrent calls to Redis:   *)
(* run decides before it awaits the call, onSuccess and onFailure act when *)
(* the call ends, by which time other calls may have moved the breaker.    *)
(*                                                                         *)
(* The code compares now() - openedAt with cooldownMs and failures with    *)
(* threshold and reads neither otherwise, so the first is kept as a number *)
(* of ticks that stops at Cooldown and the second stops at Threshold.      *)
(***************************************************************************)
EXTENDS Naturals

CONSTANTS Calls,     \* callers of run, each with one call at a time
          Threshold, \* consecutive failures that open the breaker
          Cooldown   \* ticks of cooldownMs

ASSUME BreakerAssumption == Threshold \in Nat \ {0} /\ Cooldown \in Nat

VARIABLES state,    \* 'closed', 'open', 'half-open'
          failures, \* consecutive failures, at most Threshold
          elapsed,  \* now() - openedAt, at most Cooldown
          call,     \* whether a caller awaits fn, and whether an outage hit it
          up        \* whether Redis answers

vars == <<state, failures, elapsed, call, up>>

Init ==
  /\ state = "closed" /\ failures = 0
  /\ elapsed = Cooldown \* openedAt = 0, long ago
  /\ call = [c \in Calls |-> "idle"]
  /\ up \in BOOLEAN

\* Mutant of Run: the breaker is not consulted again after it opened.
RunNeverProbes(c) ==
  /\ call[c] = "idle" /\ state # "open"
  /\ call' = [call EXCEPT ![c] = IF up THEN "awaiting" ELSE "hit"]
  /\ UNCHANGED <<state, failures, elapsed, up>>

\* run, up to the await: rejected while open and cooling down (no step),
\* a probe when the cooldown is over, let through otherwise.
Run(c) ==
  /\ call[c] = "idle"
  /\ state = "open" => elapsed = Cooldown
  /\ state' = IF state = "open" THEN "half-open" ELSE state
  /\ call' = [call EXCEPT ![c] = IF up THEN "awaiting" ELSE "hit"]
  /\ UNCHANGED <<failures, elapsed, up>>

\* Mutants of OnSuccess: the count is not reset; it is lowered by one.
OnSuccessKeepsCount(c) ==
  /\ call[c] # "idle" /\ up
  /\ state' = "closed"
  /\ call' = [call EXCEPT ![c] = "idle"]
  /\ UNCHANGED <<failures, elapsed, up>>
OnSuccessDecays(c) ==
  /\ call[c] # "idle" /\ up
  /\ failures' = failures - 1 /\ state' = "closed"
  /\ call' = [call EXCEPT ![c] = "idle"]
  /\ UNCHANGED <<elapsed, up>>

\* The call succeeds, whatever the breaker did since it began.
OnSuccess(c) ==
  /\ call[c] # "idle" /\ up
  /\ failures' = 0 /\ state' = "closed"
  /\ call' = [call EXCEPT ![c] = "idle"]
  /\ UNCHANGED <<elapsed, up>>

\* A call that an outage hit fails, perhaps after the outage; at the threshold
\* the breaker (re)opens now.
OnFailure(c) ==
  /\ call[c] = "hit"
  /\ call' = [call EXCEPT ![c] = "idle"]
  /\ failures' = IF failures < Threshold THEN failures + 1 ELSE failures
  /\ IF failures' >= Threshold
     THEN state' = "open" /\ elapsed' = 0
     ELSE UNCHANGED <<state, elapsed>>
  /\ UNCHANGED up

Tick ==
  /\ elapsed < Cooldown
  /\ elapsed' = elapsed + 1
  /\ UNCHANGED <<state, failures, call, up>>

\* Redis goes away, which hits every call under way, or comes back.
Redis ==
  /\ up' = ~up
  /\ call' = IF up THEN [c \in Calls |-> IF call[c] = "idle" THEN "idle" ELSE "hit"]
                   ELSE call
  /\ UNCHANGED <<state, failures, elapsed>>

Next == Tick \/ Redis \/ \E c \in Calls : Run(c) \/ OnSuccess(c) \/ OnFailure(c)

Spec == Init /\ [][Next]_vars

\* Calls end, time passes, and callers come back.
Fairness ==
  /\ WF_vars(Tick)
  /\ \A c \in Calls : WF_vars(Run(c)) /\ WF_vars(OnSuccess(c) \/ OnFailure(c))

FairSpec == Spec /\ Fairness

-----------------------------------------------------------------------------

\* Every variable keeps its shape.
TypeOK ==
  /\ state \in {"closed", "open", "half-open"}
  /\ failures \in 0..Threshold /\ elapsed \in 0..Cooldown
  /\ call \in [Calls -> {"idle", "awaiting", "hit"}] /\ up \in BOOLEAN

\* However calls overlap, the breaker is closed exactly while fewer than
\* threshold calls in a row have failed: one failed probe reopens it.
ClosedBelowThreshold == state = "closed" <=> failures < Threshold

\* Once Redis stays up, the breaker closes and stays closed: calls that hang on
\* from the outage, early or late, do not keep it open.
RecoversWithRedis == (<>[]up) => (<>[](state = "closed"))

\* redis.ts:75: "After `threshold` consecutive failures it opens for
\* `cooldownMs`": it leaves 'open' only when the cooldown is over.
StaysOpenForCooldown == [][state = "open" /\ state' # "open" => elapsed = Cooldown]_vars
=============================================================================
