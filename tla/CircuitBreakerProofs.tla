------------------------ MODULE CircuitBreakerProofs ------------------------
(***************************************************************************)
(* Proofs about CircuitBreaker for any number of concurrent calls and any  *)
(* threshold and cooldown.                                                 *)
(***************************************************************************)
EXTENDS CircuitBreaker, TLAPS

IInv == TypeOK /\ ClosedBelowThreshold

\* One step of any call, of the clock or of Redis keeps the invariant.
LEMMA BreakerStep == IInv /\ [Next]_vars => IInv'
<1> SUFFICES ASSUME IInv, [Next]_vars PROVE IInv'
  OBVIOUS
<1> USE BreakerAssumption DEF IInv, TypeOK, ClosedBelowThreshold
<1>1. ASSUME NEW c \in Calls, Run(c) PROVE IInv'
  BY <1>1 DEF Run
<1>2. ASSUME NEW c \in Calls, OnSuccess(c) PROVE IInv'
  BY <1>2 DEF OnSuccess
<1>3. ASSUME NEW c \in Calls, OnFailure(c) PROVE IInv'
  <2>1. failures' \in 0..Threshold /\ call' \in [Calls -> {"idle", "awaiting", "hit"}]
    BY <1>3 DEF OnFailure
  <2>2. CASE failures' >= Threshold
    BY <1>3, <2>1, <2>2 DEF OnFailure
  <2>3. CASE ~(failures' >= Threshold)
    <3>1. failures < Threshold /\ failures' < Threshold
      BY <1>3, <2>1, <2>3 DEF OnFailure
    <3> QED BY <1>3, <2>1, <2>3, <3>1 DEF OnFailure
  <2> QED BY <2>2, <2>3
<1>4. CASE Tick
  BY <1>4 DEF Tick
<1>5. CASE Redis
  BY <1>5 DEF Redis
<1>6. CASE UNCHANGED vars
  BY <1>6 DEF vars
<1> QED BY <1>1, <1>2, <1>3, <1>4, <1>5, <1>6 DEF Next

\* The inductive invariant holds throughout.
LEMMA BreakerInvariant == Spec => []IInv
<1>1. Init => IInv
  BY BreakerAssumption DEF Init, IInv, TypeOK, ClosedBelowThreshold
<1> QED BY <1>1, BreakerStep, PTL DEF Spec

\* Type correctness: the state is one of the three, and neither counter leaves
\* its range.
THEOREM BreakerTypeCorrect == Spec => []TypeOK
<1>1. IInv => TypeOK
  BY DEF IInv
<1> QED BY <1>1, BreakerInvariant, PTL

\* run, onSuccess and onFailure keep the breaker closed exactly while fewer
\* than threshold calls in a row have failed, however calls overlap.
THEOREM BreakerClosedBelowThreshold == Spec => []ClosedBelowThreshold
<1>1. IInv => ClosedBelowThreshold
  BY DEF IInv
<1> QED BY <1>1, BreakerInvariant, PTL

\* Nobody awaits a call while the breaker is open.
OpenIsQuiet == state = "open" => \A c \in Calls : call[c] = "idle"

\* redis.ts:75, "opens for `cooldownMs`", is true where calls do not overlap: it takes
\* a call begun before the breaker opened to close it early.
THEOREM BreakerStaysOpenForOneCaller ==
  ASSUME \A c, d \in Calls : c = d
  PROVE  Spec => StaysOpenForCooldown
<1> DEFINE Cooled == state = "open" /\ state' # "open" => elapsed = Cooldown
<1>1. Init => OpenIsQuiet
  BY DEF Init, OpenIsQuiet
<1>2. ASSUME IInv, OpenIsQuiet, [Next]_vars PROVE OpenIsQuiet' /\ [Cooled]_vars
  <2> USE <1>2 DEF IInv, TypeOK, OpenIsQuiet
  <2>1. ASSUME NEW c \in Calls, Run(c) PROVE OpenIsQuiet' /\ Cooled
    BY <2>1 DEF Run
  <2>2. ASSUME NEW c \in Calls, OnSuccess(c) PROVE OpenIsQuiet' /\ Cooled
    BY <2>2 DEF OnSuccess
  <2>3. ASSUME NEW c \in Calls, OnFailure(c) PROVE OpenIsQuiet' /\ Cooled
    BY <2>3 DEF OnFailure
  <2>4. CASE Tick
    BY <2>4 DEF Tick
  <2>5. CASE Redis
    BY <2>5 DEF Redis
  <2>6. CASE UNCHANGED vars
    BY <2>6 DEF vars
  <2> QED BY <1>2, <2>1, <2>2, <2>3, <2>4, <2>5, <2>6, Zenon DEF Next
<1> QED BY <1>1, <1>2, BreakerInvariant, PTL DEF Spec, StaysOpenForCooldown
=============================================================================
