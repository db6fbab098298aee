----------------------------- MODULE JobPromise -----------------------------
(***************************************************************************)
(* What the queue promises a client, without streams, workers or retries:  *)
(* a job is accepted once, its result is stored only if it was accepted,   *)
(* and it is finished, for good, only once a result is stored.             *)
(***************************************************************************)
CONSTANT Jobs

VARIABLES accepted, stored, finished

promise == <<accepted, stored, finished>>

Init == accepted = {} /\ stored = {} /\ finished = {}

Accept(j) ==
  /\ j \notin accepted
  /\ accepted' = accepted \cup {j}
  /\ UNCHANGED <<stored, finished>>

Store(j) ==
  /\ j \in accepted \ stored
  /\ stored' = stored \cup {j}
  /\ UNCHANGED <<accepted, finished>>

Finish(j) ==
  /\ j \in stored \ finished
  /\ finished' = finished \cup {j}
  /\ UNCHANGED <<accepted, stored>>

Next == \E j \in Jobs : Accept(j) \/ Store(j) \/ Finish(j)

Spec == Init /\ [][Next]_promise
=============================================================================
