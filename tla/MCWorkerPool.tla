---------------------------- MODULE MCWorkerPool ----------------------------
(***************************************************************************)
(* WorkerPool for TLC: three entries, and a pool of two that a read can    *)
(* fill at once.                                                           *)
(***************************************************************************)
EXTENDS WorkerPool
=============================================================================
