--------------------------- MODULE MCJobLifecycle ---------------------------
(* Finite instances of JobLifecycle for TLC. *)
EXTENDS JobLifecycle, TLC

\* Workers are interchangeable: nothing in the specification orders them.
WorkerSymmetry == Permutations(Workers)
=============================================================================
