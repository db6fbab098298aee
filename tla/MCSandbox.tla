------------------------------ MODULE MCSandbox ------------------------------
(* Finite instances of Sandbox for TLC. *)
EXTENDS Sandbox

\* Two characters of one or two bytes, three or four bytes in all.
MCTexts == {<<1, 2>>, <<2, 2>>}
=============================================================================
