------------------------------ MODULE MCLibtpm ------------------------------
(***************************************************************************)
(* Libtpm for TLC: one process that may call each of the command           *)
(* functions, in any order, and a TPM with three session handles.          *)
(***************************************************************************)
EXTENDS Libtpm, LibtpmCommands, TLC

CONSTANTS h1, h2, h3, p1

OneCaller == {p1}
ThreeHandles == {h1, h2, h3}

\* The TPM does not choose between its handles in any way that matters, nor
\* do the functions look at one.
HandleSymmetry == Permutations(ThreeHandles)
=============================================================================
