------------------------------ MODULE MCKeySwap ------------------------------
(***************************************************************************)
(* KeySwap for TLC: one program with four keys, one of them the owner's,   *)
(* and a TPM with room for three.                                          *)
(***************************************************************************)
EXTENDS KeySwap, TLC

CONSTANTS k1, k2, k3, o1

\* Keys that are not the owner's differ in nothing.
KeySymmetry == Permutations({k1, k2, k3})
=============================================================================
