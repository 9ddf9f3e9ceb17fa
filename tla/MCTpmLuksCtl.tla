---------------------------- MODULE MCTpmLuksCtl ----------------------------
(***************************************************************************)
(* Instances of TpmLuksCtl for TLC.                                        *)
(***************************************************************************)
EXTENDS TpmLuksCtl, TLC

(* Keys are random and interchangeable.                                    *)
KeySymmetry == Permutations(Key)

(* Values of UseIndexes: a cfg cannot write a negative number.             *)
OneForAll == {-1}
OwnOrOneForAll == {-1, 0}
OwnOrChosen == {-1, 0, 2}
=============================================================================
