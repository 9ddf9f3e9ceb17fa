---------------------------- MODULE MCBootUnlock ----------------------------
(***************************************************************************)
(* Two disks for TLC: /dev/sda1 and /dev/sda10, of which one name begins   *)
(* with the other.                                                         *)
(***************************************************************************)
EXTENDS BootUnlock

CONSTANTS sda1, sda10

SdaPrefix == {<<sda1, sda10>>}
=============================================================================
