------------------------------ MODULE NvIndex ------------------------------
(***************************************************************************)
(* TPM NVRAM indexes, and what find_free_nv_index of tpm-luks-ctl answers  *)
(* about a set of indexes in use, said without its loop.  NvIndexSearch    *)
(* has the loop and shows that it computes this; TpmLuksCtl uses the       *)
(* answer as one step.                                                     *)
(***************************************************************************)
EXTENDS Integers

CONSTANTS
  Limit,     \* NV_INDEX_LIMIT: the largest index the script means to use
  MaxIndex   \* bound on the indexes of the TPM: some lie above Limit

FirstIndex == 2   \* index 1 made the Atmel TPM fail: the comment in the code

ASSUME LimitAssumption ==
  /\ Limit \in Nat
  /\ MaxIndex \in Nat
  /\ FirstIndex <= Limit
  /\ Limit < MaxIndex

Index == 1..MaxIndex

(* NV_INDEX of a device that has none.                                     *)
NoIndex == 0

(* c is the lowest index from FirstIndex up that S leaves free.            *)
IsFirstFree(S, c) ==
  /\ c >= FirstIndex
  /\ c \notin S
  /\ \A i \in FirstIndex..(c - 1) : i \in S

(***************************************************************************)
(* The search fails when everything up to Limit is in use AND the list has *)
(* one more element to enter the loop body with: only there is the         *)
(* candidate compared with NV_INDEX_LIMIT.                                 *)
(***************************************************************************)
SearchFails(S) ==
  /\ \A i \in FirstIndex..Limit : i \in S
  /\ \E i \in S : i > Limit

=============================================================================
