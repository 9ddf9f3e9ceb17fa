------------------------------ MODULE KeyEscrow ------------------------------
(***************************************************************************)
(* What tpm-luks-ctl promises about keys, without its program counter,     *)
(* whatever fails and wherever it is stopped: keys are added to LUKS       *)
(* devices, deposited in NVRAM areas and named in tpm-luks.conf one at a   *)
(* time; whatever is deposited opens a device, a line is assigned only to  *)
(* an area that holds a key of the device, and a slot is retired only      *)
(* while an area holds a key that opens another slot of the device.        *)
(*                                                                         *)
(* It also says what is NOT promised: an area may be withdrawn at any      *)
(* time, a line may be lost or cut short, the one just assigned included,  *)
(* and a slot may be retired when no line leads to the area.               *)
(***************************************************************************)
EXTENDS TpmLuksStore

vars == <<store, conf>>

Init == \E foreign \in SUBSET Index : StoreInit(foreign)

AddSecret(d) ==
  /\ \E s \in Slot, key \in Data : slots[d][s] = NoKey /\ LuksSetSlot(d, s, key)
  /\ UNCHANGED <<nv, pcrNow, conf>>

Allocate(i) ==
  /\ ~NvExists(i)
  /\ \E pcr \in {NoPcr, pcrNow}, perm \in Perm : NvDefine(i, pcr, perm)
  /\ UNCHANGED <<slots, pcrNow, conf>>

Deposit(i) ==
  /\ nv[i].size = "key"
  /\ \E d \in Device, key \in Data : Opens(d, key) /\ NvWrite(i, key)
  /\ UNCHANGED <<slots, pcrNow, conf>>

Withdraw(i) ==
  /\ NvRelease(i)
  /\ UNCHANGED <<slots, pcrNow, conf>>

Assign(d) ==
  /\ \E i \in Index : HoldsKeyOf(i, d) /\ conf' \in CutShort([conf EXCEPT ![d] = Line(i)])
  /\ UNCHANGED store

(* Lines get lost or shorter; the administrator's edit is one such change. *)
Forget ==
  /\ conf' \in CutShort(conf)
  /\ UNCHANGED store

Retire(d) ==
  /\ \E i \in Index, s \in Slot :
       /\ nv[i].size = "key"
       /\ MayKillSlot(d, s, nv[i].data)
       /\ LuksSetSlot(d, s, NoKey)
  /\ UNCHANGED <<nv, pcrNow, conf>>

(* Power may have been lost while tpm-luks.conf was being replaced.        *)
Boot ==
  /\ pcrNow' \in Pcr
  /\ conf' \in CutShort(conf)
  /\ UNCHANGED <<nv, slots>>

Next ==
  \/ \E d \in Device : AddSecret(d) \/ Assign(d) \/ Retire(d)
  \/ \E i \in Index : Allocate(i) \/ Deposit(i) \/ Withdraw(i)
  \/ Forget
  \/ Boot

Spec == Init /\ [][Next]_vars
=============================================================================
