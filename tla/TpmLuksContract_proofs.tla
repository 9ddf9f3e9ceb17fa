---------------------- MODULE TpmLuksContract_proofs ----------------------
(***************************************************************************)
(* tpm-luks-ctl while nothing fails and nobody stops it, every device with *)
(* an index of its own and no AUTH password: the instances of CtlOwnIndex, *)
(* for any number of devices, slots, keys and indexes and any number of    *)
(* runs.  CalmInv is inductive relative to CtlInv; what the administrator  *)
(* was promised follows from it, and that the report is true from          *)
(* ReportInv, which is inductive relative to both.                         *)
(* The last section needs no calm: for the administrator of one device who *)
(* backs up before each change, PaperTrail is inductive relative to CtlInv *)
(* whatever fails, and KeyKept follows from it.                            *)
(***************************************************************************)
EXTENDS TpmLuksCtl_proofs

USE DEF At, Goto, Abort, EndDevice, NewConf,
        store, files, admin, outside, invocation, device, flags, passwords, progress, output

(* The instances the theorems of the first sections are about.             *)
Calm == ~Faults /\ ~Crashes /\ UseIndexes = {0} /\ "AUTH" \notin Passwords

(* nv_define_and_write has begun on a configured device and goes through.  *)
Rewriting ==
  /\ new = 0 /\ pc \in {"perms", "define", "write"}
  /\ ownerPw = "right" /\ ~cmd.dry

OwnChoice == useIndex = 0 /\ new \in {0, 1} /\ cmd.pw # "AUTH"

(* Every line names an area that opens its device, but for the device that *)
(* has its area rewritten.                                                 *)
LinesOpen ==
  \A d \in Device :
    ConfSeen[d].idx # NoIndex => HoldsKeyOf(ConfSeen[d].idx, d) \/ (d = dev /\ Rewriting)

LinesDiffer ==
  \A d, e \in Device : ConfSeen[d].idx # NoIndex /\ ConfSeen[d].idx = ConfSeen[e].idx => d = e

PassphraseStays ==
  \A d \in Device : ConfSeen[d].idx = NoIndex => \E s \in Slot : slots[d][s] = Passphrase

(* A new index is no other device's, and no area is there until Define.    *)
FreshIndex ==
  /\ new = 1 /\ pc \in {"genkey", "addkey", "authpw", "release", "perms", "define", "write",
                        "conf"} =>
       \A d \in Device : conf[d].idx # nvIndex
  /\ new = 1 /\ pc \in {"genkey", "addkey", "authpw", "release", "perms", "define"} =>
       ~NvExists(nvIndex)

(* Define finds no area, so it and Write succeed.                          *)
AreaGone ==
  /\ pc \in {"perms", "define"} /\ ownerPw = "right" /\ ~cmd.dry => ~NvExists(nvIndex)
  /\ pc = "write" => ownerPw = "right"

CalmInv ==
  OwnChoice /\ LinesOpen /\ LinesDiffer /\ PassphraseStays /\ FreshIndex /\ AreaGone

(* The lines and what they name, the part of CalmInv about the stores.     *)
LinesInv == LinesOpen /\ LinesDiffer /\ PassphraseStays

(* Without faults a command succeeds iff it can.                           *)
LEMMA CalmOutcomes ==
  ASSUME Calm, NEW b \in BOOLEAN
  PROVE  Outcomes(b) = {b}
  BY DEF Calm, Outcomes

(* Nor does a disk fill up, or tpm_nvinfo leave out an area.               *)
LEMMA CalmDisk == Calm => ~DiskFull /\ Listed = {NvInUse}
  BY CtlAssumption DEF Calm, Listed

(* update_conf writes the whole of tpm-luks.conf.new.                      *)
LEMMA CalmConf ==
  ASSUME Calm, UpdateConf
  PROVE  confNew' = [conf EXCEPT ![dev] = Line(nvIndex)]
  BY CalmDisk DEF UpdateConf

(* nv_info changes flags and what the device is found to be.               *)
LEMMA InfoFrame ==
  ASSUME Info
  PROVE  /\ pc = "info" /\ pc' \in {"prompt", "dispatch"}
         /\ UNCHANGED <<outside, invocation, device, passwords, keyFile, slot, output>>
  BY DEF Info

(* A step that leaves the stores alone, and does not end a rewriting.      *)
LEMMA LinesFrame ==
  ASSUME LinesInv, UNCHANGED <<nv, slots, ConfSeen>>, Rewriting => Rewriting' /\ dev' = dev
  PROVE  LinesInv'
  <1>1. LinesOpen'
    BY DEF LinesInv, LinesOpen, HoldsKeyOf, Opens, ConfSeen
  <1>2. LinesDiffer' /\ PassphraseStays'
    BY DEF LinesInv, LinesDiffer, PassphraseStays, ConfSeen
  <1> QED
    BY <1>1, <1>2 DEF LinesInv

-----------------------------------------------------------------------------
(* The steps that write slots.                                             *)

(* A key that opens a device opens it after luks_add_key too.              *)
LEMMA AddKeyLines == CtlInv /\ CalmInv /\ AddKey => LinesInv'
  <1> SUFFICES ASSUME CtlInv, CalmInv, AddKey PROVE LinesInv'
    OBVIOUS
  <1>1. /\ ConfSeen' = ConfSeen /\ UNCHANGED <<nv, dev>> /\ ~Rewriting /\ LinesInv
        /\ dev \in Device /\ slots \in [Device -> [Slot -> Secret \cup {NoKey}]]
    BY DEF AddKey, ConfSeen, Rewriting, CalmInv, LinesInv, CtlInv, TypeOK, StoreTypeOK
  <1>2. CASE UNCHANGED slots
    BY <1>1, <1>2, LinesFrame
  <1>3. CASE \E s \in Slot : slots[dev][s] = NoKey /\ LuksSetSlot(dev, s, keyFile)
    <2>1. PICK s \in Slot : slots[dev][s] = NoKey /\ slots' = [slots EXCEPT ![dev][s] = keyFile]
      BY <1>3 DEF LuksSetSlot
    <2>2. ASSUME NEW d \in Device, NEW r \in Slot, slots[d][r] # NoKey
          PROVE  slots'[d][r] = slots[d][r]
      BY <1>1, <2>1, <2>2
    <2>3. ASSUME NEW d \in Device, NEW i, HoldsKeyOf(i, d) PROVE HoldsKeyOf(i, d)'
      <3>1. PICK r \in Slot : slots[d][r] = nv[i].data
        BY <2>3 DEF HoldsKeyOf, Opens
      <3>2. nv[i].data # NoKey /\ nv[i].size = "key" /\ nv' = nv
        BY <1>1, <2>3 DEF HoldsKeyOf, Opens
      <3> QED
        BY <2>2, <3>1, <3>2 DEF HoldsKeyOf, Opens
    <2>4. LinesOpen'
      BY <1>1, <2>3 DEF LinesInv, LinesOpen
    <2>5. PassphraseStays'
      <3> SUFFICES ASSUME NEW d \in Device, ConfSeen'[d].idx = NoIndex
                   PROVE  \E r \in Slot : slots'[d][r] = Passphrase
        BY DEF PassphraseStays
      <3>1. PICK r \in Slot : slots[d][r] = Passphrase
        BY <1>1 DEF LinesInv, PassphraseStays
      <3>2. Passphrase # NoKey
        BY StoreAssumption DEF Secret
      <3> QED
        BY <2>2, <3>1, <3>2
    <2>6. LinesDiffer'
      BY <1>1 DEF LinesInv, LinesDiffer
    <2> QED
      BY <2>4, <2>5, <2>6 DEF LinesInv
  <1> QED
    BY <1>2, <1>3, AddKeyStep

(* luks_kill_all works on a configured device and leaves it the key that   *)
(* its line names.                                                         *)
LEMMA KillLines == Calm /\ CtlInv /\ CalmInv /\ Kill => LinesInv'
  <1> SUFFICES ASSUME Calm, CtlInv, CalmInv, Kill PROVE LinesInv'
    OBVIOUS
  <1>1. /\ ConfSeen = conf /\ ConfSeen' = conf' /\ UNCHANGED <<nv, dev, conf>>
        /\ ~Rewriting /\ LinesInv
        /\ dev \in Device /\ slots \in [Device -> [Slot -> Secret \cup {NoKey}]]
    BY DEF Kill, ConfSeen, Rewriting, CalmInv, LinesInv, CtlInv, TypeOK, StoreTypeOK
  <1>2. CASE UNCHANGED slots
    BY <1>1, <1>2, LinesFrame
  <1>3. CASE slots' # slots
    <2>1. Escrowed(dev)' /\ Escrowed(dev)
      BY <1>3, CalmDisk, KillKeepsEscrow
    <2>2. slots' = [slots EXCEPT ![dev][slot] = NoKey]
      BY <1>3, KillStep DEF LuksSetSlot
    <2>3. \A d \in Device \ {dev} : slots'[d] = slots[d]
      BY <1>1, <2>2
    <2>4. LinesOpen'
      <3> SUFFICES ASSUME NEW d \in Device, conf[d].idx # NoIndex
                   PROVE  HoldsKeyOf(conf[d].idx, d)'
        BY <1>1 DEF LinesOpen, HoldsKeyOf
      <3>1. CASE d = dev
        BY <1>1, <2>1, <3>1 DEF Escrowed, HoldsKeyOf, Opens
      <3>2. CASE d # dev
        <4>1. HoldsKeyOf(conf[d].idx, d)
          BY <1>1, <3>2 DEF LinesInv, LinesOpen
        <4> QED
          BY <1>1, <2>3, <3>2, <4>1 DEF HoldsKeyOf, Opens
      <3> QED
        BY <3>1, <3>2
    <2>5. PassphraseStays'
      <3> SUFFICES ASSUME NEW d \in Device, ConfSeen'[d].idx = NoIndex
                   PROVE  \E r \in Slot : slots'[d][r] = Passphrase
        BY DEF PassphraseStays
      <3>1. d # dev
        BY <1>1, <2>1 DEF Escrowed, Configured
      <3> QED
        BY <1>1, <2>3, <3>1 DEF LinesInv, PassphraseStays
    <2>6. LinesDiffer'
      BY <1>1 DEF LinesInv, LinesDiffer
    <2> QED
      BY <2>4, <2>5, <2>6 DEF LinesInv
  <1> QED
    BY <1>2, <1>3

-----------------------------------------------------------------------------
(* The steps that write areas.                                             *)

(* The area at hand is named by the line of the device at hand, or by none. *)
LEMMA OthersElsewhere ==
  ASSUME CtlInv, CalmInv, pc \in {"release", "perms", "define", "write"}
  PROVE  /\ nvIndex \in Index /\ dev \in Device
         /\ \A d \in Device : conf[d].idx = nvIndex => d = dev /\ new = 0
  <1>1. nvIndex \in Index /\ dev \in Device /\ (new = 0 => nvIndex = conf[dev].idx)
    BY DEF CtlInv, TypeOK, IndexInv
  <1>2. nvIndex # NoIndex
    BY <1>1 DEF Index, NoIndex
  <1>3. new = 1 => \A d \in Device : conf[d].idx # nvIndex
    BY DEF CalmInv, FreshIndex
  <1>4. new \in {0, 1} /\ LinesDiffer /\ ConfSeen = conf
    BY DEF CalmInv, OwnChoice, ConfSeen
  <1> QED
    BY <1>1, <1>2, <1>3, <1>4 DEF LinesDiffer

(* Such a step leaves what other lines name as it was.                     *)
LEMMA AreaFrame ==
  ASSUME CtlInv, CalmInv, pc \in {"release", "define", "write"},
         \A i \in Index \ {nvIndex} : nv'[i] = nv[i],
         UNCHANGED <<slots, conf, dev, new, nvIndex>>, pc' # "cp",
         new = 0 => Rewriting' \/ HoldsKeyOf(nvIndex, dev)'
  PROVE  LinesInv'
  <1>1. ConfSeen = conf /\ ConfSeen' = conf /\ LinesInv
    BY DEF ConfSeen, CalmInv, LinesInv
  <1>2. LinesOpen'
    <2> SUFFICES ASSUME NEW d \in Device, conf[d].idx # NoIndex
                 PROVE  HoldsKeyOf(conf[d].idx, d)' \/ (d = dev /\ Rewriting')
      BY <1>1 DEF LinesOpen
    <2>1. conf[d].idx \in Index
      BY DEF CtlInv, TypeOK, StoreTypeOK, ConfLine, Index, NoIndex
    <2>2. CASE conf[d].idx = nvIndex
      <3>1. d = dev /\ new = 0
        BY <2>2, OthersElsewhere
      <3>2. CASE Rewriting'
        BY <3>1, <3>2
      <3>3. CASE HoldsKeyOf(nvIndex, dev)'
        <4>1. conf'[d].idx = nvIndex'
          BY <2>2
        <4> QED
          BY <3>1, <3>3, <4>1 DEF HoldsKeyOf, Opens
      <3> QED
        BY <3>1, <3>2, <3>3
    <2>3. CASE conf[d].idx # nvIndex
      <3>1. ~(d = dev /\ Rewriting)
        BY <2>3 DEF Rewriting, CtlInv, IndexInv
      <3>2. HoldsKeyOf(conf[d].idx, d)
        BY <1>1, <3>1 DEF LinesInv, LinesOpen
      <3> QED
        BY <2>1, <2>3, <3>2 DEF HoldsKeyOf, Opens
    <2> QED
      BY <2>2, <2>3
  <1>3. LinesDiffer' /\ PassphraseStays'
    BY <1>1 DEF LinesInv, LinesDiffer, PassphraseStays
  <1> QED
    BY <1>2, <1>3 DEF LinesInv

(* Release begins the rewriting, when the owner's password is right.       *)
LEMMA ReleaseLines == Calm /\ CtlInv /\ CalmInv /\ Release => LinesInv' /\ AreaGone'
  <1> SUFFICES ASSUME Calm, CtlInv, CalmInv, Release PROVE LinesInv' /\ AreaGone'
    OBVIOUS
  <1>1. /\ pc = "release" /\ pc' = "perms"
        /\ UNCHANGED <<slots, conf, dev, new, nvIndex, ownerPw, cmd>>
        /\ nv \in [Index -> Area] /\ nvIndex \in Index
    BY OthersElsewhere DEF Release, CtlInv, TypeOK, StoreTypeOK
  <1>2. IF ToRelease /\ ownerPw = "right" THEN NvRelease(nvIndex) ELSE UNCHANGED nv
    BY CalmOutcomes DEF Release
  <1>3. AreaGone'
    BY <1>1, <1>2 DEF AreaGone, ToRelease, NvRelease, NvExists, Absent
  <1>4. CASE UNCHANGED nv
    <2>1. ~Rewriting /\ ConfSeen' = ConfSeen /\ LinesInv
      BY <1>1 DEF Rewriting, ConfSeen, CalmInv, LinesInv
    <2> QED
      BY <1>1, <1>3, <1>4, <2>1, LinesFrame
  <1>5. CASE ToRelease /\ ownerPw = "right" /\ NvRelease(nvIndex)
    <2>1. \A i \in Index \ {nvIndex} : nv'[i] = nv[i]
      BY <1>1, <1>5 DEF NvRelease
    <2>2. new = 0 => Rewriting'
      BY <1>1, <1>5 DEF Rewriting, ToRelease
    <2> QED
      BY <1>1, <1>3, <2>1, <2>2, AreaFrame
  <1> QED
    BY <1>2, <1>4, <1>5

(* Define fails with a wrong password only, and then has no effect.        *)
LEMMA DefineLines ==
  Calm /\ CtlInv /\ CalmInv /\ Define => LinesInv' /\ AreaGone' /\ FreshIndex'
  <1> SUFFICES ASSUME Calm, CtlInv, CalmInv, Define
               PROVE  LinesInv' /\ AreaGone' /\ FreshIndex'
    OBVIOUS
  <1>1. /\ pc = "define" /\ pc' # "cp"
        /\ UNCHANGED <<slots, conf, dev, new, nvIndex, ownerPw, cmd>>
        /\ nv \in [Index -> Area] /\ nvIndex \in Index
        /\ ConfSeen = conf /\ ConfSeen' = conf /\ LinesInv
    BY OthersElsewhere
       DEF Define, AfterWrite, Resealed, CtlInv, TypeOK, StoreTypeOK, ConfSeen, CalmInv, LinesInv
  <1>2. \/ cmd.dry /\ AfterWrite /\ UNCHANGED nv
        \/ ~cmd.dry /\ ownerPw = "right" /\ pc' = "write" /\ NvDefine(nvIndex, AreaPcr, cmd.pw)
        \/ ~cmd.dry /\ ownerPw # "right" /\ pc' = "exit" /\ UNCHANGED nv
    <2>1. ownerPw = "right" /\ ~cmd.dry => ~NvExists(nvIndex)
      BY <1>1 DEF CalmInv, AreaGone
    <2>2. /\ Outcomes(ownerPw = "right" /\ ~NvExists(nvIndex))
               = {ownerPw = "right" /\ ~NvExists(nvIndex)}
          /\ Outcomes(ownerPw = "right") = {ownerPw = "right"}
      BY CalmOutcomes
    <2> QED
      BY <2>1, <2>2 DEF Define
  <1>3. CASE cmd.dry /\ AfterWrite /\ UNCHANGED nv
    <2>1. LinesInv'
      BY <1>1, <1>3, LinesFrame DEF Rewriting
    <2>2. AreaGone' /\ FreshIndex'
      BY <1>1, <1>3 DEF AfterWrite, Resealed, AreaGone, CalmInv, FreshIndex
    <2> QED
      BY <2>1, <2>2
  <1>4. CASE /\ ~cmd.dry /\ ownerPw = "right" /\ pc' = "write"
             /\ NvDefine(nvIndex, AreaPcr, cmd.pw)
    <2>1. \A i \in Index \ {nvIndex} : nv'[i] = nv[i]
      BY <1>1, <1>4 DEF NvDefine
    <2>2. new = 0 => Rewriting'
      BY <1>1, <1>4 DEF Rewriting
    <2>3. LinesInv'
      BY <1>1, <2>1, <2>2, AreaFrame
    <2>4. AreaGone' /\ FreshIndex'
      BY <1>1, <1>4 DEF AreaGone, CalmInv, FreshIndex
    <2> QED
      BY <2>3, <2>4
  <1>5. CASE ~cmd.dry /\ ownerPw # "right" /\ pc' = "exit" /\ UNCHANGED nv
    <2>1. LinesInv'
      BY <1>1, <1>5, LinesFrame DEF Rewriting
    <2>2. AreaGone' /\ FreshIndex'
      BY <1>5 DEF AreaGone, FreshIndex
    <2> QED
      BY <2>1, <2>2
  <1> QED
    BY <1>2, <1>3, <1>4, <1>5

(* Write ends the rewriting: the area holds the key that opens the device. *)
LEMMA WriteLines ==
  Calm /\ CtlInv /\ CalmInv /\ Write => LinesInv' /\ AreaGone' /\ FreshIndex'
  <1> SUFFICES ASSUME Calm, CtlInv, CalmInv, Write
               PROVE  LinesInv' /\ AreaGone' /\ FreshIndex'
    OBVIOUS
  <1>1. /\ pc = "write" /\ pc' # "cp"
        /\ UNCHANGED <<slots, conf, dev, new, nvIndex, ownerPw, cmd>>
        /\ nv \in [Index -> Area] /\ nvIndex \in Index
    BY OthersElsewhere DEF Write, AfterWrite, Resealed, CtlInv, TypeOK, StoreTypeOK
  <1>2. NvWrite(nvIndex, keyFile) /\ AfterWrite
    <2>1. ownerPw = "right" /\ cmd.pw # "AUTH"
      BY <1>1 DEF CalmInv, AreaGone, OwnChoice
    <2>2. WriteOutcomes = {TRUE}
      BY <2>1, CalmOutcomes DEF WriteOutcomes
    <2> QED
      BY <2>2 DEF Write, KeyToWrite
  <1>3. \A i \in Index \ {nvIndex} : nv'[i] = nv[i]
    BY <1>1, <1>2 DEF NvWrite
  <1>4. HoldsKeyOf(nvIndex, dev)'
    <2>1. Opens(dev, keyFile) /\ nv[nvIndex].size = "key"
      BY <1>1 DEF CtlInv, KeyInv, ActionInv
    <2>2. nv'[nvIndex].size = "key" /\ nv'[nvIndex].data = keyFile
      BY <1>1, <1>2, <2>1 DEF NvWrite, Area
    <2> QED
      BY <1>1, <2>1, <2>2 DEF HoldsKeyOf, Opens
  <1>5. LinesInv'
    BY <1>1, <1>3, <1>4, AreaFrame
  <1>6. AreaGone' /\ FreshIndex'
    BY <1>1, <1>2 DEF AfterWrite, Resealed, AreaGone, CalmInv, FreshIndex
  <1> QED
    BY <1>5, <1>6

-----------------------------------------------------------------------------
(* The steps that write tpm-luks.conf.                                     *)

(* update_conf adds a line for an area that opens the device, or shows     *)
(* nothing of what it does.                                                *)
LEMMA ConfLines ==
  Calm /\ CtlInv /\ CalmInv /\ (UpdateConf \/ CopyConf \/ ClearScript) => LinesInv'
  <1> SUFFICES ASSUME Calm, CtlInv, CalmInv, UpdateConf \/ CopyConf \/ ClearScript
               PROVE  LinesInv'
    OBVIOUS
  <1>1. /\ UNCHANGED <<nv, slots, dev, nvIndex>> /\ ~Rewriting /\ LinesInv
        /\ conf \in [Device -> ConfLine]
    BY DEF UpdateConf, CopyConf, ClearScript, Rewriting, CalmInv, LinesInv, CtlInv, TypeOK,
           StoreTypeOK
  <1>2. CASE UpdateConf /\ pc' = "cp"
    <2>1. /\ ConfSeen = conf /\ ConfSeen' = [conf EXCEPT ![dev] = Line(nvIndex)]
          /\ ~cmd.dry /\ dev \in Device /\ nvIndex \in Index /\ new = 1
      BY <1>2, CalmConf
         DEF UpdateConf, ConfSeen, CtlInv, TypeOK, IndexInv, CalmInv, OwnChoice
    <2>2. HoldsKeyOf(nvIndex, dev) /\ \A d \in Device : conf[d].idx # nvIndex
      BY <1>2, <2>1 DEF UpdateConf, CtlInv, KeyInv, Stored, HoldsKeyOf, CalmInv, FreshIndex
    <2>3. /\ ConfSeen'[dev].idx = nvIndex /\ nvIndex # NoIndex
          /\ \A d \in Device \ {dev} : ConfSeen'[d] = ConfSeen[d]
      BY <1>1, <2>1 DEF Line, Index, NoIndex
    <2>4. LinesOpen'
      <3> SUFFICES ASSUME NEW d \in Device, ConfSeen'[d].idx # NoIndex
                   PROVE  HoldsKeyOf(ConfSeen[d].idx, d)'
        BY DEF LinesOpen
      <3>1. CASE d = dev
        BY <1>1, <2>2, <2>3, <3>1 DEF HoldsKeyOf, Opens
      <3>2. CASE d # dev
        <4>1. HoldsKeyOf(ConfSeen[d].idx, d) /\ ConfSeen'[d] = ConfSeen[d]
          BY <1>1, <2>3, <3>2 DEF LinesInv, LinesOpen
        <4> QED
          BY <1>1, <4>1 DEF HoldsKeyOf, Opens
      <3> QED
        BY <3>1, <3>2
    <2>5. LinesDiffer'
      BY <1>1, <2>1, <2>2, <2>3 DEF LinesInv, LinesDiffer
    <2>6. PassphraseStays'
      BY <1>1, <2>3 DEF LinesInv, PassphraseStays
    <2> QED
      BY <2>4, <2>5, <2>6 DEF LinesInv
  <1>3. CASE UpdateConf /\ pc' # "cp"
    <2>1. ConfSeen' = ConfSeen
      BY <1>3 DEF UpdateConf, ConfSeen
    <2> QED
      BY <1>1, <2>1, LinesFrame
  <1>4. CASE CopyConf
    <2>1. ConfSeen' = ConfSeen
      BY <1>4 DEF CopyConf, ConfSeen, Calm
    <2> QED
      BY <1>1, <2>1, LinesFrame
  <1>5. CASE ClearScript
    <2>1. PICK c \in Device : conf' = [conf EXCEPT ![c].script = "none"]
      BY <1>5 DEF ClearScript
    <2>2. /\ ConfSeen = conf /\ ConfSeen' = conf'
          /\ \A d \in Device : conf'[d].idx = conf[d].idx
      BY <1>1, <1>5, <2>1 DEF ClearScript, ConfSeen, ConfLine
    <2>3. LinesOpen'
      <3> SUFFICES ASSUME NEW d \in Device, conf[d].idx # NoIndex
                   PROVE  HoldsKeyOf(conf[d].idx, d)'
        BY <2>2 DEF LinesOpen, HoldsKeyOf
      <3>1. HoldsKeyOf(conf[d].idx, d)
        BY <1>1, <2>2 DEF LinesInv, LinesOpen
      <3> QED
        BY <1>1, <2>2, <3>1 DEF HoldsKeyOf, Opens
    <2>4. LinesDiffer' /\ PassphraseStays'
      BY <1>1, <2>2 DEF LinesInv, LinesDiffer, PassphraseStays
    <2> QED
      BY <2>3, <2>4 DEF LinesInv
  <1> QED
    BY <1>2, <1>3, <1>4, <1>5

-----------------------------------------------------------------------------
(* All other steps.                                                        *)

(* The steps before and after the work on a device leave the stores alone. *)
LEMMA OtherLines ==
  ASSUME Calm, CtlInv, CalmInv,
         \/ Invoke \/ StartDevice \/ Finish \/ Cleanup \/ Info \/ Prompt \/ Read \/ Test
         \/ EndChecking \/ StartWork \/ OwnerPassword \/ AuthPassword \/ ChooseFree
         \/ ChooseShared \/ GenerateKey \/ AskKey \/ TestKey \/ Reboot
  PROVE  LinesInv'
  <1>1. UNCHANGED <<nv, slots, conf>> /\ pc # "cp" /\ pc' # "cp" /\ ~Rewriting
    <2>1. CASE Invoke \/ StartDevice \/ Finish \/ Cleanup \/ Reboot
      BY <2>1 DEF Calm, Invoke, StartDevice, Finish, Cleanup, Reboot, Vanish, Rewriting
    <2>2. CASE Info \/ Prompt \/ Read \/ Test \/ EndChecking \/ StartWork
      BY <2>2 DEF Info, Prompt, Read, Test, EndChecking, StartWork, Rewriting
    <2>3. CASE OwnerPassword \/ AuthPassword \/ ChooseFree \/ ChooseShared
      BY <2>3 DEF OwnerPassword, AuthPassword, ChooseFree, ChooseShared, Rewriting
    <2>4. CASE GenerateKey \/ AskKey \/ TestKey
      BY <2>4 DEF GenerateKey, AskKey, TestKey, Rewriting
    <2> QED
      BY <2>1, <2>2, <2>3, <2>4
  <1>2. ConfSeen' = ConfSeen /\ LinesInv
    BY <1>1, ConfSeenElsewhere DEF CalmInv, LinesInv
  <1> QED
    BY <1>1, <1>2, LinesFrame

(* $PERMS_FILE does not fail.                                              *)
LEMMA RunScriptLines ==
  Calm /\ CalmInv /\ RunScript => LinesInv' /\ FreshIndex' /\ AreaGone'
  <1> SUFFICES ASSUME Calm, CalmInv, RunScript PROVE LinesInv' /\ FreshIndex' /\ AreaGone'
    OBVIOUS
  <1>1. /\ pc = "perms" /\ pc' = "define"
        /\ UNCHANGED <<nv, slots, conf, dev, new, nvIndex, ownerPw, cmd>>
    BY CalmOutcomes DEF RunScript
  <1>2. ConfSeen' = ConfSeen /\ LinesInv /\ (Rewriting => Rewriting')
    BY <1>1 DEF ConfSeen, Rewriting, CalmInv, LinesInv
  <1> QED
    BY <1>1, <1>2, LinesFrame DEF CalmInv, FreshIndex, AreaGone, NvExists

(* What the administrator may ask for.                                     *)
LEMMA OwnChoiceStep == Calm /\ CtlInv /\ CalmInv /\ [Next]_vars => OwnChoice'
  <1> SUFFICES ASSUME Calm, CtlInv, CalmInv, [Next]_vars PROVE OwnChoice'
    OBVIOUS
  <1> USE DEF CalmInv, OwnChoice
  <1>1. CASE Invoke
    BY <1>1 DEF Invoke, Calm
  <1>2. CASE StartDevice \/ Finish \/ Cleanup \/ Reboot
    BY <1>2 DEF StartDevice, Finish, Cleanup, Reboot, Vanish, NoCommand
  <1>3. CASE Info \/ Prompt \/ Read \/ Test \/ EndChecking \/ StartWork
    BY <1>3, InfoFrame DEF Prompt, Read, Test, EndChecking, StartWork
  <1>4. CASE OwnerPassword \/ AuthPassword \/ GenerateKey \/ AddKey \/ AskKey \/ TestKey
    BY <1>4 DEF OwnerPassword, AuthPassword, GenerateKey, AddKey, AskKey, TestKey
  <1>5. CASE Release \/ RunScript \/ Define \/ Write \/ UpdateConf \/ CopyConf \/ Kill
    BY <1>5 DEF Release, RunScript, Define, Write, UpdateConf, CopyConf, Kill
  <1>6. CASE Interrupt \/ KillProcess \/ ClearScript
    BY <1>6 DEF Calm, Interrupt, KillProcess, ClearScript
  <1>7. CASE UNCHANGED vars
    BY <1>7 DEF vars
  <1>8. CASE ChooseFree \/ ChooseShared
    <2>1. pc = "choose" /\ UNCHANGED <<cmd, new, useIndex>>
      BY <1>8 DEF ChooseFree, ChooseShared
    <2> QED
      BY <2>1
  <1> QED
    BY <1>1, <1>2, <1>3, <1>4, <1>5, <1>6, <1>7, <1>8 DEF Next, Step

(* A device without a line gets its index from find_free_nv_index, which   *)
(* answers one no area has, so one no line has.                            *)
LEMMA ChooseFreeFresh == Calm /\ CtlInv /\ CalmInv /\ ChooseFree => FreshIndex' /\ AreaGone'
  <1> SUFFICES ASSUME Calm, CtlInv, CalmInv, ChooseFree, pc' = "genkey"
               PROVE  FreshIndex' /\ AreaGone'
    BY DEF ChooseFree, FreshIndex, AreaGone
  <1>1. pc = "choose" /\ UNCHANGED <<nv, conf>>
    BY DEF ChooseFree
  <1>2. nvIndex' \in Index /\ nvIndex' \notin NvInUse
    BY CalmDisk DEF ChooseFree, IsFirstFree
  <1>3. ~NvExists(nvIndex')
    BY <1>2 DEF NvInUse
  <1>4. \A d \in Device : conf[d].idx # nvIndex'
    <2> SUFFICES ASSUME NEW d \in Device, conf[d].idx = nvIndex' PROVE FALSE
      OBVIOUS
    <2>1. conf[d].idx # NoIndex /\ ConfSeen = conf /\ ~Rewriting
      BY <1>1, <1>2 DEF Index, NoIndex, ConfSeen, Rewriting
    <2>2. nv[conf[d].idx].size = "key"
      BY <2>1 DEF CalmInv, LinesOpen, HoldsKeyOf
    <2> QED
      BY <1>3, <2>2 DEF NvExists
  <1> QED
    BY <1>1, <1>3, <1>4 DEF FreshIndex, AreaGone, NvExists

(* Only a device with a line, or the index just found, gets to the work.   *)
LEMMA FreshStep == Calm /\ CtlInv /\ CalmInv /\ [Next]_vars => FreshIndex'
  <1> SUFFICES ASSUME Calm, CtlInv, CalmInv, [Next]_vars PROVE FreshIndex'
    OBVIOUS
  <1>1. CASE Invoke \/ StartDevice \/ Finish \/ Cleanup \/ Reboot
    BY <1>1 DEF FreshIndex, Invoke, StartDevice, Finish, Cleanup, Reboot, Vanish
  <1>2. CASE Info \/ Prompt \/ Read \/ Test \/ EndChecking \/ StartWork
    BY <1>2 DEF FreshIndex, Info, Prompt, Read, Test, EndChecking, StartWork
  <1>3. CASE OwnerPassword
    BY <1>3 DEF FreshIndex, OwnerPassword, CtlInv, ActionInv, WorkToDo
  <1>4. CASE ChooseShared \/ AskKey \/ TestKey
    BY <1>4 DEF FreshIndex, ChooseShared, AskKey, TestKey, CtlInv, IndexInv, CalmInv, OwnChoice
  <1>5. CASE GenerateKey \/ AddKey \/ AuthPassword \/ Release
    <2>1. CASE GenerateKey \/ AddKey \/ AuthPassword
      BY <2>1
         DEF FreshIndex, CalmInv, GenerateKey, AddKey, AuthPassword, NvExists
    <2>2. CASE Release
      <3>1. pc = "release" /\ pc' = "perms" /\ UNCHANGED <<new, conf, nvIndex>>
        BY <2>2 DEF Release
      <3>2. new = 1 => ~NvExists(nvIndex) /\ UNCHANGED nv
        BY <2>2, <3>1, ReleaseStep DEF CalmInv, FreshIndex, ToRelease
      <3> QED
        BY <3>1, <3>2 DEF FreshIndex, CalmInv, NvExists
    <2> QED
      BY <1>5, <2>1, <2>2
  <1>6. CASE UpdateConf \/ CopyConf \/ Kill
    BY <1>6 DEF FreshIndex, UpdateConf, CopyConf, Kill
  <1>7. CASE Interrupt \/ KillProcess \/ ClearScript
    BY <1>7 DEF FreshIndex, Calm, Interrupt, KillProcess, ClearScript
  <1>8. CASE UNCHANGED vars
    BY <1>8 DEF vars, FreshIndex, CalmInv, NvExists
  <1> QED
    BY <1>1, <1>2, <1>3, <1>4, <1>5, <1>6, <1>7, <1>8, ChooseFreeFresh, RunScriptLines,
       DefineLines, WriteLines
       DEF Next, Step

(* Only nv_define_and_write gets to its commands.                          *)
LEMMA GoneStep == Calm /\ CtlInv /\ CalmInv /\ [Next]_vars => AreaGone'
  <1> SUFFICES ASSUME Calm, CtlInv, CalmInv, [Next]_vars PROVE AreaGone'
    OBVIOUS
  <1>1. CASE Invoke \/ StartDevice \/ Finish \/ Cleanup \/ Reboot
    BY <1>1 DEF AreaGone, Invoke, StartDevice, Finish, Cleanup, Reboot, Vanish
  <1>2. CASE Info \/ Prompt \/ Read \/ Test \/ EndChecking \/ StartWork
    BY <1>2 DEF AreaGone, Info, Prompt, Read, Test, EndChecking, StartWork
  <1>3. CASE OwnerPassword \/ AuthPassword \/ ChooseShared
    BY <1>3 DEF AreaGone, OwnerPassword, AuthPassword, ChooseShared
  <1>4. CASE GenerateKey \/ AddKey \/ AskKey \/ TestKey
    BY <1>4 DEF AreaGone, GenerateKey, AddKey, AskKey, TestKey
  <1>5. CASE UpdateConf \/ CopyConf \/ Kill
    BY <1>5 DEF AreaGone, UpdateConf, CopyConf, Kill
  <1>6. CASE Interrupt \/ KillProcess \/ ClearScript
    BY <1>6 DEF AreaGone, Calm, Interrupt, KillProcess, ClearScript
  <1>7. CASE UNCHANGED vars
    BY <1>7 DEF vars, AreaGone, CalmInv, NvExists
  <1> QED
    BY <1>1, <1>2, <1>3, <1>4, <1>5, <1>6, <1>7, ChooseFreeFresh, ReleaseLines,
       RunScriptLines, DefineLines, WriteLines
       DEF Next, Step

LEMMA LinesStep == Calm /\ CtlInv /\ CalmInv /\ [Next]_vars => LinesInv'
  <1> SUFFICES ASSUME Calm, CtlInv, CalmInv, [Next]_vars PROVE LinesInv'
    OBVIOUS
  <1>1. CASE Interrupt \/ KillProcess
    BY <1>1 DEF Calm, Interrupt, KillProcess
  <1>2. CASE UNCHANGED vars
    <2>1. UNCHANGED <<nv, slots, ConfSeen, dev>> /\ (Rewriting => Rewriting') /\ LinesInv
      BY <1>2 DEF vars, ConfSeen, Rewriting, CalmInv, LinesInv
    <2> QED
      BY <2>1, LinesFrame
  <1> QED
    BY <1>1, <1>2, AddKeyLines, KillLines, ReleaseLines, RunScriptLines, DefineLines,
       WriteLines, ConfLines, OtherLines
       DEF Next, Step

(* Before the first init no device has a line, and its passphrase opens it. *)
LEMMA CalmInit == Init => CalmInv
  <1> SUFFICES ASSUME Init PROVE CalmInv
    OBVIOUS
  <1>1. /\ conf = EmptyConf /\ pc = "idle"
        /\ slots = [d \in Device |-> [s \in Slot |-> IF s = 0 THEN Passphrase ELSE NoKey]]
    BY DEF Init, StoreInit
  <1>2. \A d \in Device : ConfSeen[d].idx = NoIndex
    BY <1>1 DEF ConfSeen, EmptyConf, Line
  <1>3. PassphraseStays
    <2>1. 0 \in Slot
      BY StoreAssumption DEF Slot
    <2> QED
      BY <1>1, <2>1 DEF PassphraseStays
  <1>4. LinesOpen /\ LinesDiffer
    BY <1>2 DEF LinesOpen, LinesDiffer
  <1>5. OwnChoice /\ FreshIndex /\ AreaGone
    BY <1>1 DEF Init, NoCommand, OwnChoice, FreshIndex, AreaGone
  <1> QED
    BY <1>3, <1>4, <1>5 DEF CalmInv

(* CalmInv holds at every command, for any number of devices and runs.     *)
THEOREM CalmInvariant == ASSUME Calm PROVE Spec => []CalmInv
  <1>1. CtlInv /\ CalmInv /\ [Next]_vars => CalmInv'
    BY OwnChoiceStep, LinesStep, FreshStep, GoneStep DEF LinesInv, CalmInv
  <1> QED
    BY <1>1, CalmInit, CtlInvariant, PTL DEF Spec

-----------------------------------------------------------------------------
(* What the administrator was promised.                                    *)

(* Between runs the configuration is true: every line of tpm-luks.conf     *)
(* names an area with a key that opens the device.                         *)
THEOREM ConfigurationOpens == ASSUME Calm PROVE Spec => []ConfiguredOpens
  <1>1. CalmInv => ConfiguredOpens
    BY DEF CalmInv, LinesOpen, ConfiguredOpens, Configured, Escrowed, ConfSeen, Rewriting
  <1> QED
    BY <1>1, CalmInvariant, PTL

(* The steps that can change what tpm-luks.conf says, or is to say.        *)
LEMMA ConfSeenWriters ==
  Calm /\ [Next]_vars => UpdateConf \/ CopyConf \/ ClearScript \/ UNCHANGED ConfSeen
  <1> SUFFICES ASSUME Calm, [Next]_vars, ~UpdateConf, ~CopyConf, ~ClearScript
               PROVE  UNCHANGED ConfSeen
    OBVIOUS
  <1>1. UNCHANGED conf
    BY ConfWriters
  <1>2. (pc # "cp" /\ pc' # "cp") \/ UNCHANGED vars
    <2>1. CASE Invoke \/ StartDevice \/ Finish \/ Cleanup \/ Reboot
      BY <2>1 DEF Calm, Invoke, StartDevice, Finish, Cleanup, Reboot, Vanish
    <2>2. CASE Info \/ Prompt \/ Read \/ Test \/ EndChecking \/ StartWork
      BY <2>2 DEF Info, Prompt, Read, Test, EndChecking, StartWork
    <2>3. CASE OwnerPassword \/ AuthPassword \/ ChooseFree \/ ChooseShared
               \/ GenerateKey \/ AddKey \/ AskKey \/ TestKey
      BY <2>3 DEF OwnerPassword, AuthPassword, ChooseFree, ChooseShared, GenerateKey,
                  AddKey, AskKey, TestKey
    <2>4. CASE Release \/ RunScript \/ Define \/ Write \/ Kill
      BY <2>4 DEF Release, RunScript, Define, Write, AfterWrite, Resealed, Kill
    <2>5. ~Interrupt /\ ~KillProcess
      BY DEF Calm, Interrupt, KillProcess
    <2> QED
      BY <2>1, <2>2, <2>3, <2>4, <2>5 DEF Next, Step
  <1> QED
    BY <1>1, <1>2 DEF ConfSeen, vars

(* A device that is new has no line until update_conf.                     *)
NoLineYet ==
  /\ pc = "choose" => new # 0
  /\ new # 0 /\ pc \notin {"idle", "next", "finish", "exit", "cp", "kill"} =>
       conf[dev].idx = NoIndex

LEMMA NoLineStep ==
  ASSUME CtlInv, NoLineYet, [Next]_vars
  PROVE  NoLineYet'
  <1>1. CASE StartDevice
    BY <1>1 DEF StartDevice, NoLineYet, Configured
  <1>2. CASE Info \/ Prompt \/ Read \/ Test \/ EndChecking
    BY <1>2 DEF Info, Prompt, Read, Test, EndChecking, NoLineYet
  <1>3. CASE StartWork \/ OwnerPassword \/ AuthPassword
    BY <1>3 DEF StartWork, OwnerPassword, AuthPassword, NoLineYet
  <1>4. CASE ChooseFree \/ ChooseShared
    BY <1>4 DEF ChooseFree, ChooseShared, NoLineYet
  <1>5. CASE GenerateKey \/ AddKey \/ AskKey \/ TestKey
    BY <1>5 DEF GenerateKey, AddKey, AskKey, TestKey, NoLineYet
  <1>6. CASE Release \/ RunScript \/ Define \/ Write
    BY <1>6 DEF Release, RunScript, Define, Write, AfterWrite, Resealed, NoLineYet
  <1>7. CASE UpdateConf \/ CopyConf \/ Kill
    BY <1>7 DEF UpdateConf, CopyConf, Kill, NoLineYet
  <1>8. CASE Finish \/ Cleanup \/ Invoke \/ Interrupt \/ KillProcess \/ Reboot \/ ClearScript
    BY <1>8 DEF Finish, Cleanup, Invoke, Interrupt, KillProcess, Reboot, Vanish, ClearScript,
                NoLineYet
  <1>9. CASE UNCHANGED vars
    BY <1>9 DEF vars, NoLineYet
  <1> QED
    BY <1>1, <1>2, <1>3, <1>4, <1>5, <1>6, <1>7, <1>8, <1>9 DEF Next, Step

(* A line, once written, keeps its index: an older copy of tpm-luks.conf   *)
(* in an initramfs leads to the same areas.                                *)
THEOREM OldCopiesLeadThere == ASSUME Calm PROVE Spec => LinesStay
  <1>1. ASSUME Calm, CtlInv, NoLineYet, [Next]_vars, NEW d \in Device, ConfSeen[d].idx # NoIndex
        PROVE  ConfSeen'[d].idx = ConfSeen[d].idx
    <2>1. conf \in [Device -> ConfLine] /\ confNew \in [Device -> ConfLine]
      BY <1>1 DEF CtlInv, TypeOK, StoreTypeOK
    <2>2. CASE UpdateConf
      <3>1. ConfSeen = conf /\ ConfSeen' \in {conf, [conf EXCEPT ![dev] = Line(nvIndex)]}
        BY <1>1, <2>2, CalmConf DEF UpdateConf, ConfSeen, Calm
      <3>2. d # dev
        BY <1>1, <2>2, <3>1 DEF UpdateConf, CtlInv, IndexInv, NoLineYet
      <3> QED
        BY <2>1, <3>1, <3>2
    <2>3. CASE CopyConf
      BY <1>1, <2>3 DEF CopyConf, ConfSeen, Calm
    <2>4. CASE ClearScript
      <3>1. ConfSeen = conf /\ ConfSeen' = conf'
        BY <2>4 DEF ClearScript, ConfSeen
      <3> QED
        BY <2>1, <2>4, <3>1 DEF ClearScript, ConfLine
    <2> QED
      BY <1>1, <2>2, <2>3, <2>4, ConfSeenWriters
  <1>2. CtlInv /\ NoLineYet /\ [Next]_vars =>
          [\A d \in Device : ConfSeen[d].idx # NoIndex => ConfSeen'[d].idx = ConfSeen[d].idx]_vars
    BY <1>1
  <1>3. Init => NoLineYet
    BY DEF Init, StoreInit, NoLineYet
  <1>4. CtlInv /\ NoLineYet /\ [Next]_vars => NoLineYet'
    BY NoLineStep
  <1> QED
    BY <1>2, <1>3, <1>4, CtlInvariant, PTL DEF Spec, LinesStay

(* No two lines of tpm-luks.conf name the same index, not even while       *)
(* update_conf is at work.                                                 *)
THEOREM IndexesDiffer == ASSUME Calm PROVE Spec => []DistinctIndexes
  <1>1. CtlInv /\ CalmInv => DistinctIndexes
    <2> SUFFICES ASSUME CtlInv, CalmInv, NEW d \in Device, NEW e \in Device,
                        Configured(d), conf[d].idx = conf[e].idx
                 PROVE  d = e
      BY DEF DistinctIndexes
    <2>1. pc # "cp"
      BY DEF CtlInv, LineInv, EmptyConf, Line, Configured
    <2> QED
      BY <2>1 DEF ConfSeen, Configured, CalmInv, LinesDiffer
  <1> QED
    BY <1>1, CtlInvariant, CalmInvariant, PTL

(* Nobody is locked out: at each command a device opens with its           *)
(* passphrase, with the key file at hand or with a key that lies in the    *)
(* TPM, whether or not anything was ever backed up.                        *)
THEOREM NobodyIsLockedOut == ASSUME Calm PROVE Spec => []KeyKept
  <1>1. CtlInv /\ CalmInv => KeyKept
    <2> SUFFICES ASSUME CtlInv, CalmInv, NEW d \in Device
                 PROVE  \E s \in Slot :
                          \/ slots[d][s] \in backup \cup {Passphrase}
                          \/ slots[d][s] = keyFile /\ keyFile # NoKey
                          \/ \E i \in Index : nv[i].size = "key" /\ nv[i].data = slots[d][s]
      BY DEF KeyKept
    <2>1. CASE ConfSeen[d].idx = NoIndex
      BY <2>1 DEF CalmInv, PassphraseStays
    <2>2. CASE ConfSeen[d].idx # NoIndex /\ HoldsKeyOf(ConfSeen[d].idx, d)
      <3>1. ConfSeen[d].idx \in Index
        BY <2>2 DEF CtlInv, TypeOK, StoreTypeOK, ConfSeen, ConfLine, Index, NoIndex
      <3>2. PICK s \in Slot : slots[d][s] = nv[ConfSeen[d].idx].data
        BY <2>2 DEF HoldsKeyOf, Opens
      <3> QED
        BY <2>2, <3>1, <3>2 DEF HoldsKeyOf
    <2>3. CASE d = dev /\ Rewriting
      <3>1. Opens(d, keyFile)
        BY <2>3 DEF Rewriting, CtlInv, KeyInv
      <3> QED
        BY <3>1 DEF Opens
    <2> QED
      BY <2>1, <2>2, <2>3 DEF CalmInv, LinesOpen
  <1> QED
    BY <1>1, CtlInvariant, CalmInvariant, PTL

(* The areas nv_define_and_write touches.                                  *)
LEMMA AreaStep ==
  ASSUME CtlInv, CalmInv, [Next]_vars, nv' # nv
  PROVE  /\ pc \in {"release", "define", "write"}
         /\ nv \in [Index -> Area] /\ nvIndex \in Index
         /\ \A i \in Index \ {nvIndex} : nv'[i] = nv[i]
         /\ UNCHANGED <<slots, conf>>
  <1>1. pc \in {"release", "define", "write"} /\ UNCHANGED <<slots, conf>>
    BY AreaWriters DEF Release, Define, Write
  <1>2. nv \in [Index -> Area] /\ nvIndex \in Index
    BY <1>1, OthersElsewhere DEF CtlInv, TypeOK, StoreTypeOK
  <1>3. CASE Release
    BY <1>2, <1>3 DEF Release, NvRelease
  <1>4. CASE Define
    BY <1>2, <1>4 DEF Define, NvDefine, NvRelease
  <1>5. CASE Write
    BY <1>2, <1>5 DEF Write, NvWrite, NvRelease
  <1> QED
    BY <1>1, <1>2, <1>3, <1>4, <1>5, AreaWriters

(* A run never takes the stored key of a device it is not working on: not  *)
(* the area, and not the slot that the area's key opens.                   *)
THEOREM OthersKeepTheirKeys == ASSUME Calm PROVE Spec => OthersKeep
  <1>1. ASSUME CtlInv, CalmInv, [Next]_vars, NEW d \in Device, NEW i \in Index,
               d # dev, i = conf[d].idx, HoldsKeyOf(i, d)
        PROVE  HoldsKeyOf(i, d)'
    <2>1. nv'[i] = nv[i]
      <3>1. CASE nv' = nv
        BY <3>1
      <3>2. CASE nv' # nv
        BY <1>1, <3>2, AreaStep, OthersElsewhere
      <3> QED
        BY <3>1, <3>2
    <2>2. slots'[d] = slots[d]
      <3>1. slots \in [Device -> [Slot -> Secret \cup {NoKey}]]
        BY <1>1 DEF CtlInv, TypeOK, StoreTypeOK
      <3>2. CASE AddKey
        BY <1>1, <3>1, <3>2, AddKeyStep DEF LuksSetSlot
      <3>3. CASE Kill
        BY <1>1, <3>1, <3>3, KillStep DEF LuksSetSlot
      <3> QED
        BY <1>1, <3>2, <3>3, SlotWriters
    <2> QED
      BY <1>1, <2>1, <2>2 DEF HoldsKeyOf, Opens
  <1>2. CtlInv /\ CalmInv /\ [Next]_vars =>
          [\A d \in Device, i \in Index :
             ~At("idle") /\ d # dev /\ i = conf[d].idx /\ HoldsKeyOf(i, d) => HoldsKeyOf(i, d)']_vars
    BY <1>1
  <1> QED
    BY <1>2, CtlInvariant, CalmInvariant, PTL DEF Spec, OthersKeep

(* The area of another program is neither released nor written.            *)
THEOREM ForeignAreasStay == ASSUME Calm PROVE Spec => ForeignUntouched
  <1>1. ASSUME Calm, CtlInv, CalmInv, [Next]_vars, NEW i \in Index, nv[i].size = "other"
        PROVE  nv'[i] = nv[i]
    <2> SUFFICES ASSUME nv' # nv, i = nvIndex PROVE FALSE
      BY <1>1, AreaStep
    <2>1. NvExists(nvIndex)
      BY <1>1 DEF NvExists
    <2>2. CASE Release
      <3>1. new = 0 /\ pc = "release" /\ ConfSeen = conf /\ dev \in Device
        BY <1>1, <2>1, <2>2
           DEF Release, CalmInv, OwnChoice, FreshIndex, ConfSeen, CtlInv, TypeOK
      <3>2. conf[dev].idx = nvIndex /\ nvIndex # NoIndex
        BY <1>1, <3>1 DEF CtlInv, IndexInv, Index, NoIndex
      <3>3. nv[nvIndex].size = "key"
        BY <1>1, <3>1, <3>2 DEF CalmInv, LinesOpen, Rewriting, HoldsKeyOf
      <3> QED
        BY <1>1, <3>3
    <2>3. CASE Define
      <3>1. ~(ownerPw = "right" /\ ~cmd.dry)
        BY <1>1, <2>1, <2>3 DEF Define, CalmInv, AreaGone
      <3>2. Outcomes(ownerPw = "right") = {ownerPw = "right"}
        BY <1>1, CalmOutcomes
      <3>3. Outcomes(ownerPw = "right" /\ ~NvExists(nvIndex)) = {FALSE}
        BY <1>1, <2>1, CalmOutcomes
      <3> QED
        BY <2>3, <3>1, <3>2, <3>3 DEF Define
    <2>4. CASE Write
      BY <1>1, <2>4 DEF Write, CtlInv, KeyInv
    <2> QED
      BY <1>1, <2>2, <2>3, <2>4, AreaWriters
  <1>2. CtlInv /\ CalmInv /\ [Next]_vars =>
          [\A i \in Index : nv[i].size = "other" => nv'[i] = nv[i]]_vars
    BY <1>1
  <1> QED
    BY <1>2, CtlInvariant, CalmInvariant, PTL DEF Spec, ForeignUntouched

(* A script that nobody stops, whatever fails in it, ends with the trap    *)
(* that wipes the key file.                                                *)
THEOREM KeyFileIsWiped == ASSUME ~Crashes PROVE Spec => []KeyWiped
  <1>1. Init => KeyWiped
    BY DEF Init, KeyWiped
  <1>2. ASSUME KeyWiped, [Next]_vars PROVE KeyWiped'
    <2>1. CASE Invoke \/ StartDevice \/ Finish \/ Cleanup \/ Info \/ Prompt \/ Read \/ Test
               \/ EndChecking
      BY <1>2, <2>1
         DEF KeyWiped, Invoke, StartDevice, Finish, Cleanup, Info, Prompt, Read, Test, EndChecking
    <2>2. CASE StartWork \/ OwnerPassword \/ AuthPassword \/ ChooseFree \/ ChooseShared
               \/ GenerateKey \/ AddKey \/ AskKey \/ TestKey
      BY <2>2
         DEF KeyWiped, StartWork, OwnerPassword, AuthPassword, ChooseFree, ChooseShared,
             GenerateKey, AddKey, AskKey, TestKey
    <2>3. CASE Release \/ RunScript \/ Define \/ Write \/ UpdateConf \/ CopyConf \/ Kill
      BY <2>3
         DEF KeyWiped, Release, RunScript, Define, Write, AfterWrite, Resealed, UpdateConf,
             CopyConf, Kill
    <2>4. CASE Interrupt \/ KillProcess \/ Reboot \/ ClearScript
      BY <1>2, <2>4 DEF KeyWiped, Interrupt, KillProcess, Reboot, ClearScript
    <2>5. CASE UNCHANGED vars
      BY <1>2, <2>5 DEF KeyWiped, vars
    <2> QED
      BY <1>2, <2>1, <2>2, <2>3, <2>4, <2>5 DEF Next, Step
  <1> QED
    BY <1>1, <1>2, PTL DEF Spec

-----------------------------------------------------------------------------
(* What the report says.  ReportInv is inductive relative to CalmInv, as   *)
(* long as nobody edits the script names.                                  *)

SaysSealed == {"ok (sealed)", "unchanged (sealed)", "sealed"}
SaysUnsealed ==
  {"ok (unsealed)", "unchanged (unsealed)", "initialized (unsealed)", "unsealed"}

(* What text claims about device d.                                        *)
Claim(text, d) ==
  /\ text \notin {"", "skipped", "error"} => ConfSeen[d].idx # NoIndex
  /\ text \in SaysSealed => nv[ConfSeen[d].idx].pcr # NoPcr
  /\ text \in SaysUnsealed => nv[ConfSeen[d].idx].pcr = NoPcr

ReportsHold == ~cmd.dry => \A d \in Device : Claim(report[d], d)

(* The devices to come, and the one at hand, have no report yet.           *)
HandledOnce ==
  /\ pc = "idle" => report = NoReport
  /\ \A d \in todo : report[d] = ""
  /\ pc \notin {"idle", "next", "finish", "exit"} => dev \notin todo /\ report[dev] = ""

ScriptsStay == \A d \in Device : ConfSeen[d].script = "default"

(* USE_PCR is that of the device at hand when it is looked at.             *)
Checked ==
  /\ pc \in {"prompt", "read", "test"} => (usePcr <=> nv[nvIndex].pcr # NoPcr)
  /\ pc = "dispatch" => verdict # "none"
  /\ pc = "dispatch" /\ verdict = "ok" => new = 0 /\ (usePcr <=> nv[nvIndex].pcr # NoPcr)

(* What nv_define_and_write has done to the area.                          *)
Worked ==
  /\ cmd.action # "init" /\ pc \in {"authpw", "release", "perms", "define", "write"} => new = 0
  /\ pc = "write" => nv[nvIndex].pcr = IF cmd.action = "seal" THEN pcrNow ELSE NoPcr
  /\ pc \in {"conf", "cp", "kill"} /\ ~cmd.dry => nv[nvIndex].pcr = NoPcr

ReportInv == ReportsHold /\ HandledOnce /\ ScriptsStay /\ Checked /\ Worked

AllInv == CtlInv /\ CalmInv /\ ReportInv

(* The steps that end with a report or do not touch the reports.           *)
LEMMA HandledStep == AllInv /\ [Next]_vars => HandledOnce'
  <1> SUFFICES ASSUME AllInv, [Next]_vars PROVE HandledOnce'
    OBVIOUS
  <1>1. /\ report \in [Device -> Report] /\ todo \subseteq Device
        /\ pc \notin {"idle", "next", "finish", "exit"} =>
             dev \in Device /\ dev \notin todo /\ report[dev] = ""
        /\ \A d \in todo : report[d] = ""
        /\ pc = "idle" => report = NoReport
    BY DEF AllInv, CtlInv, TypeOK, ReportInv, HandledOnce
  <1>2. CASE /\ pc \notin {"idle", "next", "finish", "exit"}
             /\ UNCHANGED <<todo, dev>> /\ pc' # "idle"
             /\ UNCHANGED report \/ \E text : EndDevice(text)
    BY <1>1, <1>2 DEF HandledOnce
  <1>3. CASE Invoke
    <2>1. pc = "idle" /\ pc' = "next" /\ UNCHANGED report /\ todo' \subseteq Device
      BY <1>3 DEF Invoke
    <2> QED
      BY <1>1, <2>1 DEF HandledOnce, NoReport
  <1>4. CASE StartDevice
    BY <1>1, <1>4 DEF StartDevice, HandledOnce
  <1>5. CASE Cleanup \/ Reboot \/ KillProcess
    BY <1>5 DEF Cleanup, Reboot, KillProcess, Vanish, HandledOnce
  <1>6. CASE Finish \/ ClearScript \/ UNCHANGED vars
    BY <1>1, <1>6 DEF Finish, ClearScript, vars, HandledOnce
  <1>7. CASE Info \/ Prompt \/ Read \/ Test \/ EndChecking \/ StartWork
    BY <1>2, <1>7 DEF Info, Prompt, Read, Test, EndChecking, StartWork
  <1>8. CASE OwnerPassword \/ AuthPassword \/ ChooseFree \/ ChooseShared \/ GenerateKey
             \/ AddKey \/ AskKey \/ TestKey
    BY <1>2, <1>8 DEF OwnerPassword, AuthPassword, ChooseFree, ChooseShared, GenerateKey, AddKey,
                AskKey, TestKey
  <1>9. CASE Release \/ RunScript \/ UpdateConf \/ CopyConf \/ Interrupt
    <2>1. /\ pc \notin {"idle", "next", "finish", "exit"} \/ Interrupt
          /\ UNCHANGED <<todo, dev, report>> /\ pc' # "idle"
      BY <1>9 DEF Release, RunScript, UpdateConf, CopyConf, Interrupt
    <2>2. CASE Interrupt
      BY <1>1, <2>1, <2>2 DEF Interrupt, HandledOnce
    <2> QED
      BY <1>2, <2>1, <2>2
  <1>10. CASE Define \/ Write
    <2>1. /\ pc \in {"define", "write"} /\ UNCHANGED <<todo, dev>>
          /\ AfterWrite \/ (Goto("exit") /\ UNCHANGED report)
             \/ (Goto("write") /\ UNCHANGED report)
      BY <1>10 DEF Define, Write
    <2>2. pc' # "idle" /\ (UNCHANGED report \/ \E text : EndDevice(text))
      BY <2>1 DEF AfterWrite, Resealed
    <2> QED
      BY <1>2, <2>1, <2>2
  <1>11. CASE Kill
    <2>1. /\ pc = "kill" /\ UNCHANGED <<todo, dev>>
          /\ (pc' = pc /\ UNCHANGED report) \/ EndDevice("initialized (unsealed)")
      BY <1>11 DEF Kill
    <2> QED
      BY <1>2, <2>1
  <1> QED
    BY <1>3, <1>4, <1>5, <1>6, <1>7, <1>8, <1>9, <1>10, <1>11 DEF Next, Step

(* update_conf writes the default script.                                  *)
LEMMA ScriptsStep == Calm /\ ~ConfEdits /\ AllInv /\ [Next]_vars => ScriptsStay'
  <1> SUFFICES ASSUME Calm, ~ConfEdits, AllInv, [Next]_vars PROVE ScriptsStay'
    OBVIOUS
  <1>1. conf \in [Device -> ConfLine] /\ ScriptsStay
    BY DEF AllInv, CtlInv, TypeOK, StoreTypeOK, ReportInv
  <1>2. CASE ConfSeen' = ConfSeen
    BY <1>1, <1>2 DEF ScriptsStay
  <1>3. CASE UpdateConf
    <2>1. CASE pc' = "cp"
      <3>1. ConfSeen = conf /\ ConfSeen' = [conf EXCEPT ![dev] = Line(nvIndex)]
        BY <1>3, <2>1, CalmConf DEF UpdateConf, ConfSeen
      <3> QED
        BY <1>1, <3>1 DEF ScriptsStay, Line
    <2>2. CASE pc' # "cp"
      BY <1>2, <1>3, <2>2 DEF UpdateConf, ConfSeen
    <2> QED
      BY <2>1, <2>2
  <1>4. CASE CopyConf
    BY <1>2, <1>4 DEF CopyConf, ConfSeen, Calm
  <1>5. ~ClearScript
    BY DEF ClearScript
  <1> QED
    BY <1>2, <1>3, <1>4, <1>5, ConfSeenWriters

(* nv_info looks at the area of the device at hand.                        *)
LEMMA CheckedStep == Calm /\ AllInv /\ [Next]_vars => Checked'
  <1> SUFFICES ASSUME Calm, AllInv, [Next]_vars PROVE Checked'
    OBVIOUS
  <1>1. Checked /\ usePcr \in BOOLEAN
    BY DEF AllInv, CtlInv, TypeOK, ReportInv
  <1>2. CASE Info
    <2>1. \/ UNCHANGED <<nv, nvIndex>> /\ (usePcr' <=> nv[nvIndex].pcr # NoPcr)
          \/ pc' = "dispatch"
      BY <1>2 DEF Info, AreaUsesPcr, Calm, Outcomes
    <2> QED
      BY <1>2, <2>1 DEF Info, Checked
  <1>3. CASE Prompt \/ Read
    BY <1>1, <1>3 DEF Prompt, Read, Checked
  <1>4. CASE Test
    <2>1. /\ new' = 0 /\ UNCHANGED <<nv, nvIndex, usePcr>> /\ pc = "test" /\ pc' = "dispatch"
          /\ verdict' # "none"
      BY <1>4 DEF Test, AllInv, CtlInv, IndexInv
    <2> QED
      BY <1>1, <2>1 DEF Checked
  <1>5. CASE StartDevice
    BY <1>5 DEF StartDevice, Checked
  <1>6. CASE Invoke \/ Finish \/ Cleanup \/ Reboot \/ KillProcess \/ Interrupt
    BY <1>6 DEF Invoke, Finish, Cleanup, Reboot, KillProcess, Interrupt, Vanish, Checked
  <1>7. CASE EndChecking \/ StartWork \/ OwnerPassword \/ AuthPassword
    BY <1>7 DEF EndChecking, StartWork, OwnerPassword, AuthPassword, Checked
  <1>8. CASE ChooseFree \/ ChooseShared \/ GenerateKey \/ AddKey \/ AskKey \/ TestKey
    BY <1>8 DEF ChooseFree, ChooseShared, GenerateKey, AddKey, AskKey, TestKey, Checked
  <1>9. CASE Release \/ RunScript \/ Define \/ Write \/ UpdateConf \/ CopyConf \/ Kill
             \/ ClearScript
    BY <1>9 DEF Release, RunScript, Define, Write, AfterWrite, Resealed, UpdateConf,
                CopyConf, Kill, ClearScript, Checked
  <1>10. CASE UNCHANGED vars
    BY <1>1, <1>10 DEF vars, Checked
  <1> QED
    BY <1>2, <1>3, <1>4, <1>5, <1>6, <1>7, <1>8, <1>9, <1>10 DEF Next, Step

(* Define binds the area to the PCRs to seal it, and to none otherwise.    *)
LEMMA DefineWorked == Calm /\ AllInv /\ Define => Worked'
  <1> SUFFICES ASSUME Calm, AllInv, Define PROVE Worked'
    OBVIOUS
  <1>1. /\ pc = "define" /\ UNCHANGED <<cmd, new, nvIndex, pcrNow>> /\ new \in {0, 1}
        /\ nv \in [Index -> Area] /\ nvIndex \in Index /\ dev \in Device
        /\ cmd.action # "init" => new = 0
    BY OthersElsewhere
       DEF Define, AllInv, CtlInv, TypeOK, StoreTypeOK, CalmInv, OwnChoice, ReportInv, Worked
  <1>2. CASE cmd.dry /\ AfterWrite
    BY <1>1, <1>2 DEF AfterWrite, Resealed, Worked
  <1>3. CASE pc' = "write" /\ NvDefine(nvIndex, AreaPcr, cmd.pw)
    <2>1. conf[dev].script = "default"
      BY <1>1 DEF AllInv, ReportInv, ScriptsStay, ConfSeen
    <2>2. nv'[nvIndex].pcr = IF cmd.action = "seal" THEN pcrNow ELSE NoPcr
      BY <1>1, <1>3, <2>1 DEF NvDefine, AreaPcr, UsesPcr
    <2> QED
      BY <1>1, <1>3, <2>2 DEF Worked
  <1>4. CASE pc' = "exit"
    BY <1>4 DEF Worked
  <1> QED
    BY <1>2, <1>3, <1>4 DEF Define

(* Write leaves the binding as it is.                                      *)
LEMMA WriteWorked == AllInv /\ Write => Worked'
  <1> SUFFICES ASSUME AllInv, Write PROVE Worked'
    OBVIOUS
  <1>1. /\ pc = "write" /\ UNCHANGED <<cmd, new, nvIndex, pcrNow>>
        /\ nv \in [Index -> Area] /\ nvIndex \in Index
        /\ nv[nvIndex].pcr = IF cmd.action = "seal" THEN pcrNow ELSE NoPcr
    BY OthersElsewhere
       DEF Write, AllInv, CtlInv, TypeOK, StoreTypeOK, ReportInv, Worked
  <1>2. CASE NvWrite(nvIndex, keyFile) /\ AfterWrite
    <2>1. nv'[nvIndex].pcr = nv[nvIndex].pcr
      BY <1>1, <1>2 DEF NvWrite, Area
    <2> QED
      BY <1>1, <1>2, <2>1 DEF AfterWrite, Resealed, Worked
  <1>3. CASE pc' = "exit"
    BY <1>3 DEF Worked
  <1> QED
    BY <1>2, <1>3 DEF Write, KeyToWrite

(* seal and unseal reach nv_define_and_write for devices with a line only. *)
LEMMA WorkedStep == Calm /\ AllInv /\ [Next]_vars => Worked'
  <1> SUFFICES ASSUME Calm, AllInv, [Next]_vars PROVE Worked'
    OBVIOUS
  <1>1. Worked /\ new \in {0, 1}
    BY DEF AllInv, ReportInv, CalmInv, OwnChoice
  <1>2. CASE OwnerPassword
    <2>1. cmd.action # "init" => new = 0
      BY <1>2 DEF OwnerPassword, AllInv, CtlInv, ActionInv, WorkToDo
    <2> QED
      BY <1>2, <2>1 DEF OwnerPassword, Worked
  <1>3. CASE AuthPassword
    BY <1>1, <1>3 DEF AuthPassword, Worked
  <1>4. CASE Release \/ RunScript
    BY <1>1, <1>4 DEF Release, RunScript, Worked
  <1>5. CASE UpdateConf \/ CopyConf \/ Kill
    BY <1>1, <1>5 DEF UpdateConf, CopyConf, Kill, Worked
  <1>6. CASE AddKey \/ TestKey
    BY <1>6 DEF AddKey, TestKey, AllInv, CtlInv, ActionInv, Worked
  <1>7. CASE Invoke \/ StartDevice \/ Finish \/ Cleanup \/ Reboot \/ KillProcess \/ Interrupt
             \/ ClearScript
    BY <1>1, <1>7 DEF Invoke, StartDevice, Finish, Cleanup, Reboot, KillProcess, Interrupt,
                ClearScript, Vanish, Calm, Worked
  <1>8. CASE Info \/ Prompt \/ Read \/ Test \/ EndChecking \/ StartWork
    BY <1>8 DEF Info, Prompt, Read, Test, EndChecking, StartWork, Worked
  <1>9. CASE ChooseFree \/ ChooseShared \/ GenerateKey \/ AskKey
    BY <1>9 DEF ChooseFree, ChooseShared, GenerateKey, AskKey, Worked
  <1>10. CASE UNCHANGED vars
    BY <1>1, <1>10 DEF vars, Worked
  <1> QED
    BY <1>2, <1>3, <1>4, <1>5, <1>6, <1>7, <1>8, <1>9, <1>10, DefineWorked, WriteWorked
       DEF Next, Step

-----------------------------------------------------------------------------
(* The claims.                                                             *)

(* A claim about a device stays true while its line and its area stay.     *)
LEMMA ClaimFrame ==
  ASSUME NEW text, NEW d, Claim(text, d),
         ConfSeen'[d].idx = ConfSeen[d].idx,
         ConfSeen[d].idx # NoIndex => nv'[ConfSeen[d].idx].pcr = nv[ConfSeen[d].idx].pcr
  PROVE  ConfSeen[d].idx # NoIndex \/ text \in {"", "skipped", "error"} => Claim(text, d)'
  BY DEF Claim, SaysSealed, SaysUnsealed

(* The text for a device on which nothing was to be done.                  *)
LEMMA NothingDoneClaim ==
  ASSUME AllInv, EndChecking
  PROVE  Claim(NothingDone, dev)
  <1>1. CASE verdict \in {"skip", "error"}
    BY <1>1 DEF NothingDone, Claim, SaysSealed, SaysUnsealed
  <1>2. CASE verdict = "ok"
    <2>1. /\ new = 0 /\ pc = "dispatch" /\ (usePcr <=> nv[nvIndex].pcr # NoPcr)
      BY <1>2 DEF EndChecking, AllInv, ReportInv, Checked
    <2>2. ConfSeen = conf /\ nvIndex = conf[dev].idx /\ nvIndex # NoIndex
      BY <2>1 DEF ConfSeen, AllInv, CtlInv, IndexInv, Index, NoIndex
    <2> QED
      BY <1>2, <2>1, <2>2 DEF NothingDone, Claim, SaysSealed, SaysUnsealed
  <1>3. verdict \in {"skip", "error", "ok"}
    BY DEF EndChecking, WorkToDo, AllInv, CtlInv, TypeOK, ReportInv, Checked
  <1> QED
    BY <1>1, <1>2, <1>3

(* A step that keeps the lines and the areas of the reported devices, and  *)
(* reports nothing or something true.                                      *)
LEMMA ReportsFrame ==
  ASSUME AllInv, cmd' = cmd,
         \A d \in Device : report[d] = "" \/
            /\ ConfSeen'[d].idx = ConfSeen[d].idx
            /\ ConfSeen[d].idx # NoIndex => nv'[ConfSeen[d].idx].pcr = nv[ConfSeen[d].idx].pcr,
         \/ UNCHANGED report
         \/ \E text : EndDevice(text) /\ dev' = dev /\ (cmd.dry \/ Claim(text, dev)')
  PROVE  ReportsHold'
  <1> SUFFICES ASSUME ~cmd.dry, NEW d \in Device PROVE Claim(report[d], d)'
    BY DEF ReportsHold
  <1>1. Claim("", d)'
    BY DEF Claim, SaysSealed, SaysUnsealed
  <1>2. Claim(report[d], d)
    BY DEF AllInv, ReportInv, ReportsHold
  <1>3. CASE report'[d] = report[d]
    <2>1. CASE report[d] = ""
      BY <1>1, <1>3, <2>1 DEF Claim, SaysSealed, SaysUnsealed
    <2>2. CASE report[d] # ""
      BY <1>2, <1>3, <2>2 DEF Claim, SaysSealed, SaysUnsealed
    <2> QED
      BY <2>1, <2>2
  <1>4. CASE report'[d] # report[d]
    <2>1. PICK text : EndDevice(text) /\ dev' = dev /\ Claim(text, dev)'
      BY <1>4
    <2>2. d = dev /\ report'[d] = text
      BY <1>4, <2>1 DEF AllInv, CtlInv, TypeOK
    <2> QED
      BY <2>1, <2>2 DEF Claim
  <1> QED
    BY <1>3, <1>4

(* A device that is skipped is reported so, which claims nothing.          *)
LEMMA QuietReports ==
  ASSUME Calm, AllInv,
         \/ StartDevice \/ Finish \/ Info \/ Prompt \/ Read \/ Test \/ StartWork
         \/ OwnerPassword \/ AuthPassword \/ ChooseFree \/ ChooseShared \/ GenerateKey
         \/ AddKey \/ AskKey \/ TestKey \/ RunScript
  PROVE  ReportsHold'
  <1>1. /\ UNCHANGED <<nv, conf, cmd>> /\ pc # "cp" /\ pc' # "cp"
        /\ UNCHANGED report \/ (EndDevice("skipped") /\ dev' = dev)
    <2>1. CASE StartDevice \/ Finish \/ Info \/ Prompt \/ Read \/ Test \/ StartWork
      BY <2>1 DEF StartDevice, Finish, Info, Prompt, Read, Test, StartWork
    <2>2. CASE OwnerPassword \/ AuthPassword \/ ChooseFree \/ ChooseShared
      BY <2>2 DEF OwnerPassword, AuthPassword, ChooseFree, ChooseShared
    <2>3. CASE GenerateKey \/ AddKey \/ AskKey \/ TestKey \/ RunScript
      BY <2>3 DEF GenerateKey, AddKey, AskKey, TestKey, RunScript
    <2> QED
      BY <2>1, <2>2, <2>3
  <1>2. ConfSeen' = ConfSeen
    BY <1>1, ConfSeenElsewhere
  <1>3. Claim("skipped", dev)'
    BY DEF Claim, SaysSealed, SaysUnsealed
  <1> QED
    BY <1>1, <1>2, <1>3, ReportsFrame

(* The report of a device on which there was nothing to do.                *)
LEMMA EndCheckingReports == AllInv /\ EndChecking => ReportsHold'
  <1> SUFFICES ASSUME AllInv, EndChecking PROVE ReportsHold'
    OBVIOUS
  <1>1. /\ UNCHANGED <<nv, conf, cmd, dev>> /\ pc # "cp" /\ pc' # "cp"
        /\ EndDevice(NothingDone)
    BY DEF EndChecking
  <1>2. ConfSeen' = ConfSeen
    BY <1>1, ConfSeenElsewhere
  <1> DEFINE text == NothingDone
  <1>3. Claim(text, dev)
    BY NothingDoneClaim
  <1>4. report' = [report EXCEPT ![dev] = text]
    BY <1>1
  <1> HIDE DEF text
  <1>5. \A t, d : ConfSeen'[d] = ConfSeen[d] /\ Claim(t, d) => Claim(t, d)'
    BY <1>1, <1>2 DEF Claim
  <1> SUFFICES ASSUME ~cmd.dry, NEW d \in Device PROVE Claim(report[d], d)'
    BY <1>1 DEF ReportsHold
  <1>6. report'[d] = IF d = dev THEN text ELSE report[d]
    BY <1>4 DEF AllInv, CtlInv, TypeOK
  <1>7. Claim(report[d], d)
    BY DEF AllInv, ReportInv, ReportsHold
  <1> QED
    BY <1>1, <1>2, <1>3, <1>6, <1>7 DEF Claim

(* nv_define_and_write changes the area of the device at hand only, and    *)
(* reports it sealed or unsealed when it is.                               *)
LEMMA AreaReports ==
  Calm /\ AllInv /\ (Release \/ Define \/ Write) => ReportsHold'
  <1> SUFFICES ASSUME Calm, AllInv, Release \/ Define \/ Write PROVE ReportsHold'
    OBVIOUS
  <1>1. /\ pc \in {"release", "define", "write"}
        /\ UNCHANGED <<conf, cmd, dev, pcrNow, nvIndex, new>> /\ ConfSeen = conf
        /\ ConfSeen' = conf
    BY DEF Release, Define, Write, AfterWrite, Resealed, ConfSeen
  <1>2. /\ nvIndex \in Index /\ dev \in Device
        /\ \A d \in Device : conf[d].idx = nvIndex => d = dev
        /\ nv \in [Index -> Area] /\ report[dev] = ""
        /\ \A d \in Device : conf[d].idx \in Index \cup {NoIndex}
    <2>1. nv \in [Index -> Area] /\ conf \in [Device -> ConfLine] /\ report[dev] = ""
      BY <1>1 DEF AllInv, CtlInv, TypeOK, StoreTypeOK, ReportInv, HandledOnce
    <2>2. /\ nvIndex \in Index /\ dev \in Device
          /\ \A d \in Device : conf[d].idx = nvIndex => d = dev
      BY <1>1, OthersElsewhere DEF AllInv
    <2>3. 0..MaxIndex = Index \cup {NoIndex}
      BY LimitAssumption DEF Index, NoIndex
    <2>4. \A d \in Device : conf[d].idx \in Index \cup {NoIndex}
      BY <2>1, <2>3 DEF ConfLine
    <2> QED
      BY <2>1, <2>2, <2>4
  <1>3. \A i \in Index \ {nvIndex} : nv'[i] = nv[i]
    BY <1>2 DEF Release, Define, Write, NvRelease, NvDefine, NvWrite
  <1>4. \A d \in Device : report[d] = "" \/
          /\ ConfSeen'[d].idx = ConfSeen[d].idx
          /\ ConfSeen[d].idx # NoIndex => nv'[ConfSeen[d].idx].pcr = nv[ConfSeen[d].idx].pcr
    BY <1>1, <1>2, <1>3
  <1>5. CASE UNCHANGED report
    BY <1>1, <1>4, <1>5, ReportsFrame
  <1>6. CASE Resealed /\ cmd.dry
    BY <1>1, <1>4, <1>6, ReportsFrame DEF Resealed
  <1>7. CASE Write /\ Resealed /\ cmd.action # "init" /\ NvWrite(nvIndex, keyFile)
    <2>1. new = 0 /\ pc = "write"
          /\ nv[nvIndex].pcr = IF cmd.action = "seal" THEN pcrNow ELSE NoPcr
      BY <1>7 DEF Write, AllInv, ReportInv, Worked
    <2>2. conf[dev].idx = nvIndex /\ nvIndex # NoIndex
      <3>1. conf[dev].idx = nvIndex
        BY <2>1 DEF AllInv, CtlInv, IndexInv
      <3>2. nvIndex \in Index
        BY <1>2
      <3>3. nvIndex # NoIndex
        BY <3>2 DEF Index, NoIndex
      <3> QED
        BY <3>1, <3>3
    <2>3. nv'[nvIndex].pcr = nv[nvIndex].pcr
      BY <1>2, <1>7 DEF NvWrite, Area
    <2>4. pcrNow # NoPcr
      BY StoreAssumption DEF AllInv, CtlInv, TypeOK, StoreTypeOK
    <2>5. CASE cmd.action = "seal"
      <3>1. Claim("sealed", dev)' /\ EndDevice("sealed")
        BY <1>1, <1>7, <2>1, <2>2, <2>3, <2>4, <2>5
           DEF Claim, SaysSealed, SaysUnsealed, Resealed
      <3> QED
        BY <1>1, <1>4, <3>1, ReportsFrame
    <2>6. CASE cmd.action # "seal"
      <3>1. Claim("unsealed", dev)' /\ EndDevice("unsealed")
        BY <1>1, <1>7, <2>1, <2>2, <2>3, <2>6
           DEF Claim, SaysSealed, SaysUnsealed, Resealed
      <3> QED
        BY <1>1, <1>4, <3>1, ReportsFrame
    <2> QED
      BY <2>5, <2>6
  <1>8. CASE Release
    BY <1>5, <1>8 DEF Release
  <1>9. CASE Define
    BY <1>5, <1>6, <1>9 DEF Define, AfterWrite
  <1>10. CASE Write
    BY <1>5, <1>7, <1>10 DEF Write, AfterWrite, KeyToWrite
  <1> QED
    BY <1>8, <1>9, <1>10

(* update_conf changes the line of a device that has no report yet.        *)
LEMMA ConfReports == Calm /\ AllInv /\ (UpdateConf \/ CopyConf) => ReportsHold'
  <1> SUFFICES ASSUME Calm, AllInv, UpdateConf \/ CopyConf PROVE ReportsHold'
    OBVIOUS
  <1>1. UNCHANGED <<nv, cmd, dev, report>> /\ pc \in {"conf", "cp"}
    BY DEF UpdateConf, CopyConf
  <1>2. report[dev] = "" /\ conf \in [Device -> ConfLine]
    BY <1>1 DEF AllInv, ReportInv, HandledOnce, CtlInv, TypeOK, StoreTypeOK
  <1>3. \A d \in Device : d # dev => ConfSeen'[d] = ConfSeen[d]
    BY <1>2, CalmConf DEF UpdateConf, CopyConf, ConfSeen, Calm
  <1> QED
    BY <1>1, <1>2, <1>3, ReportsFrame

(* A device is reported initialized when its area is bound to no PCR.      *)
LEMMA KillReports == Calm /\ AllInv /\ Kill => ReportsHold'
  <1> SUFFICES ASSUME Calm, AllInv, Kill PROVE ReportsHold'
    OBVIOUS
  <1>1. /\ UNCHANGED <<nv, conf, cmd, dev, nvIndex>> /\ ConfSeen = conf /\ ConfSeen' = conf
        /\ pc = "kill"
        /\ UNCHANGED report \/ EndDevice("initialized (unsealed)")
    BY DEF Kill, ConfSeen
  <1>2. CASE UNCHANGED report
    BY <1>1, <1>2, ReportsFrame
  <1>3. CASE EndDevice("initialized (unsealed)")
    <2>1. ~cmd.dry => conf[dev].idx = nvIndex /\ nvIndex # NoIndex /\ nv[nvIndex].pcr = NoPcr
      <3>1. nvIndex \in Index
        BY <1>1 DEF AllInv, CtlInv, IndexInv
      <3>2. nvIndex # NoIndex
        BY <3>1 DEF Index, NoIndex
      <3>3. ~cmd.dry => conf[dev].idx = nvIndex /\ nv[nvIndex].pcr = NoPcr
        BY <1>1, CalmDisk DEF AllInv, CtlInv, LineInv, ReportInv, Worked
      <3> QED
        BY <3>2, <3>3
    <2>2. ~cmd.dry => Claim("initialized (unsealed)", dev)'
      BY <1>1, <2>1 DEF Claim, SaysSealed, SaysUnsealed
    <2> QED
      BY <1>1, <1>3, <2>2, ReportsFrame
  <1> QED
    BY <1>1, <1>2, <1>3

(* A run begins, and ends, without reports.                                *)
LEMMA EndReports ==
  ASSUME AllInv, Invoke \/ Cleanup \/ Reboot PROVE ReportsHold'
  <1>1. report' = NoReport
    BY DEF Invoke, Cleanup, Reboot, Vanish, AllInv, ReportInv, HandledOnce
  <1> QED
    BY <1>1 DEF ReportsHold, Claim, NoReport, SaysSealed, SaysUnsealed

LEMMA ReportsStep == Calm /\ ~ConfEdits /\ AllInv /\ [Next]_vars => ReportsHold'
  <1> SUFFICES ASSUME Calm, ~ConfEdits, AllInv, [Next]_vars PROVE ReportsHold'
    OBVIOUS
  <1>1. ~Interrupt /\ ~KillProcess /\ ~ClearScript
    BY DEF Calm, Interrupt, KillProcess, ClearScript
  <1>2. CASE UNCHANGED vars
    <2>1. UNCHANGED <<cmd, report, nv, ConfSeen>>
      BY <1>2 DEF vars, ConfSeen
    <2> QED
      BY <2>1, ReportsFrame
  <1> QED
    BY <1>1, <1>2, QuietReports, EndCheckingReports, AreaReports, ConfReports, KillReports,
       EndReports
       DEF Next, Step

(* What a finished run reports is so: a device it calls ok, unchanged,     *)
(* initialized, sealed or unsealed has its key in the TPM, bound to the    *)
(* PCRs when it says sealed and free when it says unsealed.                *)
THEOREM ReportIsTrue == ASSUME Calm, ~ConfEdits PROVE Spec => []ReportTrue
  <1>1. Init => ReportInv
    <2> SUFFICES ASSUME Init PROVE ReportInv
      OBVIOUS
    <2>1. pc = "idle" /\ todo = {} /\ report = NoReport /\ conf = EmptyConf
      BY DEF Init, StoreInit
    <2>2. ReportsHold
      BY <2>1 DEF ReportsHold, Claim, NoReport, SaysSealed, SaysUnsealed
    <2>3. HandledOnce /\ ScriptsStay
      BY <2>1 DEF HandledOnce, ScriptsStay, ConfSeen, EmptyConf, Line
    <2>4. Checked /\ Worked
      BY <2>1 DEF Checked, Worked
    <2> QED
      BY <2>2, <2>3, <2>4 DEF ReportInv
  <1>2. CtlInv /\ CalmInv /\ ReportInv /\ [Next]_vars => ReportInv'
    BY HandledStep, ScriptsStep, CheckedStep, WorkedStep, ReportsStep DEF AllInv, ReportInv
  <1>3. CtlInv /\ CalmInv /\ ReportInv => ReportTrue
    <2> SUFFICES ASSUME CtlInv, CalmInv, ReportInv, pc = "finish", ~cmd.dry, NEW d \in Device
                 PROVE  /\ report[d] \notin {"", "skipped", "error"} => Escrowed(d)
                        /\ report[d] \in {"ok (sealed)", "unchanged (sealed)", "sealed"}
                             => Sealed(d)
                        /\ report[d] \in {"ok (unsealed)", "unchanged (unsealed)",
                                           "initialized (unsealed)", "unsealed"} => ~Sealed(d)
      BY DEF ReportTrue
    <2>1. Claim(report[d], d) /\ ConfSeen = conf /\ ~Rewriting
      BY DEF ReportInv, ReportsHold, ConfSeen, Rewriting
    <2>2. conf[d].idx # NoIndex => Escrowed(d)
      BY <2>1 DEF CalmInv, LinesOpen, Escrowed, Configured
    <2> QED
      BY <2>1, <2>2 DEF Claim, Sealed, SaysSealed, SaysUnsealed
  <1> QED
    BY <1>1, <1>2, <1>3, CtlInvariant, CalmInvariant, PTL DEF Spec
-----------------------------------------------------------------------------
(* Whatever fails, for the administrator of a single device who backs up.  *)

(* Device d opens with the passphrase, with a key on paper, or with a key  *)
(* in an area other than j.                                                *)
OpensWithout(d, j) ==
  \E s \in Slot :
    \/ slots[d][s] \in backup \cup {Passphrase}
    \/ \E i \in Index \ {j} : nv[i].size = "key" /\ nv[i].data = slots[d][s]

StillOpens == \A d \in Device : OpensWithout(d, NoIndex)

(* A run that may change something starts with what the TPM holds on       *)
(* paper, which stays so until the area of a configured device is released.*)
PaperInv ==
  /\ cmd.action \in {"init", "seal", "unseal"}
  /\ \/ pc = "next" /\ todo # {}
     \/ new = 0 /\ pc \in {"info", "prompt", "read", "test", "dispatch", "ownerpw", "choose",
                           "askkey", "testkey"}
  => BackedUp

(* While the area is rewritten the device does not depend on it: one with  *)
(* a line has its key on paper, another still has its passphrase.          *)
SpareInv ==
  pc \in {"authpw", "release", "perms", "define", "write"} /\ ~cmd.dry =>
    OpensWithout(dev, nvIndex)

OneAtATime == pc \notin {"idle", "next", "finish", "exit"} => todo = {}

PaperTrail == StillOpens /\ PaperInv /\ SpareInv /\ OneAtATime

(* Killing slots goes on, or ends with the next device.                    *)
LEMMA KillGoesOn ==
  ASSUME Kill
  PROVE  /\ pc = "kill" /\ pc' \in {"kill", "next"}
         /\ UNCHANGED <<conf, backup, todo, dev, new, nvIndex, cmd>>
  <1>1. pc = "kill" /\ UNCHANGED <<conf, backup, todo, dev, new, nvIndex, cmd>>
    BY ZenonT(40) DEF Kill, At, files, admin, invocation, device
  <1>2. pc' = pc \/ pc' = "next"
    BY ZenonT(40) DEF Kill, EndDevice, Goto
  <1> QED
    BY <1>1, <1>2

(* Nothing that was written down gets lost.                                *)
LEMMA PaperKept == [Next]_vars => backup \subseteq backup'
  <1> SUFFICES ASSUME [Next]_vars PROVE backup \subseteq backup'
    OBVIOUS
  <1>1. CASE StartDevice \/ Finish \/ Cleanup \/ Info \/ Prompt \/ Read \/ Test \/ EndChecking
    BY <1>1 DEF StartDevice, Finish, Cleanup, Info, Prompt, Read, Test, EndChecking
  <1>2. CASE StartWork \/ OwnerPassword \/ AuthPassword \/ ChooseFree \/ ChooseShared
             \/ GenerateKey \/ AddKey \/ AskKey \/ TestKey
    BY <1>2
       DEF StartWork, OwnerPassword, AuthPassword, ChooseFree, ChooseShared, GenerateKey,
           AddKey, AskKey, TestKey
  <1>3. CASE Release \/ RunScript \/ Define \/ Write \/ UpdateConf \/ CopyConf \/ Kill
    BY <1>3, KillGoesOn DEF Release, RunScript, Define, Write, UpdateConf, CopyConf
  <1>4. CASE Invoke \/ Interrupt \/ KillProcess \/ Reboot \/ ClearScript
    BY <1>4 DEF Invoke, Interrupt, KillProcess, Reboot, ClearScript
  <1>5. CASE UNCHANGED vars
    BY <1>5 DEF vars
  <1> QED
    BY <1>1, <1>2, <1>3, <1>4, <1>5 DEF Next, Step

(* What opens a device goes on to, while slots and areas stay.             *)
LEMMA OpensFrame ==
  ASSUME NEW d, NEW j, OpensWithout(d, j), UNCHANGED <<nv, slots>>, backup \subseteq backup'
  PROVE  \E s \in Slot :
           \/ slots'[d][s] \in backup' \cup {Passphrase}
           \/ \E i \in Index \ {j} : nv'[i].size = "key" /\ nv'[i].data = slots'[d][s]
  BY DEF OpensWithout

(* With the area of its line on paper, a device does not need the area.    *)
LEMMA PaperSpares ==
  ASSUME CtlInv, BackedUp, NEW d \in Device, OpensWithout(d, NoIndex), conf[d].idx \in Index
  PROVE  OpensWithout(d, conf[d].idx)
  <1> DEFINE j == conf[d].idx
  <1>1. PICK s \in Slot :
          \/ slots[d][s] \in backup \cup {Passphrase}
          \/ \E i \in Index \ {NoIndex} : nv[i].size = "key" /\ nv[i].data = slots[d][s]
    BY DEF OpensWithout
  <1>2. CASE slots[d][s] \in backup \cup {Passphrase}
    BY <1>2 DEF OpensWithout
  <1>3. CASE \E i \in Index \ {NoIndex} : nv[i].size = "key" /\ nv[i].data = slots[d][s]
    <2>1. PICK i \in Index : nv[i].size = "key" /\ nv[i].data = slots[d][s]
      BY <1>3
    <2>2. CASE i = j
      <3>1. nv[j].data # NoKey
        BY StoreAssumption DEF CtlInv, TypeOK, StoreTypeOK, Area, Secret
      <3>2. Configured(d) /\ HoldsKeyOf(j, d)
        BY <2>1, <2>2, <3>1 DEF Configured, HoldsKeyOf, Opens, Index, NoIndex
      <3>3. nv[j].data \in backup
        BY <3>2 DEF BackedUp
      <3> QED
        BY <2>1, <2>2, <3>3 DEF OpensWithout
    <2>3. CASE i # j
      BY <2>1, <2>3 DEF OpensWithout
    <2> QED
      BY <2>2, <2>3
  <1> QED
    BY <1>1, <1>2, <1>3

(* A single device is handled once.                                        *)
LEMMA OneAtATimeStep ==
  ASSUME NEW d, Device = {d}, CtlInv, OneAtATime, [Next]_vars
  PROVE  OneAtATime'
  <1>1. CASE StartDevice
    BY <1>1 DEF StartDevice, CtlInv, TypeOK, OneAtATime
  <1>2. CASE Invoke \/ Finish \/ Cleanup \/ Interrupt \/ KillProcess \/ Reboot
    BY <1>2 DEF Invoke, Finish, Cleanup, Interrupt, KillProcess, Reboot, Vanish, OneAtATime
  <1>3. CASE Info \/ Prompt \/ Read \/ Test \/ EndChecking \/ StartWork
    BY <1>3 DEF Info, Prompt, Read, Test, EndChecking, StartWork, OneAtATime
  <1>4. CASE OwnerPassword \/ AuthPassword \/ ChooseFree \/ ChooseShared \/ GenerateKey
             \/ AddKey \/ AskKey \/ TestKey
    BY <1>4 DEF OwnerPassword, AuthPassword, ChooseFree, ChooseShared, GenerateKey,
                AddKey, AskKey, TestKey, OneAtATime
  <1>5. CASE Release \/ RunScript \/ Define \/ Write \/ UpdateConf \/ CopyConf \/ Kill
    BY <1>5, KillGoesOn DEF Release, RunScript, Define, Write, UpdateConf, CopyConf, OneAtATime
  <1>6. CASE ClearScript \/ UNCHANGED vars
    BY <1>6 DEF ClearScript, vars, OneAtATime
  <1> QED
    BY <1>1, <1>2, <1>3, <1>4, <1>5, <1>6 DEF Next, Step

(* The steps before the area is released leave what is on paper true.      *)
LEMMA PaperStep ==
  ASSUME BackupFirst, NEW d, Device = {d}, CtlInv, PaperInv, OneAtATime, [Next]_vars
  PROVE  PaperInv'
  <1>1. BackedUp /\ UNCHANGED <<nv, slots, conf, backup>> => BackedUp'
    BY DEF BackedUp, Configured, HoldsKeyOf, Opens
  <1>2. CASE Invoke
    <2>1. /\ UNCHANGED <<nv, slots, conf, backup>> /\ pc' = "next"
          /\ cmd'.action \in {"init", "seal", "unseal"} => BackedUp
      BY <1>2 DEF Invoke
    <2> QED
      BY <1>1, <2>1 DEF PaperInv
  <1>3. CASE StartDevice
    <2>1. /\ UNCHANGED <<nv, slots, conf, backup, cmd>> /\ pc = "next" /\ todo # {}
          /\ pc' # "next"
      BY <1>3 DEF StartDevice
    <2> QED
      BY <1>1, <2>1 DEF PaperInv
  <1>4. CASE Info \/ Prompt \/ Read \/ Test \/ EndChecking \/ StartWork \/ OwnerPassword
    <2>1. /\ UNCHANGED <<nv, slots, conf, backup, cmd, todo>>
          /\ pc \in {"info", "prompt", "read", "test", "dispatch", "ownerpw"}
          /\ new' = 0 => new = 0
      BY <1>4, InfoFrame DEF Prompt, Read, Test, EndChecking, StartWork, OwnerPassword
    <2>2. todo' = {}
      BY <2>1 DEF OneAtATime
    <2> QED
      BY <1>1, <2>1, <2>2 DEF PaperInv
  <1>5. CASE AuthPassword \/ ChooseFree \/ ChooseShared \/ GenerateKey \/ AddKey
    <2>1. /\ UNCHANGED <<todo>> /\ todo = {}
          /\ pc' \notin {"info", "prompt", "read", "test", "dispatch", "ownerpw", "choose",
                         "askkey", "testkey"}
      BY <1>5 DEF AuthPassword, ChooseFree, ChooseShared, GenerateKey, AddKey, OneAtATime
    <2> QED
      BY <2>1 DEF PaperInv
  <1>6. CASE AskKey \/ TestKey
    <2>1. /\ UNCHANGED <<nv, slots, conf, backup, cmd, todo, new>> /\ pc \in {"askkey", "testkey"}
          /\ todo = {}
      BY <1>6 DEF AskKey, TestKey, OneAtATime
    <2> QED
      BY <1>1, <2>1 DEF PaperInv
  <1>7. CASE Release \/ RunScript \/ Define \/ Write \/ UpdateConf \/ CopyConf \/ Kill
    <2>1. /\ UNCHANGED <<todo>> /\ todo = {}
          /\ pc' \in {"perms", "define", "write", "conf", "cp", "kill", "next", "exit"}
      BY <1>7, KillGoesOn DEF Release, RunScript, Define, Write, UpdateConf, CopyConf,
                              OneAtATime, AfterWrite, Resealed
    <2> QED
      BY <2>1 DEF PaperInv
  <1>8. CASE Finish \/ Cleanup \/ Interrupt \/ KillProcess \/ Reboot
    BY <1>8 DEF Finish, Cleanup, Interrupt, KillProcess, Reboot, Vanish, PaperInv
  <1>9. CASE ClearScript
    BY <1>9 DEF ClearScript, PaperInv
  <1>10. CASE UNCHANGED vars
    BY <1>1, <1>10 DEF vars, PaperInv
  <1> QED
    BY <1>2, <1>3, <1>4, <1>5, <1>6, <1>7, <1>8, <1>9, <1>10 DEF Next, Step

(* What a step takes from the TPM lies in the area at hand, and a dry run  *)
(* takes nothing.                                                          *)
LEMMA AreaAtHand ==
  ASSUME CtlInv, [Next]_vars, nv' # nv
  PROVE  /\ pc \in {"release", "define", "write"} /\ ~cmd.dry
         /\ \A i \in Index \ {nvIndex} : nv'[i] = nv[i]
         /\ UNCHANGED <<slots, backup, dev, nvIndex, cmd>>
  <1>1. /\ pc \in {"release", "define", "write"}
        /\ UNCHANGED <<slots, backup, dev, nvIndex, cmd>>
        /\ nv \in [Index -> Area] /\ nvIndex \in Index
    BY AreaWriters DEF Release, Define, Write, CtlInv, TypeOK, StoreTypeOK, IndexInv
  <1>2. CASE Release
    BY <1>1, <1>2, ReleaseStep DEF NvRelease, ToRelease
  <1>3. CASE Define
    BY <1>1, <1>3 DEF Define, NvDefine, NvRelease
  <1>4. CASE Write
    BY <1>1, <1>4 DEF Write, NvWrite, NvRelease, CtlInv, ActionInv
  <1> QED
    BY <1>1, <1>2, <1>3, <1>4, AreaWriters

(* Before the key is written the device opens without it; then it is the   *)
(* area that keeps it open when other slots are killed.                    *)
LEMMA OpensStep ==
  ASSUME CtlInv, NEW d, Device = {d}, StillOpens, SpareInv, [Next]_vars
  PROVE  StillOpens'
  <1> SUFFICES OpensWithout(d, NoIndex)'
    BY DEF StillOpens
  <1>1. OpensWithout(d, NoIndex) /\ backup \subseteq backup'
    BY PaperKept DEF StillOpens
  <1>2. CASE UNCHANGED <<nv, slots>>
    BY <1>1, <1>2, OpensFrame DEF OpensWithout
  <1>3. CASE nv' # nv
    <2>1. /\ pc \in {"release", "define", "write"} /\ ~cmd.dry
          /\ \A i \in Index \ {nvIndex} : nv'[i] = nv[i]
          /\ UNCHANGED <<slots, backup>>
      BY <1>3, AreaAtHand
    <2>2. dev = d /\ OpensWithout(dev, nvIndex)
      BY <2>1 DEF SpareInv, CtlInv, TypeOK
    <2> QED
      BY <2>1, <2>2 DEF OpensWithout, Index, NoIndex
  <1>4. CASE AddKey /\ slots' # slots
    <2>1. UNCHANGED <<nv, backup>> /\ dev = d
      BY <1>4 DEF AddKey, CtlInv, TypeOK
    <2>2. PICK s \in Slot : slots[d][s] = NoKey /\ slots' = [slots EXCEPT ![d][s] = keyFile]
      BY <1>4, <2>1, AddKeyStep DEF LuksSetSlot
    <2>3. \A r \in Slot : slots[d][r] # NoKey => slots'[d][r] = slots[d][r]
      BY <2>2 DEF CtlInv, TypeOK, StoreTypeOK
    <2>4. /\ NoKey \notin backup \cup {Passphrase}
          /\ \A i \in Index : nv[i].data # NoKey
      BY StoreAssumption DEF CtlInv, TypeOK, StoreTypeOK, Area, Secret
    <2>5. PICK r \in Slot :
            \/ slots[d][r] \in backup \cup {Passphrase}
            \/ \E i \in Index \ {NoIndex} : nv[i].size = "key" /\ nv[i].data = slots[d][r]
      BY <1>1 DEF OpensWithout
    <2>6. slots'[d][r] = slots[d][r]
      BY <2>3, <2>4, <2>5
    <2> QED
      BY <2>1, <2>5, <2>6 DEF OpensWithout
  <1>5. CASE Kill /\ slots' # slots
    <2>1. dev = d /\ UNCHANGED nv
      BY <1>5, KillStep DEF CtlInv, TypeOK
    <2>2. /\ nvIndex \in Index /\ nv[nvIndex].size = "key" /\ nv[nvIndex].data = keyFile
          /\ \E s \in Slot : slots'[dev][s] = keyFile
      BY <1>5, KillKeepsKey DEF Stored
    <2>3. PICK s \in Slot : slots'[d][s] = nv'[nvIndex].data
      BY <2>1, <2>2
    <2> QED
      BY <2>1, <2>2, <2>3 DEF OpensWithout, Index, NoIndex
  <1> QED
    BY <1>2, <1>3, <1>4, <1>5, SlotWriters

(* The device at hand keeps what spares it the area.                       *)
LEMMA SpareStep ==
  ASSUME CtlInv, NEW d, Device = {d}, StillOpens, PaperInv, SpareInv, [Next]_vars
  PROVE  SpareInv'
  <1> DEFINE Labels == {"authpw", "release", "perms", "define", "write"}
  <1> SUFFICES ASSUME pc' \in Labels, ~cmd'.dry PROVE OpensWithout(dev, nvIndex)'
    BY DEF SpareInv
  <1>1. CASE pc \in Labels /\ UNCHANGED <<slots, backup, dev, nvIndex, cmd>>
                           /\ \A i \in Index \ {nvIndex} : nv'[i] = nv[i]
    BY <1>1 DEF SpareInv, OpensWithout
  <1>2. CASE Release \/ RunScript \/ Define \/ Write \/ AuthPassword \/ UNCHANGED vars
    <2>1. pc \in Labels /\ UNCHANGED <<slots, backup, dev, nvIndex, cmd>>
      BY <1>2 DEF Release, RunScript, Define, Write, AuthPassword, vars
    <2>2. \A i \in Index \ {nvIndex} : nv'[i] = nv[i]
      BY AreaAtHand
    <2> QED
      BY <1>1, <2>1, <2>2
  <1>3. CASE OwnerPassword \/ TestKey
    <2>1. /\ UNCHANGED <<nv, slots, conf, backup, dev, nvIndex, cmd, new>>
          /\ pc \in {"ownerpw", "testkey"} /\ dev = d
      BY <1>3 DEF OwnerPassword, TestKey, CtlInv, TypeOK
    <2>2. new = 0 /\ cmd.action \in {"init", "seal", "unseal"}
      <3>1. CASE TestKey
        BY <3>1 DEF TestKey, CtlInv, IndexInv, ActionInv
      <3>2. CASE OwnerPassword
        <4>1. pc = "ownerpw" /\ cmd.action # "init"
          BY <3>2 DEF OwnerPassword
        <4> QED
          BY <4>1 DEF CtlInv, ActionInv, WorkToDo
      <3> QED
        BY <1>3, <3>1, <3>2
    <2>3. BackedUp /\ nvIndex \in Index /\ nvIndex = conf[d].idx
      BY <2>1, <2>2 DEF PaperInv, CtlInv, IndexInv
    <2>4. OpensWithout(d, nvIndex)
      BY <2>3, PaperSpares DEF StillOpens
    <2> QED
      BY <2>1, <2>4 DEF OpensWithout
  <1>4. CASE AddKey
    <2>1. UNCHANGED <<nv, backup, dev, cmd>> /\ dev = d /\ pc' = "authpw"
      BY <1>4 DEF AddKey, CtlInv, TypeOK
    <2>2. Opens(d, Passphrase)
      BY <1>4, <2>1 DEF AddKey, Outcomes
    <2>3. PICK r \in Slot : slots[d][r] = Passphrase
      BY <2>2 DEF Opens
    <2>4. slots'[d][r] = Passphrase
      <3>1. CASE UNCHANGED slots
        BY <2>3, <3>1
      <3>2. CASE \E s \in Slot : slots[dev][s] = NoKey /\ LuksSetSlot(dev, s, keyFile)
        <4>1. Passphrase # NoKey
          BY StoreAssumption DEF Secret
        <4> QED
          BY <2>1, <2>3, <3>2, <4>1 DEF LuksSetSlot, CtlInv, TypeOK, StoreTypeOK
      <3> QED
        BY <1>4, <3>1, <3>2, AddKeyStep
    <2> QED
      BY <2>1, <2>4 DEF OpensWithout
  <1>5. CASE \/ Invoke \/ StartDevice \/ Finish \/ Cleanup \/ Info \/ Prompt \/ Read \/ Test
             \/ EndChecking \/ StartWork \/ ChooseFree \/ ChooseShared \/ GenerateKey \/ AskKey
    BY <1>5 DEF Invoke, StartDevice, Finish, Cleanup, Vanish, Info, Prompt, Read, Test,
                EndChecking, StartWork, ChooseFree, ChooseShared, GenerateKey, AskKey
  <1>6. CASE UpdateConf \/ CopyConf \/ Kill \/ Interrupt \/ KillProcess \/ Reboot \/ ClearScript
    BY <1>6, KillGoesOn
       DEF UpdateConf, CopyConf, Interrupt, KillProcess, Reboot, ClearScript, Vanish
  <1> QED
    BY <1>2, <1>3, <1>4, <1>5, <1>6 DEF Next, Step

(* An administrator of one device who backs up before each change is never *)
(* locked out of it, whichever commands fail, wherever the script is       *)
(* stopped or the power lost, with or without -i and passwords.            *)
THEOREM BackupsSuffice ==
  ASSUME BackupFirst, NEW d, Device = {d}
  PROVE  Spec => []KeyKept
  <1>1. Init => PaperTrail
    <2> SUFFICES ASSUME Init PROVE PaperTrail
      OBVIOUS
    <2>1. StillOpens
      <3>1. 0 \in Slot /\ slots[d][0] = Passphrase
        BY StoreAssumption DEF Init, StoreInit, Slot
      <3> QED
        BY <3>1 DEF StillOpens, OpensWithout
    <2> QED
      BY <2>1 DEF Init, NoCommand, PaperTrail, PaperInv, SpareInv, OneAtATime
  <1>2. CtlInv /\ PaperTrail /\ [Next]_vars => PaperTrail'
    BY OpensStep, PaperStep, SpareStep, OneAtATimeStep DEF PaperTrail
  <1>3. PaperTrail => KeyKept
    BY DEF PaperTrail, StillOpens, OpensWithout, KeyKept
  <1> QED
    BY <1>1, <1>2, <1>3, CtlInvariant, PTL DEF Spec
=============================================================================
