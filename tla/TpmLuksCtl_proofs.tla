---------------------------- MODULE TpmLuksCtl_proofs ----------------------------
(***************************************************************************)
(* tpm-luks-ctl, for any number of devices, slots, keys and indexes, any   *)
(* sequence of runs, any command failing and the script stopped anywhere.  *)
(* CtlInv is inductive: one lemma per action, one step per part of it.     *)
(* The action properties and the refinement of KeyEscrow follow from it.   *)
(***************************************************************************)
EXTENDS TpmLuksCtl, TLAPS

USE DEF At, Goto, Abort, EndDevice, NewConf,
        store, files, admin, outside, invocation, device, flags, passwords, progress, output

(* The values variables are reset to have their types.                     *)
LEMMA ResetTypes ==
  /\ NoCommand \in Command
  /\ NoReport \in [Device -> Report]
  /\ EmptyConf \in [Device -> ConfLine]
  /\ \A i \in 0..MaxIndex : Line(i) \in ConfLine
  /\ Absent \in Area
  <1> USE LimitAssumption
  <1>1. NoCommand \in Command
    BY DEF NoCommand, Command, Perm
  <1>2. NoReport \in [Device -> Report]
    BY DEF NoReport, Report
  <1>3. \A i \in 0..MaxIndex : Line(i) \in ConfLine
    BY DEF Line, ConfLine
  <1>4. EmptyConf \in [Device -> ConfLine]
    BY <1>3 DEF EmptyConf, NoIndex
  <1>5. Absent \in Area
    BY DEF Absent, Area, Data, Perm
  <1> QED
    BY <1>1, <1>2, <1>3, <1>4, <1>5

(* A file that is cut short is still a file of lines, and may be whole or  *)
(* empty.                                                                  *)
LEMMA CutShortFiles ==
  ASSUME NEW file \in [Device -> ConfLine]
  PROVE  /\ CutShort(file) \subseteq [Device -> ConfLine]
         /\ file \in CutShort(file) /\ EmptyConf \in CutShort(file)
  <1>1. \A d \in Device : {file[d], Line(NoIndex)} \subseteq Remains(file[d])
    BY DEF Remains
  <1>2. EmptyConf \in [Device -> ConfLine] /\ \A d \in Device : EmptyConf[d] = Line(NoIndex)
    BY ResetTypes DEF EmptyConf
  <1> QED
    BY <1>1, <1>2 DEF CutShort

(* The end of the process leaves every variable with its type.            *)
LEMMA VanishTypes ==
  ASSUME CtlInv, Vanish
  PROVE  /\ confNew' \in [Device -> ConfLine] /\ printed' \subseteq Data
         /\ pc' \in PC /\ cmd' \in Command /\ useIndex' \in -1..MaxIndex
         /\ todo' \subseteq Device /\ dev' \in Device \cup {NoDevice}
         /\ nvIndex' \in 0..MaxIndex /\ new' \in 0..2 /\ slot' \in 0..LastSlot
         /\ report' \in [Device -> Report]
  BY ResetTypes, LimitAssumption, StoreAssumption DEF Vanish, PC, NoIndex

(* A command that must not succeed does not.                               *)
LEMMA OutcomesSound ==
  ASSUME NEW b \in BOOLEAN
  PROVE  Outcomes(b) \subseteq BOOLEAN /\ (TRUE \in Outcomes(b) => b)
  BY DEF Outcomes

(* Where the script goes when the area is written.                         *)
LEMMA AfterWriteCases ==
  ASSUME TypeOK, dev \in Device, AfterWrite
  PROVE  /\ report' \in [Device -> Report]
         /\ \/ cmd.action # "init" /\ pc' = "next"
            \/ cmd.action = "init" /\ new = 0 /\ pc' = "kill"
            \/ cmd.action = "init" /\ new # 0 /\ pc' = "conf"
  BY DEF TypeOK, AfterWrite, Resealed, Report

(* The administrator starts the script: nothing is chosen yet.             *)
LEMMA InvokeInv == CtlInv /\ Invoke => CtlInv'
  <1> SUFFICES ASSUME CtlInv, Invoke PROVE CtlInv'
    OBVIOUS
  <1> USE LimitAssumption, CtlAssumption DEF CtlInv
  <1>1. TypeOK'
    BY DEF TypeOK, StoreTypeOK, PC, Invoke, Command, Index
  <1>2. IndexInv'
    BY DEF IndexInv, Invoke
  <1>3. ActionInv'
    BY DEF ActionInv, Invoke
  <1>4. KeyInv'
    BY DEF KeyInv, Invoke
  <1>5. LineInv'
    BY DEF LineInv, Invoke
  <1> QED
    BY <1>1, <1>2, <1>3, <1>4, <1>5

(* The head of loop takes NV_INDEX from the line of the device.            *)
LEMMA StartDeviceInv == CtlInv /\ StartDevice => CtlInv'
  <1> SUFFICES ASSUME CtlInv, StartDevice PROVE CtlInv'
    OBVIOUS
  <1> USE DEF CtlInv
  <1>1. TypeOK'
    <2>1. PICK d \in todo :
            /\ todo' = todo \ {d} /\ dev' = d /\ nvIndex' = conf[d].idx
            /\ IF Configured(d)
                 THEN new' = 0 /\ verdict' = "none" /\ Goto("info")
                 ELSE new' = 1 /\ verdict' = "error" /\ Goto("dispatch")
      BY DEF StartDevice
    <2>2. nvIndex' \in 0..MaxIndex
      BY <2>1 DEF TypeOK, StoreTypeOK, ConfLine
    <2> QED
      BY <2>1, <2>2 DEF TypeOK, StoreTypeOK, PC, StartDevice
  <1>2. IndexInv'
    <2>1. PICK d \in todo :
            /\ dev' = d /\ nvIndex' = conf[d].idx
            /\ IF Configured(d) THEN new' = 0 /\ Goto("info") ELSE new' = 1 /\ Goto("dispatch")
      BY DEF StartDevice
    <2>2. conf[d].idx \in 0..MaxIndex
      BY <2>1 DEF TypeOK, StoreTypeOK, ConfLine
    <2> QED
      BY <2>1, <2>2 DEF IndexInv, StartDevice, Configured, Index, NoIndex
  <1>3. ActionInv'
    BY DEF ActionInv, StartDevice
  <1>4. KeyInv'
    BY DEF KeyInv, StartDevice
  <1>5. LineInv'
    BY DEF LineInv, StartDevice
  <1> QED
    BY <1>1, <1>2, <1>3, <1>4, <1>5

(* The report is printed.                                                  *)
LEMMA FinishInv == CtlInv /\ Finish => CtlInv'
  <1> SUFFICES ASSUME CtlInv, Finish PROVE CtlInv'
    OBVIOUS
  <1> USE DEF CtlInv
  <1>1. TypeOK'
    BY DEF TypeOK, StoreTypeOK, PC, Finish
  <1>2. IndexInv'
    BY DEF IndexInv, Finish
  <1>3. ActionInv'
    BY DEF ActionInv, Finish
  <1>4. KeyInv'
    BY DEF KeyInv, Finish
  <1>5. LineInv'
    BY DEF LineInv, Finish
  <1> QED
    BY <1>1, <1>2, <1>3, <1>4, <1>5

(* The EXIT trap: the process and its variables are gone.                  *)
LEMMA CleanupInv == CtlInv /\ Cleanup => CtlInv'
  <1> SUFFICES ASSUME CtlInv, Cleanup PROVE CtlInv'
    OBVIOUS
  <1> USE DEF CtlInv
  <1>1. TypeOK'
    BY VanishTypes DEF TypeOK, StoreTypeOK, Cleanup, Vanish
  <1>2. IndexInv'
    BY DEF IndexInv, Cleanup, Vanish
  <1>3. ActionInv'
    BY DEF ActionInv, Cleanup, Vanish
  <1>4. KeyInv'
    BY DEF KeyInv, Cleanup, Vanish
  <1>5. LineInv'
    BY DEF LineInv, Cleanup, Vanish
  <1> QED
    BY <1>1, <1>2, <1>3, <1>4, <1>5

(* nv_info only sets flags.                                                *)
LEMMA InfoInv == CtlInv /\ Info => CtlInv'
  <1> SUFFICES ASSUME CtlInv, Info PROVE CtlInv'
    OBVIOUS
  <1> USE DEF CtlInv
  <1>1. TypeOK'
    <2>1. (usePcr \in BOOLEAN /\ needAuth \in BOOLEAN /\ needOwner \in BOOLEAN)'
      <3>1. \A b \in BOOLEAN : Outcomes(b) \subseteq BOOLEAN
        BY OutcomesSound
      <3>2. (needAuth \in BOOLEAN /\ needOwner \in BOOLEAN)'
        BY DEF TypeOK, Info
      <3>3. AreaUsesPcr \in BOOLEAN
        BY DEF AreaUsesPcr
      <3> QED
        BY <3>1, <3>2, <3>3 DEF Info
    <2>2. pc' \in {"prompt", "dispatch"} /\ verdict' \in {verdict, "error"}
      BY DEF Info
    <2> QED
      BY <2>1, <2>2 DEF TypeOK, StoreTypeOK, PC, Info
  <1>2. IndexInv'
    BY DEF IndexInv, Info
  <1>3. ActionInv'
    BY DEF ActionInv, Info
  <1>4. KeyInv'
    BY DEF KeyInv, Info
  <1>5. LineInv'
    BY DEF LineInv, Info
  <1> QED
    BY <1>1, <1>2, <1>3, <1>4, <1>5

(* A password prompt of the checks sets a password or skips the device.    *)
LEMMA PromptInv == CtlInv /\ Prompt => CtlInv'
  <1> SUFFICES ASSUME CtlInv, Prompt PROVE CtlInv'
    OBVIOUS
  <1> USE DEF CtlInv
  <1>1. TypeOK'
    <2>1. (authPw \in BOOLEAN)' /\ (ownerPw \in {"none", "right", "wrong"})'
      BY DEF TypeOK, Prompt, AuthAnswers, OwnerAnswers
    <2>2. pc' \in {"dispatch", "read"} /\ verdict' \in {"skip", verdict}
      BY DEF Prompt
    <2> QED
      BY <2>1, <2>2 DEF TypeOK, StoreTypeOK, PC, Prompt
  <1>2. IndexInv'
    BY DEF IndexInv, Prompt
  <1>3. ActionInv'
    BY DEF ActionInv, Prompt
  <1>4. KeyInv'
    BY DEF KeyInv, Prompt
  <1>5. LineInv'
    BY DEF LineInv, Prompt
  <1> QED
    BY <1>1, <1>2, <1>3, <1>4, <1>5

(* nv_read fills the key file with what the area holds.                    *)
LEMMA ReadInv == CtlInv /\ Read => CtlInv'
  <1> SUFFICES ASSUME CtlInv, Read PROVE CtlInv'
    OBVIOUS
  <1> USE DEF CtlInv
  <1>1. TypeOK'
    BY DEF TypeOK, StoreTypeOK, PC, IndexInv, Read, Area
  <1>2. IndexInv'
    BY DEF IndexInv, Read
  <1>3. ActionInv'
    BY DEF ActionInv, Read
  <1>4. KeyInv'
    BY DEF KeyInv, Read
  <1>5. LineInv'
    BY DEF LineInv, Read
  <1> QED
    BY <1>1, <1>2, <1>3, <1>4, <1>5

(* luks_test_key: verdict `reseal' means that the key file opens the device. *)
LEMMA TestInv == CtlInv /\ Test => CtlInv'
  <1> SUFFICES ASSUME CtlInv, Test PROVE CtlInv'
    OBVIOUS
  <1> USE DEF CtlInv
  <1>1. TypeOK'
    BY DEF TypeOK, StoreTypeOK, PC, Test
  <1>2. IndexInv'
    BY DEF IndexInv, Test
  <1>3. ActionInv'
    BY DEF IndexInv, ActionInv, Opens, Test, Outcomes
  <1>4. KeyInv'
    BY DEF KeyInv, Test
  <1>5. LineInv'
    BY DEF LineInv, Test
  <1> QED
    BY <1>1, <1>2, <1>3, <1>4, <1>5

(* The device is reported and done with.                                   *)
LEMMA EndCheckingInv == CtlInv /\ EndChecking => CtlInv'
  <1> SUFFICES ASSUME CtlInv, EndChecking PROVE CtlInv'
    OBVIOUS
  <1> USE LimitAssumption, StoreAssumption, CtlAssumption DEF CtlInv
  <1>1. TypeOK'
    BY DEF TypeOK, StoreTypeOK, PC, IndexInv, EndChecking, NothingDone, WorkToDo, Report
  <1>2. IndexInv'
    BY DEF IndexInv, EndChecking
  <1>3. ActionInv'
    BY DEF ActionInv, EndChecking
  <1>4. KeyInv'
    BY DEF KeyInv, EndChecking
  <1>5. LineInv'
    BY DEF LineInv, EndChecking
  <1> QED
    BY <1>1, <1>2, <1>3, <1>4, <1>5

(* Only init gets here without a line, and then -i may give the index.     *)
LEMMA StartWorkInv == CtlInv /\ StartWork => CtlInv'
  <1> SUFFICES ASSUME CtlInv, StartWork PROVE CtlInv'
    OBVIOUS
  <1> USE DEF CtlInv
  <1>1. TypeOK'
    BY DEF TypeOK, StoreTypeOK, PC, StartWork
  <1>2. IndexInv'
    <2>1. CASE new = 1 /\ useIndex > 0
      <3>1. nvIndex' = useIndex /\ new' = 2 /\ pc' = "ownerpw"
        BY <2>1 DEF StartWork
      <3>2. useIndex \in Index
        BY <2>1 DEF TypeOK, Index
      <3> QED
        BY <3>1, <3>2 DEF IndexInv
    <2>2. CASE ~(new = 1 /\ useIndex > 0)
      BY <2>2 DEF IndexInv, StartWork
    <2> QED
      BY <2>1, <2>2
  <1>3. ActionInv'
    BY DEF ActionInv, Opens, StartWork, WorkToDo
  <1>4. KeyInv'
    BY DEF KeyInv, StartWork
  <1>5. LineInv'
    BY DEF LineInv, StartWork
  <1> QED
    BY <1>1, <1>2, <1>3, <1>4, <1>5

(* The owner's password leads to the three ways to a key file.             *)
LEMMA OwnerPasswordInv == CtlInv /\ OwnerPassword => CtlInv'
  <1> SUFFICES ASSUME CtlInv, OwnerPassword PROVE CtlInv'
    OBVIOUS
  <1> USE DEF CtlInv
  <1>0. \/ ownerPw' = "none" /\ EndDevice("skipped")
        \/ /\ UNCHANGED report
           /\ \/ cmd.action # "init" /\ pc' = "authpw"
              \/ cmd.action = "init" /\ new = 0 /\ pc' = "askkey"
              \/ cmd.action = "init" /\ new # 0 /\ pc' = "choose"
    BY DEF OwnerPassword
  <1>1. TypeOK'
    <2>1. (ownerPw \in {"none", "right", "wrong"})'
      BY DEF TypeOK, OwnerPassword, OwnerAnswers
    <2>2. report' \in [Device -> Report]
      BY <1>0 DEF TypeOK, Report
    <2> QED
      BY <1>0, <2>1, <2>2 DEF TypeOK, StoreTypeOK, PC, OwnerPassword
  <1>2. IndexInv'
    BY <1>0 DEF IndexInv, ActionInv, WorkToDo, OwnerPassword
  <1>3. ActionInv'
    BY <1>0 DEF ActionInv, WorkToDo, OwnerPassword
  <1>4. KeyInv'
    BY <1>0 DEF ActionInv, WorkToDo, KeyInv, Opens, OwnerPassword
  <1>5. LineInv'
    BY <1>0 DEF LineInv
  <1> QED
    BY <1>1, <1>2, <1>3, <1>4, <1>5

(* The AUTH password: with -i the area is left as it is.                   *)
LEMMA AuthPasswordInv == CtlInv /\ AuthPassword => CtlInv'
  <1> SUFFICES ASSUME CtlInv, AuthPassword PROVE CtlInv'
    OBVIOUS
  <1> USE DEF CtlInv
  <1>0. \/ EndDevice("skipped")
        \/ UNCHANGED report /\ pc' = IF new = 2 THEN "conf" ELSE "release"
    BY DEF AuthPassword
  <1>1. TypeOK'
    <2>1. (authPw \in BOOLEAN)'
      BY DEF TypeOK, AuthPassword, AuthAnswers
    <2>2. report' \in [Device -> Report]
      BY <1>0 DEF TypeOK, Report
    <2> QED
      BY <1>0, <2>1, <2>2 DEF TypeOK, StoreTypeOK, PC, AuthPassword
  <1>2. IndexInv'
    BY DEF IndexInv, AuthPassword
  <1>3. ActionInv'
    BY <1>0 DEF ActionInv, AuthPassword
  <1>4. KeyInv'
    BY DEF KeyInv, Opens, Stored, AuthPassword
  <1>5. LineInv'
    BY DEF LineInv, AuthPassword
  <1> QED
    BY <1>1, <1>2, <1>3, <1>4, <1>5

(* find_free_nv_index hands out an index from 2 up.                        *)
LEMMA ChooseFreeInv == CtlInv /\ ChooseFree => CtlInv'
  <1> SUFFICES ASSUME CtlInv, ChooseFree PROVE CtlInv'
    OBVIOUS
  <1> USE DEF CtlInv
  <1>1. TypeOK'
    BY DEF TypeOK, StoreTypeOK, PC, ChooseFree, Index
  <1>2. IndexInv'
    BY DEF IndexInv, ChooseFree
  <1>3. ActionInv'
    BY DEF ActionInv, ChooseFree
  <1>4. KeyInv'
    BY DEF KeyInv, ChooseFree
  <1>5. LineInv'
    BY DEF LineInv, ChooseFree
  <1> QED
    BY <1>1, <1>2, <1>3, <1>4, <1>5

(* -i: the key is the one that lies at the index, or a new one is made.    *)
LEMMA ChooseSharedInv == CtlInv /\ ChooseShared => CtlInv'
  <1> SUFFICES ASSUME CtlInv, ChooseShared PROVE CtlInv'
    OBVIOUS
  <1> USE DEF CtlInv
  <1>0. /\ new = 2 /\ pc = "choose"
        /\ \/ NvReadable(nvIndex) /\ keyFile' = nv[nvIndex].data /\ pc' = "addkey" /\ new' = 2
           \/ new' = 1 /\ pc' = "genkey" /\ UNCHANGED keyFile
        /\ UNCHANGED <<nv, cmd, dev, nvIndex, slots, conf, verdict>>
    BY DEF ChooseShared, Outcomes
  <1>1. TypeOK'
    BY DEF TypeOK, StoreTypeOK, PC, IndexInv, ChooseShared, Area
  <1>2. IndexInv'
    <2>1. nvIndex \in Index /\ nv[nvIndex].data \in Data
      BY <1>0 DEF IndexInv, TypeOK, StoreTypeOK, Area
    <2> QED
      BY <1>0, <2>1 DEF IndexInv
  <1>3. ActionInv'
    BY DEF ActionInv, ChooseShared
  <1>4. KeyInv'
    BY <1>0 DEF KeyInv, Stored, NvReadable
  <1>5. LineInv'
    BY DEF LineInv, ChooseShared
  <1> QED
    BY <1>1, <1>2, <1>3, <1>4, <1>5

(* keyfile_generate fills the key file.                                    *)
LEMMA GenerateKeyInv == CtlInv /\ GenerateKey => CtlInv'
  <1> SUFFICES ASSUME CtlInv, GenerateKey PROVE CtlInv'
    OBVIOUS
  <1> USE DEF CtlInv
  <1>1. TypeOK'
    BY DEF TypeOK, StoreTypeOK, PC, GenerateKey, Data
  <1>2. IndexInv'
    <2>1. new' = 1 /\ (pc' = "addkey" => keyFile' \in Data) /\ pc' \in {"addkey", "exit"}
      BY DEF GenerateKey, IndexInv, Data
    <2> QED
      BY <2>1 DEF GenerateKey, IndexInv
  <1>3. ActionInv'
    BY DEF ActionInv, GenerateKey
  <1>4. KeyInv'
    BY DEF IndexInv, KeyInv, GenerateKey
  <1>5. LineInv'
    BY DEF LineInv, GenerateKey
  <1> QED
    BY <1>1, <1>2, <1>3, <1>4, <1>5

(* luks_add_key makes the key file open the device.                        *)
LEMMA AddKeyInv == CtlInv /\ AddKey => CtlInv'
  <1> SUFFICES ASSUME CtlInv, AddKey PROVE CtlInv'
    OBVIOUS
  <1> USE StoreAssumption DEF CtlInv
  <1>0. /\ pc = "addkey" /\ pc' \in {"authpw", "exit"}
        /\ \/ UNCHANGED slots /\ (cmd.dry \/ pc' = "exit")
           \/ \E s \in Slot : slots' = [slots EXCEPT ![dev][s] = keyFile]
        /\ UNCHANGED <<nv, pcrNow, files, admin, invocation, device, flags, passwords, keyFile,
                       progress, output>>
    BY DEF AddKey, LuksSetSlot
  <1>10. dev \in Device /\ keyFile \in Data /\ keyFile # NoKey
    BY <1>0 DEF TypeOK, IndexInv, Secret
  <1>1. TypeOK'
    <2>1. slots' \in [Device -> [Slot -> Secret \cup {NoKey}]]
      BY <1>0, <1>10 DEF TypeOK, StoreTypeOK, Secret
    <2> QED
      BY <1>0, <2>1 DEF TypeOK, StoreTypeOK, PC
  <1>2. IndexInv'
    BY <1>0 DEF IndexInv
  <1>3. ActionInv'
    BY <1>0 DEF ActionInv
  <1>4. KeyInv'
    <2>1. CASE UNCHANGED slots /\ (cmd.dry \/ pc' = "exit")
      BY <1>0, <2>1 DEF KeyInv, Stored
    <2>2. CASE \E s \in Slot : slots' = [slots EXCEPT ![dev][s] = keyFile]
      <3>1. Opens(dev, keyFile)'
        BY <1>0, <1>10, <2>2 DEF Opens, TypeOK, StoreTypeOK
      <3> QED
        BY <1>0, <3>1 DEF KeyInv, Stored
    <2> QED
      BY <1>0, <2>1, <2>2
  <1>5. LineInv'
    BY <1>0 DEF LineInv
  <1> QED
    BY <1>1, <1>2, <1>3, <1>4, <1>5

(* prompt_for_luks_key fills the key file or skips the device.             *)
LEMMA AskKeyInv == CtlInv /\ AskKey => CtlInv'
  <1> SUFFICES ASSUME CtlInv, AskKey PROVE CtlInv'
    OBVIOUS
  <1> USE DEF CtlInv
  <1>1. TypeOK'
    <2>1. keyFile' \in Data \cup {NoKey} /\ pc' \in {"testkey", "next"}
      BY DEF TypeOK, AskKey
    <2>2. report' \in [Device -> Report]
      BY DEF TypeOK, AskKey, Report
    <2> QED
      BY <2>1, <2>2 DEF TypeOK, StoreTypeOK, PC, AskKey
  <1>2. IndexInv'
    BY DEF IndexInv, AskKey
  <1>3. ActionInv'
    BY DEF ActionInv, AskKey
  <1>4. KeyInv'
    BY DEF KeyInv, AskKey
  <1>5. LineInv'
    BY DEF LineInv, AskKey
  <1> QED
    BY <1>1, <1>2, <1>3, <1>4, <1>5

(* A key typed in goes on only when it opens the device.                   *)
LEMMA TestKeyInv == CtlInv /\ TestKey => CtlInv'
  <1> SUFFICES ASSUME CtlInv, TestKey PROVE CtlInv'
    OBVIOUS
  <1> USE DEF CtlInv
  <1>1. TypeOK'
    BY DEF TypeOK, StoreTypeOK, PC, TestKey
  <1>2. IndexInv'
    BY DEF IndexInv, TestKey
  <1>3. ActionInv'
    BY DEF ActionInv, TestKey
  <1>4. KeyInv'
    <2>1. pc' = "exit" \/ (pc' = "authpw" /\ Opens(dev, keyFile))
      BY OutcomesSound DEF TestKey, Opens
    <2> QED
      BY <2>1 DEF TestKey, KeyInv, Opens, IndexInv
  <1>5. LineInv'
    BY DEF LineInv, TestKey
  <1> QED
    BY <1>1, <1>2, <1>3, <1>4, <1>5

(* The area goes, the key file stays.                                      *)
LEMMA ReleaseInv == CtlInv /\ Release => CtlInv'
  <1> SUFFICES ASSUME CtlInv, Release PROVE CtlInv'
    OBVIOUS
  <1> USE DEF CtlInv
  <1>1. TypeOK'
    BY DEF TypeOK, StoreTypeOK, PC, Release, NvRelease, Absent, Area, Data, Perm
  <1>2. IndexInv'
    BY DEF IndexInv, Release
  <1>3. ActionInv'
    BY DEF ActionInv, Release
  <1>4. KeyInv'
    BY DEF KeyInv, Opens, Release
  <1>5. LineInv'
    BY DEF LineInv, Release
  <1> QED
    BY <1>1, <1>2, <1>3, <1>4, <1>5

(* The script of the PCRs changes nothing here.                            *)
LEMMA RunScriptInv == CtlInv /\ RunScript => CtlInv'
  <1> SUFFICES ASSUME CtlInv, RunScript PROVE CtlInv'
    OBVIOUS
  <1> USE DEF CtlInv
  <1>1. TypeOK'
    BY DEF TypeOK, StoreTypeOK, PC, RunScript
  <1>2. IndexInv'
    BY DEF IndexInv, RunScript
  <1>3. ActionInv'
    BY DEF ActionInv, RunScript
  <1>4. KeyInv'
    BY DEF KeyInv, Opens, RunScript
  <1>5. LineInv'
    BY DEF LineInv, RunScript
  <1> QED
    BY <1>1, <1>2, <1>3, <1>4, <1>5

(* The new area has the size of a key; a dry run defines nothing.          *)
LEMMA DefineInv == CtlInv /\ Define => CtlInv'
  <1> SUFFICES ASSUME CtlInv, Define PROVE CtlInv'
    OBVIOUS
  <1> USE DEF CtlInv
  <1>0. /\ pc = "define"
        /\ \/ cmd.dry /\ AfterWrite /\ UNCHANGED nv
           \/ ~cmd.dry /\ UNCHANGED report /\ pc' = "write" /\ NvDefine(nvIndex, AreaPcr, cmd.pw)
           \/ /\ ~cmd.dry /\ UNCHANGED report /\ pc' = "exit"
              /\ NvRelease(nvIndex) \/ UNCHANGED nv
        /\ UNCHANGED <<slots, pcrNow, files, admin, invocation, device, flags, passwords,
                       keyFile, progress, printed, errors>>
    BY DEF Define
  <1>10. dev \in Device /\ nvIndex \in Index
    BY <1>0 DEF TypeOK, IndexInv
  <1>11. /\ report' \in [Device -> Report]
         /\ \/ cmd.action # "init" /\ pc' = "next"
            \/ cmd.dry /\ cmd.action = "init" /\ new = 0 /\ pc' = "kill"
            \/ cmd.dry /\ cmd.action = "init" /\ new # 0 /\ pc' = "conf"
            \/ ~cmd.dry /\ pc' = "write"
            \/ pc' = "exit"
    BY <1>0, <1>10, AfterWriteCases DEF TypeOK
  <1>1. TypeOK'
    <2>1. nv' \in [Index -> Area]
      <3>1. AreaPcr \in Pcr \cup {NoPcr} /\ cmd.pw \in Perm
        BY DEF AreaPcr, TypeOK, StoreTypeOK, Command
      <3> QED
        BY <1>0, <1>10, <3>1, ResetTypes
           DEF TypeOK, StoreTypeOK, NvDefine, NvRelease, Area, Data
    <2> QED
      BY <1>0, <1>11, <2>1 DEF TypeOK, StoreTypeOK, PC
  <1>2. IndexInv'
    BY <1>0, <1>10, <1>11 DEF TypeOK, IndexInv
  <1>3. ActionInv'
    BY <1>0, <1>11 DEF ActionInv
  <1>4. KeyInv'
    <2>1. pc' = "write" => nv'[nvIndex].size = "key"
      BY <1>0, <1>10, <1>11 DEF NvDefine, TypeOK, StoreTypeOK
    <2> QED
      BY <1>0, <1>11, <2>1 DEF KeyInv, Opens
  <1>5. LineInv'
    BY <1>0, <1>11 DEF LineInv
  <1> QED
    BY <1>1, <1>2, <1>3, <1>4, <1>5

(* The area holds the key file, which opens the device.                    *)
LEMMA WriteInv == CtlInv /\ Write => CtlInv'
  <1> SUFFICES ASSUME CtlInv, Write PROVE CtlInv'
    OBVIOUS
  <1> USE DEF CtlInv
  <1>0. /\ pc = "write"
        /\ \/ AfterWrite /\ nv' = [nv EXCEPT ![nvIndex].data = keyFile]
           \/ /\ UNCHANGED report /\ pc' = "exit"
              /\ NvRelease(nvIndex) \/ UNCHANGED nv
        /\ UNCHANGED <<slots, pcrNow, files, admin, invocation, device, flags, passwords,
                       keyFile, progress, printed, errors>>
    BY DEF Write, NvWrite, KeyToWrite
  <1>10. /\ dev \in Device /\ nvIndex \in Index /\ keyFile \in Data
         /\ ~cmd.dry /\ Opens(dev, keyFile) /\ nv[nvIndex].size = "key"
    BY <1>0 DEF TypeOK, IndexInv, ActionInv, KeyInv, Opens
  <1>11. /\ report' \in [Device -> Report]
         /\ \/ cmd.action # "init" /\ pc' = "next"
            \/ /\ nv' = [nv EXCEPT ![nvIndex].data = keyFile]
               /\ cmd.action = "init"
               /\ \/ new = 0 /\ pc' = "kill"
                  \/ new # 0 /\ pc' = "conf"
            \/ pc' = "exit"
    <2>1. CASE AfterWrite /\ nv' = [nv EXCEPT ![nvIndex].data = keyFile]
      <3>1. /\ report' \in [Device -> Report]
            /\ \/ cmd.action # "init" /\ pc' = "next"
               \/ cmd.action = "init" /\ new = 0 /\ pc' = "kill"
               \/ cmd.action = "init" /\ new # 0 /\ pc' = "conf"
        BY <2>1, <1>10, AfterWriteCases
      <3> QED
        BY <2>1, <3>1
    <2>2. CASE UNCHANGED report /\ pc' = "exit"
      BY <2>2 DEF TypeOK
    <2> QED
      BY <1>0, <2>1, <2>2
  <1>1. TypeOK'
    <2>1. nv' \in [Index -> Area]
      <3>1. CASE nv' = [nv EXCEPT ![nvIndex].data = keyFile]
        BY <1>10, <3>1 DEF TypeOK, StoreTypeOK, Area
      <3>2. CASE NvRelease(nvIndex) \/ UNCHANGED nv
        BY <1>10, <3>2, ResetTypes DEF TypeOK, StoreTypeOK, NvRelease
      <3> QED
        BY <1>0, <3>1, <3>2
    <2> QED
      BY <1>0, <1>11, <2>1 DEF TypeOK, StoreTypeOK, PC
  <1>2. IndexInv'
    BY <1>0, <1>10, <1>11 DEF TypeOK, IndexInv
  <1>3. ActionInv'
    BY <1>0, <1>11 DEF ActionInv
  <1>4. KeyInv'
    <2>1. pc' \in {"conf", "kill"} => nv'[nvIndex].size = "key" /\ nv'[nvIndex].data = keyFile
      BY <1>10, <1>11 DEF TypeOK, StoreTypeOK, Area
    <2> QED
      BY <1>0, <1>10, <1>11, <2>1 DEF KeyInv, Opens, Stored
  <1>5. LineInv'
    BY <1>0, <1>11 DEF IndexInv, LineInv
  <1> QED
    BY <1>1, <1>2, <1>3, <1>4, <1>5

(* update_conf puts the index into tpm-luks.conf.new.                      *)
LEMMA UpdateConfInv == CtlInv /\ UpdateConf => CtlInv'
  <1> SUFFICES ASSUME CtlInv, UpdateConf PROVE CtlInv'
    OBVIOUS
  <1> USE LimitAssumption DEF CtlInv
  <1>0. NewConf \in [Device -> ConfLine] /\ NewConf[dev] = Line(nvIndex)
    BY ResetTypes DEF UpdateConf, TypeOK, StoreTypeOK
  <1>1. TypeOK'
    <2>1. (confNew \in [Device -> ConfLine] /\ conf \in [Device -> ConfLine])'
      BY <1>0, CutShortFiles, ResetTypes DEF UpdateConf, TypeOK, StoreTypeOK
    <2> QED
      BY <2>1 DEF TypeOK, StoreTypeOK, PC, UpdateConf
  <1>2. IndexInv'
    BY DEF IndexInv, UpdateConf
  <1>3. ActionInv'
    BY DEF ActionInv, UpdateConf
  <1>4. KeyInv'
    BY DEF KeyInv, Opens, Stored, UpdateConf
  <1>5. LineInv'
    <2>1. /\ ~DiskFull => confNew'[dev] = Line(nvIndex)
          /\ pc' = "kill" => cmd.dry
      BY <1>0 DEF UpdateConf
    <2> QED
      BY <2>1 DEF LineInv, UpdateConf
  <1> QED
    BY <1>1, <1>2, <1>3, <1>4, <1>5

(* tpm-luks.conf gets the line before the first slot is killed.            *)
LEMMA CopyConfInv == CtlInv /\ CopyConf => CtlInv'
  <1> SUFFICES ASSUME CtlInv, CopyConf PROVE CtlInv'
    OBVIOUS
  <1> USE LimitAssumption DEF CtlInv
  <1>1. TypeOK'
    <2>1. (confNew \in [Device -> ConfLine] /\ conf \in [Device -> ConfLine])'
      BY CutShortFiles, ResetTypes DEF CopyConf, TypeOK, StoreTypeOK
    <2> QED
      BY <2>1 DEF TypeOK, StoreTypeOK, PC, CopyConf
  <1>2. IndexInv'
    BY DEF IndexInv, CopyConf
  <1>3. ActionInv'
    BY DEF ActionInv, CopyConf
  <1>4. KeyInv'
    BY DEF KeyInv, Opens, Stored, CopyConf
  <1>5. LineInv'
    <2>1. pc' = "kill" /\ ~DiskFull => conf'[dev].idx = nvIndex
      BY DEF CopyConf, LineInv, Line
    <2>2. pc' \in {"kill", "exit"}
      BY DEF CopyConf
    <2> QED
      BY <2>1, <2>2 DEF LineInv, CopyConf
  <1> QED
    BY <1>1, <1>2, <1>3, <1>4, <1>5

(* luks_kill_all kills no slot without another that the key file opens.    *)
LEMMA KillInv == CtlInv /\ Kill => CtlInv'
  <1> SUFFICES ASSUME CtlInv, Kill PROVE CtlInv'
    OBVIOUS
  <1> USE DEF CtlInv
  <1>0. /\ pc = "kill" /\ dev \in Device
        /\ \/ UNCHANGED slots
           \/ MayKillSlot(dev, slot, keyFile) /\ slots' = [slots EXCEPT ![dev][slot] = NoKey]
        /\ \/ slot < LastSlot /\ slot' = slot + 1 /\ UNCHANGED <<pc, report>>
           \/ slot' = 0 /\ EndDevice("initialized (unsealed)")
        /\ UNCHANGED <<nv, pcrNow, files, admin, invocation, device, flags, passwords, keyFile,
                       verdict, printed, errors>>
    <2>1. \A ok \in Outcomes(MayKillSlot(dev, slot, keyFile)) : ok => MayKillSlot(dev, slot, keyFile)
      BY DEF Outcomes
    <2>2. \/ UNCHANGED slots
          \/ MayKillSlot(dev, slot, keyFile) /\ slots' = [slots EXCEPT ![dev][slot] = NoKey]
      BY <2>1 DEF Kill, ToKill, LuksSetSlot
    <2> QED
      BY <2>2 DEF Kill, MoreSlots, TypeOK
  <1>1. TypeOK'
    <2>1. slots' \in [Device -> [Slot -> Secret \cup {NoKey}]]
      <3>1. CASE UNCHANGED slots
        BY <3>1 DEF TypeOK, StoreTypeOK
      <3>2. CASE slots' = [slots EXCEPT ![dev][slot] = NoKey]
        BY <1>0, <3>2 DEF TypeOK, StoreTypeOK
      <3> QED
        BY <1>0, <3>1, <3>2
    <2>2. slot' \in 0..LastSlot
      <3>1. slot \in 0..LastSlot /\ LastSlot \in Nat
        BY StoreAssumption DEF TypeOK
      <3>2. slot' = 0 \/ (slot' = slot + 1 /\ slot < LastSlot)
        BY <1>0
      <3> QED
        BY <3>1, <3>2
    <2>3. report' \in [Device -> Report] /\ pc' \in {"kill", "next"}
      BY <1>0 DEF TypeOK, Report
    <2>4. UNCHANGED <<nv, pcrNow, files, admin, invocation, device, flags, passwords, keyFile,
                      verdict, printed, errors>>
      BY <1>0
    <2>5. dev' \in Device /\ pc' \in PC
      BY <1>0, <2>3, <2>4 DEF PC
    <2>6. UNCHANGED <<todo, dev, nvIndex, new, cmd, useIndex, usePcr, needAuth, needOwner,
                      authPw, ownerPw, conf, confNew, backup, used>>
      BY <2>4
    <2> QED
      BY <2>1, <2>2, <2>3, <2>4, <2>5, <2>6 DEF TypeOK, StoreTypeOK
  <1>2. IndexInv'
    BY <1>0 DEF IndexInv
  <1>3. ActionInv'
    BY <1>0 DEF ActionInv
  <1>4. KeyInv'
    <2>1. Opens(dev, keyFile) => Opens(dev, keyFile)'
      <3>1. CASE UNCHANGED slots
        BY <1>0, <3>1 DEF Opens
      <3>2. CASE MayKillSlot(dev, slot, keyFile) /\ slots' = [slots EXCEPT ![dev][slot] = NoKey]
        <4>1. PICK r \in Slot \ {slot} : slots[dev][r] = keyFile
          BY <3>2 DEF MayKillSlot
        <4>2. slots'[dev][r] = keyFile /\ keyFile # NoKey
          BY <1>0, <3>2, <4>1 DEF TypeOK, StoreTypeOK, MayKillSlot
        <4> QED
          BY <1>0, <4>1, <4>2 DEF Opens
      <3> QED
        BY <1>0, <3>1, <3>2
    <2> QED
      BY <1>0, <2>1 DEF KeyInv, Stored
  <1>5. LineInv'
    BY <1>0 DEF LineInv
  <1> QED
    BY <1>1, <1>2, <1>3, <1>4, <1>5

(* A signal leads to the EXIT trap.                                        *)
LEMMA InterruptInv == CtlInv /\ Interrupt => CtlInv'
  <1> SUFFICES ASSUME CtlInv, Interrupt PROVE CtlInv'
    OBVIOUS
  <1> USE DEF CtlInv
  <1>1. TypeOK'
    BY DEF TypeOK, StoreTypeOK, PC, Interrupt
  <1>2. IndexInv'
    BY DEF IndexInv, Interrupt
  <1>3. ActionInv'
    BY DEF ActionInv, Interrupt
  <1>4. KeyInv'
    BY DEF KeyInv, Interrupt
  <1>5. LineInv'
    BY DEF LineInv, Interrupt
  <1> QED
    BY <1>1, <1>2, <1>3, <1>4, <1>5

(* SIGKILL: the process and its variables are gone.                        *)
LEMMA KillProcessInv == CtlInv /\ KillProcess => CtlInv'
  <1> SUFFICES ASSUME CtlInv, KillProcess PROVE CtlInv'
    OBVIOUS
  <1> USE DEF CtlInv
  <1>1. TypeOK'
    BY VanishTypes DEF TypeOK, StoreTypeOK, KillProcess, Vanish
  <1>2. IndexInv'
    BY DEF IndexInv, KillProcess, Vanish
  <1>3. ActionInv'
    BY DEF ActionInv, KillProcess, Vanish
  <1>4. KeyInv'
    BY DEF KeyInv, KillProcess, Vanish
  <1>5. LineInv'
    BY DEF LineInv, KillProcess, Vanish
  <1> QED
    BY <1>1, <1>2, <1>3, <1>4, <1>5

(* A boot or the loss of power: the process and its variables are gone.    *)
LEMMA RebootInv == CtlInv /\ Reboot => CtlInv'
  <1> SUFFICES ASSUME CtlInv, Reboot PROVE CtlInv'
    OBVIOUS
  <1> USE DEF CtlInv
  <1>1. TypeOK'
    BY VanishTypes DEF TypeOK, StoreTypeOK, Reboot, Vanish
  <1>2. IndexInv'
    BY DEF IndexInv, Reboot, Vanish
  <1>3. ActionInv'
    BY DEF ActionInv, Reboot, Vanish
  <1>4. KeyInv'
    BY DEF KeyInv, Reboot, Vanish
  <1>5. LineInv'
    BY DEF LineInv, Reboot, Vanish
  <1> QED
    BY <1>1, <1>2, <1>3, <1>4, <1>5

(* The administrator edits a line between two runs, not its index.         *)
LEMMA ClearScriptInv == CtlInv /\ ClearScript => CtlInv'
  <1> SUFFICES ASSUME CtlInv, ClearScript PROVE CtlInv'
    OBVIOUS
  <1> USE LimitAssumption DEF CtlInv
  <1>1. TypeOK'
    BY DEF TypeOK, StoreTypeOK, ClearScript, ConfLine
  <1>2. IndexInv'
    BY DEF IndexInv, ClearScript
  <1>3. ActionInv'
    BY DEF ActionInv, ClearScript
  <1>4. KeyInv'
    BY DEF KeyInv, ClearScript
  <1>5. LineInv'
    BY DEF LineInv, ClearScript
  <1> QED
    BY <1>1, <1>2, <1>3, <1>4, <1>5

-----------------------------------------------------------------------------
(* The invariant of the script.                                            *)

(* Before the first run nothing is configured and no script runs.          *)
LEMMA InitInv == Init => CtlInv
  <1> SUFFICES ASSUME Init PROVE CtlInv
    OBVIOUS
  <1> USE LimitAssumption, StoreAssumption
  <1>1. StoreTypeOK
    <2>1. PICK foreign \in SUBSET ForeignIndexes : StoreInit(foreign)
      BY DEF Init
    <2>2. Absent \in Area /\ Foreign \in Area
      BY ResetTypes DEF Foreign, Area
    <2>3. nv \in [Index -> Area]
      BY <2>1, <2>2 DEF StoreInit
    <2>4. slots \in [Device -> [Slot -> Secret \cup {NoKey}]]
      BY <2>1 DEF StoreInit, Secret
    <2> QED
      BY <2>1, <2>3, <2>4, ResetTypes DEF StoreInit, StoreTypeOK
  <1>2. TypeOK
    <2>1. /\ confNew \in [Device -> ConfLine] /\ cmd \in Command /\ report \in [Device -> Report]
          /\ pc \in PC /\ pc = "idle"
      BY ResetTypes DEF Init, PC
    <2>2. /\ useIndex \in -1..MaxIndex /\ nvIndex \in 0..MaxIndex
          /\ new \in 0..2 /\ slot \in 0..LastSlot
      BY DEF Init, NoIndex
    <2> QED
      BY <1>1, <2>1, <2>2 DEF Init, TypeOK
  <1>3. IndexInv /\ ActionInv /\ KeyInv /\ LineInv
    BY DEF Init, IndexInv, ActionInv, KeyInv, LineInv
  <1> QED
    BY <1>2, <1>3 DEF CtlInv

(* CtlInv speaks of nothing but the variables of the module.               *)
LEMMA StutterInv == CtlInv /\ UNCHANGED vars => CtlInv'
  <1> SUFFICES ASSUME CtlInv, UNCHANGED vars PROVE CtlInv'
    OBVIOUS
  <1> USE DEF CtlInv, vars
  <1>1. TypeOK'
    BY DEF TypeOK, StoreTypeOK
  <1>2. IndexInv' /\ LineInv'
    BY DEF IndexInv, LineInv
  <1>3. ActionInv' /\ KeyInv'
    BY DEF ActionInv, KeyInv, WorkToDo, Opens, Stored
  <1> QED
    BY <1>1, <1>2, <1>3

(* Every step of the script, of the administrator and of the machine keeps *)
(* CtlInv.                                                                 *)
LEMMA NextInv == CtlInv /\ [Next]_vars => CtlInv'
  <1> SUFFICES ASSUME CtlInv, [Next]_vars PROVE CtlInv'
    OBVIOUS
  <1>1. CASE Step
    BY <1>1, StartDeviceInv, FinishInv, CleanupInv, InfoInv, PromptInv, ReadInv, TestInv,
       EndCheckingInv, StartWorkInv, OwnerPasswordInv, AuthPasswordInv, ChooseFreeInv,
       ChooseSharedInv, GenerateKeyInv, AddKeyInv, AskKeyInv, TestKeyInv, ReleaseInv,
       RunScriptInv, DefineInv, WriteInv, UpdateConfInv, CopyConfInv, KillInv
       DEF Step
  <1>2. CASE UNCHANGED vars
    BY <1>2, StutterInv
  <1> QED
    BY <1>1, <1>2, InvokeInv, InterruptInv, KillProcessInv, RebootInv, ClearScriptInv
       DEF Next

(* At each command of tpm-luks-ctl, whatever fails and wherever it is      *)
(* stopped: the key file opens the device once it is accepted, and it lies *)
(* in the TPM from the moment it is written to the last slot that          *)
(* luks_kill_all disables.  On a disk with room, and only there,           *)
(* tpm-luks.conf names its index before the first slot is disabled.        *)
THEOREM CtlInvariant == Spec => []CtlInv
  BY InitInv, NextInv, PTL DEF Spec

(* Every variable of tpm-luks-ctl keeps its type.                          *)
THEOREM TypeCorrect == Spec => []TypeOK
  <1>1. CtlInv => TypeOK
    BY DEF CtlInv
  <1> QED
    BY CtlInvariant, <1>1, PTL

-----------------------------------------------------------------------------
(* Which actions change what outlives a run.                               *)

(* Only AddKey and Kill change the key slots.                              *)
LEMMA SlotWriters == [Next]_vars => AddKey \/ Kill \/ UNCHANGED slots
  <1> SUFFICES ASSUME [Next]_vars PROVE AddKey \/ Kill \/ UNCHANGED slots
    OBVIOUS
  <1>1. CASE StartDevice \/ Finish \/ Cleanup \/ Info \/ Prompt \/ Read \/ Test \/ EndChecking
    BY <1>1 DEF StartDevice, Finish, Cleanup, Info, Prompt, Read, Test, EndChecking
  <1>2. CASE StartWork \/ OwnerPassword \/ AuthPassword \/ ChooseFree \/ ChooseShared
             \/ GenerateKey \/ AskKey \/ TestKey
    BY <1>2
       DEF StartWork, OwnerPassword, AuthPassword, ChooseFree, ChooseShared, GenerateKey,
           AskKey, TestKey
  <1>3. CASE Release \/ RunScript \/ Define \/ Write \/ UpdateConf \/ CopyConf
    BY <1>3 DEF Release, RunScript, Define, Write, UpdateConf, CopyConf
  <1>4. CASE Invoke \/ Interrupt \/ KillProcess \/ Reboot \/ ClearScript
    BY <1>4 DEF Invoke, Interrupt, KillProcess, Reboot, ClearScript
  <1>5. CASE UNCHANGED vars
    BY <1>5 DEF vars
  <1> QED
    BY <1>1, <1>2, <1>3, <1>4, <1>5 DEF Next, Step

(* Only Release, Define and Write change the areas of the TPM.             *)
LEMMA AreaWriters == [Next]_vars => Release \/ Define \/ Write \/ UNCHANGED nv
  <1> SUFFICES ASSUME [Next]_vars PROVE Release \/ Define \/ Write \/ UNCHANGED nv
    OBVIOUS
  <1>1. CASE StartDevice \/ Finish \/ Cleanup \/ Info \/ Prompt \/ Read \/ Test \/ EndChecking
    BY <1>1 DEF StartDevice, Finish, Cleanup, Info, Prompt, Read, Test, EndChecking
  <1>2. CASE StartWork \/ OwnerPassword \/ AuthPassword \/ ChooseFree \/ ChooseShared
             \/ GenerateKey \/ AddKey \/ AskKey \/ TestKey
    BY <1>2
       DEF StartWork, OwnerPassword, AuthPassword, ChooseFree, ChooseShared, GenerateKey,
           AddKey, AskKey, TestKey
  <1>3. CASE RunScript \/ UpdateConf \/ CopyConf \/ Kill
    BY <1>3 DEF RunScript, UpdateConf, CopyConf, Kill
  <1>4. CASE Invoke \/ Interrupt \/ KillProcess \/ Reboot \/ ClearScript
    BY <1>4 DEF Invoke, Interrupt, KillProcess, Reboot, ClearScript
  <1>5. CASE UNCHANGED vars
    BY <1>5 DEF vars
  <1> QED
    BY <1>1, <1>2, <1>3, <1>4, <1>5 DEF Next, Step

(* Only UpdateConf, CopyConf and the administrator change tpm-luks.conf.   *)
LEMMA ConfWriters == [Next]_vars => UpdateConf \/ CopyConf \/ ClearScript \/ UNCHANGED conf
  <1> SUFFICES ASSUME [Next]_vars
               PROVE  UpdateConf \/ CopyConf \/ ClearScript \/ UNCHANGED conf
    OBVIOUS
  <1>1. CASE StartDevice \/ Finish \/ Cleanup \/ Info \/ Prompt \/ Read \/ Test \/ EndChecking
    BY <1>1 DEF StartDevice, Finish, Cleanup, Info, Prompt, Read, Test, EndChecking
  <1>2. CASE StartWork \/ OwnerPassword \/ AuthPassword \/ ChooseFree \/ ChooseShared
             \/ GenerateKey \/ AddKey \/ AskKey \/ TestKey
    BY <1>2
       DEF StartWork, OwnerPassword, AuthPassword, ChooseFree, ChooseShared, GenerateKey,
           AddKey, AskKey, TestKey
  <1>3. CASE Release \/ RunScript \/ Define \/ Write \/ Kill
    BY <1>3 DEF Release, RunScript, Define, Write, Kill
  <1>4. CASE Invoke \/ Interrupt \/ KillProcess \/ Reboot
    BY <1>4 DEF Invoke, Interrupt, KillProcess, Reboot
  <1>5. CASE UNCHANGED vars
    BY <1>5 DEF vars
  <1> QED
    BY <1>1, <1>2, <1>3, <1>4, <1>5 DEF Next, Step

(* What Release takes away is there and may be taken.                      *)
LEMMA ReleaseStep ==
  ASSUME Release
  PROVE  \/ UNCHANGED nv
         \/ ToRelease /\ ownerPw = "right" /\ NvRelease(nvIndex)
  <1>1. \A ok \in Outcomes(ToRelease /\ ownerPw = "right") : ok => ToRelease /\ ownerPw = "right"
    BY DEF Outcomes
  <1> QED
    BY <1>1 DEF Release

(* What luks_kill_all does to a slot, and what it does not touch.          *)
LEMMA KillStep ==
  ASSUME Kill
  PROVE  /\ pc = "kill"
         /\ UNCHANGED <<nv, pcrNow, conf, confNew, keyFile>>
         /\ \/ UNCHANGED slots
            \/ ~cmd.dry /\ MayKillSlot(dev, slot, keyFile) /\ LuksSetSlot(dev, slot, NoKey)
  <1>1. \A ok \in Outcomes(MayKillSlot(dev, slot, keyFile)) : ok => MayKillSlot(dev, slot, keyFile)
    BY DEF Outcomes
  <1> QED
    BY <1>1 DEF Kill, ToKill

(* Where a slot is killed, the TPM holds the key file, which opens another *)
(* slot of the device.                                                     *)
LEMMA KillKeepsKey ==
  ASSUME CtlInv, Kill, slots' # slots
  PROVE  /\ nvIndex \in Index /\ Stored /\ MayKillSlot(dev, slot, keyFile)
         /\ \E s \in Slot : slots'[dev][s] = keyFile
  <1>1. /\ pc = "kill" /\ ~cmd.dry
        /\ MayKillSlot(dev, slot, keyFile)
        /\ slots' = [slots EXCEPT ![dev][slot] = NoKey]
    BY KillStep DEF LuksSetSlot
  <1>2. /\ dev \in Device /\ nvIndex \in Index /\ slot \in Slot /\ Stored
        /\ slots \in [Device -> [Slot -> Secret \cup {NoKey}]]
    BY <1>1 DEF CtlInv, TypeOK, StoreTypeOK, IndexInv, KeyInv, Slot
  <1>3. PICK r \in Slot \ {slot} : slots[dev][r] = keyFile
    BY <1>1 DEF MayKillSlot
  <1>4. slots'[dev][r] = keyFile
    BY <1>1, <1>2, <1>3
  <1> QED
    BY <1>1, <1>2, <1>4

(* On a disk with room tpm-luks.conf says where that key is, before the    *)
(* kill and after it.                                                      *)
LEMMA KillKeepsEscrow ==
  ASSUME ~DiskFull, CtlInv, Kill, slots' # slots
  PROVE  Escrowed(dev) /\ Escrowed(dev)'
  <1>1. pc = "kill" /\ ~cmd.dry /\ UNCHANGED <<nv, conf, keyFile>>
    BY KillStep
  <1>2. /\ dev \in Device /\ nvIndex \in Index
        /\ conf[dev].idx = nvIndex /\ Stored /\ Opens(dev, keyFile)
    BY <1>1 DEF CtlInv, TypeOK, IndexInv, KeyInv, LineInv
  <1>4. \E s \in Slot : slots'[dev][s] = keyFile
    BY KillKeepsKey
  <1>5. keyFile # NoKey
    BY <1>2 DEF Opens
  <1>6. nvIndex # NoIndex
    BY <1>2 DEF Index, NoIndex
  <1>7. nv[nvIndex].size = "key" /\ nv[nvIndex].data = keyFile
    BY <1>2 DEF Stored
  <1>8. Escrowed(dev)
    BY <1>2, <1>6, <1>7 DEF Escrowed, Configured, HoldsKeyOf
  <1>9. Escrowed(dev)'
    <2>1. nv' = nv /\ conf' = conf
      BY <1>1
    <2>2. nv'[conf'[dev].idx].size = "key" /\ nv'[conf'[dev].idx].data = keyFile
      BY <1>2, <1>7, <2>1
    <2>3. Escrowed(dev)' = (conf'[dev].idx # NoIndex /\ nv'[conf'[dev].idx].size = "key"
                            /\ nv'[conf'[dev].idx].data # NoKey
                            /\ \E s \in Slot : slots'[dev][s] = nv'[conf'[dev].idx].data)
      <3>1. dev' = dev
        BY DEF Kill
      <3> QED
        BY <3>1 DEF Escrowed, Configured, HoldsKeyOf, Opens
    <2> QED
      BY <1>2, <1>4, <1>5, <1>6, <2>1, <2>2, <2>3
  <1> QED
    BY <1>8, <1>9

-----------------------------------------------------------------------------
(* What a step may never do.                                               *)

(* A slot that gets enabled gets a key, not the absence of one.            *)
LEMMA AddKeyStep ==
  ASSUME CtlInv, AddKey
  PROVE  \/ UNCHANGED slots
         \/ /\ ~cmd.dry /\ cmd.action = "init"
            /\ keyFile \in Data /\ keyFile # NoKey
            /\ \E s \in Slot : slots[dev][s] = NoKey /\ LuksSetSlot(dev, s, keyFile)
  BY StoreAssumption DEF AddKey, IsFirstDisabled, CtlInv, IndexInv, ActionInv, Secret

(* On a disk with room for tpm-luks.conf luks_kill_all comes last: a slot  *)
(* is disabled only when the index in tpm-luks.conf has a key that opens   *)
(* another slot of the device, whichever command fails.  Without the       *)
(* premise it is false, as the line may be cut before it gets to the file. *)
THEOREM KillOnlyWhatIsEscrowed == ASSUME ~DiskFull PROVE Spec => KillOnlyEscrowed
  <1>1. ASSUME CtlInv, [Next]_vars, NEW d \in Device, NEW s \in Slot,
               slots[d][s] # NoKey, slots'[d][s] = NoKey
        PROVE  Escrowed(d) /\ Escrowed(d)'
    <2>1. /\ slots \in [Device -> [Slot -> Secret \cup {NoKey}]]
          /\ pc \in {"addkey", "kill"} => dev \in Device
      BY <1>1 DEF CtlInv, TypeOK, StoreTypeOK
    <2>2. CASE AddKey
      <3>1. PICK r \in Slot : slots' = [slots EXCEPT ![dev][r] = keyFile]
        BY <1>1, <2>2, AddKeyStep DEF LuksSetSlot
      <3>2. keyFile # NoKey /\ pc = "addkey"
        BY <1>1, <2>2, AddKeyStep DEF AddKey
      <3> QED
        BY <1>1, <2>1, <3>1, <3>2
    <2>3. CASE Kill
      <3>1. slots' = [slots EXCEPT ![dev][slot] = NoKey] /\ pc = "kill"
        BY <1>1, <2>3, KillStep DEF LuksSetSlot
      <3>2. d = dev
        BY <1>1, <2>1, <3>1
      <3>3. Escrowed(dev) /\ Escrowed(dev)' /\ dev' = dev
        BY <1>1, <2>3, KillKeepsEscrow DEF Kill
      <3> QED
        BY <3>2, <3>3
    <2> QED
      BY <1>1, <2>2, <2>3, SlotWriters
  <1>2. CtlInv /\ [Next]_vars =>
          [\A d \in Device, s \in Slot :
             slots[d][s] # NoKey /\ slots'[d][s] = NoKey => Escrowed(d) /\ Escrowed(d)']_vars
    BY <1>1
  <1> QED
    BY <1>2, CtlInvariant, PTL DEF Spec, KillOnlyEscrowed

(* Whatever nv_define_and_write leaves in the TPM opens the device it is   *)
(* written for.                                                            *)
THEOREM WriteOnlyWhatOpens == Spec => WrittenKeyOpens
  <1>1. ASSUME CtlInv, [Next]_vars, NEW i \in Index, nv'[i].data \notin {nv[i].data, Blank}
        PROVE  Opens(dev, nv'[i].data)
    <2>1. nv \in [Index -> Area]
      BY <1>1 DEF CtlInv, TypeOK, StoreTypeOK
    <2>2. CASE Release
      BY <1>1, <2>1, <2>2 DEF Release, NvRelease, Absent
    <2>3. CASE Define
      BY <1>1, <2>1, <2>3 DEF Define, NvRelease, NvDefine, Absent
    <2>4. CASE Write
      <3>1. nv' = [nv EXCEPT ![nvIndex].data = keyFile] \/ NvRelease(nvIndex) \/ UNCHANGED nv
        BY <2>4 DEF Write, NvWrite, KeyToWrite
      <3>2. nv'[i].data = keyFile
        BY <1>1, <2>1, <3>1 DEF NvRelease, Absent, Area
      <3>3. Opens(dev, keyFile)
        BY <1>1, <2>4 DEF Write, CtlInv, KeyInv, ActionInv
      <3> QED
        BY <3>2, <3>3
    <2> QED
      BY <1>1, <2>2, <2>3, <2>4, AreaWriters
  <1>2. CtlInv /\ [Next]_vars =>
          [\A i \in Index : nv'[i].data \notin {nv[i].data, Blank} => Opens(dev, nv'[i].data)]_vars
    BY <1>1
  <1> QED
    BY <1>2, CtlInvariant, PTL DEF Spec, WrittenKeyOpens

(* check, backup and a dry run change nothing that outlives them, in the   *)
(* TPM, in the LUKS headers or in tpm-luks.conf.                           *)
THEOREM ReadOnlyRunsReadOnly == Spec => ReadOnlyRuns
  <1>1. ASSUME CtlInv, [Next]_vars, ~At("idle"),
               cmd.dry \/ cmd.action \in {"check", "backup"}
        PROVE  UNCHANGED <<nv, slots, conf>>
    <2>1. UNCHANGED slots
      <3>1. CASE AddKey
        BY <1>1, <3>1, AddKeyStep
      <3>2. CASE Kill
        BY <1>1, <3>2, KillStep DEF CtlInv, ActionInv
      <3> QED
        BY <1>1, <3>1, <3>2, SlotWriters
    <2>2. UNCHANGED nv
      <3>1. CASE Release
        BY <1>1, <3>1, ReleaseStep DEF Release, ToRelease, CtlInv, ActionInv
      <3>2. CASE Define
        BY <1>1, <3>2 DEF Define, CtlInv, ActionInv
      <3>3. CASE Write
        BY <1>1, <3>3 DEF Write, CtlInv, ActionInv
      <3> QED
        BY <1>1, <3>1, <3>2, <3>3, AreaWriters
    <2>3. UNCHANGED conf
      <3>1. CASE UpdateConf
        BY <1>1, <3>1 DEF UpdateConf, CtlInv, ActionInv
      <3>2. CASE CopyConf
        BY <1>1, <3>2 DEF CopyConf, CtlInv, ActionInv
      <3>3. CASE ClearScript
        BY <1>1, <3>3 DEF ClearScript
      <3> QED
        BY <1>1, <3>1, <3>2, <3>3, ConfWriters
    <2> QED
      BY <2>1, <2>2, <2>3
  <1> QED
    BY <1>1, CtlInvariant, PTL DEF Spec, ReadOnlyRuns

-----------------------------------------------------------------------------
(* The script implements KeyEscrow.                                        *)

(* A step that leaves the TPM, the slots and ConfSeen alone is a stutter   *)
(* of KeyEscrow.                                                           *)
LEMMA EscrowStutter ==
  UNCHANGED <<nv, slots, pcrNow, ConfSeen>> => UNCHANGED Escrow!vars
  BY DEF Escrow!vars, Escrow!store, ConfSeen

(* A step at another command than the `cp -f' of update_conf, and to       *)
(* another, shows KeyEscrow what it does to tpm-luks.conf itself.          *)
LEMMA ConfSeenElsewhere ==
  ASSUME pc # "cp", pc' # "cp"
  PROVE  ConfSeen = conf /\ ConfSeen' = conf'
  BY DEF ConfSeen

(* luks_add_key is AddSecret.                                              *)
LEMMA AddKeyEscrow == CtlInv /\ AddKey => Escrow!Next \/ UNCHANGED Escrow!vars
  <1> SUFFICES ASSUME CtlInv, AddKey PROVE Escrow!Next \/ UNCHANGED Escrow!vars
    OBVIOUS
  <1>1. /\ pc # "cp" /\ pc' # "cp" /\ UNCHANGED <<nv, pcrNow, conf>> /\ dev \in Device
    BY DEF AddKey, CtlInv, TypeOK
  <1>2. CASE UNCHANGED slots
    BY <1>1, <1>2, ConfSeenElsewhere, EscrowStutter
  <1>3. CASE /\ keyFile \in Data
             /\ \E s \in Slot : slots[dev][s] = NoKey /\ LuksSetSlot(dev, s, keyFile)
    <2>1. Escrow!AddSecret(dev)
      BY <1>1, <1>3, ConfSeenElsewhere
         DEF LuksSetSlot, Data, Slot, Escrow!AddSecret, Escrow!LuksSetSlot, Escrow!Slot,
             Escrow!Data
    <2> QED
      BY <1>1, <2>1 DEF Escrow!Next
  <1> QED
    BY <1>2, <1>3, AddKeyStep

(* The three commands of nv_define_and_write are Withdraw, Allocate and    *)
(* Deposit.                                                                *)
LEMMA AreaEscrow ==
  CtlInv /\ (Release \/ Define \/ Write) => Escrow!Next \/ UNCHANGED Escrow!vars
  <1> SUFFICES ASSUME CtlInv, Release \/ Define \/ Write
               PROVE  Escrow!Next \/ UNCHANGED Escrow!vars
    OBVIOUS
  <1>1. pc \in {"release", "define", "write"}
    BY DEF Release, Define, Write
  <1>2. nvIndex \in Index /\ dev \in Device
    BY <1>1 DEF CtlInv, TypeOK, IndexInv
  <1>3. pc # "cp" /\ pc' # "cp" /\ UNCHANGED <<slots, pcrNow, conf>>
    BY DEF Release, Define, Write, AfterWrite, Resealed
  <1>4. \/ UNCHANGED nv
        \/ NvRelease(nvIndex)
        \/ ~NvExists(nvIndex) /\ NvDefine(nvIndex, AreaPcr, cmd.pw)
        \/ /\ pc = "write" /\ nv' = [nv EXCEPT ![nvIndex].data = keyFile]
    <2>1. CASE Release
      BY <2>1 DEF Release
    <2>2. CASE Define
      BY <2>2 DEF Define, Outcomes
    <2>3. CASE Write
      BY <2>3 DEF Write, NvWrite, KeyToWrite
    <2> QED
      BY <2>1, <2>2, <2>3
  <1>5. CASE UNCHANGED nv
    BY <1>3, <1>5, ConfSeenElsewhere, EscrowStutter
  <1>6. CASE NvRelease(nvIndex)
    <2>1. Escrow!Withdraw(nvIndex)
      BY <1>3, <1>6
         DEF NvRelease, Absent, Escrow!Withdraw, Escrow!NvRelease, Escrow!Absent
    <2> QED
      BY <1>2, <2>1 DEF Escrow!Next, Index, Escrow!Index
  <1>7. CASE ~NvExists(nvIndex) /\ NvDefine(nvIndex, AreaPcr, cmd.pw)
    <2>1. AreaPcr \in {NoPcr, pcrNow} /\ cmd.pw \in Perm
      BY DEF AreaPcr, CtlInv, TypeOK, Command
    <2>2. Escrow!Allocate(nvIndex)
      BY <1>3, <1>7, <2>1
         DEF NvExists, NvDefine, Perm, Escrow!Allocate, Escrow!NvExists, Escrow!NvDefine,
             Escrow!Perm
    <2> QED
      BY <1>2, <2>2 DEF Escrow!Next, Index, Escrow!Index
  <1>8. CASE pc = "write" /\ nv' = [nv EXCEPT ![nvIndex].data = keyFile]
    <2>1. /\ Opens(dev, keyFile) /\ keyFile \in Data
          /\ nv[nvIndex].size = "key"
      BY <1>8 DEF CtlInv, TypeOK, ActionInv, KeyInv, Opens
    <2>2. Escrow!Deposit(nvIndex)
      BY <1>2, <1>3, <1>8, <2>1
         DEF Opens, Slot, Data, Escrow!Deposit, Escrow!Opens, Escrow!Slot, Escrow!Data,
             Escrow!NvWrite
    <2> QED
      BY <1>2, <2>2 DEF Escrow!Next, Index, Escrow!Index
  <1> QED
    BY <1>4, <1>5, <1>6, <1>7, <1>8

(* Both modules have the same idea of what a full disk leaves of a file.   *)
LEMMA SameCutShort == \A file : CutShort(file) = Escrow!CutShort(file)
  BY DEF CutShort, Remains, Line, NoIndex, ConfLine, Escrow!CutShort, Escrow!Remains,
         Escrow!Line, Escrow!NoIndex, Escrow!ConfLine

(* update_conf is Assign when it empties tpm-luks.conf, and Forget when    *)
(* `cp -f' fails to fill it again.                                         *)
LEMMA ConfEscrow ==
  CtlInv /\ (UpdateConf \/ CopyConf) => Escrow!Next \/ UNCHANGED Escrow!vars
  <1> SUFFICES ASSUME CtlInv, UpdateConf \/ CopyConf
               PROVE  Escrow!Next \/ UNCHANGED Escrow!vars
    OBVIOUS
  <1>1. CASE UpdateConf
    <2>1. pc = "conf" /\ UNCHANGED <<nv, slots, pcrNow>> /\ ConfSeen = conf
      BY <1>1 DEF UpdateConf, ConfSeen
    <2>2. CASE pc' = "cp" /\ ~cmd.dry
      <3>1. ConfSeen' \in CutShort([conf EXCEPT ![dev] = Line(nvIndex)])
        <4>1. NewConf \in [Device -> ConfLine]
          BY ResetTypes DEF CtlInv, TypeOK, StoreTypeOK
        <4> QED
          BY <1>1, <2>2, <4>1, CutShortFiles DEF UpdateConf, ConfSeen
      <3>2. HoldsKeyOf(nvIndex, dev) /\ nvIndex \in Index /\ dev \in Device
        BY <2>1, <2>2 DEF CtlInv, TypeOK, IndexInv, KeyInv, Stored, HoldsKeyOf
      <3>3. Escrow!Assign(dev)
        BY <2>1, <3>1, <3>2, SameCutShort
           DEF ConfSeen, HoldsKeyOf, Opens, Line, Index, Slot, Escrow!Assign,
               Escrow!HoldsKeyOf, Escrow!Opens, Escrow!Line, Escrow!Index, Escrow!Slot,
               Escrow!store
      <3> QED
        BY <3>2, <3>3 DEF Escrow!Next
    <2>3. CASE pc' # "cp" /\ UNCHANGED conf
      BY <2>1, <2>3, EscrowStutter DEF ConfSeen
    <2> QED
      BY <1>1, <2>2, <2>3 DEF UpdateConf
  <1>2. CASE CopyConf
    <2>1. pc = "cp" /\ UNCHANGED <<nv, slots, pcrNow>> /\ ConfSeen = confNew /\ conf = EmptyConf
      BY <1>2 DEF CopyConf, ConfSeen, CtlInv, LineInv
    <2>2. CASE conf' = confNew /\ pc' = "kill"
      BY <2>1, <2>2, EscrowStutter DEF ConfSeen
    <2>3. CASE pc' = "exit" /\ conf' \in CutShort(confNew)
      <3>1. Escrow!Forget
        BY <2>1, <2>3, SameCutShort DEF ConfSeen, Escrow!Forget, Escrow!store
      <3> QED
        BY <3>1 DEF Escrow!Next
    <2>4. EmptyConf \in CutShort(confNew)
      BY CutShortFiles DEF CtlInv, TypeOK
    <2> QED
      BY <1>2, <2>2, <2>3, <2>4 DEF CopyConf
  <1> QED
    BY <1>1, <1>2

(* luks_kill_all is Retire, one slot at a time.                            *)
LEMMA KillEscrow == CtlInv /\ Kill => Escrow!Next \/ UNCHANGED Escrow!vars
  <1> SUFFICES ASSUME CtlInv, Kill PROVE Escrow!Next \/ UNCHANGED Escrow!vars
    OBVIOUS
  <1>1. /\ pc # "cp" /\ pc' # "cp" /\ UNCHANGED <<nv, pcrNow, conf>>
        /\ dev \in Device /\ slot \in Slot
    BY DEF Kill, CtlInv, TypeOK, Slot
  <1>2. CASE UNCHANGED slots
    BY <1>1, <1>2, ConfSeenElsewhere, EscrowStutter
  <1>3. CASE slots' # slots
    <2>1. /\ nvIndex \in Index /\ nv[nvIndex].size = "key" /\ nv[nvIndex].data = keyFile
          /\ MayKillSlot(dev, slot, keyFile)
      BY <1>3, KillKeepsKey DEF Stored
    <2>2. slots' = [slots EXCEPT ![dev][slot] = NoKey]
      BY <1>3, KillStep DEF LuksSetSlot
    <2>3. Escrow!Retire(dev)
      BY <1>1, <2>1, <2>2
         DEF MayKillSlot, Slot, Index, Escrow!Retire, Escrow!Index, Escrow!MayKillSlot,
             Escrow!LuksSetSlot, Escrow!Slot
    <2> QED
      BY <1>1, <2>3 DEF Escrow!Next
  <1> QED
    BY <1>2, <1>3

(* A boot is Boot, the death of the script Forget or nothing.              *)
LEMMA CrashEscrow ==
  CtlInv /\ (Reboot \/ KillProcess \/ Interrupt) => Escrow!Next \/ UNCHANGED Escrow!vars
  <1> SUFFICES ASSUME CtlInv, Reboot \/ KillProcess \/ Interrupt
               PROVE  Escrow!Next \/ UNCHANGED Escrow!vars
    OBVIOUS
  <1>1. /\ UNCHANGED <<nv, slots, conf>> /\ pc' # "cp"
        /\ pc = "cp" => conf = EmptyConf
    BY DEF Reboot, KillProcess, Interrupt, Vanish, CtlInv, LineInv
  <1>2. ConfSeen' \in CutShort(ConfSeen)
    <2>1. ConfSeen' \in {ConfSeen, EmptyConf} /\ ConfSeen \in [Device -> ConfLine]
      BY <1>1 DEF ConfSeen, CtlInv, TypeOK, StoreTypeOK
    <2> QED
      BY <2>1, CutShortFiles
  <1>3. CASE Reboot
    <2>1. Escrow!Boot
      BY <1>1, <1>2, <1>3, SameCutShort DEF Reboot, ConfSeen, Escrow!Boot
    <2> QED
      BY <2>1 DEF Escrow!Next
  <1>4. CASE UNCHANGED pcrNow
    <2>1. Escrow!Forget
      BY <1>1, <1>2, <1>4, SameCutShort DEF ConfSeen, Escrow!Forget, Escrow!store
    <2> QED
      BY <2>1 DEF Escrow!Next
  <1> QED
    BY <1>3, <1>4 DEF KillProcess, Interrupt

(* The administrator's edit is Forget: it makes a line shorter.            *)
LEMMA ClearScriptEscrow == CtlInv /\ ClearScript => Escrow!Next \/ UNCHANGED Escrow!vars
  <1> SUFFICES ASSUME CtlInv, ClearScript PROVE Escrow!Next \/ UNCHANGED Escrow!vars
    OBVIOUS
  <1>1. PICK d \in Device : Configured(d) /\ conf' = [conf EXCEPT ![d].script = "none"]
    BY DEF ClearScript
  <1>2. /\ pc # "cp" /\ pc' # "cp" /\ UNCHANGED store
        /\ conf \in [Device -> ConfLine]
    BY DEF ClearScript, CtlInv, TypeOK, StoreTypeOK
  <1>3. conf' \in CutShort(conf)
    <2>1. [idx |-> conf[d].idx, script |-> "none"] \in Remains(conf[d])
      BY <1>1 DEF Remains, Configured
    <2>2. conf'[d] = [idx |-> conf[d].idx, script |-> "none"]
      BY <1>1, <1>2 DEF ConfLine
    <2>3. \A e \in Device : conf'[e] \in Remains(conf[e])
      BY <1>1, <1>2, <2>1, <2>2 DEF Remains
    <2>4. conf' \in [Device -> ConfLine]
      BY <1>1, <1>2 DEF ConfLine
    <2> QED
      BY <2>3, <2>4 DEF CutShort
  <1>4. Escrow!Forget
    BY <1>2, <1>3, SameCutShort, ConfSeenElsewhere DEF ConfSeen, Escrow!Forget, Escrow!store
  <1> QED
    BY <1>4 DEF Escrow!Next

(* Everything else is a stutter.                                           *)
LEMMA OtherEscrow ==
  ASSUME \/ Invoke \/ StartDevice \/ Finish \/ Cleanup \/ Info \/ Prompt \/ Read \/ Test
         \/ EndChecking \/ StartWork \/ OwnerPassword \/ AuthPassword \/ ChooseFree
         \/ ChooseShared \/ GenerateKey \/ AskKey \/ TestKey \/ RunScript
  PROVE  UNCHANGED Escrow!vars
  <1>1. CASE Invoke \/ StartDevice \/ Finish \/ Cleanup \/ Info \/ Prompt \/ Read \/ Test
    <2>1. pc # "cp" /\ pc' # "cp" /\ UNCHANGED <<nv, slots, pcrNow, conf>>
      BY <1>1 DEF Invoke, StartDevice, Finish, Cleanup, Vanish, Info, Prompt, Read, Test
    <2> QED
      BY <2>1, ConfSeenElsewhere, EscrowStutter
  <1>2. CASE EndChecking \/ StartWork \/ OwnerPassword \/ AuthPassword
    <2>1. pc # "cp" /\ pc' # "cp" /\ UNCHANGED <<nv, slots, pcrNow, conf>>
      BY <1>2 DEF EndChecking, StartWork, OwnerPassword, AuthPassword
    <2> QED
      BY <2>1, ConfSeenElsewhere, EscrowStutter
  <1>3. CASE ChooseFree \/ ChooseShared \/ GenerateKey \/ AskKey \/ TestKey \/ RunScript
    <2>1. pc # "cp" /\ pc' # "cp" /\ UNCHANGED <<nv, slots, pcrNow, conf>>
      BY <1>3 DEF ChooseFree, ChooseShared, GenerateKey, AskKey, TestKey, RunScript
    <2> QED
      BY <2>1, ConfSeenElsewhere, EscrowStutter
  <1> QED
    BY <1>1, <1>2, <1>3

(* tpm-luks-ctl keeps the promises of KeyEscrow: every command of it is a  *)
(* step of KeyEscrow or shows it nothing.                                  *)
THEOREM CtlImplementsEscrow == Spec => ImplementsEscrow
  <1>1. Init => Escrow!Init
    <2> SUFFICES ASSUME Init PROVE Escrow!Init
      OBVIOUS
    <2>1. PICK foreign \in SUBSET ForeignIndexes : StoreInit(foreign)
      BY DEF Init
    <2>2. foreign \in SUBSET Index
      BY <2>1, CtlAssumption
    <2>3. Escrow!StoreInit(foreign)
      BY <2>1
         DEF Init, StoreInit, Index, Foreign, Absent, Slot, EmptyConf, Line, NoIndex,
             Escrow!StoreInit, Escrow!Index, Escrow!Foreign, Escrow!Absent, Escrow!Slot,
             Escrow!EmptyConf, Escrow!Line, Escrow!NoIndex
    <2> QED
      BY <2>2, <2>3 DEF Index, Escrow!Init, Escrow!Index
  <1>2. CtlInv /\ [Next]_vars => [Escrow!Next]_(Escrow!vars)
    <2> SUFFICES ASSUME CtlInv, [Next]_vars PROVE Escrow!Next \/ UNCHANGED Escrow!vars
      OBVIOUS
    <2>1. CASE UNCHANGED vars
      BY <2>1, EscrowStutter DEF vars, ConfSeen
    <2> QED
      BY <2>1, AddKeyEscrow, AreaEscrow, ConfEscrow, KillEscrow, CrashEscrow,
         ClearScriptEscrow, OtherEscrow
         DEF Next, Step
  <1> QED
    BY <1>1, <1>2, CtlInvariant, PTL DEF Spec, ImplementsEscrow, Escrow!Spec
=============================================================================
