----------------------------- MODULE TpmLuksCtl -----------------------------
(***************************************************************************)
(* tpm-luks-ctl: the command that binds LUKS devices to NVRAM areas of the *)
(* TPM (init), binds the areas to the PCRs or frees them (seal, unseal),   *)
(* and checks or prints what they hold (check, backup).                    *)
(*                                                                         *)
(* One process at a time runs the script.  pc names the command it is      *)
(* about to run; a command that fails has its own successor.  The devices  *)
(* are handled one after the other, and what the script keeps in globals   *)
(* (passwords, NEED_*_PASSWORD, NV_USE_INDEX) goes from one to the next.   *)
(* Around it: a reboot, a signal, an administrator who keeps backups.      *)
(***************************************************************************)
EXTENDS TpmLuksStore, FiniteSets

CONSTANTS
  Actions,      \* the actions the administrator asks for
  Passwords,    \* values of NV_USE_PASSWORD: "NONE", -a "AUTH", -o "OWNER"
  UseIndexes,   \* values of NV_USE_INDEX: 0, -i -1, -i <index>
  DryRuns,      \* values of DRY_RUN
  ForeignIndexes, \* indexes where another program may have an area
  Faults,       \* TRUE when any tpm_*, cryptsetup or cp command may fail
  DiskFull,     \* TRUE when what is written to /etc may be cut short
  Crashes,      \* TRUE when the script may be stopped between two commands
  BackupFirst,  \* TRUE when the administrator backs up before a change
  ConfEdits     \* TRUE when the administrator edits the script name away

Command ==
  [action : {"check", "init", "seal", "unseal", "backup"},
   batch : BOOLEAN, pw : Perm, dry : BOOLEAN]

ASSUME CtlAssumption ==
  /\ Actions \subseteq {"check", "init", "seal", "unseal", "backup"}
  /\ Passwords \subseteq Perm
  /\ UseIndexes \subseteq Index \cup {-1, 0}
  /\ DryRuns \subseteq BOOLEAN
  /\ ForeignIndexes \subseteq Index
  /\ {Faults, DiskFull, Crashes, BackupFirst, ConfEdits} \subseteq BOOLEAN
  /\ DiskFull => Faults

NoCommand == [action |-> "check", batch |-> FALSE, pw |-> "NONE", dry |-> FALSE]
NoDevice == -1

Report ==
  {"", "skipped", "error", "key", "ok (unsealed)", "ok (sealed)",
   "unchanged (unsealed)", "unchanged (sealed)", "initialized (unsealed)",
   "sealed", "unsealed"}
NoReport == [d \in Device |-> ""]

PC ==
  {"idle", "next", "info", "prompt", "read", "test", "dispatch",
   "ownerpw", "choose", "genkey", "addkey", "askkey", "testkey", "authpw",
   "release", "perms", "define", "write", "conf", "cp", "kill",
   "finish", "exit"}

VARIABLES
  confNew,    \* /etc/tpm-luks.conf.new
  backup,     \* the keys the administrator has on paper
  used,       \* the keys /dev/urandom has produced
  pc,         \* the command the script is about to run
  cmd,        \* ACTION, INTERACTIVE, NV_USE_PASSWORD, DRY_RUN
  useIndex,   \* NV_USE_INDEX
  todo,       \* devices of $PROGRAM not handled yet
  dev,        \* DEVICE
  nvIndex,    \* NV_INDEX
  new,        \* NEW: 0 repair, 1 new area, 2 area chosen with -i
  usePcr,     \* USE_PCR
  needAuth,   \* NEED_AUTH_PASSWORD
  needOwner,  \* NEED_OWNER_PASSWORD
  authPw,     \* AUTH_PASSWORD is set
  ownerPw,    \* OWNER_PASSWORD: "none" when empty, "right" or "wrong"
  keyFile,    \* /dev/shm/luks.key
  verdict,    \* what checking the device found
  slot,       \* _slot_id of luks_kill_all
  report,     \* REPORT, per device
  printed,    \* the keys in REPORT
  errors      \* ERRORS

files == <<conf, confNew>>
admin == <<backup, used>>
outside == <<store, files, admin>>
invocation == <<cmd, useIndex>>
device == <<todo, dev, nvIndex, new>>
passwords == <<authPw, ownerPw>>
flags == <<usePcr, needAuth, needOwner>>
progress == <<verdict, slot>>
output == <<report, printed, errors>>
vars == <<outside, pc, invocation, device, flags, passwords, keyFile, progress, output>>

TypeOK ==
  /\ StoreTypeOK
  /\ confNew \in [Device -> ConfLine]
  /\ backup \subseteq Data /\ used \subseteq Key /\ printed \subseteq Data
  /\ pc \in PC
  /\ cmd \in Command
  /\ useIndex \in -1..MaxIndex
  /\ todo \subseteq Device
  /\ dev \in Device \cup {NoDevice}
  /\ pc \notin {"idle", "next", "finish", "exit"} => dev \in Device
  /\ nvIndex \in 0..MaxIndex
  /\ new \in 0..2
  /\ usePcr \in BOOLEAN /\ needAuth \in BOOLEAN /\ needOwner \in BOOLEAN
  /\ authPw \in BOOLEAN /\ ownerPw \in {"none", "right", "wrong"}
  /\ keyFile \in Data \cup {NoKey}
  /\ verdict \in {"none", "skip", "error", "reseal", "ok"}
  /\ slot \in 0..LastSlot
  /\ report \in [Device -> Report]
  /\ errors \in BOOLEAN

Init ==
  /\ \E foreign \in SUBSET ForeignIndexes : StoreInit(foreign)
  /\ confNew = EmptyConf
  /\ backup = {} /\ used = {} /\ printed = {}
  /\ pc = "idle"
  /\ cmd = NoCommand /\ useIndex = 0
  /\ todo = {} /\ dev = NoDevice /\ nvIndex = NoIndex /\ new = 0
  /\ usePcr = FALSE /\ needAuth = FALSE /\ needOwner = FALSE
  /\ authPw = FALSE /\ ownerPw = "none"
  /\ keyFile = NoKey /\ verdict = "none" /\ slot = 0
  /\ report = NoReport /\ errors = FALSE

-----------------------------------------------------------------------------
(* Steps common to many actions.                                           *)

At(l) == pc = l
Goto(l) == pc' = l

(* The results an external command may have when it should succeed iff ok. *)
Outcomes(ok) == IF ok THEN (IF Faults THEN BOOLEAN ELSE {TRUE}) ELSE {FALSE}

(* `exit 1': the EXIT trap comes next, the other devices are not handled.  *)
Abort == Goto("exit")

(* REPORT+="- $DEVICE: ..." and return from loop.                          *)
EndDevice(text) ==
  /\ report' = [report EXCEPT ![dev] = text]
  /\ Goto("next")

(* The process is gone, and its variables with it.  What it may leave in   *)
(* tpm-luks.conf.new goes too: the next run removes that file before use.  *)
Vanish ==
  /\ pc' = "idle"
  /\ confNew' = EmptyConf
  /\ cmd' = NoCommand /\ useIndex' = 0
  /\ todo' = {} /\ dev' = NoDevice /\ nvIndex' = NoIndex /\ new' = 0
  /\ usePcr' = FALSE /\ needAuth' = FALSE /\ needOwner' = FALSE
  /\ authPw' = FALSE /\ ownerPw' = "none"
  /\ verdict' = "none" /\ slot' = 0
  /\ report' = NoReport /\ printed' = {} /\ errors' = FALSE

-----------------------------------------------------------------------------
(* The invocation and the loop over the devices.                           *)

(* The administrator who backs up has on paper what the TPM holds for the  *)
(* devices.                                                                *)
BackedUp ==
  \A d \in Device : Configured(d) /\ HoldsKeyOf(conf[d].idx, d) =>
                      nv[conf[d].idx].data \in backup

(* Bound of the model: an init starts only with enough unused keys left.   *)
EnoughKeys(targets) ==
  Cardinality(Key \ used) >= Cardinality({d \in targets : ~Configured(d)})

Invoke ==
  /\ At("idle")
  /\ \E action \in Actions, pw \in Passwords, dry \in DryRuns, batch \in BOOLEAN :
       /\ batch => action = "check"
       /\ BackupFirst /\ action \in {"init", "seal", "unseal"} => BackedUp
       /\ cmd' = [action |-> action, batch |-> batch, pw |-> pw, dry |-> dry]
       /\ useIndex' \in IF action = "init" THEN UseIndexes ELSE {0}
       /\ todo' \in {Device} \cup {{d} : d \in Device}
       /\ action = "init" => EnoughKeys(todo')
  /\ Goto("next")
  /\ UNCHANGED <<outside, dev, nvIndex, new, flags, passwords, keyFile, progress, output>>

(* The head of loop: the line of $PROGRAM gives NV_INDEX and IN_CONF.  It  *)
(* was made from tpm-luks.conf when the script started, and only this      *)
(* device's own turn changes its line.                                     *)
StartDevice ==
  /\ At("next")
  /\ \E d \in todo :
       /\ \A e \in todo : d <= e
       /\ todo' = todo \ {d}
       /\ dev' = d
       /\ nvIndex' = conf[d].idx
       /\ keyFile' = NoKey
       /\ IF Configured(d)
            THEN new' = 0 /\ verdict' = "none" /\ Goto("info")
            ELSE new' = 1 /\ verdict' = "error" /\ Goto("dispatch")
  /\ UNCHANGED <<outside, invocation, flags, passwords, slot, output>>

(* REPORT is printed after the last device.                                *)
Finish ==
  /\ At("next")
  /\ todo = {}
  /\ backup' = backup \cup printed
  /\ Goto("finish")
  /\ UNCHANGED <<store, files, used, invocation, device, flags, passwords, keyFile,
                 progress, output>>

(* Mutated form of Cleanup: the trap does not wipe the key file.           *)
CleanupNoWipe ==
  /\ pc \in {"finish", "exit"}
  /\ Vanish
  /\ UNCHANGED <<store, conf, admin, keyFile>>

(* cleanup, the EXIT trap.                                                 *)
Cleanup ==
  /\ pc \in {"finish", "exit"}
  /\ keyFile' = NoKey
  /\ Vanish
  /\ UNCHANGED <<store, conf, admin>>

-----------------------------------------------------------------------------
(* Checking the device.                                                    *)

(* Mutated form of AreaUsesPcr: USE_PCR is not cleared either.             *)
AreaUsesPcrStale == usePcr \/ nv[nvIndex].pcr # NoPcr

AreaUsesPcr == nv[nvIndex].pcr # NoPcr

(* nv_info, which runs tpm_nvinfo four times: one that fails prints        *)
(* nothing.  It clears USE_PCR, but no other flag of an earlier device:    *)
(* what it clears besides is NEED_PASSWORD, which nothing reads.           *)
Info ==
  /\ At("info")
  /\ \/ /\ TRUE \in Outcomes(NvExists(nvIndex))
        /\ usePcr' \in Outcomes(AreaUsesPcr)
        /\ \E auth \in Outcomes(nv[nvIndex].perm = "AUTH"),
              owner \in Outcomes(nv[nvIndex].perm = "OWNER") :
             needAuth' = (needAuth \/ auth) /\ needOwner' = (needOwner \/ owner)
        /\ Goto("prompt")
        /\ UNCHANGED verdict
     \/ /\ FALSE \in Outcomes(NvExists(nvIndex))
        /\ usePcr' = FALSE
        /\ Goto("dispatch")
        /\ verdict' = "error"
        /\ UNCHANGED <<needAuth, needOwner>>
  /\ UNCHANGED <<outside, invocation, device, passwords, keyFile, slot, output>>

(* The answer to a password prompt: none counts as a refusal.              *)
AuthAnswers == IF authPw THEN {TRUE} ELSE BOOLEAN
OwnerAnswers == IF ownerPw # "none" THEN {ownerPw} ELSE {"none", "right", "wrong"}

NotAsked == cmd.batch /\ cmd.action = "check"

Prompt ==
  /\ At("prompt")
  /\ IF needAuth
       THEN authPw' \in (IF NotAsked THEN {authPw} ELSE AuthAnswers) /\ UNCHANGED ownerPw
       ELSE IF needOwner
         THEN ownerPw' \in (IF NotAsked THEN {ownerPw} ELSE OwnerAnswers) /\ UNCHANGED authPw
         ELSE UNCHANGED passwords
  /\ IF \/ (needAuth \/ needOwner) /\ NotAsked
        \/ needAuth /\ ~authPw'
        \/ ~needAuth /\ needOwner /\ ownerPw' = "none"
       THEN verdict' = "skip" /\ Goto("dispatch")
       ELSE UNCHANGED verdict /\ Goto("read")
  /\ UNCHANGED <<outside, invocation, device, flags, keyFile, slot, output>>

(* nv_read: the password it prepares in _options never reaches tpm_nvread. *)
Read ==
  /\ At("read")
  /\ \E ok \in Outcomes(NvReadable(nvIndex)) :
       IF ok
         THEN keyFile' = nv[nvIndex].data /\ Goto("test") /\ UNCHANGED verdict
         ELSE verdict' = "error" /\ Goto("dispatch") /\ UNCHANGED keyFile
  /\ UNCHANGED <<outside, invocation, device, flags, passwords, slot, output>>

(* luks_test_key, then the comparison of USE_PCR with what is asked for.   *)
Test ==
  /\ At("test")
  /\ \E ok \in Outcomes(Opens(dev, keyFile)) :
       verdict' = IF ~ok THEN "error"
                  ELSE IF \/ cmd.action = "seal" /\ ~usePcr
                          \/ cmd.action = "unseal" /\ usePcr
                         THEN "reseal" ELSE "ok"
  /\ Goto("dispatch")
  /\ UNCHANGED <<outside, invocation, device, flags, passwords, keyFile, slot, output>>

-----------------------------------------------------------------------------
(* What the action does with the verdict.                                  *)

WorkToDo == (cmd.action = "init" /\ verdict = "error") \/ verdict = "reseal"

(* The text REPORT gets when nothing is to be done.                        *)
NothingDone ==
  CASE verdict = "skip" -> "skipped"
    [] verdict = "error" -> "error"
    [] verdict = "ok" /\ cmd.action = "backup" -> "key"
    [] verdict = "ok" /\ cmd.action = "check" ->
         IF usePcr THEN "ok (sealed)" ELSE "ok (unsealed)"
    [] OTHER -> IF usePcr THEN "unchanged (sealed)" ELSE "unchanged (unsealed)"

EndChecking ==
  /\ At("dispatch")
  /\ ~WorkToDo
  /\ errors' = (errors \/ verdict = "error")
  /\ printed' = IF NothingDone = "key" /\ keyFile # NoKey
                  THEN printed \cup {keyFile} ELSE printed
  /\ EndDevice(NothingDone)
  /\ UNCHANGED <<outside, invocation, device, flags, passwords, keyFile, progress>>

(* Past the checks.  A device without a line takes the index given with -i *)
(* and NEW=2, when there is one.                                           *)
StartWork ==
  /\ At("dispatch")
  /\ WorkToDo
  /\ IF new = 1 /\ useIndex > 0
       THEN new' = 2 /\ nvIndex' = useIndex
       ELSE UNCHANGED <<new, nvIndex>>
  /\ Goto("ownerpw")
  /\ UNCHANGED <<outside, invocation, todo, dev, flags, passwords, keyFile, progress,
                 output>>

OwnerPassword ==
  /\ At("ownerpw")
  /\ ownerPw' \in OwnerAnswers
  /\ IF ownerPw' = "none"
       THEN EndDevice("skipped")
       ELSE /\ UNCHANGED report
            /\ Goto(CASE cmd.action # "init" -> "authpw"
                      [] cmd.action = "init" /\ new = 0 -> "askkey"
                      [] OTHER -> "choose")
  /\ UNCHANGED <<outside, invocation, device, flags, authPw, keyFile, progress, printed,
                 errors>>

AuthPassword ==
  /\ At("authpw")
  /\ authPw' \in IF cmd.pw = "AUTH" THEN AuthAnswers ELSE {authPw}
  /\ IF cmd.pw = "AUTH" /\ ~authPw'
       THEN EndDevice("skipped")
       ELSE UNCHANGED report /\ Goto(IF new = 2 THEN "conf" ELSE "release")
  /\ UNCHANGED <<outside, invocation, device, flags, ownerPw, keyFile, progress, printed,
                 errors>>

-----------------------------------------------------------------------------
(* init: the index and the key.                                            *)

(* The indexes the script sees: a tpm_nvinfo that fails has printed some   *)
(* of them at most, and nobody looks at its result.                        *)
Listed == IF Faults THEN SUBSET NvInUse ELSE {NvInUse}

(* find_free_nv_index.  With -i -1 the index becomes that of the devices   *)
(* to come.                                                                *)
ChooseFree ==
  /\ At("choose")
  /\ new = 1
  /\ \E listed \in Listed :
       \/ /\ SearchFails(listed)
          /\ Abort
          /\ UNCHANGED <<nvIndex, useIndex>>
       \/ /\ ~SearchFails(listed)
          /\ \E i \in Index :
               /\ IsFirstFree(listed, i)
               /\ nvIndex' = i
               /\ useIndex' = IF useIndex = -1 THEN i ELSE useIndex
          /\ Goto("genkey")
  /\ UNCHANGED <<outside, cmd, todo, dev, new, flags, passwords, keyFile, progress, output>>

(* Mutated form of ChooseShared: every device with -i gets a new key.      *)
ChooseSharedAlwaysNew ==
  /\ At("choose")
  /\ new = 2
  /\ new' = 1
  /\ Goto("genkey")
  /\ UNCHANGED <<outside, invocation, todo, dev, nvIndex, flags, passwords, keyFile,
                 progress, output>>

(* -i: the key is the one the area holds; an area that cannot be read is   *)
(* taken for one to initialize.                                            *)
ChooseShared ==
  /\ At("choose")
  /\ new = 2
  /\ \E ok \in Outcomes(NvReadable(nvIndex)) :
       IF ok
         THEN keyFile' = nv[nvIndex].data /\ Goto("addkey") /\ UNCHANGED new
         ELSE new' = 1 /\ Goto("genkey") /\ UNCHANGED keyFile
  /\ UNCHANGED <<outside, invocation, todo, dev, nvIndex, flags, passwords, progress,
                 output>>

GenerateKey ==
  /\ At("genkey")
  /\ \/ /\ \E k \in Key \ used : keyFile' = k /\ used' = used \cup {k}
        /\ Goto("addkey")
     \/ Faults /\ Abort /\ UNCHANGED <<keyFile, used>>
  /\ UNCHANGED <<store, files, backup, invocation, device, flags, passwords, progress,
                 output>>

(* luks_add_key: the lowest disabled slot, opened with the passphrase.     *)
AddKey ==
  /\ At("addkey")
  /\ \/ /\ \E s \in Slot : IsFirstDisabled(dev, s)
        /\ cmd.dry
        /\ Goto("authpw")
        /\ UNCHANGED slots
     \/ /\ ~cmd.dry
        /\ TRUE \in Outcomes(Opens(dev, Passphrase))
        /\ \E s \in Slot : IsFirstDisabled(dev, s) /\ LuksSetSlot(dev, s, keyFile)
        /\ Goto("authpw")
     \/ /\ \/ ~ \E s \in Slot : IsFirstDisabled(dev, s)
           \/ ~cmd.dry /\ FALSE \in Outcomes(Opens(dev, Passphrase))
        /\ Abort
        /\ UNCHANGED slots
  /\ UNCHANGED <<nv, pcrNow, files, admin, invocation, device, flags, passwords, keyFile,
                 progress, output>>

(* prompt_for_luks_key: the administrator types a key of the backup, or    *)
(* nothing.                                                                *)
AskKey ==
  /\ At("askkey")
  /\ \/ \E k \in backup : keyFile' = k /\ Goto("testkey") /\ UNCHANGED report
     \/ EndDevice("skipped") /\ UNCHANGED keyFile
  /\ UNCHANGED <<outside, invocation, device, flags, passwords, progress, printed, errors>>

(* Mutated form of TestKey: the key typed in is not tried on the device.   *)
TestKeyUnchecked ==
  /\ At("testkey")
  /\ Goto("authpw")
  /\ UNCHANGED <<outside, invocation, device, flags, passwords, keyFile, progress, output>>

(* luks_test_key on the key typed in.                                      *)
TestKey ==
  /\ At("testkey")
  /\ \E ok \in Outcomes(Opens(dev, keyFile)) : IF ok THEN Goto("authpw") ELSE Abort
  /\ UNCHANGED <<outside, invocation, device, flags, passwords, keyFile, progress, output>>

-----------------------------------------------------------------------------
(* nv_define_and_write, one command at a time.                             *)

(* Mutated form of ToRelease: the area goes in a dry run too.              *)
ToReleaseDry == NvExists(nvIndex)

ToRelease == NvExists(nvIndex) /\ ~cmd.dry

(* An area that tpm_nvinfo shows is released; nobody looks at the result   *)
(* of either command.                                                      *)
Release ==
  /\ At("release")
  /\ \E ok \in Outcomes(ToRelease /\ ownerPw = "right") :
       IF ok THEN NvRelease(nvIndex) ELSE UNCHANGED nv
  /\ Goto("perms")
  /\ UNCHANGED <<slots, pcrNow, files, admin, invocation, device, flags, passwords,
                 keyFile, progress, output>>

(* $PERMS_FILE runs only to seal, and only when the line names a script.   *)
UsesPcr == cmd.action = "seal" /\ conf[dev].script = "default"

RunScript ==
  /\ At("perms")
  /\ \E ok \in IF UsesPcr THEN Outcomes(TRUE) ELSE {TRUE} :
       IF ok THEN Goto("define") ELSE Abort
  /\ UNCHANGED <<outside, invocation, device, flags, passwords, keyFile, progress, output>>

(* The script binds the area to the PCRs as they are now.                  *)
AreaPcr == IF UsesPcr THEN pcrNow ELSE NoPcr

Resealed == EndDevice(IF cmd.action = "seal" THEN "sealed" ELSE "unsealed")

(* Mutated form of AfterWrite: the slots are killed before tpm-luks.conf   *)
(* names the index.                                                        *)
AfterWriteNoConf ==
  IF cmd.action = "init" THEN Goto("kill") /\ UNCHANGED report ELSE Resealed

AfterWrite ==
  IF cmd.action = "init"
    THEN Goto(IF new = 0 THEN "kill" ELSE "conf") /\ UNCHANGED report
    ELSE Resealed

(* tpm_nvdefine wants the owner's password and an index that is free; when *)
(* it fails the script releases the index once more and gives up.          *)
Define ==
  /\ At("define")
  /\ \/ /\ cmd.dry
        /\ AfterWrite
        /\ UNCHANGED nv
     \/ /\ ~cmd.dry
        /\ UNCHANGED report
        /\ \E ok \in Outcomes(ownerPw = "right" /\ ~NvExists(nvIndex)),
              released \in Outcomes(ownerPw = "right") :
             IF ok
               THEN NvDefine(nvIndex, AreaPcr, cmd.pw) /\ Goto("write")
               ELSE /\ IF released THEN NvRelease(nvIndex) ELSE UNCHANGED nv
                    /\ Abort
  /\ UNCHANGED <<slots, pcrNow, files, admin, invocation, device, flags, passwords,
                 keyFile, progress, printed, errors>>

(* Mutated form of KeyToWrite: a seal writes a file that was wiped.        *)
KeyToWriteWiped == IF cmd.action = "seal" THEN Blank ELSE keyFile

KeyToWrite == keyFile

(* tpm_nvwrite to an area with OWNERWRITE permission.  With -a it is given *)
(* the AUTH password: the model leaves open whether the TPM takes it.      *)
WriteOutcomes == IF cmd.pw = "AUTH" THEN BOOLEAN ELSE Outcomes(ownerPw = "right")

Write ==
  /\ At("write")
  /\ \E ok \in WriteOutcomes, released \in Outcomes(ownerPw = "right") :
       IF ok
         THEN NvWrite(nvIndex, KeyToWrite) /\ AfterWrite
         ELSE /\ IF released THEN NvRelease(nvIndex) ELSE UNCHANGED nv
              /\ Abort
              /\ UNCHANGED report
  /\ UNCHANGED <<slots, pcrNow, files, admin, invocation, device, flags, passwords,
                 keyFile, progress, printed, errors>>

-----------------------------------------------------------------------------
(* init: the configuration and the other slots.                            *)

(* Mutated form of NewConf: the lines of all devices are filtered out.     *)
NewConfAlone == [EmptyConf EXCEPT ![dev] = Line(nvIndex)]

(* grep -v "^$DEVICE:", and a line appended.                               *)
NewConf == [conf EXCEPT ![dev] = Line(nvIndex)]

(* update_conf.  The device has no line here, so the early return for a    *)
(* line that is right already is never taken.  Nobody looks at the result  *)
(* of the two commands that write tpm-luks.conf.new.  `cp -f' empties      *)
(* tpm-luks.conf before it fills it.                                       *)
UpdateConf ==
  /\ At("conf")
  /\ confNew' \in IF DiskFull THEN CutShort(NewConf) ELSE {NewConf}
  /\ \/ cmd.dry /\ Goto("kill") /\ UNCHANGED conf
     \/ ~cmd.dry /\ Goto("cp") /\ conf' = EmptyConf
     \/ ~cmd.dry /\ Faults /\ Abort /\ UNCHANGED conf   \* no copy to .bak
  /\ UNCHANGED <<store, admin, invocation, device, flags, passwords, keyFile, progress,
                 output>>

CopyConf ==
  /\ At("cp")
  /\ \/ conf' = confNew /\ confNew' = EmptyConf /\ Goto("kill")
     \/ /\ Faults
        /\ Abort
        /\ conf' \in IF DiskFull THEN CutShort(confNew) ELSE {EmptyConf}
        /\ UNCHANGED confNew
  /\ UNCHANGED <<store, admin, invocation, device, flags, passwords, keyFile, progress,
                 output>>

(* Mutated form of ToKill: whatever opens the slot.                        *)
ToKillAny(same, ok) == slots[dev][slot] # NoKey /\ ~cmd.dry

ToKill(same, ok) == slots[dev][slot] # NoKey /\ ~same /\ ~cmd.dry /\ ok

(* Mutated form of MoreSlots: the loop runs one slot too far.              *)
MoreSlotsOffByOne == slot <= LastSlot

MoreSlots == slot < LastSlot

(* luks_kill_all, one slot of the device at a time.  A slot the key file   *)
(* does not open, or the test of which fails, is killed; nobody looks at   *)
(* the result.                                                             *)
Kill ==
  /\ At("kill")
  /\ \E same \in Outcomes(slots[dev][slot] = keyFile),
        ok \in Outcomes(MayKillSlot(dev, slot, keyFile)) :
       IF ToKill(same, ok)
         THEN LuksSetSlot(dev, slot, NoKey)
         ELSE UNCHANGED slots
  /\ IF MoreSlots
       THEN slot' = slot + 1 /\ UNCHANGED <<pc, report>>
       ELSE slot' = 0 /\ EndDevice("initialized (unsealed)")
  /\ UNCHANGED <<nv, pcrNow, files, admin, invocation, device, flags, passwords, keyFile,
                 verdict, printed, errors>>

-----------------------------------------------------------------------------
(* Around the script.                                                      *)

(* SIGINT or SIGTERM: the EXIT trap runs.                                  *)
Interrupt ==
  /\ Crashes
  /\ pc \notin {"idle", "finish", "exit"}
  /\ Abort
  /\ UNCHANGED <<outside, invocation, device, flags, passwords, keyFile, progress, output>>

(* SIGKILL: no trap, and /dev/shm stays as it was.                         *)
KillProcess ==
  /\ Crashes
  /\ ~At("idle")
  /\ Vanish
  /\ UNCHANGED <<store, conf, admin, keyFile>>

(* A boot, or the loss of power in the middle of a run: /dev/shm is empty  *)
(* and the PCRs are measured anew.                                         *)
Reboot ==
  /\ Crashes \/ At("idle")
  /\ pcrNow' \in Pcr
  /\ keyFile' = NoKey
  /\ Vanish
  /\ UNCHANGED <<nv, slots, conf, admin>>

(* tpm-luks.conf: use '' as script name to disable the use of the PCRs.    *)
ClearScript ==
  /\ ConfEdits
  /\ At("idle")
  /\ \E d \in Device :
       /\ Configured(d)
       /\ conf' = [conf EXCEPT ![d].script = "none"]
  /\ UNCHANGED <<store, confNew, admin, pc, invocation, device, flags, passwords, keyFile,
                 progress, output>>

(* The steps of the script itself.                                         *)
Step ==
  \/ StartDevice \/ Finish \/ Cleanup
  \/ Info \/ Prompt \/ Read \/ Test \/ EndChecking \/ StartWork
  \/ OwnerPassword \/ AuthPassword
  \/ ChooseFree \/ ChooseShared \/ GenerateKey \/ AddKey \/ AskKey \/ TestKey
  \/ Release \/ RunScript \/ Define \/ Write
  \/ UpdateConf \/ CopyConf \/ Kill

Next == Invoke \/ Step \/ Interrupt \/ KillProcess \/ Reboot \/ ClearScript

Spec == Init /\ [][Next]_vars

(* A script that was started goes on: the kernel schedules it, and the     *)
(* prompts are answered.                                                   *)
FairSpec == Spec /\ WF_vars(Step)
-----------------------------------------------------------------------------
(* What holds at each command of the script, in four parts: the inductive  *)
(* invariant of the proofs.                                                *)

(* NV_INDEX is an index from the moment the script uses it, and that of    *)
(* the line when the device had one.                                       *)
IndexInv ==
  /\ new = 0 /\ ~(pc \in {"idle", "next", "finish", "exit"}) =>
       nvIndex \in Index /\ nvIndex = conf[dev].idx
  /\ pc \in {"info", "prompt", "read", "test", "askkey", "testkey"} => new = 0
  /\ pc \in {"genkey", "addkey", "release", "perms", "define", "write", "conf", "cp",
             "kill", "authpw"} => nvIndex \in Index
  /\ new = 2 /\ pc \in {"ownerpw", "choose"} => nvIndex \in Index
  /\ pc = "dispatch" => new \in {0, 1}
  /\ pc = "genkey" => new = 1
  /\ pc = "addkey" => new \in {1, 2} /\ keyFile \in Data
  /\ pc \in {"conf", "cp"} => new \in {1, 2}

(* What each part of the script knows of the action.                       *)
ActionInv ==
  /\ pc = "ownerpw" => WorkToDo
  /\ pc \in {"choose", "genkey", "addkey", "askkey", "testkey", "conf", "cp", "kill"} =>
       cmd.action = "init"
  /\ pc \in {"authpw", "release", "perms", "define", "write"} =>
       cmd.action \in {"init", "seal", "unseal"}
  /\ new = 2 /\ pc = "authpw" => cmd.action = "init"
  /\ verdict = "reseal" /\ pc \in {"dispatch", "ownerpw"} =>
       cmd.action \in {"seal", "unseal"} /\ new = 0 /\ Opens(dev, keyFile)
  /\ pc \in {"write", "cp"} => ~cmd.dry

(* Area nvIndex holds the key in the key file.                             *)
Stored == nv[nvIndex].size = "key" /\ nv[nvIndex].data = keyFile

(* The key file opens the device from the moment it is accepted, and lies  *)
(* in the TPM from the moment it is written.                               *)
KeyInv ==
  /\ pc \in {"authpw", "release", "perms", "define", "write", "conf", "cp", "kill"}
       /\ ~cmd.dry => Opens(dev, keyFile)
  /\ new = 2 /\ pc \in {"addkey", "authpw"} => Stored
  /\ pc = "write" => nv[nvIndex].size = "key"
  /\ pc \in {"conf", "cp", "kill"} /\ ~cmd.dry => Stored

(* While the disk has room, the line is there before the first slot is     *)
(* killed.                                                                 *)
LineInv ==
  /\ pc = "cp" => conf = EmptyConf
  /\ ~DiskFull =>
       /\ pc = "cp" => confNew[dev] = Line(nvIndex)
       /\ pc = "kill" /\ ~cmd.dry => conf[dev].idx = nvIndex

CtlInv == TypeOK /\ IndexInv /\ ActionInv /\ KeyInv /\ LineInv

-----------------------------------------------------------------------------
(* Properties.                                                             *)

(* tpm-luks.conf, or what `cp -f' is filling it with.                      *)
ConfSeen == IF pc = "cp" THEN confNew ELSE conf

(* Nobody is locked out: each device has a slot that opens with the        *)
(* passphrase, with a key on paper, with the key file of the run under     *)
(* way, or with a key that lies in the TPM.                                *)
KeyKept ==
  \A d \in Device : \E s \in Slot :
    \/ slots[d][s] \in backup \cup {Passphrase}
    \/ slots[d][s] = keyFile /\ keyFile # NoKey
    \/ \E i \in Index : nv[i].size = "key" /\ nv[i].data = slots[d][s]

(* While the disk has room for tpm-luks.conf, luks_kill_all comes last: a  *)
(* slot is disabled only when the index in tpm-luks.conf has a key that    *)
(* opens another slot of the device.                                       *)
KillOnlyEscrowed ==
  [][\A d \in Device, s \in Slot :
       slots[d][s] # NoKey /\ slots'[d][s] = NoKey => Escrowed(d) /\ Escrowed(d)']_vars

(* Whatever is written to the TPM opens the device it is written for.      *)
WrittenKeyOpens ==
  [][\A i \in Index : nv'[i].data \notin {nv[i].data, Blank} => Opens(dev, nv'[i].data)]_vars

(* check, backup and a dry run change nothing that outlives them.          *)
ReadOnlyRuns ==
  [][~At("idle") /\ (cmd.dry \/ cmd.action \in {"check", "backup"})
       => UNCHANGED <<nv, slots, conf>>]_vars

(* The areas of other programs stay when no index is given with -i.        *)
ForeignUntouched ==
  [][\A i \in Index : nv[i].size = "other" => nv'[i] = nv[i]]_vars

(* A run never takes the stored key of a device it is not working on.      *)
OthersKeep ==
  [][\A d \in Device, i \in Index :
       ~At("idle") /\ d # dev /\ i = conf[d].idx /\ HoldsKeyOf(i, d) => HoldsKeyOf(i, d)']_vars

(* A line, once written, keeps its index, whatever is done to its device   *)
(* or to others.  So the copy of tpm-luks.conf that dracut put into the    *)
(* initramfs some runs ago still leads to the areas that ConfiguredOpens   *)
(* says open the devices: only for a new device must dracut be run again.  *)
LinesStay ==
  [][\A d \in Device : ConfSeen[d].idx # NoIndex => ConfSeen'[d].idx = ConfSeen[d].idx]_vars

(* The script keeps the promises of KeyEscrow, whatever fails.  While      *)
(* `cp -f' fills it, tpm-luks.conf counts as what it is about to be.       *)
Escrow == INSTANCE KeyEscrow WITH conf <- IF pc = "cp" THEN confNew ELSE conf
ImplementsEscrow == Escrow!Spec

(* Between runs the configuration is true.                                 *)
ConfiguredOpens == At("idle") => \A d \in Device : Configured(d) => Escrowed(d)

(* tpm-luks.conf: all TPM NVRAM indexes must be different.                 *)
DistinctIndexes ==
  \A d, e \in Device : Configured(d) /\ conf[d].idx = conf[e].idx => d = e

(* No key file is left when the script has ended, whichever way it ended   *)
(* short of SIGKILL.                                                       *)
KeyWiped == At("idle") => keyFile = NoKey

(* A script nobody kills with SIGKILL does not leave the key behind it:    *)
(* every way through the commands, the failures included, gets to a point  *)
(* where the key file is wiped.                                            *)
KeyFileGoes == keyFile # NoKey ~> keyFile = NoKey

(* The area of a configured device is bound to the PCRs.                   *)
Sealed(d) == nv[conf[d].idx].pcr # NoPcr

(* What a finished run reports is so: a device it calls ok, unchanged,     *)
(* initialized, sealed or unsealed has its key in the TPM, bound to the    *)
(* PCRs when it says sealed and free when it says unsealed.                *)
ReportTrue ==
  At("finish") /\ ~cmd.dry =>
    \A d \in Device :
      /\ report[d] \notin {"", "skipped", "error"} => Escrowed(d)
      /\ report[d] \in {"ok (sealed)", "unchanged (sealed)", "sealed"} => Sealed(d)
      /\ report[d] \in {"ok (unsealed)", "unchanged (unsealed)", "initialized (unsealed)",
                         "unsealed"} => ~Sealed(d)

(* Properties the repository states and the code does not have.            *)

(* tpm-luks-ctl, nv_info: set @NEED_AUTH_PASSWORD/@NEED_OWNER_PASSWORD     *)
(* from the area of the device at hand.                                    *)
FlagsFresh ==
  At("prompt") =>
    /\ needAuth => nv[nvIndex].perm = "AUTH"
    /\ needOwner => nv[nvIndex].perm = "OWNER"
=============================================================================
