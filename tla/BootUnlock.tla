----------------------------- MODULE BootUnlock -----------------------------
(***************************************************************************)
(* What reads the keys at boot.  In the initramfs dracut runs              *)
(* cryptroot-ask for each device it has to open, which calls               *)
(* cryptroot-ask-tpm: it looks the device up in the copy of tpm-luks.conf  *)
(* dracut has made, reads the key from the TPM, and falls back to a        *)
(* question.  It calls itself, through the prompts of ask_for_password,    *)
(* with the third argument "read" (a TPM password was asked for), "input"  *)
(* (ask for the LUKS password) or "pass" (it was).  After the switch to    *)
(* the root file system tpm-luks-svc tries the devices that are left, with *)
(* tpm-luks.conf as it is now and without a question.                      *)
(*                                                                         *)
(* nv_readvalue is part of both; what it does in the TPM is in Libtpm.     *)
(***************************************************************************)
EXTENDS Naturals, Sequences, FiniteSets

CONSTANTS
    Devices,        \* LUKS devices
    InitDevices,    \* those dracut opens
    Prefix,         \* <<d, e>>: the name of d is found in that of e
    NoDevice

ASSUME DevicesAssumption ==
    /\ InitDevices \subseteq Devices /\ NoDevice \notin Devices
    /\ Prefix \subseteq Devices \X Devices

VARIABLES
    copied,     \* devices with a line in the initramfs's tpm-luks.conf
    lines,      \* devices with a line in /etc/tpm-luks.conf
    area,       \* what the index of the line leads to
    patient,    \* whether the user knows the passwords, see Useful
    faults,     \* whether mount, umount and reads of the TPM may fail
    pc, dev,
    mode,       \* third argument of cryptroot-ask-tpm; "svc" in the service
    try,        \* of ask_for_password
    answer,     \* the last one to its prompt
    key,        \* the key file in the tmpfs that is mounted now
    left,       \* key files in the tmpfs that stayed mounted, and what left them
    shm,        \* contents of the service's key file
    todo,       \* devices still to come
    opened,
    failed      \* devices for which the service has set ERROR

env == <<copied, lines, area, patient, faults>>
vars == <<env, pc, dev, mode, try, answer, key, left, shm, todo, opened, failed>>

\* "none": no area has the index; "open": readable by anybody; "auth": with its
\* password; "owner": with the owner's, or with a password and other PCRs;
\* "pcr": with other PCRs; "junk": readable, and no key of the device.
Areas == {"none", "open", "auth", "owner", "pcr", "junk"}

NeedsPasswordAny == Areas \ {"none"}    \* mutant: the bits are not looked at

NeedsPassword == {"auth", "owner"}       \* PER_AUTHREAD, PER_OWNERREAD

\* "part": some of a key, or of what was taken for one; "wiped": zeros.
Contents == {"none", "key", "junk", "part", "wiped"}

\* Where a tmpfs stays mounted: the exits of an empty answer and of one that
\* base64 refuses, and an umount that fails.
Leaving == {"empty", "badBase64", "umount"}

\* "none": no third argument.  "input" asks at once, with "pass" for the answer.
Modes == {"none", "read", "pass", "svc"}

Labels == {"init", "lookup", "prompt", "mount", "nvread", "save", "open", "wipe",
           "umount", "next", "svcRead", "svcOpen", "svcWipe", "end"}

TypeOK ==
    /\ copied \subseteq Devices /\ lines \subseteq Devices
    /\ area \in [Devices -> Areas]
    /\ patient \in BOOLEAN /\ faults \in BOOLEAN
    /\ pc \in Labels
    /\ dev \in Devices \cup {NoDevice}
    /\ mode \in Modes
    /\ try \in 0..3
    /\ answer \in {"none", "right", "wrong", "empty", "badBase64"}
    /\ key \in Contents \cup {"unmounted"} /\ left \subseteq [file : Contents, exit : Leaving]
    /\ shm \in Contents
    /\ todo \subseteq Devices /\ opened \subseteq Devices /\ failed \subseteq Devices

Init ==
    /\ copied \in SUBSET Devices /\ lines \in SUBSET Devices
    /\ area \in [Devices -> Areas]
    /\ patient \in BOOLEAN
    /\ faults \in BOOLEAN
    /\ faults => ~ patient      \* whose answers are among those of others
    /\ pc = "init" /\ dev = NoDevice /\ mode = "none"
    /\ try = 0 /\ answer = "none"
    /\ key = "unmounted" /\ left = {} /\ shm = "none"
    /\ todo = InitDevices /\ opened = {} /\ failed = {}

-----------------------------------------------------------------------------
(* cryptroot-ask, and the exits of cryptroot-ask-tpm.                      *)

CryptrootAsk ==
    /\ pc = "init" /\ todo # {}
    /\ dev' \in todo
    /\ todo' = todo \ {dev'}
    /\ pc' = "lookup"
    /\ UNCHANGED <<env, mode, try, answer, key, left, shm, opened, failed>>

\* exit 0 of the outermost call: no result of it is looked at.
EndOfDevice ==
    /\ pc' = "init" /\ dev' = NoDevice
    /\ mode' = "none" /\ try' = 0 /\ answer' = "none"

\* ask_for_password --cmd "cryptroot-ask-tpm $DEVICE $NAME ..."
Ask(for) == pc' = "prompt" /\ mode' = for /\ try' = 1 /\ UNCHANGED <<dev, answer>>

\* cryptroot-ask-tpm $DEVICE $NAME input; exit 0
FallBack == Ask("pass")

\* Mutant: one question too many.
ExitErrorFourth ==
    IF mode \in {"read", "pass"} /\ try <= 3
    THEN pc' = "prompt" /\ try' = try + 1 /\ UNCHANGED <<dev, mode, answer>>
    ELSE EndOfDevice

\* exit 255: ask_for_password asks again, three times in all; without a prompt
\* around it nobody takes notice.
ExitError ==
    IF mode \in {"read", "pass"} /\ try < 3
    THEN pc' = "prompt" /\ try' = try + 1 /\ UNCHANGED <<dev, mode, answer>>
    ELSE EndOfDevice

\* Mutant: exit 255 where the user is to be asked.
TryFailedNoFallBack == ExitError

\* What was tried did not open the device.
TryFailed == IF mode = "none" THEN FallBack ELSE ExitError

-----------------------------------------------------------------------------
(* The index of the device.                                                *)

\* grep $DEVICE: also the lines of devices whose names begin like this one.
Found(d) == {e \in copied : e = d \/ <<d, e>> \in Prefix}

\* Two numbers make one index, which is taken to lead nowhere.
FoundArea(d) ==
    IF \E e \in Found(d) : Found(d) = {e} THEN area[CHOOSE e \in Found(d) : TRUE]
    ELSE "none"

\* MATCH1 is never set: that the PCRs do not match is not noticed here.
Lookup ==
    /\ pc = "lookup"
    /\ IF FoundArea(dev) = "none" THEN FallBack
       ELSE IF FoundArea(dev) \in NeedsPassword THEN Ask("read")
       ELSE pc' = "mount" /\ UNCHANGED <<dev, mode, try, answer>>
    /\ UNCHANGED <<env, key, left, shm, todo, opened, failed>>

\* A patient user skips a TPM password that does not work on the third
\* question, at the latest, and gets the LUKS password right by then.
Useful(a) ==
    \/ ~ patient
    \/ try < 3
    \/ mode = "read" /\ a = "empty"
    \/ mode = "read" /\ a = "right" /\ Found(dev) = {dev} /\ area[dev] = "auth"
    \/ mode = "pass" /\ a = "right"

\* An empty LUKS password gives up: a patient user does not.
GivesUp(a) == mode = "pass" /\ a = "empty"

\* plymouth, or the terminal, runs the command with the answer as its input.
Answer ==
    /\ pc = "prompt"
    /\ \E a \in {"right", "wrong", "empty"} \cup
                (IF mode = "pass" THEN {"badBase64"} ELSE {}) :
          /\ Useful(a)
          /\ GivesUp(a) => ~ patient
          /\ answer' = a
          /\ IF mode = "read" /\ a = "empty"
             THEN pc' = "prompt" /\ mode' = "pass" /\ try' = 1
             ELSE pc' = "mount" /\ UNCHANGED <<mode, try>>
    /\ UNCHANGED <<env, dev, key, left, shm, todo, opened, failed>>

-----------------------------------------------------------------------------
(* The key file, in a tmpfs of its own.  Each mount hides those before it; *)
(* how many there are makes no difference.                                 *)

Goto(label) == pc' = label /\ UNCHANGED <<dev, mode, try, answer>>

Mount ==
    /\ pc = "mount"
    /\ \/ /\ key' = "none"
          /\ Goto(IF mode = "pass" THEN "save" ELSE "nvread")
       \/ /\ faults
          /\ IF mode = "pass" THEN EndOfDevice ELSE ExitError
          /\ UNCHANGED key
    /\ UNCHANGED <<env, left, shm, todo, opened, failed>>

KeyFile(contents) == key' = contents /\ UNCHANGED left
Unmounted == key' = "unmounted" /\ UNCHANGED left
StaysMounted(contents, exit) ==
    key' = "unmounted" /\ left' = left \cup {[file |-> contents, exit |-> exit]}

\* nv_readvalue writes the file when the TPM has answered.  -pwdd is no help
\* with an area of the owner.
Readable(a) == a \in {"open", "junk"} \/ (a = "auth" /\ answer = "right")

\* The key of another device does not open this one.
KeyIn(d) == IF Found(d) = {d} /\ area[d] # "junk" THEN "key" ELSE "junk"

\* The TPM's result is the exit code, of which 8 bits are left: TPM_RETRY
\* (0x800) looks like success, and there is no file.
ExitCodeCut == faults

NvRead ==
    /\ pc = "nvread"
    /\ \/ /\ Readable(FoundArea(dev))
          /\ KeyFile(KeyIn(dev))
          /\ Goto("open")
       \/ ExitCodeCut /\ KeyFile("none") /\ Goto("open")
       \/ /\ ~ Readable(FoundArea(dev)) \/ faults
          /\ Unmounted \/ (faults /\ StaysMounted("none", "umount"))
          /\ TryFailed
    /\ UNCHANGED <<env, shm, todo, opened, failed>>

\* base64 -d has written what it could decode when it meets a character that
\* is not base64: with one too many at the end, that is the whole key.
Decoded == {"part", "key"}

\* The answer is the key, or its base64.  Two of the exits unmount nothing.
SaveAnswer ==
    /\ pc = "save"
    /\ CASE answer = "empty" -> StaysMounted("none", "empty") /\ EndOfDevice
         [] answer = "badBase64" ->
                (\E file \in Decoded : StaysMounted(file, "badBase64")) /\ ExitError
         [] answer = "right" -> KeyFile("key") /\ Goto("open")
         [] answer = "wrong" -> KeyFile("junk") /\ Goto("open")
    /\ UNCHANGED <<env, shm, todo, opened, failed>>

OpenLuks ==
    /\ pc = "open"
    /\ opened' = IF key = "key" THEN opened \cup {dev} ELSE opened
    /\ Goto("wipe")
    /\ UNCHANGED <<env, key, left, shm, todo, failed>>

\* Mutant: the key is still in the file when it is unmounted.
WipeNot ==
    /\ pc = "wipe"
    /\ Goto("umount")
    /\ UNCHANGED <<env, key, left, shm, todo, opened, failed>>

Wipe ==
    /\ pc = "wipe"
    /\ KeyFile("wiped")
    /\ Goto("umount")
    /\ UNCHANGED <<env, shm, todo, opened, failed>>

\* The result of umount is not looked at.
Umount ==
    /\ pc = "umount"
    /\ Unmounted \/ (faults /\ StaysMounted(key, "umount"))
    /\ IF dev \in opened THEN EndOfDevice ELSE TryFailed
    /\ UNCHANGED <<env, shm, todo, opened, failed>>

-----------------------------------------------------------------------------
(* tpm-luks-svc.                                                           *)

SwitchRoot ==
    /\ pc = "init" /\ todo = {}
    /\ pc' = "next" /\ mode' = "svc" /\ todo' = Devices
    /\ UNCHANGED <<env, dev, try, answer, key, left, shm, opened, failed>>

\* A device that is open or has no line is passed over.
SvcPass ==
    /\ pc = "next"
    /\ \E d \in todo : (d \in opened \/ d \notin lines) /\ todo' = todo \ {d}
    /\ UNCHANGED <<env, pc, dev, mode, try, answer, key, left, shm, opened, failed>>

SvcSkip ==
    /\ pc = "next"
    /\ \E d \in (todo \cap lines) \ opened :
          /\ area[d] \in {"none"} \cup NeedsPassword
          /\ todo' = todo \ {d} /\ failed' = failed \cup {d}
    /\ UNCHANGED <<env, pc, dev, mode, try, answer, key, left, shm, opened>>

SvcTake ==
    /\ pc = "next"
    /\ \E d \in (todo \cap lines) \ opened :
          /\ area[d] \notin {"none"} \cup NeedsPassword
          /\ dev' = d /\ todo' = todo \ {d}
    /\ pc' = "svcRead"
    /\ UNCHANGED <<env, mode, try, answer, key, left, shm, opened, failed>>

\* Mutant: exit for continue.
NextDeviceNone == pc' = "end" /\ dev' = NoDevice /\ UNCHANGED <<mode, try, answer>>

NextDevice == pc' = "next" /\ dev' = NoDevice /\ UNCHANGED <<mode, try, answer>>

SvcRead ==
    /\ pc = "svcRead"
    /\ \/ /\ area[dev] \in {"open", "junk"}
          /\ shm' = IF area[dev] = "open" THEN "key" ELSE "junk"
          /\ Goto("svcOpen")
          /\ UNCHANGED failed
       \/ ExitCodeCut /\ Goto("svcOpen") /\ UNCHANGED <<shm, failed>>
       \/ /\ area[dev] = "pcr" \/ faults
          /\ NextDevice
          /\ failed' = failed \cup {dev}
          /\ UNCHANGED shm
    /\ UNCHANGED <<env, key, left, todo, opened>>

\* Mutant: nobody looks at the result of luksOpen.
SvcOpenTrusting ==
    /\ pc = "svcOpen"
    /\ opened' = IF shm = "key" THEN opened \cup {dev} ELSE opened
    /\ Goto("svcWipe")
    /\ UNCHANGED <<env, key, left, shm, todo, failed>>

SvcOpen ==
    /\ pc = "svcOpen"
    /\ opened' = IF shm = "key" THEN opened \cup {dev} ELSE opened
    /\ failed' = IF shm = "key" THEN failed ELSE failed \cup {dev}
    /\ Goto("svcWipe")
    /\ UNCHANGED <<env, key, left, shm, todo>>

SvcWipe ==
    /\ pc = "svcWipe"
    /\ shm' = "none"
    /\ NextDevice
    /\ UNCHANGED <<env, key, left, todo, opened, failed>>

\* ERROR was set in the pipeline's subshell: exit 0.
SvcEnd ==
    /\ pc = "next" /\ todo = {}
    /\ pc' = "end"
    /\ UNCHANGED <<env, dev, mode, try, answer, key, left, shm, todo, opened, failed>>

cryptroot_ask_tpm ==
    Lookup \/ Mount \/ NvRead \/ SaveAnswer \/ OpenLuks \/ Wipe \/ Umount

tpm_luks_svc == SvcPass \/ SvcSkip \/ SvcTake \/ SvcRead \/ SvcOpen \/ SvcWipe \/ SvcEnd

Next == CryptrootAsk \/ cryptroot_ask_tpm \/ Answer \/ SwitchRoot \/ tpm_luks_svc

\* The scripts go on, and somebody answers their questions.
Spec == Init /\ [][Next]_vars /\ WF_vars(Next)

-----------------------------------------------------------------------------
(* Properties.                                                             *)

\* Whole keys, and what was taken for one, are in a mounted key file only while
\* they are tried: not when the user is asked, at the next device, or
\* afterwards.  What stays mounted holds none either, even when umount fails;
\* only an answer that base64 refuses may leave the whole key behind, in a
\* tmpfs that nobody unmounts (see KeyUnmounted).
KeyWiped ==
    /\ pc \in {"init", "lookup", "prompt", "mount", "next", "end"} =>
          key \notin {"key", "junk"}
    /\ \A l \in left : l.file \in {"key", "junk"} => l.exit = "badBase64"
    /\ pc \in {"next", "svcRead", "end"} => shm = "none"

\* cryptroot-ask-tpm.sh: "Zeroize keyfile regardless of success/fail and
\* unmount".
KeyUnmounted == pc \in {"init", "end"} => left = {}

\* The user is asked for a LUKS password only when the TPM cannot give the key
\* of the device to anybody at this boot, when no read without a question may
\* fail, and when no other line begins like the device's.
NoNeedlessQuestion ==
    pc = "prompt" /\ Found(dev) = {dev} /\ ~ faults => area[dev] # "open"

\* The service opens whatever is left and can be read without a question,
\* whatever became of the devices before.
ServiceOpensTheRest ==
    pc = "end" /\ ~ faults =>
        \A d \in lines : area[d] = "open" => d \in opened

\* When the service is through, it has said so of every device with a line that
\* is not open, whether or not it believed to have its key.
FailuresReported == pc = "end" => lines \subseteq opened \cup failed

\* A device that dracut opens, with a user who answers and tmpfs and TPM
\* working, is opened in the end: whatever is in the TPM, the user
\* gets to the question for the LUKS password.
PatientUserOpens ==
    patient /\ ~ faults => \A d \in InitDevices : <>(d \in opened)
=============================================================================
