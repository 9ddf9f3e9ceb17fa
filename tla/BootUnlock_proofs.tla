-------------------------- MODULE BootUnlock_proofs --------------------------
(***************************************************************************)
(* What BootUnlock states of the key files, the questions and the service  *)
(* holds for any devices, whatever their names, their lines and their      *)
(* areas.  That a device is open in the end is left to TLC.                *)
(*                                                                         *)
(* FlowInv says which variables are set at which label; the other parts    *)
(* say, of one property each, what has to hold on the way.                 *)
(***************************************************************************)
EXTENDS BootUnlock, TLAPS

Asking == {"prompt", "mount", "nvread", "save", "open", "wipe", "umount"}
Serving == {"next", "svcRead", "svcOpen", "svcWipe", "end"}

FlowInv ==
    /\ pc \notin {"init", "next", "end"} => dev \in Devices
    /\ pc \in {"init", "lookup"} => mode = "none"
    /\ pc \in {"mount", "save"} /\ mode = "pass" => answer # "none"
    /\ pc = "save" => mode = "pass"
    /\ pc = "end" => todo = {}

\* What may stay mounted: a whole key only where base64 has refused the answer.
Leavable == {l \in [file : Contents, exit : Leaving] :
                l.file \in {"key", "junk"} => l.exit = "badBase64"}

\* The key file is there from mount to umount, and zeros when it goes.
KeyInv ==
    /\ pc \in {"nvread", "save"} => key = "none"
    /\ pc = "umount" => key = "wiped"
    /\ pc \notin Asking \ {"prompt", "mount"} => key = "unmounted"
    /\ left \subseteq Leavable
    /\ pc \notin {"svcOpen", "svcWipe"} => shm = "none"

\* The device that the TPM opens without a question.
Plain == Found(dev) = {dev} /\ area[dev] = "open" /\ ~ faults

PlainInv == Plain /\ pc \in Asking =>
    /\ mode = "none" /\ pc \notin {"prompt", "save"}
    /\ pc = "open" => key = "key"
    /\ pc \in {"wipe", "umount"} => dev \in opened

\* The devices the service is through with.
Behind == Devices \ (todo \cup IF pc \in {"svcRead", "svcOpen"} THEN {dev} ELSE {})

ReportInv == pc \in Serving => lines \cap Behind \subseteq opened \cup failed

OpenInv == pc \in Serving /\ ~ faults =>
    /\ \A d \in lines \cap Behind : area[d] = "open" => d \in opened
    /\ pc = "svcOpen" /\ area[dev] = "open" => shm = "key"

IInv == TypeOK /\ FlowInv /\ KeyInv /\ PlainInv /\ ReportInv /\ OpenInv

-----------------------------------------------------------------------------
(* The operators.                                                          *)

\* For a device whose name is in no other line, FoundArea is its own area.
LEMMA OwnArea ==
    ASSUME dev \in Devices, Found(dev) = {dev}
    PROVE  FoundArea(dev) = area[dev]
<1>1. \E e \in Found(dev) : Found(dev) = {e}
  OBVIOUS
<1>2. (CHOOSE e \in Found(dev) : TRUE) = dev
  <2>1. (CHOOSE e \in Found(dev) : TRUE) \in Found(dev)
    BY <1>1, Zenon
  <2> QED
    BY <2>1
<1> QED
  BY <1>1, <1>2, Zenon DEF FoundArea

-----------------------------------------------------------------------------
(* The invariant.                                                          *)

\* It holds at the start of the initramfs.
LEMMA InitInv == Init => IInv
<1> SUFFICES ASSUME Init PROVE IInv
  OBVIOUS
<1> USE DevicesAssumption DEF Init
<1>1. TypeOK
  <2>1. patient \in BOOLEAN /\ faults \in BOOLEAN
    BY Zenon
  <2>2. copied \subseteq Devices /\ lines \subseteq Devices /\ todo \subseteq Devices
    OBVIOUS
  <2> QED
    BY <2>1, <2>2 DEF TypeOK, Labels, Modes, Contents
<1>2. FlowInv /\ KeyInv
  BY DEF FlowInv, KeyInv, Asking
<1>3. PlainInv /\ ReportInv /\ OpenInv
  BY DEF PlainInv, ReportInv, OpenInv, Asking, Serving
<1> QED
  BY <1>1, <1>2, <1>3 DEF IInv

\* The types again, one variable at a time.
LEMMA TypeStep ==
    ASSUME TypeOK, UNCHANGED env,
           pc' \in Labels, dev' \in Devices \cup {NoDevice}, mode' \in Modes, try' \in 0..3,
           answer' \in {"none", "right", "wrong", "empty", "badBase64"},
           key' \in Contents \cup {"unmounted"}, left' \subseteq [file : Contents, exit : Leaving],
           shm' \in Contents,
           todo' \subseteq Devices, opened' \subseteq Devices, failed' \subseteq Devices
    PROVE  TypeOK'
<1>1. /\ copied' = copied /\ lines' = lines /\ area' = area
      /\ patient' = patient /\ faults' = faults
  BY Zenon DEF env
<1> QED
  BY <1>1, Zenon DEF TypeOK

\* What the TPM opens without a question it opens throughout.
LEMMA PlainStays ==
    ASSUME UNCHANGED <<env, dev>>
    PROVE  Plain' <=> Plain
<1>1. copied' = copied /\ area' = area /\ faults' = faults /\ dev' = dev
  BY Zenon DEF env
<1>2. Found(dev)' = Found(dev)
  BY <1>1, Zenon DEF Found
<1> QED
  BY <1>1, <1>2, Zenon DEF Plain

\* What a call of cryptroot-ask-tpm, or a prompt, does to the control state when
\* it ends without the device: the next question or the next device.
LEMMA TryFailedFlow ==
    ASSUME TypeOK, FlowInv, pc \in Asking, TryFailed \/ ExitError \/ EndOfDevice \/ FallBack
    PROVE  /\ pc' \in {"prompt", "init"}
           /\ pc' = "prompt" => dev' = dev
           /\ pc' = "init" => mode' = "none"
           /\ dev' \in Devices \cup {NoDevice}
           /\ mode' \in Modes /\ try' \in 0..3
           /\ answer' \in {"none", "right", "wrong", "empty", "badBase64"}
<1> USE DEF TypeOK, FlowInv, Asking, Modes
<1>0. dev \in Devices
  OBVIOUS
<1>1. CASE EndOfDevice
  BY <1>1 DEF EndOfDevice
<1>2. CASE FallBack
  BY <1>0, <1>2 DEF FallBack, Ask
<1>3. CASE ExitError
  <2>1. CASE mode \in {"read", "pass"} /\ try < 3
    BY <1>0, <1>3, <2>1 DEF ExitError
  <2>2. CASE ~ (mode \in {"read", "pass"} /\ try < 3)
    <3>1. EndOfDevice
      BY <1>3, <2>2, Zenon DEF ExitError
    <3> QED
      BY <3>1 DEF EndOfDevice
  <2> QED
    BY <2>1, <2>2
<1> QED
  BY <1>1, <1>2, <1>3, Zenon DEF TryFailed

\* A key file that stays mounted where it may.
LEMMA StaysLeavable ==
    ASSUME left \subseteq Leavable,
           NEW contents \in Contents, NEW exit \in Leaving,
           contents \in {"key", "junk"} => exit = "badBase64",
           StaysMounted(contents, exit)
    PROVE  key' = "unmounted" /\ left' \subseteq Leavable
<1>1. [file |-> contents, exit |-> exit] \in Leavable
  BY DEF Leavable
<1> QED
  BY <1>1 DEF StaysMounted

\* Every step of cryptroot-ask and cryptroot-ask-tpm keeps it.
LEMMA InitramfsInv ==
    ASSUME IInv, CryptrootAsk \/ cryptroot_ask_tpm \/ Answer
    PROVE  IInv'
<1> USE DEF IInv, Asking, Serving
<1>1. CASE CryptrootAsk
  <2>1. TypeOK'
    BY <1>1, TypeStep DEF CryptrootAsk, TypeOK, Labels
  <2>2. FlowInv' /\ KeyInv' /\ PlainInv' /\ ReportInv' /\ OpenInv'
    BY <1>1 DEF CryptrootAsk, TypeOK, FlowInv, KeyInv, PlainInv, ReportInv, OpenInv
  <2> QED
    BY <2>1, <2>2
<1>2. CASE Lookup
  <2>1. dev \in Devices /\ pc = "lookup" /\ mode = "none"
    BY <1>2 DEF Lookup, FlowInv
  <2>2. /\ pc' \in {"prompt", "mount"} /\ dev' = dev /\ answer' = answer
        /\ pc' = "mount" => mode' = "none" /\ try' = try
        /\ pc' = "prompt" => mode' \in {"read", "pass"} /\ try' = 1
        /\ pc' = "prompt" => FoundArea(dev) \in {"none"} \cup NeedsPassword
    BY <1>2, <2>1 DEF Lookup, FallBack, Ask
  <2>3. UNCHANGED <<env, key, left, shm, todo, opened, failed>>
    BY <1>2 DEF Lookup
  <2>4. TypeOK'
    BY <2>1, <2>2, <2>3, TypeStep DEF TypeOK, Labels, Modes
  <2>5. FlowInv' /\ KeyInv' /\ ReportInv' /\ OpenInv'
    BY <2>1, <2>2, <2>3 DEF FlowInv, KeyInv, ReportInv, OpenInv
  <2>6. Plain' => Plain
    BY <2>2, <2>3, PlainStays
  <2>7. PlainInv'
    BY <2>1, <2>2, <2>6, OwnArea DEF PlainInv, Plain, NeedsPassword
  <2> QED
    BY <2>4, <2>5, <2>7
<1>3. CASE Answer
  <2>1. PICK a \in {"right", "wrong", "empty", "badBase64"} :
          /\ answer' = a
          /\ IF mode = "read" /\ a = "empty"
             THEN pc' = "prompt" /\ mode' = "pass" /\ try' = 1
             ELSE pc' = "mount" /\ UNCHANGED <<mode, try>>
    BY <1>3 DEF Answer
  <2>2. pc = "prompt" /\ UNCHANGED <<env, dev, key, left, shm, todo, opened, failed>>
    BY <1>3 DEF Answer
  <2>3. TypeOK'
    BY <2>1, <2>2, TypeStep DEF TypeOK, Labels, Modes
  <2>4. FlowInv' /\ KeyInv' /\ ReportInv' /\ OpenInv'
    BY <2>1, <2>2 DEF FlowInv, KeyInv, ReportInv, OpenInv
  <2>5. ~ Plain'
    BY <2>2, PlainStays DEF PlainInv
  <2> QED
    BY <2>3, <2>4, <2>5 DEF PlainInv
<1>4. CASE Mount
  <2>1. UNCHANGED <<env, left, shm, todo, opened, failed>> /\ pc = "mount" /\ dev \in Devices
    BY <1>4 DEF Mount, FlowInv
  <2>2. CASE key' = "none" /\ Goto(IF mode = "pass" THEN "save" ELSE "nvread")
    <3>1. /\ pc' = IF mode = "pass" THEN "save" ELSE "nvread"
          /\ UNCHANGED <<dev, mode, try, answer>>
      BY <2>2 DEF Goto
    <3>2. TypeOK'
      BY <2>1, <2>2, <3>1, TypeStep DEF TypeOK, Labels, Contents
    <3>3. FlowInv' /\ KeyInv' /\ ReportInv' /\ OpenInv'
      BY <2>1, <2>2, <3>1 DEF FlowInv, KeyInv, ReportInv, OpenInv
    <3>4. PlainInv'
      BY <2>1, <3>1, PlainStays DEF PlainInv
    <3> QED
      BY <3>2, <3>3, <3>4
  <2>3. CASE faults /\ UNCHANGED key /\ IF mode = "pass" THEN EndOfDevice ELSE ExitError
    <3>1. EndOfDevice \/ ExitError
      BY <2>3, Zenon
    <3>2. TypeOK'
      BY <2>1, <2>3, <3>1, TryFailedFlow, TypeStep DEF TypeOK, Labels
    <3>3. FlowInv' /\ KeyInv' /\ ReportInv' /\ OpenInv'
      BY <2>1, <2>3, <3>1, TryFailedFlow DEF FlowInv, KeyInv, ReportInv, OpenInv
    <3>4. ~ Plain'
      BY <2>1, <2>3, Zenon DEF Plain, env
    <3> QED
      BY <3>2, <3>3, <3>4 DEF PlainInv
  <2> QED
    BY <1>4, <2>2, <2>3, Zenon DEF Mount
<1>5. CASE NvRead
  <2>1. UNCHANGED <<env, shm, todo, opened, failed>> /\ pc = "nvread" /\ dev \in Devices
    BY <1>5 DEF NvRead, FlowInv
  <2>2. CASE /\ Goto("open")
             /\ \/ Readable(FoundArea(dev)) /\ KeyFile(KeyIn(dev))
                \/ ExitCodeCut /\ KeyFile("none")
    <3>1. pc' = "open" /\ UNCHANGED <<dev, mode, try, answer, left>> /\ key' \in Contents
      BY <2>2 DEF Goto, KeyFile, KeyIn, Contents
    <3>2. TypeOK'
      BY <2>1, <3>1, TypeStep DEF TypeOK, Labels
    <3>3. FlowInv' /\ KeyInv' /\ ReportInv' /\ OpenInv'
      BY <2>1, <3>1 DEF FlowInv, KeyInv, ReportInv, OpenInv
    <3>4. Plain => key' = "key"
      BY <2>2 DEF Plain, KeyFile, KeyIn, ExitCodeCut
    <3>5. PlainInv'
      BY <2>1, <3>1, <3>4, PlainStays DEF PlainInv
    <3> QED
      BY <3>2, <3>3, <3>5
  <2>3. CASE /\ ~ Readable(FoundArea(dev)) \/ faults
             /\ Unmounted \/ (faults /\ StaysMounted("none", "umount"))
             /\ TryFailed
    <3>0. key' = "unmounted" /\ left' \subseteq Leavable
      BY <2>3, StaysLeavable DEF KeyInv, Unmounted, Contents, Leaving
    <3>1. TypeOK'
      BY <2>1, <2>3, <3>0, TryFailedFlow, TypeStep DEF TypeOK, Labels, Leavable
    <3>2. FlowInv' /\ KeyInv' /\ ReportInv' /\ OpenInv'
      BY <2>1, <2>3, <3>0, TryFailedFlow DEF FlowInv, KeyInv, ReportInv, OpenInv
    <3>3. ~ Plain
      BY <2>1, <2>3, OwnArea DEF Plain, Readable
    <3>4. PlainInv'
      BY <2>1, <2>3, <3>3, TryFailedFlow, PlainStays DEF PlainInv
    <3> QED
      BY <3>1, <3>2, <3>4
  <2> QED
    BY <1>5, <2>2, <2>3, Zenon DEF NvRead
<1>6. CASE SaveAnswer
  <2>1. /\ UNCHANGED <<env, shm, todo, opened, failed>> /\ pc = "save" /\ dev \in Devices
        /\ answer \in {"right", "wrong", "empty", "badBase64"}
    BY <1>6 DEF SaveAnswer, FlowInv, TypeOK
  <2>2. \/ /\ Goto("open") /\ key' \in {"key", "junk"} /\ UNCHANGED left
        \/ /\ EndOfDevice \/ ExitError
           /\ key' = "unmounted" /\ left' \subseteq Leavable
    <3>1. CASE answer = "empty"
      BY <1>6, <3>1, StaysLeavable DEF SaveAnswer, KeyInv, Contents, Leaving
    <3>2. CASE answer = "badBase64"
      <4>1. PICK file \in Decoded : StaysMounted(file, "badBase64")
        BY <1>6, <3>2 DEF SaveAnswer
      <4>2. file \in Contents /\ "badBase64" \in Leaving
        BY DEF Decoded, Contents, Leaving
      <4>3. key' = "unmounted" /\ left' \subseteq Leavable
        BY <4>1, <4>2, StaysLeavable DEF KeyInv
      <4> QED
        BY <1>6, <3>2, <4>3 DEF SaveAnswer
    <3>3. CASE answer \in {"right", "wrong"}
      BY <1>6, <3>3 DEF SaveAnswer, KeyFile
    <3> QED
      BY <2>1, <3>1, <3>2, <3>3
  <2>3. CASE Goto("open") /\ key' \in {"key", "junk"} /\ UNCHANGED left
    <3>1. TypeOK'
      BY <2>1, <2>3, TypeStep DEF TypeOK, Labels, Goto, Contents
    <3>2. FlowInv' /\ KeyInv' /\ ReportInv' /\ OpenInv'
      BY <2>1, <2>3 DEF FlowInv, KeyInv, ReportInv, OpenInv, Goto
    <3>3. PlainInv'
      BY <2>1, <2>3, PlainStays DEF PlainInv, Goto
    <3> QED
      BY <3>1, <3>2, <3>3
  <2>4. CASE /\ EndOfDevice \/ ExitError
             /\ key' = "unmounted" /\ left' \subseteq Leavable
    <3>1. TypeOK'
      BY <2>1, <2>4, TryFailedFlow, TypeStep DEF TypeOK, Labels, Leavable
    <3>2. FlowInv' /\ KeyInv' /\ ReportInv' /\ OpenInv'
      BY <2>1, <2>4, TryFailedFlow DEF FlowInv, KeyInv, ReportInv, OpenInv
    <3>3. PlainInv'
      BY <2>1, <2>4, TryFailedFlow, PlainStays DEF PlainInv
    <3> QED
      BY <3>1, <3>2, <3>3
  <2> QED
    BY <2>2, <2>3, <2>4
<1>7. CASE OpenLuks
  <2>1. /\ UNCHANGED <<env, dev, mode, try, answer, key, left, shm, todo, failed>>
        /\ pc = "open" /\ pc' = "wipe" /\ dev \in Devices
        /\ opened' = IF key = "key" THEN opened \cup {dev} ELSE opened
    BY <1>7 DEF OpenLuks, Goto, FlowInv
  <2>2. TypeOK'
    BY <2>1, TypeStep DEF TypeOK, Labels
  <2>3. FlowInv' /\ KeyInv' /\ ReportInv' /\ OpenInv'
    BY <2>1 DEF FlowInv, KeyInv, ReportInv, OpenInv
  <2>4. PlainInv'
    BY <2>1, PlainStays DEF PlainInv
  <2> QED
    BY <2>2, <2>3, <2>4
<1>8. CASE Wipe
  <2>1. /\ UNCHANGED <<env, dev, mode, try, answer, left, shm, todo, opened, failed>>
        /\ pc = "wipe" /\ pc' = "umount" /\ key' = "wiped" /\ dev \in Devices
    BY <1>8 DEF Wipe, Goto, KeyFile, FlowInv
  <2>2. TypeOK'
    BY <2>1, TypeStep DEF TypeOK, Labels, Contents
  <2>3. FlowInv' /\ KeyInv' /\ ReportInv' /\ OpenInv'
    BY <2>1 DEF FlowInv, KeyInv, ReportInv, OpenInv
  <2>4. PlainInv'
    BY <2>1, PlainStays DEF PlainInv
  <2> QED
    BY <2>2, <2>3, <2>4
<1>9. CASE Umount
  <2>1. /\ UNCHANGED <<env, shm, todo, opened, failed>> /\ pc = "umount" /\ dev \in Devices
        /\ key = "wiped"
    BY <1>9 DEF Umount, FlowInv, KeyInv
  <2>0. key' = "unmounted" /\ left' \subseteq Leavable
    BY <1>9, <2>1, StaysLeavable DEF Umount, Unmounted, KeyInv, Contents, Leaving
  <2>2. EndOfDevice \/ TryFailed
    BY <1>9, Zenon DEF Umount
  <2>3. TypeOK'
    BY <2>0, <2>1, <2>2, TryFailedFlow, TypeStep DEF TypeOK, Labels, Leavable
  <2>4. FlowInv' /\ KeyInv' /\ ReportInv' /\ OpenInv'
    BY <2>0, <2>1, <2>2, TryFailedFlow DEF FlowInv, KeyInv, ReportInv, OpenInv
  <2>5. PlainInv'
    <3>1. CASE dev \in opened
      BY <1>9, <3>1 DEF Umount, EndOfDevice, PlainInv
    <3>2. CASE dev \notin opened
      BY <2>1, <2>2, <3>2, TryFailedFlow, PlainStays DEF PlainInv
    <3> QED
      BY <3>1, <3>2
  <2> QED
    BY <2>3, <2>4, <2>5
<1> QED
  BY <1>1, <1>2, <1>3, <1>4, <1>5, <1>6, <1>7, <1>8, <1>9 DEF cryptroot_ask_tpm

\* So does every step of the service.
LEMMA ServiceInv ==
    ASSUME IInv, SwitchRoot \/ tpm_luks_svc
    PROVE  IInv'
<1> USE DEF IInv, Asking, Serving
<1>1. CASE SwitchRoot
  <2>1. TypeOK'
    BY <1>1, TypeStep DEF SwitchRoot, TypeOK, Labels, Modes
  <2>2. FlowInv' /\ KeyInv' /\ PlainInv' /\ ReportInv' /\ OpenInv'
    BY <1>1 DEF SwitchRoot, TypeOK, FlowInv, KeyInv, PlainInv, ReportInv, OpenInv, Behind, env
  <2> QED
    BY <2>1, <2>2
<1>2. CASE SvcPass \/ SvcSkip
  <2>1. /\ UNCHANGED <<env, pc, dev, mode, try, answer, key, left, shm, opened>>
        /\ pc = "next" /\ failed \subseteq failed' /\ failed' \subseteq Devices
    BY <1>2 DEF SvcPass, SvcSkip, TypeOK
  <2>2. PICK d \in todo :
          /\ todo' = todo \ {d}
          /\ d \in lines => d \in opened \cup failed'
          /\ area[d] = "open" /\ d \in lines => d \in opened
    BY <1>2 DEF SvcPass, SvcSkip, NeedsPassword
  <2>3. lines' = lines /\ area' = area /\ faults' = faults
    BY <2>1 DEF env
  <2>4. Behind' = Behind \cup {d}
    BY <2>1, <2>2 DEF Behind, TypeOK
  <2>5. TypeOK'
    BY <2>1, <2>2, TypeStep DEF TypeOK, Labels
  <2>6. FlowInv' /\ KeyInv' /\ PlainInv'
    BY <2>1 DEF FlowInv, KeyInv, PlainInv
  <2>7. ReportInv' /\ OpenInv'
    BY <2>1, <2>2, <2>3, <2>4 DEF ReportInv, OpenInv
  <2> QED
    BY <2>5, <2>6, <2>7
<1>3. CASE SvcTake
  <2>1. /\ UNCHANGED <<env, mode, try, answer, key, left, shm, opened, failed>>
        /\ pc = "next" /\ pc' = "svcRead" /\ dev' \in todo /\ todo' = todo \ {dev'}
    BY <1>3 DEF SvcTake
  <2>2. lines' = lines /\ area' = area /\ faults' = faults
    BY <2>1 DEF env
  <2>3. Behind' = Behind
    BY <2>1 DEF Behind, TypeOK
  <2>4. TypeOK'
    BY <2>1, TypeStep DEF TypeOK, Labels
  <2>5. FlowInv' /\ KeyInv' /\ PlainInv' /\ ReportInv' /\ OpenInv'
    BY <2>1, <2>2, <2>3 DEF TypeOK, FlowInv, KeyInv, PlainInv, ReportInv, OpenInv
  <2> QED
    BY <2>4, <2>5
<1>4. CASE SvcRead
  <2>1. /\ UNCHANGED <<env, key, left, todo, opened>> /\ pc = "svcRead" /\ dev \in Devices
        /\ lines' = lines /\ area' = area /\ faults' = faults
    BY <1>4 DEF SvcRead, FlowInv, env
  <2>2. CASE /\ Goto("svcOpen") /\ UNCHANGED failed /\ shm' \in Contents
             /\ area[dev] = "open" => shm' = "key" \/ faults
    <3>1. TypeOK'
      BY <2>1, <2>2, TypeStep DEF TypeOK, Labels, Goto
    <3>2. Behind' = Behind
      BY <2>1, <2>2 DEF Behind, Goto
    <3>3. FlowInv' /\ KeyInv' /\ PlainInv' /\ ReportInv' /\ OpenInv'
      BY <2>1, <2>2, <3>2 DEF FlowInv, KeyInv, PlainInv, ReportInv, OpenInv, Goto
    <3> QED
      BY <3>1, <3>3
  <2>3. CASE /\ area[dev] = "pcr" \/ faults
             /\ NextDevice /\ failed' = failed \cup {dev} /\ UNCHANGED shm
    <3>1. TypeOK'
      BY <2>1, <2>3, TypeStep DEF TypeOK, Labels, NextDevice
    <3>2. Behind' \subseteq Behind \cup {dev}
      BY <2>1, <2>3 DEF Behind, NextDevice
    <3>3. FlowInv' /\ KeyInv' /\ PlainInv' /\ ReportInv' /\ OpenInv'
      BY <2>1, <2>3, <3>2 DEF FlowInv, KeyInv, PlainInv, ReportInv, OpenInv, NextDevice
    <3> QED
      BY <3>1, <3>3
  <2> QED
    BY <1>4, <2>1, <2>2, <2>3 DEF SvcRead, ExitCodeCut, Contents, TypeOK
<1>5. CASE SvcOpen
  <2>1. /\ UNCHANGED <<env, dev, mode, try, answer, key, left, shm, todo>>
        /\ pc = "svcOpen" /\ pc' = "svcWipe" /\ dev \in Devices
        /\ opened' = IF shm = "key" THEN opened \cup {dev} ELSE opened
        /\ failed' = IF shm = "key" THEN failed ELSE failed \cup {dev}
    BY <1>5 DEF SvcOpen, Goto, FlowInv
  <2>2. lines' = lines /\ area' = area /\ faults' = faults
    BY <2>1 DEF env
  <2>3. TypeOK'
    BY <2>1, TypeStep DEF TypeOK, Labels
  <2>4. Behind' \subseteq Behind \cup {dev}
    BY <2>1 DEF Behind
  <2>5. FlowInv' /\ KeyInv' /\ PlainInv' /\ ReportInv' /\ OpenInv'
    BY <2>1, <2>2, <2>4 DEF FlowInv, KeyInv, PlainInv, ReportInv, OpenInv
  <2> QED
    BY <2>3, <2>5
<1>6. CASE SvcWipe
  <2>1. /\ UNCHANGED <<env, mode, try, answer, key, left, todo, opened, failed>>
        /\ pc = "svcWipe" /\ pc' = "next" /\ dev' = NoDevice /\ shm' = "none"
        /\ lines' = lines /\ area' = area /\ faults' = faults
    BY <1>6 DEF SvcWipe, NextDevice, env
  <2>2. Behind' = Behind
    BY <2>1 DEF Behind
  <2>3. TypeOK'
    BY <2>1, TypeStep DEF TypeOK, Labels, Contents
  <2>4. FlowInv' /\ KeyInv' /\ PlainInv'
    BY <2>1 DEF FlowInv, KeyInv, PlainInv
  <2>5. ReportInv' /\ OpenInv'
    BY <2>1, <2>2 DEF ReportInv, OpenInv
  <2> QED
    BY <2>3, <2>4, <2>5
<1>7. CASE SvcEnd
  <2>1. /\ UNCHANGED <<env, dev, mode, try, answer, key, left, shm, todo, opened, failed>>
        /\ pc = "next" /\ pc' = "end" /\ todo = {}
        /\ lines' = lines /\ area' = area /\ faults' = faults
    BY <1>7 DEF SvcEnd, env
  <2>2. Behind' = Behind
    BY <2>1 DEF Behind
  <2>3. TypeOK'
    BY <2>1, TypeStep DEF TypeOK, Labels
  <2>4. FlowInv' /\ KeyInv' /\ PlainInv'
    BY <2>1 DEF FlowInv, KeyInv, PlainInv
  <2>5. ReportInv' /\ OpenInv'
    BY <2>1, <2>2 DEF ReportInv, OpenInv
  <2> QED
    BY <2>3, <2>4, <2>5
<1> QED
  BY <1>1, <1>2, <1>3, <1>4, <1>5, <1>6, <1>7 DEF tpm_luks_svc

\* Each step keeps it.
LEMMA NextInv == IInv /\ [Next]_vars => IInv'
<1>1. ASSUME IInv, UNCHANGED vars PROVE IInv'
  <2>1. UNCHANGED <<env, pc, dev, mode, try, answer, key, left, shm, todo, opened, failed>>
    BY <1>1 DEF vars
  <2>2. lines' = lines /\ area' = area /\ faults' = faults
    BY <2>1 DEF env
  <2>3. TypeOK'
    BY <1>1, <2>1, TypeStep DEF IInv, TypeOK
  <2>4. FlowInv' /\ KeyInv' /\ PlainInv'
    BY <1>1, <2>1, PlainStays DEF IInv, FlowInv, KeyInv, PlainInv
  <2>5. ReportInv' /\ OpenInv'
    BY <1>1, <2>1, <2>2 DEF IInv, ReportInv, OpenInv, Behind
  <2> QED
    BY <2>3, <2>4, <2>5 DEF IInv
<1> QED
  BY <1>1, InitramfsInv, ServiceInv, Zenon DEF Next

\* The invariant, which the theorems below are read from.
THEOREM InvariantHolds == Spec => []IInv
BY InitInv, NextInv, PTL DEF Spec

-----------------------------------------------------------------------------
(* The properties.                                                         *)

\* Every variable keeps its type.
THEOREM TypeCorrect == Spec => []TypeOK
<1>1. IInv => TypeOK
  BY DEF IInv
<1> QED
  BY <1>1, InvariantHolds, PTL

\* Whichever way a try ends, no whole key is left in a mounted key file, neither
\* the initramfs's nor the service's, and none stays in a tmpfs that is not
\* unmounted, but for the answer that base64 -d gave up on.
THEOREM KeysAreWiped == Spec => []KeyWiped
<1>1. IInv => KeyWiped
  BY DEF IInv, KeyInv, Leavable, KeyWiped, Asking
<1> QED
  BY <1>1, InvariantHolds, PTL

\* Nobody is asked for a password of a device the TPM opens without one.
THEOREM QuestionsAreNeeded == Spec => []NoNeedlessQuestion
<1>1. IInv => NoNeedlessQuestion
  BY DEF IInv, PlainInv, Plain, Asking, NoNeedlessQuestion
<1> QED
  BY <1>1, InvariantHolds, PTL

\* The service opens every device it can, whatever became of the others.
THEOREM RestIsOpened == Spec => []ServiceOpensTheRest
<1>1. IInv => ServiceOpensTheRest
  BY DEF IInv, TypeOK, FlowInv, OpenInv, Behind, Serving, ServiceOpensTheRest
<1> QED
  BY <1>1, InvariantHolds, PTL

\* The service has reported every device with a line that is not open.
THEOREM FailuresAreReported == Spec => []FailuresReported
<1>1. IInv => FailuresReported
  BY DEF IInv, TypeOK, FlowInv, ReportInv, Behind, Serving, FailuresReported
<1> QED
  BY <1>1, InvariantHolds, PTL
=============================================================================
