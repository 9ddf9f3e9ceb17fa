---------------------------- MODULE TpmLuksStore ----------------------------
(***************************************************************************)
(* What outlives a run of the tpm-luks scripts: the NVRAM areas of the     *)
(* TPM, the key slots of the LUKS devices and /etc/tpm-luks.conf, with the *)
(* tpm-tools and cryptsetup commands the scripts run on them.  Neither     *)
(* program is part of the repository: each operator below says what the    *)
(* scripts rely on.                                                        *)
(***************************************************************************)
EXTENDS NvIndex

CONSTANTS
  Device,      \* LUKS partitions, numbered in the order `sort' lists them
  LastSlot,    \* the key slots of a device are 0..LastSlot
  Key,         \* 32-byte keys read from /dev/urandom
  Passphrase,  \* the passphrase the administrator formatted the devices with
  Blank,       \* the 0xFF bytes of an area that was defined and never written
  NoKey,       \* a disabled slot, no key file
  Pcr,         \* states of the PCRs a sealed area is bound to
  NoPcr,       \* an area that is not bound to any
  Radix        \* of the numerals in tpm-luks.conf: ten

Slot == 0..LastSlot
Data == Key \cup {Blank}
Secret == Data \cup {Passphrase}
Perm == {"NONE", "AUTH", "OWNER"}

ASSUME StoreAssumption ==
  /\ Device \subseteq Nat
  /\ LastSlot \in Nat
  /\ Blank \notin Key
  /\ Passphrase \notin Data
  /\ NoKey \notin Secret
  /\ NoPcr \notin Pcr
  /\ Radix \in Nat \ {0}

VARIABLES
  nv,      \* nv[i]: the NVRAM area at index i
  slots,   \* slots[d][s]: the secret that opens key slot s of device d
  pcrNow,  \* the PCRs since the last boot
  conf     \* conf[d]: the line of device d in tpm-luks.conf

store == <<nv, slots, pcrNow>>

(* A line of tpm-luks.conf: index NoIndex stands for no line.              *)
ConfLine == [idx : 0..MaxIndex, script : {"default", "none"}]
Line(i) == [idx |-> i, script |-> "default"]
EmptyConf == [d \in Device |-> Line(NoIndex)]

(* What a full disk may leave of a line: all of it, nothing (or nothing    *)
(* behind the name of the device), or a part that ends in the script,      *)
(* before the script or in the digits of the index, of which there are     *)
(* three at most.                                                          *)
Remains(line) ==
  {line, Line(NoIndex)} \cup
    {[idx |-> i, script |-> "none"] :
       i \in {line.idx, line.idx \div Radix, line.idx \div (Radix * Radix)} \ {NoIndex}}

(* What a full disk may leave of a file.                                   *)
CutShort(file) ==
  {f \in [Device -> ConfLine] : \A d \in Device : f[d] \in Remains(file[d])}

(* size tells a LUKS key (LUKS_KEY_SIZE bytes) from another owner's data;  *)
(* perm is the password a read needs.                                      *)
Area ==
  [size : {"none", "key", "other"}, data : Data,
   pcr : Pcr \cup {NoPcr}, perm : Perm]

Absent == [size |-> "none", data |-> Blank, pcr |-> NoPcr, perm |-> "NONE"]
Foreign == [Absent EXCEPT !.size = "other"]

StoreTypeOK ==
  /\ nv \in [Index -> Area]
  /\ slots \in [Device -> [Slot -> Secret \cup {NoKey}]]
  /\ pcrNow \in Pcr
  /\ conf \in [Device -> ConfLine]

-----------------------------------------------------------------------------
(* tpm_nvinfo -i i | grep NVRAM                                            *)
NvExists(i) == nv[i].size # "none"

(* tpm_nvread -i i -s $LUKS_KEY_SIZE without a password: the area must be  *)
(* readable by anyone, in the present state of the PCRs.                   *)
NvReadable(i) ==
  /\ nv[i].size = "key"
  /\ nv[i].perm = "NONE"
  /\ nv[i].pcr \in {NoPcr, pcrNow}

(* Mutated form of NvInUse: the areas one can read are counted.            *)
NvInUseReadable == {i \in Index : NvReadable(i)}

(* The indexes tpm_nvinfo lists.                                           *)
NvInUse == {i \in Index : NvExists(i)}

NvRelease(i) == nv' = [nv EXCEPT ![i] = Absent]

NvDefine(i, pcr, perm) ==
  nv' = [nv EXCEPT ![i] = [size |-> "key", data |-> Blank, pcr |-> pcr, perm |-> perm]]

NvWrite(i, key) == nv' = [nv EXCEPT ![i].data = key]

(* cryptsetup luksOpen --test-passphrase --key-file                        *)
Opens(d, key) == key # NoKey /\ \E s \in Slot : slots[d][s] = key

(* cryptsetup luksKillSlot asks for the key of a slot that remains.        *)
MayKillSlot(d, s, key) == key # NoKey /\ \E r \in Slot \ {s} : slots[d][r] = key

LuksSetSlot(d, s, secret) == slots' = [slots EXCEPT ![d][s] = secret]

(* The first slot luksDump shows as DISABLED.                              *)
IsFirstDisabled(d, s) ==
  /\ s \in Slot
  /\ slots[d][s] = NoKey
  /\ \A r \in Slot : r < s => slots[d][r] # NoKey

-----------------------------------------------------------------------------
(* Area i holds a key that opens device d.                                 *)
HoldsKeyOf(i, d) == nv[i].size = "key" /\ Opens(d, nv[i].data)

Configured(d) == conf[d].idx # NoIndex

(* The area of a configured device holds a key that opens it.              *)
Escrowed(d) == Configured(d) /\ HoldsKeyOf(conf[d].idx, d)

(* Devices as formatted, a TPM without keys.                               *)
StoreInit(foreign) ==
  /\ nv = [i \in Index |-> IF i \in foreign THEN Foreign ELSE Absent]
  /\ slots = [d \in Device |-> [s \in Slot |-> IF s = 0 THEN Passphrase ELSE NoKey]]
  /\ pcrNow \in Pcr
  /\ conf = EmptyConf
=============================================================================
