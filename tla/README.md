# A verification project for tpm-luks

tpm-luks keeps the keys of LUKS partitions in the NVRAM of a TPM 1.2: areas of 32
bytes at numbered indexes, bound to the PCRs when they are "sealed", so that a machine
that boots the software it was sealed with opens its disks by itself. This directory
models the four parts that handle keys, checks the models with TLC and proves their
safety properties with TLAPS:

* `tpm-luks-ctl`, which puts the keys into the TPM;
* `cryptroot-ask-tpm` and `tpm-luks-svc`, which use them at boot;
* libtpm's command functions, and the authorisation sessions they open;
* libtpm's two mechanisms below them: swapping keys, and transport sessions.

1. [Inventory](#1-inventory)
2. [Modules](#2-modules)
3. [State and actions against the code](#3-state-and-actions-against-the-code)
4. [Runs](#4-runs)
5. [Where the code and its documentation differ](#5-where-the-code-and-its-documentation-differ)
6. [Bounds and fairness](#6-bounds-and-fairness)
7. [Proofs](#7-proofs)
8. [What is not modelled](#8-what-is-not-modelled)
9. [What could come next](#9-what-could-come-next)

## 1. Inventory

| part | where | state it keeps | operations | status |
|---|---|---|---|---|
| tpm-luks-ctl | `tpm-luks/tpm-luks-ctl` | NVRAM areas, key slots, `/etc/tpm-luks.conf`, `/dev/shm/luks.key`; globals that go from one device to the next | check, init, seal, unseal, backup | modelled |
| find_free_nv_index | same file, 72-100 | the loop's candidate | the search for a free index | modelled, its loop too |
| tpm-luks-gen-tgrub2-pcr-values | `tpm-luks/` | the permissions file | list the present PCRs | its result: an area bound to the PCRs as they are |
| cryptroot-ask-tpm | `dracut/RHEL7/crypt-tpm/` | the copy of tpm-luks.conf in the initramfs, a tmpfs with the key, the prompts of plymouth | open one device at boot: from the TPM, with a TPM password, with a typed key | modelled |
| dracut hooks | `dracut/RHEL7/crypt-tpm/*.sh` | udev rules, initqueue jobs | parse the kernel command line, start cryptroot-ask, build the initramfs | the calls of cryptroot-ask-tpm, ask_for_password, the copy of tpm-luks.conf |
| tpm-luks-svc | `tpm-luks/tpm-luks-svc` | mapped devices, `/dev/shm/luks.key` | open the devices the boot left closed | modelled |
| nv_readvalue, getcapability | `swtpm-utils/*.c` | the exit code the scripts look at | read an area, print its attributes | what the scripts see of them |
| libtpm: commands | `swtpm-utils/lib/*.c` | sessions with the TPM | 123 functions for TPM 1.2 commands | the steps of each: sessions, request, answer, error paths |
| libtpm: key swapping | `lib/keyswap.c` | `/tmp/.key-*` | make room for keys, load those that were swapped out | modelled |
| libtpm: transport and audit | `lib/transport.c`, `tpmutil.c`, `auditing.c` | a stack of sessions, `.enonce`, the audit digest | wrap a command in a transport session | modelled, without the cryptography |
| libtpm: structures, low level, OpenSSL | `lib/tpm_structures*`, `lib/tpm_lowlevel*`, `lib/bind.c` | - | marshal, send, compute | not modelled: failures only |
| older dracut modules | `dracut/Fedora17`, `dracut/RHEL6` | as RHEL 7 | as RHEL 7; Fedora 17 tries every index without a password | not modelled |
| post-transaction-actions | `yum/` | the list of commands to run | run commands after a yum transaction | not modelled |
| build and packaging | `xtra/`, `*.am`, `configure.ac`, `*.spec` | - | - | not modelled |

How they interact. The scripts never call one another; they meet in four places. Below them, nv_readvalue and
getcapability are programs on libtpm, the only ones this repository builds of those it was written for; programs that use it share the
TPM's session handles and key slots, the files `/tmp/.key-*` and `.enonce`, and hold no lock on any of them.

* **The TPM** (`nv`). tpm-luks-ctl writes areas through tpm-tools; cryptroot-ask-tpm and
  tpm-luks-svc read them through nv_readvalue. A sealed area answers only in the PCR state it was
  defined with.
* **The LUKS headers** (`slots`). tpm-luks-ctl adds and kills slots; all others only open devices.
* **`/etc/tpm-luks.conf`** (`conf`): device, index, script. tpm-luks-ctl rewrites it; dracut
  copies it into the initramfs when the administrator runs it, so the boot may see an older one.
* **`/dev/shm/luks.key`** (`keyFile`): used by tpm-luks-ctl and by tpm-luks-svc.

What is hard. tpm-luks-ctl changes three stores that know nothing of one another, in some twenty commands per
device, each of which may fail, in a script that may be killed after any of them. A wrong
order destroys the only key of a disk. Globals that belong to one device are read while another is at work.
Two devices may share an area. The PCRs change with each boot. The indexes of lost areas
are used again. At boot the same script runs as itself, as the command of a prompt, and as the command of a prompt
started from a prompt, with keys in a tmpfs that each level must wipe. Below, every function of the library opens
sessions in a TPM that has room for three, over a connection that loses requests and answers; keys go out to files and
come back; nonces roll on both sides.

What makes the parts correct:

* find_free_nv_index: answers an index nobody uses, the lowest; fails only when there is none.
* tpm-luks-ctl: no device is ever without a secret that somebody has; slots are killed last, while there is room on the
  disk; what is written to the TPM opens the device; the configuration is true between runs; reports are true; check,
  backup and dry runs only read; areas of others stay; the key file goes.
* the boot: a device with a readable key opens without a question; otherwise the user is
  asked, in the end for the LUKS password; the key file is wiped wherever a whole key can be in it, but on one path.
* tpm-luks-svc: opens what can be opened, skips the rest, and says which it was.
* a command function: success is an answer of the TPM, and an authorised one that was verified (some functions, and some
  answers, are exceptions that are named); every session it opened is closed.
* key swapping: no key gets lost; success of a call that has asked the TPM means that the keys are there and there is room.
* transport: the result is that of the wrapped command; stack, rolling nonce and audit digest stay in step with the TPM.

## 2. Modules

| module | what it is |
|---|---|
| `NvIndex` | indexes, and what the search answers, without its loop |
| `NvIndexSearch` | the loop of find_free_nv_index; shown to compute the answer of `NvIndex` |
| `TpmLuksStore` | what outlives a run of the scripts: areas, slots, PCRs, tpm-luks.conf, and the tpm-tools and cryptsetup commands on them. External: modelled from how the scripts use them |
| `KeyEscrow` | abstract specification: what tpm-luks-ctl promises about keys, without its program counter |
| `TpmLuksCtl` | tpm-luks-ctl, one action per command |
| `BootUnlock` | the boot: cryptroot-ask-tpm with its prompts, then tpm-luks-svc |
| `TssSteps` | the vocabulary for command functions: a function is a set of step sequences, one per way through it |
| `LibtpmOwner`, `LibtpmKeys`, `LibtpmCommands` | the command functions written in it; `AllCommands` is all of them |
| `Libtpm` | what each step does: programs that call the functions, the TPM's session table, lost messages, kills, reboots |
| `KeySwap` | needKeysRoom and needKeysRoom_Stacked, one action per command or file operation |
| `Transport` | TPM_Transmit, createTransport, destroyTransport, _TPM_ExecuteTransport, the audit digest |
| `MCTpmLuksCtl`, `MCBootUnlock`, `MCLibtpm`, `MCKeySwap` | instances for TLC (`NvIndexSearch` and `Transport` are run as they are) |
| `LibtpmPhases` | the discipline the command functions follow, as phases between their steps, and the invariants of `Libtpm` it makes possible |
| `NvIndexSearch_proofs`, `TpmLuksCtl_proofs`, `TpmLuksContract_proofs`, `BootUnlock_proofs`, `KeySwap_proofs`, `Transport_proofs` | their theorems |
| `LibtpmPhases_proofs`, `Libtpm_proofs` | that every command function keeps to the discipline; what follows from it for any number of callers |

`TpmLuksCtl` and `KeyEscrow` extend `TpmLuksStore`, which extends `NvIndex`. `TpmLuksCtl` uses the
search in one step, by its specification: `NvIndexSearch` is what entitles it to. `Libtpm` takes the functions as a
constant, so that it can be run with any subset of them. `KeySwap` and `Transport` are what `Libtpm` calls `RoomStep` and the
sending of a request: in `Libtpm` both succeed or fail, here is how.

## 3. State and actions against the code

### tpm-luks-ctl (`TpmLuksCtl`)

`pc` names the command the script is about to run, for the device `dev`. `StartDevice` is the
head of `loop`; then, in the order of the code:

* checks: `Info` (nv_info), `Prompt` (the two password prompts), `Read` (nv_read), `Test` (luks_test_key);
* `EndChecking` (report and return) or `StartWork` (with the choice of `-i`);
* `OwnerPassword`, and for init the way to a key file: `ChooseFree` (find_free_nv_index), `ChooseShared` (`-i`: the
  key of the area), `GenerateKey`, `AddKey`, or `AskKey` and `TestKey` to repair; `AuthPassword`;
* nv_define_and_write: `Release`, `RunScript`, `Define`, `Write`;
* init only: `UpdateConf`, `CopyConf` (the two `cp` of update_conf), `Kill` (luks_kill_all, one slot a step);
* `Finish` (the report is printed) and `Cleanup` (the EXIT trap). `exit 1` anywhere is `Goto("exit")`.

`Invoke` starts a run: action, `-b`, `-n`, `-a`/`-o` (`cmd.pw`), `-i`, all devices or one. Around
the script: `Interrupt` (a signal, the trap runs), `KillProcess` (no trap), `Reboot` (PCRs
anew, `/dev/shm` empty), `ClearScript` (the administrator empties the third field of a line).

The variables are the globals of the script: `nvIndex` NV_INDEX, `new` NEW, `usePcr` USE_PCR,
`needAuth`/`needOwner` NEED_*_PASSWORD, `authPw`/`ownerPw` the passwords, `useIndex` NV_USE_INDEX,
`report` REPORT, `errors` ERRORS, `slot` _slot_id. OK, SKIP, ERROR, RUN_INIT and
RUN_SEAL are one variable, `verdict`: none (still OK), skip, error (RUN_INIT), reseal
(RUN_SEAL) or ok. `backup` and `used` are ghosts: the keys on paper, the keys
already generated.

With `Faults` every command that changes something, and every tpm_nvinfo, may fail: a tpm_nvinfo that does looks to the
script like a TPM without the area (`Info`, `Release`) or without some of its areas (`Listed`). With `DiskFull` the two
commands that write tpm-luks.conf.new, which nobody looks at, may write less than they should (`UpdateConf`), and so may the
`cp` over tpm-luks.conf, which fails then (`CopyConf`). `CutShort` is what may be left of such a file: each line whole, missing, or cut:
in the name of the script (that counts as whole, with a script that fails), before it (as `ClearScript` leaves a line), or in the
digits of the index, so that the line names another one.

Choices made, each to keep the behaviour and lose detail:

* What only reads a file (cat, grep, cut) or the terminal does not fail. Of a line that is cut short and then continued by
  the next one, what is glued together counts as lost.
* A secret is a model value. `Blank` is the 0xFF bytes of an area that was defined and never written.
* A PCR state is a model value; an area is bound to one or to none.
* A password is known to be right or wrong (owner) or just set (AUTH).
  A refused prompt is the empty answer. `-op`, `-ap` and `-lp` behave as an answer given earlier.
* An area with AUTHREAD or OWNERREAD cannot be read by nv_read: the option it prepares never
  reaches tpm_nvread (section 5).
* tpm_nvwrite of an area with permissions `AUTHREAD|OWNERWRITE` given the AUTH password: whether the
  TPM takes it is left open.
* luksAddKey asks on the terminal; only the passphrase the device was formatted with is
  typed. So a device whose passphrase slot is killed cannot get another key.
* A reading of `luksDump` before the loop of luks_kill_all and one per slot are the same: only the slot at hand changes.
* Branches of the code nothing reaches are left out: the early return of update_conf (the device has no line
  there), "unchanged" when NV_SEAL_WITH_PCR equals USE_PCR (RUN_SEAL excludes it), and the
  branch of find_free_nv_index that keeps NV_INDEX (it is called only with NV_INDEX 0).
* `Radix` is ten. TLC, with indexes up to 3, uses two, so that a cut leaves another index.
* `tpm-luks.conf.bak` is written and never read: left out. `tpm-luks.conf.new` is removed before it is used, so
  it is forgotten when the process ends.
* prompt_for_luks_key asks again when the answer is not base64: one step.

`KeyEscrow` promises that what is deposited opens a device, that a line is assigned only to an area with a key of the device, and that
a slot is retired only while an area holds a key that opens another slot. It does not promise that a line stays: it may be lost or
cut short at any time, the one just assigned included. It sees the areas, the slots, the PCRs and tpm-luks.conf. `Escrow` in `TpmLuksCtl` maps them by
name, but for `conf`: while `cp -f` fills tpm-luks.conf (pc = "cp") it maps to the file it is
being filled from. A crash there is `Forget` (or `Boot`, when it is the power that fails).

### The boot (`BootUnlock`)

`pc` goes through `lookup` (the grep, nv_info), `prompt`, `mount`, `nvread` or `save` (the key from the TPM or from the
answer), `open`, `wipe` and `umount` for each device of `todo`; after `SwitchRoot` through the loop of tpm-luks-svc
(`Svc...`). `mode` is the third argument of cryptroot-ask-tpm, that is, which prompt runs it: none, `read` (a TPM
password was asked for), `pass` (the LUKS password was). The argument `input` asks the second question and
does nothing else, so it is part of the actions that lead to it (`FallBack`, `Answer`). `try` counts what
ask_for_password counts: exit 255 (`ExitError`) asks again, three times in all; `exit 0` ends the prompt.

* What the machine is like is chosen in `Init` and stays: `copied`, the devices with a line in the initramfs's copy of
  tpm-luks.conf; `lines`, those with a line now; `area`, what the index leads to; `faults`, whether mount, umount and
  reads of the TPM may fail; `patient`, what answers the user gives. All combinations are checked.
* The grep for the device is not anchored. `Prefix` says whose name begins like whose; `Found` is the set of lines
  found; with two of them the two indexes run together to a number that leads nowhere.
* `key` is the key file in the tmpfs on top, `left` those in a tmpfs that was not unmounted, with the exit they were left by. A
  later mount hides it. base64 -d writes what it has decoded before it refuses an answer: some of a key, or all of it (`Decoded`).
* nv_readvalue's exit code is the TPM's result cut to 8 bits, so a result such as TPM_RETRY (0x800) goes for success
  without a file: `ExitCodeCut`.
* MATCH1 is tested and never set, so an area with other PCRs is read, in vain, like any other.
* A wrong key of right form is `junk`, and luksOpen tells.

### Command functions (`TssSteps`, `LibtpmOwner`, `LibtpmKeys`, `LibtpmCommands`, `Libtpm`)

Each of the library's command functions is straight-line C with early returns. `TssSteps` writes such a function as a
sequence of steps: `compute` (anything local that may fail), `nonce` (TSS_gennonce where its 0 is what the function returns), `room` (needKeysRoom), `open` (TSS_SessionOpen),
`transmit`, `close` (TSS_SessionClose), `check` (TSS_checkhmac1/2), `onError` (`if (ret != 0)` return) and
`onlyIfBadOrdinal`. Each has the list `held` of the sessions that the code closes when that step fails: the list is read off
each `return`. A function with several ways through it is a set of sequences; 123 functions are written this way.

`Libtpm` executes them. `at` is the step, `ret` the variable of that name, `sess` the locals `sess` and `sess2`,
`closing` the calls of TSS_SessionClose still to make, `want` the variable TPM_SESSION of the environment. The TPM is `table`: per
handle `Free`, the caller that opened the session, or `Stale` (open, and its owner does not know it).
`Executed`, `Refused` and `NotDelivered` are the outcomes of TPM_Transmit: an executed command ends its sessions
(continueAuthSession is 0 throughout), a refused one may, and an answer may be lost after either. `CloseOne` flushes the handle,
whoever has it by then.

Three lists in `Libtpm` say where the code differs from function to function: `Unchecked` (success without a look at the
answer's HMAC), `NonceIgnored` (`if (ret == 0) return ret;` after TSS_gennonce: success, and nothing was sent) and `Leaks` (a local failure
after the session was opened returns without closing it). The
properties hold for all other functions without exception; a function may be on a list only for what the list is about.
Besides, TSS_checkhmac1 passes an answer without the tag of an authorised one (hmac.c:115), and TPM_Transmit compares the tags of request
and answer unless the TPM is a character device (tpmutil.c:1095): with `CharDevice` an answer may be `untagged`.

### Key swapping (`KeySwap`)

`NeedKeysRoom` is a call with three keys and room, or needKeysRoom_Stacked with one key. Then `CountSlots`, `ListKeys` (the two
capabilities, and the arithmetic on them; with swapping switched off, or the first question refused, the call succeeds
at once, which `looked` remembers), for each listed key `Keep` or `SaveContext`, `OpenFile`, `WriteFile`, `EvictKey`
(swapOutKey), and for each missing one `ReadFile`, `LoadContext`, `Unlink` (swapInKey). `UseRoom` is the caller that then loads
a key; its handle is never that of a key swapped out, which the TPM may well choose. A file is `good` when it has the whole context, `bad` between fopen and fwrite; `diskFull` says whether fwrite may
write less, which nobody looks at. Every action takes the program `p`: nothing in the code excludes a second one.

### Transport sessions and the audit digest (`Transport`)

`mode` is TPM_TRANSPORT (0 unset; 1 a session for each command; 2 a session another program has established), `sign` says
whether TPM_TRANSPORT_SK is set, `stack` is g_transportFunction with the sessions it points to: `live`, or `dead` when the
stack frame of the session is gone. Nonces are numbers: `enonce` in memory, `file` .enonce, `tpmNonce` the TPM's. `logged` counts
the halves (request, answer) of the command at hand in the library's audit digest. `Begin` to `Return` is one call of TPM_Transmit, with
createTransport and destroyTransport inside it; `KillProcess` may come anywhere. `faults` says whether disk and memory may be full.
The answer to an ExecuteTransport is taken to carry the tag it should.

## 4. Runs

Each run is `<name>.cfg`; the violations are the subject of section 5.

| run | instance | checks |
|---|---|---|
| `NvIndexSearch` | limit 4, indexes 1..6, every set of indexes in use | the loop answers what `NvIndex` says |
| `CtlOwnIndex` | 2 devices, no failure, every action, dry runs, OWNER passwords, another program's area, two PCR states | the whole contract of tpm-luks-ctl |
| `CtlSharedIndex` | 2 devices, `-i -1`, `-i 2` or none, weak fairness of the script | the configuration still opens both when they share an area; nobody is locked out; the key file does not stay |
| `CtlFaults` | 2 devices, any command fails, killed anywhere, room on the disk, any `-i` | the inductive invariant; slots are killed last; what is written opens the device; refinement of `KeyEscrow` |
| `CtlFaultsOneDevice` | 1 device, any command fails, killed anywhere, a disk that may be full, passwords, two PCR states, the script name edited away, the administrator backs up before each change | nobody is locked out; refinement of `KeyEscrow` |
| `BootOpens` | `/dev/sda1` and `/dev/sda10`, every machine `Init` allows, weak fairness | keys are wiped but on one path, no needless question, the service opens and reports the rest; a patient user gets in |
| `LibtpmOneCaller` | every function, one program, three handles, a character device | success is an answer but for the named exceptions, sessions get closed |
| `KeySwapOneProcess` | four keys, one of them the owner's, a TPM with room for three | no key is lost, success of a call that has asked the TPM means keys and room |
| `TransportSession` | three commands, each mode, with and without faults | results, stack, nonce and digest stay in step |
| `CtlStaleFlags` | 2 devices with and without password | expects a violation |
| `LibtpmSessionKind` | as `LibtpmOneCaller` | expects a violation |
| `BootKeyLeft` | as `BootOpens` | expects a violation |

The largest are `BootOpens` (4.5 million states) and `CtlFaults` (2.2 million), of two minutes or so.

The properties worth a word:

* `KeyKept`: each device has a slot that opens with the passphrase, a key on paper, the key file of the run
  under way, or a key in the TPM. With faults it holds only for an administrator who backs up first (a
  failed seal loses the area: Release comes before RunScript, Define and Write), and only while devices do not
  take each other's indexes.
* `KillOnlyEscrowed`: a slot is disabled only while tpm-luks.conf names an area whose key opens
  another slot of the device. It needs the order write, configure, kill, and holds with any faults but one: on a full disk
  the line may be lost on its way into tpm-luks.conf, and the kill follows all the same (section 5). What holds
  then too is in `KeyEscrow`: an area, if not one a line leads to, has a key of a slot that remains.
* `WrittenKeyOpens`: what reaches the TPM opens the device at hand.
* `ConfiguredOpens`: between runs every line of tpm-luks.conf names an area that opens its device.
* `LinesStay`: a line of tpm-luks.conf keeps its index, whatever is done to its device or to others. With `ConfiguredOpens` it
  says that the copy dracut put into the initramfs some runs ago still leads to keys that open the devices: only for a new device
  does dracut have to be run again. (A crash of `cp -f` breaks it, which is in `KeyEscrow` as `Forget`.)
* `OthersKeep`, `ForeignUntouched`: work on one device never takes another's key, nor another program's area.
* `ReportTrue`: what the printed report calls ok, initialized, sealed or unsealed is so.
* `ReadOnlyRuns`: check, backup and dry runs leave TPM, slots and configuration alone.
* `KeyWiped` (boot): no whole key, and nothing taken for one, is in the mounted key file when a question is on the screen, at the
  next device, or at the end. Of the exits that leave a tmpfs mounted, the empty answer and an umount that fails leave no key in it
  either; an answer that base64 refuses may leave the whole one (`BootKeyLeft`).
* `NoNeedlessQuestion`, `ServiceOpensTheRest`, `FailuresReported`: whatever became of the devices before, a key that
  can be read is used without a question, and what stays closed is reported.
* `PatientUserOpens` (liveness): with any area, any line, any name, somebody who knows the LUKS password ends
  up at the question for it, through prompts started from prompts. The patient user skips a TPM password the third time it is
  refused: one who enters a third wrong one is not asked for the LUKS password at all (section 5).
* `SuccessIsAnswered`: success means that the TPM has executed the command and, where it was authorised, that the HMAC of
  the answer was found right. Its exceptions are the functions in `Unchecked`, those in `NonceIgnored` for a nonce that could not be drawn,
  and the untagged answers of a character device; nothing else gets past it.
* `NoSessionLeft`: whichever step fails, each session the function has opened is closed, or its handle at least flushed, but for
  the local failures in the functions of `Leaks`. That a flush may hit another program's session is not seen with one program.
* `SessionsAlive`: a command is never sent with a session that is not open, or that another program has.
* `KeyNotLost`: a key is in the TPM or the whole of it in its file, wherever the program is killed.
* `KeysReady`: on success of a call that has asked the TPM for its keys, the given keys are in the TPM and there is the room asked for, although the code counts
  one key twice, another not at all, and the keys it keeps as places made free: the reserve of three makes up for that.
* `SuccessIsTheTPMs`, `StackRestored`, `EnonceInStep`, `AuditComplete`: result, stack, nonce and digest after a wrapped
  command, for each way it may end.

## 5. Where the code and its documentation differ

Three runs expect a violation; each checks one sentence of the repository.

1. `CtlStaleFlags` (`FlagsFresh`). nv_info is said (tpm-luks-ctl:34) to set NEED_AUTH_PASSWORD and NEED_OWNER_PASSWORD from the
   area; it never clears them (line 38 clears NEED_PASSWORD, which nothing reads). A device without a password
   that follows one with a password is prompted for, or skipped in batch mode.
2. `LibtpmSessionKind` (`SessionKindAllowed`). Without a delegation, TSS_SessionOpen falls back to "OSAP or OIAP"
   (oiaposap.c:396). Where it looks for OSAP (line 436) is the set it has already reduced to DSAP, so it
   opens an OIAP session, which a function that allows OSAP and DSAP did not ask for and the TPM will refuse.
3. `BootKeyLeft` (`KeyUnmounted`). "Zeroize keyfile regardless of success/fail and unmount" (cryptroot-ask-tpm.sh:181) is not
   reached after an empty LUKS password or one that is not base64: the tmpfs stays mounted, in the second case with what base64 -d
   has decoded until then. With one character too many behind the right key that is the whole key, and the user is asked again.

The models show more, which no run is spent on. In tpm-luks-ctl:

* update_conf, which is to "upsert configuration" (tpm-luks-ctl:367), looks at neither command that writes tpm-luks.conf.new (lines
  381 and 382). On a full disk the line of the device is missing or cut short, the `cp` of the short file succeeds, update_conf returns
  0, and luks_kill_all disables the other slots. The key is then in an area that no line leads to (`DiskFull`).
* find_free_nv_index compares with the limit only inside its loop, and one past the limit is answered when the list of used
  indexes ends there (`SearchCorrect` states exactly what is answered).
* nv_read sets `_options` and passes `$options`: the password never reaches tpm_nvread, and an area with AUTHREAD or OWNERREAD
  looks like one to initialize again.
* The index of an area that a failed seal has lost is free for find_free_nv_index and still in the line of its device: the
  next init gives it away, and two lines name it.
* With `-i` and `-a` the second device cannot read the area, initializes it, and replaces the key of the first.
* A line without a script is sealed without the PCRs and reported "sealed".
* A device whose AUTH prompt is refused is reported skipped, and has a slot with a key nobody knows.
* Killed between tpm_nvdefine and tpm_nvwrite, the script leaves an area of 0xFF bytes, and the next `init -i` takes those bytes
  for a key.
* The devices after one that ends with `exit 1` are neither handled nor reported.

At boot:

* Three wrong TPM passwords end the prompt, and nobody asks for the LUKS password: the device stays closed. An
  empty TPM password is what leads on.
* MATCH1 is never set, so that the PCRs do not match is noticed only when the read fails.
* ERROR of tpm-luks-svc is set in the subshell of a pipeline: the service exits 0 whatever it reports.
* nv_readvalue's exit code is the TPM's result cut to 8 bits.

In libtpm:

* The functions in `Leaks` lose a session handle when something local fails; those in `Unchecked` do not verify the answer.
* Six functions return the 0 of a failed TSS_gennonce, which is success, with nothing sent (`NonceIgnored`; owner.c:219, owner.c:317,
  ownertpmdiag.c:174, ownertpmdiag.c:263, miscfunc.c:88, management.c:83). Where others do not look at
  its result, the nonce is what was on the stack; the values of nonces are not modelled.
* An answer without the tag of an authorised one passes TSS_checkhmac1 (hmac.c:115), and with a character device nothing
  compares the tags.
* TPM_Quote2 without a secret closes a session it has not opened, whose handle is indeterminate (pcrs.c:522).
* A flush that follows a session the command has ended may hit the session another program was given in the meantime:
  `SessionsAlive` does not hold for two programs.
* TPM_ReadPubek does not return the mismatch of the checksum it computes (keys.c:340).
* needKeysRoom is to "make sure the given keys are in the TPM" (keyswap.c:257). When the TPM does not say how many keys it can hold, it
  returns 0 (line 320), which is success, and the caller goes on as if they were.
* fwrite is not looked at (keyswap.c:93): on a full disk the key is evicted and lost. Two programs that swap at the same time
  work from stale lists on the same files, and can lose a key too.
* In mode 1 without TPM_TRANSPORT_SK nothing is popped (tpmutil.c:930): the next command uses a session that was a local
  variable of the call before, and the stack grows.
* After a lost answer to a wrapped command, or a kill before .enonce is written, no later program knows the nonce the TPM expects.
* A wrapped command that the TPM refused is audited, one sent in the clear is not (tpmutil.c:1058).

## 6. Bounds and fairness

tpm-luks-ctl. `Limit` 2 and `MaxIndex` 3: indexes 2 (the limit) and 3 (above it); the search can find one, both or none
taken, and both its outcomes are reached. Two devices are enough for one to disturb another; three
would add a third copy of the same pairs. `LastSlot` 1 (two slots, LUKS has eight) makes "no
disabled slot left" reachable: a device that is given a key twice runs out. Two keys: one for each device, and
`EnoughKeys` stops an init that would run out of model values, which /dev/urandom does not. Two PCR
states: as sealed, and changed. A full disk on top of every action on two devices is more than TLC can do in the time a run is given:
`CtlFaults` has the two devices and room, `CtlFaultsOneDevice` the full disk, and the proofs both. `Radix` 2 makes 3 (binary 11) lose a digit to 1, and 2 to 1. Keys are symmetric (`KeySymmetry`); the run of a liveness property uses no symmetry.

The boot. Two devices of which one name begins with the other; what the machine is like is all of `Init`. `try` is bounded by the
code. A boot ends, so that deadlock is not checked; that it does not end too early is `PatientUserOpens`.

libtpm. One program at a time, with three handles, the fewest a TPM may have and one more than a function
opens; it may call any function after any, so that what one leaves the next meets. `CharDevice` is TRUE, which has all the answers a socket has. Handles are symmetric. Commands are unbounded.

Key swapping. `MaxKeys` 3 and `MaxRoom` 1: the room asked for with the reserve of three is more than the TPM has, so that every
key that may go is swapped out, and also less than it has, when the TPM is empty. Four keys: more than fit, and one of
the owner, which cannot be evicted. The others are symmetric.

Transport. `MaxCommands` 3: a command before, after and in between. `sent`, the counter of commands and nonces, is
bounded by it, so that the behaviours end and deadlock is not checked. The proofs have no such bound.

Fairness is assumed in two places. `CtlSharedIndex` has weak fairness of `Step`, for `KeyFileGoes`: a script that was started goes
on, which the kernel's scheduling gives, and its prompts are answered, if only with Enter. Crashes are excluded there: after
SIGKILL the file does stay until the next run or boot. `BootUnlock` has weak fairness of `Next`, for
`PatientUserOpens`: the scripts go on and somebody answers; which answer is not assumed except of the patient user.

## 7. Proofs

TLAPS checks the following for every value of the constants that meets the assumptions stated in the modules.

`NvIndexSearch_proofs`. The loop invariant `IInv`: all indexes below the candidate are in use, and the
list still to come has those from the candidate up. `SearchIsCorrect` follows. It is not inductive by itself: at the end of the list, that the
candidate is free follows only from what was passed over.

`TpmLuksCtl_proofs`, with `Faults`, `DiskFull` and `Crashes` TRUE or FALSE. `CtlInv` is inductive (`CtlInvariant`): one lemma per action, each with one step for each of its five parts.

* `TypeOK`;
* `IndexInv`: NV_INDEX is a real index from the moment it is used, and that of the line when there is one;
* `ActionInv`: which actions reach which commands;
* `KeyInv`: the key file opens the device once it is accepted, and lies in area NV_INDEX once it is written;
* `LineInv`: while `cp -f` runs the old file is empty; and with room on the disk (`~DiskFull`) the line is in tpm-luks.conf.new
  before the `cp`, and in tpm-luks.conf before the first slot is killed.

Why it is needed: that a slot may be killed (`KillOnlyWhatIsEscrowed`, which assumes `~DiskFull`; without it the theorem is false,
as the line may be cut before it gets to the file) rests on facts established many commands
earlier. The key file opens the device since AddKey, TestKey or Test (KeyInv); the area holds it since Write, or since
ChooseShared with `-i` (Stored); the line names the area since CopyConf, or since the device was
started when it is repaired (IndexInv, LineInv). Kill itself keeps them because luksKillSlot asks
for the key of a slot that remains. From `CtlInv` and three lemmas on which actions write slots, areas
and lines follow `WriteOnlyWhatOpens`, `ReadOnlyRunsReadOnly` and
`CtlImplementsEscrow`, the refinement of `KeyEscrow` with one lemma per kind of step; these need no room on the disk. A slot is retired
while the area NV_INDEX has the key (KeyInv), whatever became of the line.

`TpmLuksContract_proofs`, for runs that nothing disturbs (`Calm`: no fault, no crash, each device with its own index, no
AUTH password; the instances of `CtlOwnIndex`). `CalmInv` is inductive relative to `CtlInv`:

* `LinesOpen`: every line names an area that opens its device, but for the device whose area is being rewritten (`Rewriting`);
* `LinesDiffer`: no two lines name one index; `FreshIndex`: a newly chosen index is in no line, and empty until Define;
* `PassphraseStays`: a device without a line keeps its passphrase; `AreaGone`, `OwnChoice`: where Release and `-i` stand.

The promise to the administrator holds only between runs; in the middle of one, the area of the device at hand is gone, and
that its key comes back rests on the key file (`KeyInv`), and on nothing else being released meanwhile (`LinesDiffer`). From
it follow `ConfigurationOpens`, `IndexesDiffer`, `NobodyIsLockedOut`, `OthersKeepTheirKeys` and
`ForeignAreasStay`. `ReportIsTrue` needs `ReportInv` besides, which follows a verdict from the check it came from to the report.
`KeyFileIsWiped` needs no crashes, and allows faults. `OldCopiesLeadThere` (`LinesStay`) needs, besides `CtlInv`, only `NoLineYet`: a device that is
treated as new has no line until update_conf.

`BackupsSuffice` (`KeyKept`), in the same module, is about everything that can fail or stop the script, for one device
(`Device = {d}`) whose administrator backs up before each change (`BackupFirst`), with or without `-i`, passwords and room on the disk. `PaperTrail` is inductive relative to `CtlInv`:

* `StillOpens`: the device opens with the passphrase, with a key on paper or with a key in some area. It is more than `KeyKept`
  says, as the key file of a run does not outlive it;
* `PaperInv`: what the TPM holds is on paper when a run that may change something starts, and stays so until the area of a configured device is released;
* `SpareInv`: from then on the device does not need that area. One with a line has its key on paper, and a new one still has the
  passphrase that AddKey asked for, because slots are killed last;
* `OneAtATime`: the device at hand is the last one, so that nothing new is stored between the backup and the release.

For two devices the theorem is false, and TLC has shown the run: the power goes after a failed reseal of the first
device has released its area, so its line names a free index; a later run
for both initializes the second first, chooses that index for it and kills its passphrase, and then releases that area to repair
the first. The backup made before the run has no key of the second.

`BootUnlock_proofs`, for any devices, names, lines and areas: `IInv` with `FlowInv` (which variables are set at which
label), `KeyInv` (the key file is there from mount to umount, zeros when it goes), `PlainInv` (a device the TPM opens without a
question never gets to one), `ReportInv` and `OpenInv` (what the service is through with). `KeysAreWiped` says of each tmpfs left mounted
by which exit it was: only after `badBase64` may a whole key be in it.

`KeySwap_proofs`. `SwapInv` holds for any number of programs, and gives `OthersEvicted`. Two further invariants hold for one program
(`Procs = {p}`). `PlaceInv` says where the key at hand is between two steps, and gives `NoKeyLost`. `RoomInv` gives `RoomIsMade`
(`KeysReady`), for a call that has asked the TPM (`looked` is "yes"); one that has not succeeds too, and promises nothing
(section 5). While keys are swapped out, `slots` is too small by at most one for each needed key of the list that was
already passed (`Counted`), because swapOutKeys counts a key it keeps as if it had been evicted. At most three keys are needed, and what is missing
is not in the list, so the reserve of three that needKeysRoom adds covers both (`ReserveSuffices`). At the end of the list the count is no help: there, what is left
in the TPM is what had to stay. While keys are swapped in, the TPM together with the keys still to come has all that is needed and
leaves the room (`Loading`), and reading, loading and unlinking a file do not change that sum.

`LibtpmPhases_proofs` and `Libtpm_proofs`. The command functions are data: sequences of steps, one for each way through a
function. A proof about `Libtpm` needs to know of a sequence only that it keeps to a discipline, which is a typestate: a phase (nothing open,
one or two sessions open, sent, executed, compared, checked, ...) can be given to every place between its steps such that
every step is one its phase allows (`Moves`), and a step that can fail closes what is open in its phase, but for the local failures of the functions in `Leaks`
(`Closes`). `AllCommandsDisciplined` says that each of the functions does: the passages of `TssSteps` each lead from one phase to
another, and a function leads where its passages lead, one after the other (`Then`). `PhaseInv` then follows each caller: the sessions that are its own in the
TPM are those its phase has open or those it is closing (`Accounted`), and its phase says what it knows of the last answer
(`Knows`). A step of another caller, a reboot or the TPM can only take sessions away from it. It gives `SuccessAnswered` and `NoSessionIsLeft`, for any
number of callers and handles and any `Commands \subseteq AllCommands`. `SuccessAnswered` says what success means for each function by its name
(`Answered`): that only the six of `NonceIgnored` may have sent nothing is part of `AllCommandsDisciplined`, where a
`nonce` step is one that only they may take. `SessionsAreAlive` needs `AliveInv` besides, that each
session of the phase is in the TPM: it holds for one caller (`Callers = {p}`), as another program's late flush may close it.
`TypeCorrect` needs none of this, and holds for any commands of the right type.

`Transport_proofs`, for any number of commands. `StackBounded` is what makes the rest inductive: with every session popped again,
a command starts on an empty stack and is wrapped exactly when createTransport said so; `NonceInv` and `AuditInv` then follow the nonce and the
digest of one command from step to step, `ResultInv` its result. An answer that cannot be decoded fails, as the HMAC check covers a digest
that is not there then, so `AuditIsComplete` needs no exception for it.

Only model-checked:

* `KeyFileGoes` and `PatientUserOpens`: liveness under fairness, out of the prover's reach;
* `KeyKept` and `ConfiguredOpens` with shared indexes (`CtlSharedIndex`): while nothing fails, proved for own indexes only.

## 8. What is not modelled

* The checks of main that the TPM is enabled, owned and reachable: `[ ! $TPM_DEVICE/enabled ]` tests a
  string that is never empty, so two of them never fire.
* A cat, grep or cut that fails while it reads tpm-luks.conf.
* readpass, the terminal and the wording of messages.
* Two runs of tpm-luks-ctl at once, or one beside tpm-luks-svc: nothing in the code excludes them, but the service runs at boot
  before anybody can log in.
* Fedora 17 and RHEL 6 dracut modules: older forms of the RHEL 7 one.
* What dracut's own crypt module does with key files and timeouts, and its hooks that only write rules and jobs.
* What is in the requests and answers of libtpm, its structures, its drivers and OpenSSL wrappers (`tpm_structures*`,
  `tpm_lowlevel*`, `bind.c`), and the helpers that only compute: they keep no state beyond a call, and their failures
  are the failures of `compute` and `transmit`. How a wrapped command is encrypted, likewise.
* The argument parsing and the printing of nv_readvalue and getcapability.
* The yum plugin: it runs a command line per package and keeps nothing.
* `xtra/` and the build files.

## 9. What could come next

1. `Lifecycle`: init, dracut, reboot, seal, reboot, as a composition of `KeyEscrow` and `BootUnlock` in which `area` and `copied`
   are what tpm-luks-ctl and dracut have left. Today `Init` of `BootUnlock` chooses them freely, which covers all of those states;
   `ConfiguredOpens` and `LinesStay` say which of them undisturbed runs lead to, but no run goes all the way.
2. `Libtpm` with `KeySwap` and `Transport` in place of the steps that stand for them, and two programs at once, stated as what still
   holds rather than as what does not.
3. A proof of what `CtlSharedIndex` checks: `LinesDiffer` has to give way to an invariant about the devices of one index, all of which
   open with the key in its area while the passphrase or a spare slot lasts.
