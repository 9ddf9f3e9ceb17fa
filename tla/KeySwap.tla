------------------------------ MODULE KeySwap ------------------------------
(***************************************************************************)
(* keyswap.c: the TPM has room for few keys.  Before a command that needs  *)
(* keys, needKeysRoom loads those of them that are not in the TPM from     *)
(* their files and makes room, by saving other keys to files and evicting  *)
(* them.  A key that is neither in the TPM nor in a file is lost: whoever  *)
(* loaded it still has its handle, and every command that uses it fails.   *)
(*                                                                         *)
(* The capability list, each context command, each file operation is a     *)
(* step: the library holds no lock, so that other programs (Procs) act     *)
(* between them, and a program may be killed between them.                 *)
(***************************************************************************)
EXTENDS Integers, FiniteSets

CONSTANTS
    Keys,           \* key handles
    OwnerKeys,      \* those of them the owner has bound to the TPM
    NoKey,          \* 0, the SRK, ...: a handle that needs no slot
    Procs,          \* programs that use the library
    MaxKeys,        \* TPM_CAP_PROP_MAX_KEYS
    MaxRoom         \* bound on the room a command asks for

ASSUME KeysAssumption == OwnerKeys \subseteq Keys /\ NoKey \notin Keys /\ IsFiniteSet(Keys)
ASSUME RoomAssumption == MaxKeys \in Nat /\ MaxRoom \in Nat

Key == Keys \cup {NoKey}

VARIABLES
    inTpm,      \* keys in the TPM
    file,       \* /tmp/.key-<handle>-<instance>
    known,      \* keys somebody has loaded
    diskFull,   \* whether fwrite may write less than the context
    pc, need, room, listed, slots, missing, handle, context, ret,
    looked      \* whether the call has asked the TPM for its keys, see Looked

tpm == <<inTpm, file, known, diskFull>>
locals == <<pc, need, room, listed, slots, missing, handle, context, ret, looked>>
vars == <<tpm, locals>>

Contents == {"none", "good", "bad"}      \* "bad": not the whole context

\* Not yet; not at all, as swapping is switched off; not, as TPM_CAP_PROP_MAX_KEYS
\* was refused; yes.
Looked == {"no", "off", "refused", "yes"}

Labels == {"idle", "count", "list", "out", "open", "write", "evict", "evicted",
           "in", "load", "unlink", "done"}

TypeOK ==
    /\ inTpm \subseteq Keys
    /\ file \in [Keys -> Contents]
    /\ known \subseteq Keys
    /\ diskFull \in BOOLEAN
    /\ pc \in [Procs -> Labels]
    /\ need \in [Procs -> Key \X Key \X Key]
    /\ room \in [Procs -> Nat]
    /\ listed \in [Procs -> SUBSET Keys]        \* of capabilities, not looked at
    /\ slots \in [Procs -> Int]                 \* neededslots
    /\ missing \in [Procs -> SUBSET (1..3)]     \* arguments to swap in
    /\ handle \in [Procs -> Key]
    /\ context \in [Procs -> Contents]
    /\ ret \in [Procs -> {"ok", "error", "ownerControl"}]
    /\ looked \in [Procs -> Looked]

\* What somebody has loaded is in the TPM or was swapped out.
Init ==
    /\ inTpm \in {s \in SUBSET Keys : Cardinality(s) <= MaxKeys /\ OwnerKeys \subseteq s}
    /\ \E swapped \in SUBSET (Keys \ inTpm) :
          /\ file = [k \in Keys |-> IF k \in swapped THEN "good" ELSE "none"]
          /\ known = inTpm \cup swapped
    /\ diskFull \in BOOLEAN
    /\ pc = [p \in Procs |-> "idle"]
    /\ need = [p \in Procs |-> <<NoKey, NoKey, NoKey>>]
    /\ room = [p \in Procs |-> 0]
    /\ listed = [p \in Procs |-> {}]
    /\ slots = [p \in Procs |-> 0]
    /\ missing = [p \in Procs |-> {}]
    /\ handle = [p \in Procs |-> NoKey]
    /\ context = [p \in Procs |-> "none"]
    /\ ret = [p \in Procs |-> "ok"]
    /\ looked = [p \in Procs |-> "no"]

-----------------------------------------------------------------------------
Goto(p, label) == pc' = [pc EXCEPT ![p] = label]
Result(p, r) == ret' = [ret EXCEPT ![p] = r]

\* return r
ReturnWith(p, r) == Goto(p, "done") /\ Result(p, r)

\* The caller goes on, and the locals are gone.
LeaveCall(p) ==
    /\ Goto(p, "idle")
    /\ need' = [need EXCEPT ![p] = <<NoKey, NoKey, NoKey>>]
    /\ room' = [room EXCEPT ![p] = 0]
    /\ listed' = [listed EXCEPT ![p] = {}]
    /\ slots' = [slots EXCEPT ![p] = 0]
    /\ missing' = [missing EXCEPT ![p] = {}]
    /\ handle' = [handle EXCEPT ![p] = NoKey]
    /\ context' = [context EXCEPT ![p] = "none"]
    /\ Result(p, "ok")
    /\ looked' = [looked EXCEPT ![p] = "no"]

Kept(p) == {need[p][i] : i \in 1..3}

-----------------------------------------------------------------------------
(* needKeysRoom_General.                                                   *)

\* needKeysRoom asks for three slots more than its caller,
\* needKeysRoom_Stacked for one key and no room.
Asks(p) ==
    \/ /\ need' \in {[need EXCEPT ![p] = <<k1, k2, k3>>] :
                       k1 \in known \cup {NoKey}, k2 \in known \cup {NoKey},
                       k3 \in known \cup {NoKey}}
       /\ \E r \in 0..MaxRoom : room' = [room EXCEPT ![p] = r + 3]
    \/ /\ need' \in {[need EXCEPT ![p] = <<k, NoKey, NoKey>>] : k \in known \cup {NoKey}}
       /\ room' = [room EXCEPT ![p] = 0]

\* With TPM_NO_KEY_SWAP, or with auditing and transport, the call succeeds at
\* once.  So do the calls that the commands below make (in_swapping), which are
\* left out.
NeedKeysRoom(p) ==
    /\ pc[p] = "idle"
    /\ Asks(p)
    /\ \/ Goto(p, "count") /\ UNCHANGED looked
       \/ Goto(p, "done") /\ looked' = [looked EXCEPT ![p] = "off"]
    /\ Result(p, "ok")
    /\ UNCHANGED <<tpm, listed, slots, missing, handle, context>>

\* "call may fail at very beginning": then the call succeeds, with nothing
\* done.  An answer without a number fails.
CountSlots(p) ==
    /\ pc[p] = "count"
    /\ \/ Goto(p, "list") /\ UNCHANGED <<ret, looked>>
       \/ ReturnWith(p, "ok") /\ looked' = [looked EXCEPT ![p] = "refused"]
       \/ ReturnWith(p, "error") /\ UNCHANGED looked
    /\ UNCHANGED <<tpm, need, room, listed, slots, missing, handle, context>>

IsKeyInTPM(k) == k \notin Keys \/ k \in inTpm

\* Mutant: the room the caller asks for is not counted.
NeededSlotsOwn(p) ==
    LET one(i) == IF IsKeyInTPM(need[p][i]) THEN 0 ELSE 1
    IN  one(1) + one(2) + one(2)

\* The second key is counted twice, the third is not.
NeededSlots(p) ==
    LET one(i) == IF IsKeyInTPM(need[p][i]) THEN 0 ELSE 1
    IN  room[p] + one(1) + one(2) + one(2)

ListKeys(p) ==
    /\ pc[p] = "list"
    /\ \/ /\ listed' = [listed EXCEPT ![p] = inTpm]
          /\ missing' = [missing EXCEPT ![p] = {i \in 1..3 : ~ IsKeyInTPM(need[p][i])}]
          /\ slots' = [slots EXCEPT ![p] = NeededSlots(p) - (MaxKeys - Cardinality(inTpm))]
          /\ Goto(p, IF slots'[p] > 0 THEN "out" ELSE "in")
          /\ looked' = [looked EXCEPT ![p] = "yes"]
          /\ UNCHANGED ret
       \/ ReturnWith(p, "error") /\ UNCHANGED <<listed, missing, slots, looked>>
    /\ UNCHANGED <<tpm, need, room, handle, context>>

-----------------------------------------------------------------------------
(* swapOutKeys and swapOutKey.                                             *)

\* After a key was dealt with: it counts as a slot when ret is 0, which it is
\* too for a key that was kept.
NextListed(p, r) ==
    /\ Result(p, r)
    /\ slots' = [slots EXCEPT ![p] = IF r = "ok" THEN @ - 1 ELSE @]
    /\ IF r = "error" THEN Goto(p, "done")
       ELSE IF slots'[p] > 0 THEN Goto(p, "out")
       ELSE Goto(p, IF r = "ok" THEN "in" ELSE "done")

\* The end of the list, whether or not there is room.
EndOfList(p) ==
    /\ pc[p] = "out" /\ listed[p] = {}
    /\ Goto(p, IF ret[p] = "ok" THEN "in" ELSE "done")
    /\ UNCHANGED <<tpm, need, room, listed, slots, missing, handle, context, ret,
                   looked>>

\* The TPM lists its keys in no order the library knows.
TakeListed(p, k) == pc[p] = "out" /\ k \in listed[p] /\ listed' = [listed EXCEPT ![p] = @ \ {k}]

Keep(p) ==
    /\ \E k \in Kept(p) : TakeListed(p, k)
    /\ NextListed(p, ret[p])
    /\ UNCHANGED <<tpm, need, room, missing, handle, context, looked>>

\* Mutants: the key is evicted before its context is in the file; a key the
\* command needs is swapped out.
SaveContextUnwritten(p) ==
    /\ \E k \in Keys \ Kept(p) :
          /\ TakeListed(p, k)
          /\ handle' = [handle EXCEPT ![p] = k]
          /\ k \in inTpm \ OwnerKeys
    /\ Goto(p, "evict")
    /\ UNCHANGED <<tpm, need, room, slots, missing, context, looked, ret>>

SaveContextAny(p) ==
    /\ \E k \in Keys :
          /\ TakeListed(p, k)
          /\ handle' = [handle EXCEPT ![p] = k]
          /\ k \in inTpm \ OwnerKeys
    /\ Goto(p, "open")
    /\ UNCHANGED <<tpm, need, room, slots, missing, context, looked, ret>>

SaveContext(p) ==
    /\ \E k \in Keys \ Kept(p) :
          /\ TakeListed(p, k)
          /\ handle' = [handle EXCEPT ![p] = k]
          /\ \/ /\ k \in inTpm \ OwnerKeys
                /\ Goto(p, "open") /\ UNCHANGED <<slots, ret>>
             \/ k \in OwnerKeys /\ NextListed(p, "ownerControl")
             \/ NextListed(p, "error")
    /\ UNCHANGED <<tpm, need, room, missing, context, looked>>

\* fopen(filename, "w+")
OpenFile(p) ==
    /\ pc[p] = "open"
    /\ \/ /\ file' = [file EXCEPT ![handle[p]] = "bad"]
          /\ Goto(p, "write")
          /\ UNCHANGED <<slots, ret>>
       \/ NextListed(p, "error") /\ UNCHANGED file
    /\ UNCHANGED <<inTpm, known, diskFull, need, room, listed, missing, handle, context,
                   looked>>

\* The result of fwrite is not looked at.
WriteFile(p) ==
    /\ pc[p] = "write"
    /\ \/ file' = [file EXCEPT ![handle[p]] = "good"]
       \/ diskFull /\ UNCHANGED file
    /\ Goto(p, "evict")
    /\ UNCHANGED <<inTpm, known, diskFull, need, room, listed, slots, missing, handle, context, ret,
                   looked>>

EvictKey(p) ==
    /\ pc[p] = "evict"
    /\ \/ handle[p] \in inTpm /\ inTpm' = inTpm \ {handle[p]}
       \/ UNCHANGED inTpm
    /\ IF inTpm' = inTpm THEN NextListed(p, "error")
       ELSE NextListed(p, "ok") \/ NextListed(p, "error")      \* the answer is lost
    /\ UNCHANGED <<file, known, diskFull, need, room, listed, missing, handle, context, looked>>

-----------------------------------------------------------------------------
(* swapInKey, for the keys that were not in the TPM, in order.             *)

FirstMissing(p) == CHOOSE i \in missing[p] : \A j \in missing[p] : i <= j

AllIn(p) ==
    /\ pc[p] = "in" /\ missing[p] = {}
    /\ ReturnWith(p, "ok")
    /\ UNCHANGED <<tpm, need, room, listed, slots, missing, handle, context, looked>>

\* Mutant: the argument's number in place of its handle.
ReadFileByNumber(p) ==
    /\ pc[p] = "in" /\ missing[p] # {}
    /\ handle' = [handle EXCEPT ![p] = FirstMissing(p)]
    /\ missing' = [missing EXCEPT ![p] = @ \ {FirstMissing(p)}]
    /\ Goto(p, "load")
    /\ UNCHANGED <<tpm, need, room, listed, slots, context, looked, ret>>

ReadFile(p) ==
    /\ pc[p] = "in" /\ missing[p] # {}
    /\ LET i == FirstMissing(p)
           k == need[p][i]
       IN  /\ missing' = [missing EXCEPT ![p] = @ \ {i}]
           /\ handle' = [handle EXCEPT ![p] = k]
           /\ context' = [context EXCEPT ![p] = file[k]]
           /\ IF file[k] = "none" THEN ReturnWith(p, "error")
              ELSE Goto(p, "load") /\ UNCHANGED ret
    /\ UNCHANGED <<tpm, need, room, listed, slots, looked>>

LoadContext(p) ==
    /\ pc[p] = "load"
    /\ \/ /\ context[p] = "good" /\ handle[p] \notin inTpm
          /\ Cardinality(inTpm) < MaxKeys
          /\ inTpm' = inTpm \cup {handle[p]}
          /\ \/ Goto(p, "unlink") /\ UNCHANGED ret
             \/ ReturnWith(p, "error")                         \* the answer is lost
       \/ ReturnWith(p, "error") /\ UNCHANGED inTpm
    /\ UNCHANGED <<file, known, diskFull, need, room, listed, slots, missing, handle, context, looked>>

Unlink(p) ==
    /\ pc[p] = "unlink"
    /\ file' = [file EXCEPT ![handle[p]] = "none"]
    /\ Goto(p, "in")
    /\ context' = [context EXCEPT ![p] = "none"]
    /\ UNCHANGED <<inTpm, known, diskFull, need, room, listed, slots, missing, handle, ret,
                   looked>>

-----------------------------------------------------------------------------
(* The caller, and the world.                                              *)

\* The command that follows loads a key, if it asked for room, or none.
UseRoom(p) ==
    /\ pc[p] = "done"
    /\ LeaveCall(p)
    /\ \/ UNCHANGED tpm
       \/ /\ ret[p] = "ok" /\ room[p] > 3 /\ Cardinality(inTpm) < MaxKeys
          /\ \E k \in Keys \ known :
                inTpm' = inTpm \cup {k} /\ known' = known \cup {k}
          /\ UNCHANGED <<file, diskFull>>

KillProcess(p) ==
    /\ pc[p] # "idle"
    /\ LeaveCall(p)
    /\ UNCHANGED tpm

Step(p) ==
    \/ NeedKeysRoom(p) \/ CountSlots(p) \/ ListKeys(p)
    \/ EndOfList(p) \/ Keep(p) \/ SaveContext(p) \/ OpenFile(p) \/ WriteFile(p) \/ EvictKey(p)
    \/ AllIn(p) \/ ReadFile(p) \/ LoadContext(p) \/ Unlink(p)
    \/ UseRoom(p)

Next == \E p \in Procs : Step(p) \/ KillProcess(p)

Spec == Init /\ [][Next]_vars

-----------------------------------------------------------------------------
(* Properties.                                                             *)

\* A key somebody has loaded is in the TPM, or the whole of its context is in
\* its file: swapping, failing or killed anywhere, loses none.  Holds for one
\* program at a time on a disk that is not full.
KeyNotLost == ~ diskFull => \A k \in known : k \in inTpm \/ file[k] = "good"

\* The keys that cannot go: those the command needs, and the owner's.
Staying(p) == (Kept(p) \cap Keys) \cup OwnerKeys

\* Room is asked for with a reserve of three.
Wanted(p) == room[p] - 3

\* The TPM is large enough for the given keys, the owner's, and what the caller
\* asked for (without the reserve).
Fits(p) == Cardinality(Staying(p)) + Wanted(p) <= MaxKeys

\* keyswap.c: "the given keys are in the TPM and there is enough room for 'room'
\* keys in the TPM".
Ready(p) ==
    /\ \A i \in 1..3 : IsKeyInTPM(need[p][i])
    /\ Cardinality(inTpm) + Wanted(p) <= MaxKeys

\* When a call that has asked the TPM for its keys returns success, the keys are
\* ready, if that is possible at all.  A call that has not asked, as swapping is
\* switched off or the TPM refused to say how many keys it holds, succeeds too,
\* and promises nothing.
KeysReady ==
    \A p \in Procs :
        pc[p] = "done" /\ ret[p] = "ok" /\ looked[p] = "yes" /\ Fits(p) => Ready(p)

\* swapping takes a key out of the TPM only to put it into its file: never one
\* the owner has bound to the TPM, nor one the command at hand needs.
EvictsOthersOnly ==
    [][\A p \in Procs : EvictKey(p) =>
          \A k \in inTpm \ inTpm' : k \notin OwnerKeys /\ k \notin Kept(p)]_vars
=============================================================================
