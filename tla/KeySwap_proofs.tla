--------------------------- MODULE KeySwap_proofs ---------------------------
(***************************************************************************)
(* That swapping keys for one program loses none of them, and makes the    *)
(* room that was asked for whenever it says so after it has asked the TPM  *)
(* for its keys, for any set of keys, any size of the TPM and wherever it  *)
(* fails or is killed; and that no program, of any number, evicts a key of *)
(* the owner or one it needs.                                              *)
(*                                                                         *)
(* HandleInv follows the handle from the place where it is picked to where *)
(* it is used; PlaceInv says where its key is in the meantime, and RoomInv *)
(* what the count of slots is worth: both hold only while nobody else      *)
(* evicts keys.                                                            *)
(***************************************************************************)
EXTENDS KeySwap, FiniteSetTheorems, TLAPS

HandleInv == \A p \in Procs :
    /\ pc[p] \in {"open", "write", "evict"} =>
          handle[p] \in Keys \ OwnerKeys /\ \A i \in 1..3 : handle[p] # need[p][i]
    /\ pc[p] \in {"load", "unlink"} => handle[p] \in Keys
    /\ pc[p] = "idle" => missing[p] = {}
    /\ \A i \in missing[p] : need[p][i] \in Keys

\* For the whole of Spec, whatever the other programs do.
SwapInv == TypeOK /\ HandleInv

\* For the only program there is, on a disk that is not full.
PlaceInv(p) == ~ diskFull =>
    /\ pc[p] \in {"open", "write", "unlink"} => handle[p] \in inTpm
    /\ pc[p] = "evict" => file[handle[p]] = "good"

\* The keys the command needs.
Needed(p) == Kept(p) \cap Keys

\* The keys that are not in the TPM yet, and the TPM with all of them loaded.
MissingKeys(p) == {need[p][i] : i \in missing[p]}
Coming(p) == inTpm \cup MissingKeys(p) \cup (IF pc[p] = "load" THEN {handle[p]} ELSE {})

\* While keys are swapped out: slots may be too small by one for each needed key
\* of the list that was counted as if it had been evicted.
Counted(p) ==
    /\ listed[p] \subseteq inTpm
    /\ Needed(p) \subseteq inTpm \cup MissingKeys(p)
    /\ MissingKeys(p) \cap inTpm = {}
    /\ room[p] + Cardinality(inTpm) - slots[p]
          <= MaxKeys + Cardinality((Needed(p) \cap inTpm) \ listed[p])

\* While keys are swapped in: what is to come completes what is needed, and
\* the room that was asked for stays free.
Loading(p) ==
    /\ Needed(p) \subseteq Coming(p)
    /\ Cardinality(Staying(p)) + (room[p] - 3) <= MaxKeys =>
          Cardinality(Coming(p)) + (room[p] - 3) <= MaxKeys

\* For the only program there is: a key that is not on the list any more is
\* gone, or one that stays, or the one at hand.
RoomInv(p) ==
    /\ pc[p] \in {"out", "open", "write", "evict"} => Counted(p)
    /\ pc[p] = "out" => inTpm \subseteq listed[p] \cup Staying(p)
    /\ pc[p] \in {"open", "write", "evict"} =>
          handle[p] \notin listed[p] /\ inTpm \subseteq listed[p] \cup Staying(p) \cup {handle[p]}
    /\ pc[p] \in {"in", "load", "unlink"} => Loading(p)

-----------------------------------------------------------------------------
(* The operators.                                                          *)

\* The first of the keys that are missing is one of them.
LEMMA FirstIsMissing ==
    ASSUME NEW p \in Procs, missing[p] \in SUBSET (1..3), missing[p] # {}
    PROVE  FirstMissing(p) \in missing[p]
<1> SUFFICES \E i \in missing[p] : \A j \in missing[p] : i <= j
  BY Zenon DEF FirstMissing
<1>1. missing[p] \subseteq {1, 2, 3}
  OBVIOUS
<1> QED
  BY <1>1

\* How many slots are missing is a number.
LEMMA SlotsCounted ==
    ASSUME TypeOK, NEW p \in Procs
    PROVE  NeededSlots(p) - (MaxKeys - Cardinality(inTpm)) \in Int
<1>1. Cardinality(inTpm) \in Nat
  BY KeysAssumption, FS_Subset, FS_CardinalityType DEF TypeOK
<1>2. NeededSlots(p) \in Int
  BY DEF NeededSlots, TypeOK
<1> QED
  BY <1>1, <1>2, RoomAssumption

\* After a key was dealt with the call goes on, or ends; the rest is as it was.
LEMMA NextListedTypes ==
    ASSUME TypeOK, NEW p \in Procs, NEW r \in {"ok", "error", "ownerControl"},
           NextListed(p, r)
    PROVE  /\ ret' \in [Procs -> {"ok", "error", "ownerControl"}]
           /\ slots' \in [Procs -> Int]
           /\ pc' \in [Procs -> Labels]
           /\ pc'[p] \in {"out", "in", "done"}
           /\ \A q \in Procs \ {p} : pc'[q] = pc[q]
<1>1. ret' \in [Procs -> {"ok", "error", "ownerControl"}]
  BY DEF NextListed, Result, TypeOK
<1>2. slots' \in [Procs -> Int]
  BY DEF NextListed, TypeOK
<1>3. \E l \in {"out", "in", "done"} : pc' = [pc EXCEPT ![p] = l]
  BY Zenon DEF NextListed, Goto
<1>4. PICK l \in {"out", "in", "done"} : pc' = [pc EXCEPT ![p] = l]
  BY <1>3
<1> QED
  BY <1>1, <1>2, <1>4 DEF TypeOK, Labels

-----------------------------------------------------------------------------
(* SwapInv.                                                                *)

\* It holds for a TPM with any keys in it.
LEMMA InitSwapInv == Init => SwapInv
<1> SUFFICES ASSUME Init PROVE SwapInv
  OBVIOUS
<1>1. TypeOK
  BY KeysAssumption DEF Init, TypeOK, Contents, Labels, Looked, Key
<1>2. HandleInv
  BY DEF Init, HandleInv
<1> QED
  BY <1>1, <1>2 DEF SwapInv

\* Each step of the first half keeps it: counting, listing, swapping out.
LEMMA SwapOutInv ==
    ASSUME SwapInv, NEW p \in Procs,
           \/ NeedKeysRoom(p) \/ CountSlots(p) \/ ListKeys(p) \/ EndOfList(p) \/ Keep(p)
           \/ SaveContext(p) \/ OpenFile(p) \/ WriteFile(p) \/ EvictKey(p)
    PROVE  SwapInv'
<1> USE KeysAssumption, RoomAssumption
    DEF SwapInv, TypeOK, HandleInv, Labels, Looked, Contents, Key, tpm, Goto, Result
<1>1. CASE NeedKeysRoom(p)
  <2>1. need' \in [Procs -> Key \X Key \X Key] /\ \A q \in Procs \ {p} : need'[q] = need[q]
    <3>1. PICK k1 \in Key, k2 \in Key, k3 \in Key : need' = [need EXCEPT ![p] = <<k1, k2, k3>>]
      BY <1>1 DEF NeedKeysRoom, Asks
    <3> QED
      BY <3>1
  <2>2. room' \in [Procs -> Nat]
    BY <1>1, SMTT(30) DEF NeedKeysRoom, Asks
  <2>5. /\ pc' \in [Procs -> Labels] /\ looked' \in [Procs -> Looked]
        /\ ret' \in [Procs -> {"ok", "error", "ownerControl"}]
        /\ UNCHANGED <<tpm, listed, slots, missing, handle, context>>
    <3>1. /\ \/ pc' = [pc EXCEPT ![p] = "count"] /\ looked' = looked
             \/ pc' = [pc EXCEPT ![p] = "done"] /\ looked' = [looked EXCEPT ![p] = "off"]
          /\ ret' = [ret EXCEPT ![p] = "ok"]
      BY <1>1, SMTT(30) DEF NeedKeysRoom, Asks
    <3>2. UNCHANGED <<tpm, listed, slots, missing, handle, context>>
      BY <1>1, Zenon DEF NeedKeysRoom, Asks
    <3> QED
      BY <3>1, <3>2
  <2>3. TypeOK'
    BY <2>1, <2>2, <2>5
  <2>4. HandleInv'
    BY <1>1, <2>1 DEF NeedKeysRoom, Asks
  <2> QED
    BY <2>3, <2>4
<1>2. CASE CountSlots(p)
  <2>1. TypeOK'
    BY <1>2 DEF CountSlots, ReturnWith
  <2>2. HandleInv'
    BY <1>2 DEF CountSlots, ReturnWith
  <2> QED
    BY <2>1, <2>2
<1>3. CASE ListKeys(p)
  <2>1. CASE ReturnWith(p, "error") /\ UNCHANGED <<listed, missing, slots, looked>>
    BY <1>3, <2>1 DEF ListKeys, ReturnWith
  <2>2. CASE ~ (ReturnWith(p, "error") /\ UNCHANGED <<listed, missing, slots, looked>>)
    <3> DEFINE absent == {i \in 1..3 : ~ IsKeyInTPM(need[p][i])}
    <3>1. /\ listed' = [listed EXCEPT ![p] = inTpm]
          /\ missing' = [missing EXCEPT ![p] = absent]
          /\ slots' = [slots EXCEPT ![p] = NeededSlots(p) - (MaxKeys - Cardinality(inTpm))]
          /\ pc' = [pc EXCEPT ![p] = IF slots'[p] > 0 THEN "out" ELSE "in"]
          /\ looked' = [looked EXCEPT ![p] = "yes"]
          /\ UNCHANGED <<ret, tpm, need, room, handle, context>>
      BY <1>3, <2>2, Zenon DEF ListKeys, Goto
    <3>2. absent \in SUBSET (1..3) /\ \A i \in absent : need[p][i] \in Keys
      BY DEF IsKeyInTPM
    <3> HIDE DEF absent
    <3>3. \E l \in {"out", "in"} : pc' = [pc EXCEPT ![p] = l]
      BY <3>1, Zenon
    <3>4. slots' \in [Procs -> Int]
      BY <3>1, SlotsCounted
    <3>5. TypeOK'
      BY <3>1, <3>2, <3>3, <3>4
    <3>6. HandleInv'
      BY <3>1, <3>2, <3>3
    <3> QED
      BY <3>5, <3>6
  <2> QED
    BY <2>1, <2>2
<1>4. CASE EndOfList(p)
  <2>1. TypeOK'
    BY <1>4 DEF EndOfList
  <2>2. HandleInv'
    BY <1>4 DEF EndOfList
  <2> QED
    BY <2>1, <2>2
<1>5. CASE Keep(p)
  <2>1. NextListed(p, ret[p]) /\ ret[p] \in {"ok", "error", "ownerControl"}
    BY <1>5 DEF Keep
  <2>2. listed' \in [Procs -> SUBSET Keys]
    BY <1>5 DEF Keep, TakeListed
  <2>3. TypeOK'
    BY <1>5, <2>1, <2>2, NextListedTypes DEF Keep
  <2>4. HandleInv'
    BY <1>5, <2>1, NextListedTypes DEF Keep
  <2> QED
    BY <2>3, <2>4
<1>6. CASE SaveContext(p)
  <2>1. PICK k \in Keys \ Kept(p) :
          /\ TakeListed(p, k)
          /\ handle' = [handle EXCEPT ![p] = k]
          /\ \/ /\ k \in inTpm \ OwnerKeys
                /\ Goto(p, "open") /\ UNCHANGED <<slots, ret>>
             \/ k \in OwnerKeys /\ NextListed(p, "ownerControl")
             \/ NextListed(p, "error")
    BY <1>6, Zenon DEF SaveContext
  <2>2. /\ listed' \in [Procs -> SUBSET Keys]
        /\ UNCHANGED <<tpm, need, room, missing, context, looked>>
    BY <1>6, <2>1 DEF SaveContext, TakeListed
  <2>3. \A i \in 1..3 : k # need[p][i]
    BY <2>1 DEF Kept
  <2>4. CASE k \in inTpm \ OwnerKeys /\ Goto(p, "open") /\ UNCHANGED <<slots, ret>>
    BY <2>1, <2>2, <2>3, <2>4
  <2>5. CASE NextListed(p, "ownerControl") \/ NextListed(p, "error")
    <3>1. TypeOK'
      BY <2>1, <2>2, <2>5, NextListedTypes
    <3>2. HandleInv'
      BY <2>1, <2>2, <2>5, NextListedTypes, SMTT(30)
    <3> QED
      BY <3>1, <3>2
  <2> QED
    BY <2>1, <2>4, <2>5
<1>7. CASE OpenFile(p)
  <2>1. CASE Goto(p, "write") /\ UNCHANGED <<slots, ret>>
    BY <1>7, <2>1 DEF OpenFile, NextListed
  <2>2. CASE NextListed(p, "error") /\ UNCHANGED file
    <3>1. TypeOK'
      BY <1>7, <2>2, NextListedTypes DEF OpenFile
    <3>2. HandleInv'
      <4>1. UNCHANGED <<need, missing, handle>>
        BY <1>7 DEF OpenFile
      <4>2. pc'[p] \in {"out", "in", "done"} /\ \A q \in Procs \ {p} : pc'[q] = pc[q]
        BY <2>2, NextListedTypes
      <4> QED
        BY <4>1, <4>2
    <3> QED
      BY <3>1, <3>2
  <2> QED
    BY <1>7, <2>1, <2>2 DEF OpenFile
<1>8. CASE WriteFile(p)
  <2>1. TypeOK'
    BY <1>8 DEF WriteFile
  <2>2. HandleInv'
    BY <1>8 DEF WriteFile
  <2> QED
    BY <2>1, <2>2
<1>9. CASE EvictKey(p)
  <2>1. NextListed(p, "ok") \/ NextListed(p, "error")
    BY <1>9, Zenon DEF EvictKey
  <2>2. inTpm' \subseteq Keys
    BY <1>9 DEF EvictKey
  <2>3. UNCHANGED <<file, known, diskFull, need, room, listed, missing, handle, context, looked>>
    BY <1>9 DEF EvictKey
  <2>4. TypeOK'
    BY <2>1, <2>2, <2>3, NextListedTypes
  <2>5. pc'[p] \in {"out", "in", "done"} /\ \A q \in Procs \ {p} : pc'[q] = pc[q]
    BY <2>1, NextListedTypes
  <2>6. HandleInv'
    BY <2>3, <2>5
  <2> QED
    BY <2>4, <2>6
<1> QED
  BY <1>1, <1>2, <1>3, <1>4, <1>5, <1>6, <1>7, <1>8, <1>9

\* So does each of the second: swapping in, the caller, and the kill.
LEMMA SwapInInv ==
    ASSUME SwapInv, NEW p \in Procs,
           \/ AllIn(p) \/ ReadFile(p) \/ LoadContext(p) \/ Unlink(p)
           \/ UseRoom(p) \/ KillProcess(p)
    PROVE  SwapInv'
<1> USE KeysAssumption, RoomAssumption
    DEF SwapInv, TypeOK, HandleInv, Labels, Looked, Contents, Key, tpm, Goto, Result
<1>1. CASE AllIn(p)
  <2>1. TypeOK'
    BY <1>1 DEF AllIn, ReturnWith
  <2>2. HandleInv'
    BY <1>1 DEF AllIn, ReturnWith
  <2> QED
    BY <2>1, <2>2
<1>2. CASE ReadFile(p)
  <2>1. FirstMissing(p) \in missing[p]
    BY <1>2, FirstIsMissing DEF ReadFile
  <2> DEFINE i == FirstMissing(p)
  <2>2. i \in 1..3 /\ need[p][i] \in Keys /\ file[need[p][i]] \in Contents
    BY <2>1
  <2> HIDE DEF i
  <2>3. TypeOK'
    BY <1>2, <2>2 DEF ReadFile, ReturnWith, i
  <2>4. HandleInv'
    BY <1>2, <2>2 DEF ReadFile, ReturnWith, i
  <2> QED
    BY <2>3, <2>4
<1>3. CASE LoadContext(p)
  <2>1. TypeOK'
    BY <1>3 DEF LoadContext, ReturnWith
  <2>2. HandleInv'
    BY <1>3 DEF LoadContext, ReturnWith
  <2> QED
    BY <2>1, <2>2
<1>4. CASE Unlink(p)
  <2>1. TypeOK'
    BY <1>4 DEF Unlink
  <2>2. HandleInv'
    BY <1>4 DEF Unlink
  <2> QED
    BY <2>1, <2>2
<1>5. CASE UseRoom(p)
  <2>1. TypeOK'
    BY <1>5 DEF UseRoom, LeaveCall
  <2>2. HandleInv'
    BY <1>5 DEF UseRoom, LeaveCall
  <2> QED
    BY <2>1, <2>2
<1>6. CASE KillProcess(p)
  <2>1. TypeOK'
    BY <1>6 DEF KillProcess, LeaveCall
  <2>2. HandleInv'
    BY <1>6 DEF KillProcess, LeaveCall
  <2> QED
    BY <2>1, <2>2
<1> QED
  BY <1>1, <1>2, <1>3, <1>4, <1>5, <1>6

\* Each step of any program keeps it.
LEMMA NextSwapInv == SwapInv /\ [Next]_vars => SwapInv'
<1>1. ASSUME SwapInv, Next PROVE SwapInv'
  BY <1>1, SwapOutInv, SwapInInv, Zenon DEF Next, Step
<1>2. ASSUME SwapInv, UNCHANGED vars PROVE SwapInv'
  BY <1>2 DEF SwapInv, TypeOK, HandleInv, vars, tpm, locals
<1> QED
  BY <1>1, <1>2

\* It holds always, for any number of programs.
THEOREM SwapInvHolds == Spec => []SwapInv
BY InitSwapInv, NextSwapInv, PTL DEF Spec

-----------------------------------------------------------------------------
(* One program.                                                            *)

\* The disk stays as it is.
LEMMA DiskStays == [Next]_vars => diskFull' = diskFull
<1>1. ASSUME NEW p \in Procs, Step(p) PROVE diskFull' = diskFull
  <2>1. CASE NeedKeysRoom(p) \/ CountSlots(p) \/ ListKeys(p) \/ EndOfList(p) \/ Keep(p)
    BY <2>1 DEF NeedKeysRoom, Asks, CountSlots, ListKeys, EndOfList, Keep, tpm
  <2>2. CASE SaveContext(p) \/ OpenFile(p) \/ WriteFile(p) \/ EvictKey(p)
    BY <2>2 DEF SaveContext, OpenFile, WriteFile, EvictKey, tpm
  <2>3. CASE AllIn(p) \/ ReadFile(p) \/ LoadContext(p) \/ Unlink(p) \/ UseRoom(p)
    BY <2>3 DEF AllIn, ReadFile, LoadContext, Unlink, UseRoom, tpm
  <2> QED
    BY <1>1, <2>1, <2>2, <2>3 DEF Step
<1>2. ASSUME NEW p \in Procs, KillProcess(p) PROVE diskFull' = diskFull
  BY <1>2 DEF KillProcess, tpm
<1> QED
  BY <1>1, <1>2 DEF Next, vars, tpm

\* Where the key is while the only program works on it: each step leads from
\* one place to the next, and what is taken from the one is in the other.
LEMMA StepPlaceInv ==
    ASSUME NEW p, Procs = {p}, SwapInv, PlaceInv(p), KeyNotLost, [Next]_vars
    PROVE  PlaceInv(p)' /\ KeyNotLost'
<1> SUFFICES ASSUME ~ diskFull PROVE PlaceInv(p)' /\ KeyNotLost'
  BY DiskStays DEF PlaceInv, KeyNotLost
<1> USE DEF SwapInv, TypeOK, HandleInv, PlaceInv, KeyNotLost, tpm, Goto, Result
<1>1. CASE NeedKeysRoom(p)
  BY <1>1 DEF NeedKeysRoom, Asks
<1>2. CASE CountSlots(p)
  BY <1>2 DEF CountSlots, ReturnWith
<1>3. CASE ListKeys(p)
  BY <1>3 DEF ListKeys, ReturnWith
<1>4. CASE EndOfList(p)
  BY <1>4 DEF EndOfList
<1>5. CASE Keep(p)
  BY <1>5, NextListedTypes DEF Keep
<1>6. CASE SaveContext(p)
  BY <1>6, NextListedTypes DEF SaveContext
<1>7. CASE OpenFile(p)
  BY <1>7, NextListedTypes DEF OpenFile
<1>8. CASE WriteFile(p)
  BY <1>8 DEF WriteFile
<1>9. CASE EvictKey(p)
  BY <1>9, NextListedTypes DEF EvictKey
<1>10. CASE AllIn(p)
  BY <1>10 DEF AllIn, ReturnWith
<1>11. CASE ReadFile(p)
  BY <1>11 DEF ReadFile, ReturnWith
<1>12. CASE LoadContext(p)
  BY <1>12 DEF LoadContext, ReturnWith
<1>13. CASE Unlink(p)
  BY <1>13 DEF Unlink
<1>14. CASE UseRoom(p)
  BY <1>14 DEF UseRoom, LeaveCall
<1>15. CASE KillProcess(p)
  BY <1>15 DEF KillProcess, LeaveCall
<1>16. CASE UNCHANGED vars
  BY <1>16 DEF vars, locals
<1> QED
  BY <1>1, <1>2, <1>3, <1>4, <1>5, <1>6, <1>7, <1>8, <1>9, <1>10, <1>11, <1>12,
     <1>13, <1>14, <1>15, <1>16 DEF Next, Step

-----------------------------------------------------------------------------
(* Room for the keys.                                                      *)

\* A set of keys is finite.
LEMMA KeysFinite ==
    ASSUME NEW S \in SUBSET Keys
    PROVE  IsFiniteSet(S) /\ Cardinality(S) \in Nat
BY KeysAssumption, FS_Subset, FS_CardinalityType

\* Two sets that have no key in common have the sum of their numbers.
LEMMA DisjointUnion ==
    ASSUME NEW A, NEW B, IsFiniteSet(A), IsFiniteSet(B), A \cap B = {}
    PROVE  Cardinality(A \cup B) = Cardinality(A) + Cardinality(B)
<1>1. Cardinality(A \cup B) = Cardinality(A) + Cardinality(B) - Cardinality(A \cap B)
  BY FS_Union, Zenon
<1>2. Cardinality(A \cap B) = 0
  BY FS_EmptySet
<1>3. Cardinality(A) \in Nat /\ Cardinality(B) \in Nat
  BY FS_CardinalityType
<1> QED
  BY <1>1, <1>2, <1>3

\* One key more is one more at most.
LEMMA OneMore ==
    ASSUME NEW A, NEW x, NEW n \in Nat, IsFiniteSet(A), Cardinality(A) <= n
    PROVE  IsFiniteSet(A \cup {x}) /\ Cardinality(A \cup {x}) <= n + 1
<1>1. Cardinality(A) \in Nat
  BY FS_CardinalityType
<1>2. /\ IsFiniteSet(A \cup {x})
      /\ Cardinality(A \cup {x}) = IF x \in A THEN Cardinality(A) ELSE Cardinality(A) + 1
  BY FS_AddElement, Zenon
<1> QED
  BY <1>1, <1>2

\* A command needs three keys at most.
LEMMA ThreeNeeded ==
    ASSUME NEW p \in Procs
    PROVE  Cardinality(Needed(p)) <= 3
<1> DEFINE one == {need[p][1]}
           two == one \cup {need[p][2]}
           three == two \cup {need[p][3]}
<1>1. IsFiniteSet(one) /\ Cardinality(one) <= 1
  <2>1. IsFiniteSet(one) /\ Cardinality(one) = 1
    BY FS_Singleton, Zenon
  <2> QED
    BY <2>1
<1>2. IsFiniteSet(two) /\ Cardinality(two) <= 2
  <2> HIDE DEF one
  <2>1. IsFiniteSet(two) /\ Cardinality(two) <= 1 + 1
    BY <1>1, OneMore
  <2> QED
    BY <2>1
<1>3. IsFiniteSet(three) /\ Cardinality(three) <= 3
  <2> HIDE DEF two
  <2>1. IsFiniteSet(three) /\ Cardinality(three) <= 2 + 1
    BY <1>2, OneMore
  <2> QED
    BY <2>1
<1>4. Needed(p) \in SUBSET three
  BY DEF Needed, Kept
<1> HIDE DEF three
<1>5. /\ IsFiniteSet(Needed(p)) /\ Cardinality(Needed(p)) <= Cardinality(three)
  BY <1>3, <1>4, FS_Subset, Zenon
<1>6. Cardinality(Needed(p)) \in Nat /\ Cardinality(three) \in Nat
  BY <1>3, <1>5, FS_CardinalityType, Zenon
<1> QED
  BY <1>3, <1>5, <1>6

\* The reserve of three covers what was counted too much: when enough slots were
\* counted, the keys to come leave the room that was asked for.
LEMMA ReserveSuffices ==
    ASSUME NEW T \in SUBSET Keys, NEW N \in SUBSET Keys, NEW X \in SUBSET N, NEW L,
           Cardinality(N) <= 3, X \cap T = {},
           NEW r \in Nat, NEW s \in Int, s <= 0,
           r + Cardinality(T) - s <= MaxKeys + Cardinality((N \cap T) \ L)
    PROVE  Cardinality(T \cup X) + (r - 3) <= MaxKeys
<1> DEFINE C == (N \cap T) \ L
<1>1. IsFiniteSet(T) /\ IsFiniteSet(X) /\ IsFiniteSet(C) /\ IsFiniteSet(N)
  BY KeysFinite
<1>2. /\ Cardinality(T) \in Nat /\ Cardinality(X) \in Nat /\ Cardinality(C) \in Nat
      /\ Cardinality(N) \in Nat
  BY KeysFinite
<1>3. Cardinality(T \cup X) = Cardinality(T) + Cardinality(X)
  BY <1>1, DisjointUnion
<1>4. Cardinality(C \cup X) = Cardinality(C) + Cardinality(X)
  BY <1>1, DisjointUnion
<1>5. Cardinality(C \cup X) <= Cardinality(N)
  BY <1>1, FS_Subset
<1> HIDE DEF C
<1> QED
  BY <1>2, <1>3, <1>4, <1>5, RoomAssumption DEF C

\* What is missing is needed.
LEMMA MissingNeeded ==
    ASSUME SwapInv, NEW p \in Procs
    PROVE  /\ MissingKeys(p) \in SUBSET Needed(p)
           /\ Needed(p) \in SUBSET Keys
           /\ Staying(p) \in SUBSET Keys
BY KeysAssumption DEF SwapInv, TypeOK, HandleInv, MissingKeys, Needed, Kept, Staying

\* A key was dealt with: when the call goes on with the list, the count is right;
\* when it goes on to swap in, there is room.
LEMMA ListedRoom ==
    ASSUME NEW p \in Procs, SwapInv, SwapInv',
           NEW r \in {"ok", "error", "ownerControl"}, NextListed(p, r),
           UNCHANGED <<need, room, missing>>,
           r # "error" => Counted(p)' /\ inTpm' \subseteq listed'[p] \cup Staying(p)
    PROVE  RoomInv(p)'
<1>1. pc'[p] \in {"out", "in", "done"}
  BY NextListedTypes DEF SwapInv
<1>2. Staying(p)' = Staying(p) /\ Needed(p)' = Needed(p) /\ MissingKeys(p)' = MissingKeys(p)
  BY DEF Staying, Needed, Kept, MissingKeys
<1>3. CASE pc'[p] = "out"
  <2>1. r # "error"
    BY <1>3 DEF NextListed, Goto, SwapInv, TypeOK
  <2> QED
    BY <1>2, <1>3, <2>1 DEF RoomInv
<1>4. CASE pc'[p] = "in"
  <2>1. r = "ok" /\ slots'[p] <= 0
    BY <1>4 DEF NextListed, Goto, Result, SwapInv, TypeOK
  <2>2. Counted(p)'
    BY <2>1
  <2>3. Coming(p)' = inTpm' \cup MissingKeys(p)
    BY <1>2, <1>4 DEF Coming
  <2>4. /\ inTpm' \in SUBSET Keys /\ room'[p] \in Nat /\ slots'[p] \in Int
        /\ MissingKeys(p) \in SUBSET Needed(p) /\ Needed(p) \in SUBSET Keys
    BY MissingNeeded DEF SwapInv, TypeOK
  <2>5. Cardinality(inTpm' \cup MissingKeys(p)) + (room'[p] - 3) <= MaxKeys
    <3>1. /\ MissingKeys(p) \cap inTpm' = {}
          /\ room'[p] + Cardinality(inTpm') - slots'[p]
                <= MaxKeys + Cardinality((Needed(p) \cap inTpm') \ listed'[p])
      BY <1>2, <2>2 DEF Counted
    <3> QED
      BY <2>1, <2>4, <3>1, ThreeNeeded, ReserveSuffices
  <2>6. Needed(p) \subseteq inTpm' \cup MissingKeys(p)
    BY <1>2, <2>2 DEF Counted
  <2>7. Loading(p)'
    BY <1>2, <2>3, <2>5, <2>6 DEF Loading
  <2> QED
    BY <1>4, <2>7 DEF RoomInv
<1>5. CASE pc'[p] = "done"
  BY <1>5 DEF RoomInv
<1> QED
  BY <1>1, <1>3, <1>4, <1>5

\* Each step that swaps out keeps the count, and leads to enough room.
LEMMA OutRoomInv ==
    ASSUME NEW p \in Procs, SwapInv, SwapInv', RoomInv(p),
           \/ EndOfList(p) \/ Keep(p) \/ SaveContext(p)
           \/ OpenFile(p) \/ WriteFile(p) \/ EvictKey(p)
    PROVE  RoomInv(p)'
<1> USE DEF Goto, tpm
<1>1. pc \in [Procs -> Labels] /\ pc' \in [Procs -> Labels]
  BY DEF SwapInv, TypeOK
<1>2. CASE EndOfList(p)
  <2>1. /\ UNCHANGED <<inTpm, need, room, listed, slots, missing, handle>>
        /\ pc[p] = "out" /\ listed[p] = {}
        /\ pc'[p] \in {"in", "done"}
    BY <1>1, <1>2 DEF EndOfList
  <2>2. Counted(p) /\ inTpm \subseteq Staying(p)
    BY <2>1 DEF RoomInv
  <2>3. Coming(p)' \subseteq Staying(p) /\ Needed(p) \subseteq Coming(p)'
    <3>1. Coming(p)' = inTpm \cup MissingKeys(p)
      BY <2>1 DEF Coming, MissingKeys
    <3> QED
      BY <2>2, <3>1, MissingNeeded DEF Counted, Needed, Staying
  <2>4. Staying(p)' = Staying(p) /\ Needed(p)' = Needed(p)
    BY <2>1 DEF Staying, Needed, Kept
  <2>5. Cardinality(Coming(p)') <= Cardinality(Staying(p)) /\ Cardinality(Coming(p)') \in Nat
        /\ Cardinality(Staying(p)) \in Nat
    <3>1. Staying(p) \in SUBSET Keys /\ Coming(p)' \in SUBSET Keys /\ Coming(p)' \in SUBSET Staying(p)
      BY <2>3, MissingNeeded
    <3> QED
      BY <3>1, KeysFinite, FS_Subset
  <2>6. Loading(p)'
    <3>1. room[p] \in Nat /\ room'[p] = room[p]
      BY <2>1 DEF SwapInv, TypeOK
    <3> QED
      BY <2>3, <2>4, <2>5, <3>1, RoomAssumption DEF Loading
  <2> QED
    BY <2>1, <2>6 DEF RoomInv
<1>3. CASE Keep(p)
  <2>1. PICK k \in Kept(p) : TakeListed(p, k)
    BY <1>3, Zenon DEF Keep
  <2>2. /\ NextListed(p, ret[p]) /\ ret[p] \in {"ok", "error", "ownerControl"}
        /\ UNCHANGED <<inTpm, need, room, missing>>
    BY <1>3 DEF Keep, SwapInv, TypeOK
  <2>3. pc[p] = "out" /\ k \in listed[p] /\ listed'[p] = listed[p] \ {k}
    BY <2>1 DEF TakeListed, SwapInv, TypeOK
  <2>4. Counted(p) /\ inTpm \subseteq listed[p] \cup Staying(p)
    BY <2>3 DEF RoomInv
  <2>5. k \in Needed(p) /\ k \in Staying(p)
    BY <2>1, <2>3 DEF Needed, Staying, SwapInv, TypeOK
  <2>6. ret[p] # "error" => Counted(p)'
    <3>1. /\ Needed(p)' = Needed(p) /\ MissingKeys(p)' = MissingKeys(p)
          /\ room'[p] = room[p] /\ inTpm' = inTpm
      BY <2>2 DEF Needed, Kept, MissingKeys
    <3>2. Cardinality((Needed(p) \cap inTpm) \ (listed[p] \ {k}))
            = Cardinality((Needed(p) \cap inTpm) \ listed[p]) + 1
      <4> DEFINE T == inTpm
                 N == Needed(p)
                 L == listed[p]
      <4>1. T \in SUBSET Keys /\ N \in SUBSET Keys /\ L \in SUBSET T /\ k \in N \cap L
        BY <2>3, <2>4, <2>5, MissingNeeded DEF Counted, SwapInv, TypeOK
      <4> HIDE DEF T, N, L
      <4>2. (N \cap T) \ (L \ {k}) = ((N \cap T) \ L) \cup {k}
        BY <4>1
      <4>3. (N \cap T) \ L \in SUBSET Keys /\ k \notin (N \cap T) \ L
        BY <4>1
      <4>4. Cardinality(((N \cap T) \ L) \cup {k}) = Cardinality((N \cap T) \ L) + 1
        BY <4>3, KeysFinite, FS_AddElement
      <4>5. Cardinality((N \cap T) \ (L \ {k})) = Cardinality((N \cap T) \ L) + 1
        BY <4>2, <4>4, Zenon
      <4> QED
        BY <4>5 DEF T, N, L
    <3>3. slots[p] \in Int /\ slots'[p] \in {slots[p], slots[p] - 1}
      BY <2>2 DEF NextListed, SwapInv, TypeOK
    <3>4. /\ room[p] \in Nat /\ Cardinality(inTpm) \in Nat
          /\ Cardinality((Needed(p) \cap inTpm) \ listed[p]) \in Nat
      BY KeysFinite DEF SwapInv, TypeOK
    <3>5. room[p] + Cardinality(inTpm) - slots'[p]
            <= MaxKeys + Cardinality((Needed(p) \cap inTpm) \ listed'[p])
      BY <2>3, <2>4, <3>2, <3>3, <3>4, RoomAssumption DEF Counted
    <3> QED
      BY <2>3, <2>4, <3>1, <3>5 DEF Counted
  <2>7. inTpm' \subseteq listed'[p] \cup Staying(p)
    BY <2>2, <2>3, <2>4, <2>5
  <2> QED
    BY <2>2, <2>6, <2>7, ListedRoom
<1>4. CASE SaveContext(p)
  <2>1. PICK k \in Keys \ Kept(p) :
          /\ TakeListed(p, k)
          /\ handle' = [handle EXCEPT ![p] = k]
          /\ \/ /\ k \in inTpm \ OwnerKeys
                /\ Goto(p, "open") /\ UNCHANGED <<slots, ret>>
             \/ k \in OwnerKeys /\ NextListed(p, "ownerControl")
             \/ NextListed(p, "error")
    BY <1>4, Zenon DEF SaveContext
  <2>2. UNCHANGED <<inTpm, need, room, missing>>
    BY <1>4 DEF SaveContext
  <2>3. /\ pc[p] = "out" /\ k \in listed[p] /\ listed'[p] = listed[p] \ {k}
        /\ handle'[p] = k
    BY <2>1 DEF TakeListed, SwapInv, TypeOK
  <2>4. Counted(p) /\ inTpm \subseteq listed[p] \cup Staying(p)
    BY <2>3 DEF RoomInv
  <2>5. slots'[p] = slots[p] => Counted(p)'
    <3>1. /\ Needed(p)' = Needed(p) /\ MissingKeys(p)' = MissingKeys(p)
          /\ room'[p] = room[p] /\ inTpm' = inTpm
      BY <2>2 DEF Needed, Kept, MissingKeys
    <3>2. (Needed(p) \cap inTpm) \ listed'[p] = (Needed(p) \cap inTpm) \ listed[p]
      BY <2>1, <2>3 DEF Needed
    <3> QED
      BY <2>3, <2>4, <3>1, <3>2 DEF Counted
  <2>6. Staying(p)' = Staying(p)
    BY <2>2 DEF Staying, Needed, Kept
  <2>7. CASE k \in inTpm \ OwnerKeys /\ Goto(p, "open") /\ UNCHANGED <<slots, ret>>
    <3>1. pc'[p] = "open" /\ slots' = slots
      BY <1>1, <2>7
    <3> QED
      BY <2>2, <2>3, <2>4, <2>5, <2>6, <3>1 DEF RoomInv
  <2>8. CASE k \in OwnerKeys /\ NextListed(p, "ownerControl")
    <3>1. slots'[p] = slots[p]
      BY <2>8 DEF NextListed, SwapInv, TypeOK
    <3>2. inTpm' \subseteq listed'[p] \cup Staying(p)
      BY <2>2, <2>3, <2>4, <2>8 DEF Needed, Staying
    <3> QED
      BY <2>2, <2>5, <2>8, <3>1, <3>2, ListedRoom
  <2>9. CASE NextListed(p, "error")
    BY <2>2, <2>9, ListedRoom
  <2> QED
    BY <2>1, <2>7, <2>8, <2>9
<1>5. CASE OpenFile(p)
  <2>1. pc[p] = "open" /\ UNCHANGED <<inTpm, need, room, listed, missing, handle>>
    BY <1>5 DEF OpenFile
  <2>2. CASE Goto(p, "write") /\ UNCHANGED <<slots, ret>>
    BY <1>1, <2>1, <2>2 DEF RoomInv, Counted, Needed, Kept, Staying, MissingKeys
  <2>3. CASE NextListed(p, "error")
    BY <2>1, <2>3, ListedRoom
  <2> QED
    BY <1>5, <2>2, <2>3, Zenon DEF OpenFile
<1>6. CASE WriteFile(p)
  <2>1. /\ pc[p] = "write" /\ pc'[p] = "evict"
        /\ UNCHANGED <<inTpm, need, room, listed, slots, missing, handle>>
    BY <1>1, <1>6 DEF WriteFile
  <2> QED
    BY <2>1 DEF RoomInv, Counted, Needed, Kept, Staying, MissingKeys
<1>7. CASE EvictKey(p)
  <2>1. pc[p] = "evict" /\ UNCHANGED <<need, room, listed, missing, handle>>
    BY <1>7 DEF EvictKey
  <2>2. CASE NextListed(p, "error")
    BY <2>1, <2>2, ListedRoom
  <2>3. CASE NextListed(p, "ok") /\ handle[p] \in inTpm /\ inTpm' = inTpm \ {handle[p]}
    <3> DEFINE h == handle[p]
    <3>1. /\ Counted(p) /\ h \notin listed[p]
          /\ inTpm \subseteq listed[p] \cup Staying(p) \cup {h}
      BY <2>1 DEF RoomInv
    <3>2. h \notin Needed(p)
      BY <2>1 DEF SwapInv, HandleInv, Needed, Kept
    <3> HIDE DEF h
    <3>3. h \in inTpm /\ inTpm' = inTpm \ {h}
      BY <2>3 DEF h
    <3>4. slots[p] \in Int /\ slots'[p] = slots[p] - 1
      BY <2>3 DEF NextListed, SwapInv, TypeOK
    <3>5. Cardinality(inTpm) \in Nat /\ Cardinality(inTpm') = Cardinality(inTpm) - 1
      <4>1. inTpm \in SUBSET Keys
        BY DEF SwapInv, TypeOK
      <4> QED
        BY <3>3, <4>1, KeysFinite, FS_RemoveElement
    <3>6. /\ Needed(p)' = Needed(p) /\ MissingKeys(p)' = MissingKeys(p)
          /\ room'[p] = room[p] /\ listed'[p] = listed[p]
      BY <2>1 DEF Needed, Kept, MissingKeys
    <3>7. (Needed(p) \cap inTpm') \ listed[p] = (Needed(p) \cap inTpm) \ listed[p]
      BY <3>2, <3>3
    <3>8. /\ listed[p] \subseteq inTpm'
          /\ Needed(p) \subseteq inTpm' \cup MissingKeys(p)
          /\ MissingKeys(p) \cap inTpm' = {}
      BY <3>1, <3>2, <3>3 DEF Counted
    <3>9. Counted(p)'
      <4>1. room[p] \in Nat /\ Cardinality((Needed(p) \cap inTpm) \ listed[p]) \in Nat
        BY KeysFinite DEF SwapInv, TypeOK
      <4>2. room[p] + Cardinality(inTpm) - slots[p]
              <= MaxKeys + Cardinality((Needed(p) \cap inTpm) \ listed[p])
        BY <3>1 DEF Counted
      <4>3. room[p] + Cardinality(inTpm') - slots'[p]
              <= MaxKeys + Cardinality((Needed(p) \cap inTpm') \ listed[p])
        <5>1. Cardinality((Needed(p) \cap inTpm') \ listed[p])
                = Cardinality((Needed(p) \cap inTpm) \ listed[p])
          BY <3>7, Zenon
        <5> QED
          BY <3>4, <3>5, <4>1, <4>2, <5>1, RoomAssumption
      <4> QED
        BY <3>6, <3>8, <4>3 DEF Counted
    <3>10. inTpm' \subseteq listed'[p] \cup Staying(p)
      BY <3>1, <3>3, <3>6
    <3> QED
      BY <2>1, <2>3, <3>9, <3>10, ListedRoom
  <2> QED
    BY <1>7, <2>2, <2>3 DEF EvictKey
<1> QED
  BY <1>2, <1>3, <1>4, <1>5, <1>6, <1>7

\* The list starts with all keys of the TPM; what is swapped in then is what was
\* missing, and the other steps leave the call.
LEMMA OtherRoomInv ==
    ASSUME NEW p \in Procs, SwapInv, SwapInv', RoomInv(p),
           \/ NeedKeysRoom(p) \/ CountSlots(p) \/ ListKeys(p)
           \/ AllIn(p) \/ ReadFile(p) \/ LoadContext(p) \/ Unlink(p)
           \/ UseRoom(p) \/ KillProcess(p)
    PROVE  RoomInv(p)'
<1> USE DEF Goto, tpm
<1>1. pc \in [Procs -> Labels] /\ pc' \in [Procs -> Labels]
  BY DEF SwapInv, TypeOK
<1>2. CASE pc'[p] \in {"idle", "count", "list", "done"}
  BY <1>2 DEF RoomInv
<1>3. CASE NeedKeysRoom(p) \/ CountSlots(p) \/ AllIn(p) \/ UseRoom(p) \/ KillProcess(p)
  <2>1. pc'[p] \in {"idle", "count", "list", "done"}
    BY <1>1, <1>3 DEF NeedKeysRoom, Asks, CountSlots, AllIn, UseRoom, KillProcess, LeaveCall, ReturnWith
  <2> QED
    BY <1>2, <2>1
<1>4. CASE ListKeys(p) /\ pc'[p] # "done"
  <2>1. /\ listed' = [listed EXCEPT ![p] = inTpm]
        /\ missing' = [missing EXCEPT ![p] = {i \in 1..3 : ~ IsKeyInTPM(need[p][i])}]
        /\ slots' = [slots EXCEPT ![p] = NeededSlots(p) - (MaxKeys - Cardinality(inTpm))]
        /\ pc' = [pc EXCEPT ![p] = IF slots'[p] > 0 THEN "out" ELSE "in"]
        /\ UNCHANGED <<inTpm, need, room, handle>>
    BY <1>1, <1>4 DEF ListKeys, ReturnWith
  <2>2. /\ listed'[p] = inTpm /\ inTpm' = inTpm /\ room'[p] = room[p]
        /\ missing'[p] = {i \in 1..3 : ~ IsKeyInTPM(need[p][i])}
        /\ slots'[p] = NeededSlots(p) - (MaxKeys - Cardinality(inTpm))
    BY <2>1 DEF SwapInv, TypeOK
  <2>3. /\ Needed(p)' = Needed(p) /\ Staying(p)' = Staying(p)
        /\ MissingKeys(p)' = Needed(p) \ inTpm
    BY <2>1, <2>2 DEF Needed, Staying, Kept, MissingKeys, IsKeyInTPM
  <2>4. /\ room[p] \in Nat /\ Cardinality(inTpm) \in Nat /\ slots'[p] \in Int
        /\ NeededSlots(p) \in Int /\ NeededSlots(p) >= room[p]
    <3>1. Cardinality(inTpm) \in Nat
      BY KeysFinite DEF SwapInv, TypeOK
    <3> QED
      BY <3>1 DEF NeededSlots, SwapInv, TypeOK
  <2>5. room[p] + Cardinality(inTpm) - slots'[p]
          <= MaxKeys + Cardinality((Needed(p) \cap inTpm) \ inTpm)
    <3>1. (Needed(p) \cap inTpm) \ inTpm = {}
      OBVIOUS
    <3>2. Cardinality((Needed(p) \cap inTpm) \ inTpm) = 0
      BY <3>1, FS_EmptySet, Zenon
    <3> QED
      BY <2>2, <2>4, <3>2, RoomAssumption
  <2>6. CASE slots'[p] > 0
    <3>1. pc'[p] = "out"
      BY <1>1, <2>1, <2>6
    <3>2. Counted(p)'
      BY <2>2, <2>3, <2>5 DEF Counted
    <3> QED
      BY <2>2, <2>3, <3>1, <3>2 DEF RoomInv
  <2>7. CASE ~ slots'[p] > 0
    <3>1. pc'[p] = "in"
      BY <1>1, <2>1, <2>7
    <3>2. Coming(p)' = inTpm \cup (Needed(p) \ inTpm)
      BY <2>2, <2>3, <3>1 DEF Coming
    <3>3. Cardinality(inTpm \cup (Needed(p) \ inTpm)) + (room[p] - 3) <= MaxKeys
      <4>1. /\ inTpm \in SUBSET Keys /\ Needed(p) \in SUBSET Keys
            /\ (Needed(p) \ inTpm) \cap inTpm = {} /\ slots'[p] <= 0
            /\ Needed(p) \ inTpm \in SUBSET Needed(p)
        BY <2>4, <2>7, MissingNeeded DEF SwapInv, TypeOK
      <4> QED
        BY <2>4, <2>5, <4>1, ThreeNeeded, ReserveSuffices
    <3>4. Loading(p)'
      BY <2>2, <2>3, <3>2, <3>3 DEF Loading
    <3> QED
      BY <3>1, <3>4 DEF RoomInv
  <2> QED
    BY <2>6, <2>7
<1>5. CASE ReadFile(p) /\ pc'[p] # "done"
  <2> DEFINE i == FirstMissing(p)
  <2>1. i \in missing[p]
    BY <1>5, FirstIsMissing DEF ReadFile, SwapInv, TypeOK
  <2> HIDE DEF i
  <2>2. /\ pc[p] = "in" /\ pc'[p] = "load"
        /\ missing'[p] = missing[p] \ {i} /\ handle'[p] = need[p][i]
        /\ UNCHANGED <<inTpm, need, room>>
    BY <1>1, <1>5 DEF ReadFile, ReturnWith, SwapInv, TypeOK, i
  <2>3. MissingKeys(p)' \cup {handle'[p]} = MissingKeys(p)
    BY <2>1, <2>2 DEF MissingKeys
  <2>4. Coming(p)' = Coming(p)
    BY <2>2, <2>3 DEF Coming
  <2>5. Needed(p)' = Needed(p) /\ Staying(p)' = Staying(p)
    BY <2>2 DEF Needed, Staying, Kept
  <2> QED
    BY <2>2, <2>4, <2>5 DEF RoomInv, Loading
<1>6. CASE LoadContext(p) /\ pc'[p] # "done"
  <2>1. /\ pc[p] = "load" /\ pc'[p] = "unlink" /\ inTpm' = inTpm \cup {handle[p]}
        /\ UNCHANGED <<need, room, missing, handle>>
    BY <1>1, <1>6 DEF LoadContext, ReturnWith
  <2>2. Coming(p)' = Coming(p) /\ Needed(p)' = Needed(p) /\ Staying(p)' = Staying(p)
    BY <2>1 DEF Coming, MissingKeys, Needed, Staying, Kept
  <2> QED
    BY <2>1, <2>2 DEF RoomInv, Loading
<1>7. CASE Unlink(p)
  <2>1. /\ pc[p] = "unlink" /\ pc'[p] = "in"
        /\ UNCHANGED <<inTpm, need, room, missing, handle>>
    BY <1>1, <1>7 DEF Unlink
  <2>2. Coming(p)' = Coming(p) /\ Needed(p)' = Needed(p) /\ Staying(p)' = Staying(p)
    BY <2>1 DEF Coming, MissingKeys, Needed, Staying, Kept
  <2> QED
    BY <2>1, <2>2 DEF RoomInv, Loading
<1> QED
  BY <1>2, <1>3, <1>4, <1>5, <1>6, <1>7

\* What is promised when the call returns follows from the last step, and stays
\* until the caller goes on, as long as no other program takes keys out.
LEMMA StepReady ==
    ASSUME NEW p, Procs = {p}, SwapInv, SwapInv', RoomInv(p), KeysReady, [Next]_vars
    PROVE  RoomInv(p)' /\ KeysReady'
<1>1. pc \in [Procs -> Labels] /\ pc' \in [Procs -> Labels] /\ ret' \in [Procs -> {"ok", "error", "ownerControl"}]
  BY DEF SwapInv, TypeOK
<1>2. CASE UNCHANGED vars
  <2>1. UNCHANGED <<inTpm, need, room, listed, slots, missing, handle, pc, ret, looked>>
    BY <1>2 DEF vars, tpm, locals
  <2>2. RoomInv(p)'
    BY <2>1 DEF RoomInv, Counted, Loading, Needed, Kept, Staying, MissingKeys, Coming
  <2>3. KeysReady'
    BY <2>1 DEF KeysReady, Fits, Staying, Wanted, Ready, Kept, IsKeyInTPM
  <2> QED
    BY <2>2, <2>3
<1>3. CASE AllIn(p)
  <2>1. RoomInv(p)'
    BY <1>3, OtherRoomInv
  <2>2. /\ pc[p] = "in" /\ missing[p] = {} /\ UNCHANGED <<inTpm, need, room>>
    BY <1>3 DEF AllIn, tpm
  <2>3. Coming(p) = inTpm
    BY <2>2 DEF Coming, MissingKeys
  <2>4. Needed(p) \subseteq inTpm
    BY <2>2, <2>3 DEF RoomInv, Loading
  <2>5. \A i \in 1..3 : IsKeyInTPM(need[p][i])'
    BY <2>2, <2>4 DEF Needed, Kept, IsKeyInTPM
  <2>6. Cardinality(Staying(p)) + (room[p] - 3) <= MaxKeys =>
          Cardinality(inTpm) + (room[p] - 3) <= MaxKeys
    BY <2>2, <2>3 DEF RoomInv, Loading
  <2>7. KeysReady'
    <3>1. Fits(p)' => Fits(p)
      BY <2>2 DEF Fits, Wanted, Staying, Kept
    <3>2. Fits(p) => Ready(p)'
      BY <2>2, <2>5, <2>6 DEF Fits, Wanted, Ready
    <3> QED
      BY <3>1, <3>2 DEF KeysReady
  <2> QED
    BY <2>1, <2>7
<1>4. CASE Next /\ ~ AllIn(p)
  <2>1. RoomInv(p)'
    BY <1>4, OutRoomInv, OtherRoomInv DEF Next, Step
  <2>2. pc'[p] # "done" \/ ret'[p] # "ok" \/ looked'[p] # "yes"
    <3> USE <1>1 DEF Goto, Result
    <3>1. ASSUME NEW r \in {"ok", "error", "ownerControl"}, NextListed(p, r)
          PROVE  pc'[p] # "done" \/ ret'[p] # "ok"
      BY <3>1 DEF NextListed, SwapInv, TypeOK
    <3>2. ret[p] \in {"ok", "error", "ownerControl"}
      BY DEF SwapInv, TypeOK
    <3>3. CASE NeedKeysRoom(p) \/ CountSlots(p)
      BY <3>3 DEF NeedKeysRoom, Asks, CountSlots, ReturnWith, SwapInv, TypeOK, Looked
    <3>11. CASE UseRoom(p) \/ KillProcess(p)
      BY <3>11 DEF UseRoom, KillProcess, LeaveCall
    <3>4. CASE ListKeys(p)
      BY <3>4 DEF ListKeys, ReturnWith, SwapInv, TypeOK
    <3>5. CASE EndOfList(p)
      BY <3>5 DEF EndOfList
    <3>6. CASE Keep(p)
      BY <3>1, <3>2, <3>6 DEF Keep
    <3>7. CASE SaveContext(p)
      BY <3>1, <3>7 DEF SaveContext
    <3>8. CASE OpenFile(p) \/ WriteFile(p)
      BY <3>1, <3>8 DEF OpenFile, WriteFile
    <3>9. CASE EvictKey(p)
      BY <3>1, <3>9, Zenon DEF EvictKey
    <3>10. CASE ReadFile(p) \/ LoadContext(p) \/ Unlink(p)
      BY <3>10 DEF ReadFile, LoadContext, Unlink, ReturnWith, SwapInv, TypeOK
    <3> QED
      BY <1>4, <3>3, <3>4, <3>5, <3>6, <3>7, <3>8, <3>9, <3>10, <3>11 DEF Next, Step
  <2>3. KeysReady'
    BY <2>2, Zenon DEF KeysReady
  <2> QED
    BY <2>1, <2>3
<1> QED
  BY <1>2, <1>3, <1>4

-----------------------------------------------------------------------------
(* The properties.                                                         *)

\* Every variable keeps its type, with any number of programs.
THEOREM TypeCorrect == Spec => []TypeOK
<1>1. SwapInv => TypeOK
  BY DEF SwapInv
<1> QED
  BY <1>1, SwapInvHolds, PTL

\* Swapping for one program loses no key, wherever a step fails or it is killed.
THEOREM NoKeyLost ==
    ASSUME NEW p, Procs = {p}
    PROVE  Spec => []KeyNotLost
<1>1. Init => PlaceInv(p) /\ KeyNotLost
  BY DEF Init, PlaceInv, KeyNotLost
<1>2. SwapInv /\ PlaceInv(p) /\ KeyNotLost /\ [Next]_vars => PlaceInv(p)' /\ KeyNotLost'
  BY StepPlaceInv
<1> QED
  BY <1>1, <1>2, SwapInvHolds, PTL DEF Spec

\* When the call for one program succeeds and the TPM has listed its keys, the
\* keys the command needs are in the TPM and the room it asked for is free, for
\* any number of keys and any size of the TPM that can hold them.
THEOREM RoomIsMade ==
    ASSUME NEW p, Procs = {p}
    PROVE  Spec => []KeysReady
<1>1. Init => RoomInv(p) /\ KeysReady
  BY DEF Init, RoomInv, KeysReady
<1>2. SwapInv /\ SwapInv' /\ RoomInv(p) /\ KeysReady /\ [Next]_vars => RoomInv(p)' /\ KeysReady'
  BY StepReady
<1> QED
  BY <1>1, <1>2, SwapInvHolds, PTL DEF Spec

\* However many programs swap at the same time, none of them evicts a key of the
\* owner or one its own command needs.
THEOREM OthersEvicted == Spec => EvictsOthersOnly
<1>1. SwapInv => \A p \in Procs : EvictKey(p) =>
          \A k \in inTpm \ inTpm' : k \notin OwnerKeys /\ k \notin Kept(p)
  BY DEF SwapInv, HandleInv, EvictKey, Kept
<1> QED
  BY <1>1, SwapInvHolds, PTL DEF EvictsOthersOnly
=============================================================================
