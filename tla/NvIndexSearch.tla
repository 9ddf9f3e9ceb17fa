--------------------------- MODULE NvIndexSearch ---------------------------
(***************************************************************************)
(* find_free_nv_index of tpm-luks-ctl: the search for a TPM NVRAM index    *)
(* that is not in use.  tpm_nvinfo lists the indexes the TPM knows, `sort' *)
(* puts them in ascending order (they are printed as fixed-width hex), and *)
(* a for loop walks that list with a candidate, $_nv_index, that starts at *)
(* FirstIndex and moves past every index it meets.                         *)
(*                                                                         *)
(* The list is modelled by the set of indexes it has not yielded yet: the  *)
(* loop always takes the smallest.                                         *)
(***************************************************************************)
EXTENDS NvIndex

VARIABLES
  existing,   \* the indexes tpm_nvinfo printed
  rest,       \* the part of the sorted list the loop has not reached
  candidate,  \* $_nv_index
  answer,     \* NV_INDEX when the function returned 0, NoIndex when it returned 1
  pc          \* "loop" or "return"

vars == <<existing, rest, candidate, answer, pc>>

TypeOK ==
  /\ existing \subseteq Index
  /\ rest \subseteq existing
  /\ candidate \in FirstIndex..(Limit + 1)
  /\ answer \in {NoIndex} \cup FirstIndex..(Limit + 1)
  /\ pc \in {"loop", "return"}

Init ==
  /\ existing \in SUBSET Index
  /\ rest = existing
  /\ candidate = FirstIndex
  /\ answer = NoIndex
  /\ pc = "loop"

IsNext(i) == i \in rest /\ \A j \in rest : i <= j

GiveUp ==
  /\ pc = "loop"
  /\ \E i \in rest : IsNext(i)
  /\ candidate > Limit
  /\ pc' = "return"
  /\ answer' = NoIndex
  /\ UNCHANGED <<existing, rest, candidate>>

FoundGap ==
  /\ pc = "loop"
  /\ candidate <= Limit
  /\ \E i \in rest : IsNext(i) /\ i > candidate
  /\ pc' = "return"
  /\ answer' = candidate
  /\ UNCHANGED <<existing, rest, candidate>>

(* Mutated form of Advance: the limit is not looked at.                    *)
AdvanceNoLimit ==
  /\ pc = "loop"
  /\ \E i \in rest :
       /\ IsNext(i)
       /\ i <= candidate
       /\ rest' = rest \ {i}
       /\ candidate' = IF i = candidate THEN candidate + 1 ELSE candidate
  /\ UNCHANGED <<existing, answer, pc>>

Advance ==
  /\ pc = "loop"
  /\ candidate <= Limit
  /\ \E i \in rest :
       /\ IsNext(i)
       /\ i <= candidate
       /\ rest' = rest \ {i}
       /\ candidate' = IF i = candidate THEN candidate + 1 ELSE candidate
  /\ UNCHANGED <<existing, answer, pc>>

(* Mutated form of EndOfList: the last candidate is thrown away.           *)
EndOfListOffByOne ==
  /\ pc = "loop"
  /\ rest = {}
  /\ pc' = "return"
  /\ answer' = candidate - 1
  /\ UNCHANGED <<existing, rest, candidate>>

EndOfList ==
  /\ pc = "loop"
  /\ rest = {}
  /\ pc' = "return"
  /\ answer' = candidate
  /\ UNCHANGED <<existing, rest, candidate>>

Next == GiveUp \/ FoundGap \/ Advance \/ EndOfList

Spec == Init /\ [][Next]_vars

-----------------------------------------------------------------------------
(* The loop of find_free_nv_index answers what NvIndex says: the lowest    *)
(* unused index from FirstIndex up, or failure.                            *)
SearchCorrect ==
  pc = "return" =>
    IF SearchFails(existing)
      THEN answer = NoIndex
      ELSE IsFirstFree(existing, answer)
=============================================================================
