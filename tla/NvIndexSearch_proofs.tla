------------------------ MODULE NvIndexSearch_proofs ------------------------
(***************************************************************************)
(* The loop of find_free_nv_index is right for every set of indexes, every *)
(* limit and every number of indexes: the theorems TLC checks on one       *)
(* instance in NvIndexSearch.cfg.                                          *)
(***************************************************************************)
EXTENDS NvIndexSearch, TLAPS

(* The loop invariant: everything below the candidate is in use, and the   *)
(* list still to come has the indexes in use from the candidate up.        *)
LoopInv ==
  /\ \A i \in FirstIndex..(candidate - 1) : i \in existing
  /\ \A i \in existing : i >= candidate => i \in rest
  /\ candidate > FirstIndex => \A i \in rest : i >= candidate
  /\ pc = "return" =>
       IF SearchFails(existing)
         THEN answer = NoIndex
         ELSE IsFirstFree(existing, answer)

IInv == TypeOK /\ LoopInv

(* Before the first turn of the loop nothing has been passed over.         *)
LEMMA InitInv == Init => IInv
  BY LimitAssumption
     DEF Init, IInv, TypeOK, LoopInv, FirstIndex, NoIndex, Index

(* return 1 comes only when everything up to the limit is in use.          *)
LEMMA GiveUpInv == IInv /\ GiveUp => IInv'
  <1> SUFFICES ASSUME IInv, GiveUp PROVE IInv'
    OBVIOUS
  <1> USE LimitAssumption
  <1>1. TypeOK'
    BY DEF IInv, TypeOK, GiveUp, Index, FirstIndex, NoIndex
  <1>2. PICK i \in rest : i >= candidate
    BY DEF IInv, TypeOK, LoopInv, GiveUp, IsNext, FirstIndex, Index
  <1>3. SearchFails(existing)
    BY <1>2 DEF IInv, TypeOK, LoopInv, GiveUp, SearchFails, FirstIndex, Index
  <1> QED
    BY <1>1, <1>3 DEF IInv, TypeOK, LoopInv, GiveUp, SearchFails, FirstIndex, Index

(* The listed index lies above the candidate, so the candidate is free.    *)
LEMMA FoundGapInv == IInv /\ FoundGap => IInv'
  <1> SUFFICES ASSUME IInv, FoundGap PROVE IInv'
    OBVIOUS
  <1> USE LimitAssumption
  <1>1. TypeOK'
    BY DEF IInv, TypeOK, FoundGap, Index, FirstIndex
  <1>2. candidate \notin existing
    BY DEF IInv, TypeOK, LoopInv, FoundGap, IsNext, Index, FirstIndex
  <1>3. IsFirstFree(existing, candidate) /\ ~SearchFails(existing)
    BY <1>2 DEF IInv, TypeOK, LoopInv, FoundGap, IsFirstFree, SearchFails, Index, FirstIndex
  <1> QED
    BY <1>1, <1>3 DEF IInv, LoopInv, FoundGap, SearchFails, IsFirstFree

(* The candidate passes the index that is listed next, and no other.       *)
LEMMA AdvanceInv == IInv /\ Advance => IInv'
  <1> SUFFICES ASSUME IInv, Advance PROVE IInv'
    OBVIOUS
  <1> USE LimitAssumption
  <1>1. PICK i \in rest :
          /\ \A j \in rest : i <= j
          /\ i <= candidate
          /\ rest' = rest \ {i}
          /\ candidate' = IF i = candidate THEN candidate + 1 ELSE candidate
    BY DEF Advance, IsNext
  <1>2. TypeOK'
    BY <1>1 DEF IInv, TypeOK, Advance, Index, FirstIndex
  <1>3. \A j \in FirstIndex..(candidate' - 1) : j \in existing'
    BY <1>1 DEF IInv, TypeOK, LoopInv, Advance, Index, FirstIndex
  <1>4. \A j \in existing' : j >= candidate' => j \in rest'
    BY <1>1 DEF IInv, TypeOK, LoopInv, Advance, Index, FirstIndex
  <1>5. candidate' > FirstIndex => \A j \in rest' : j >= candidate'
    BY <1>1 DEF IInv, TypeOK, LoopInv, Advance, Index, FirstIndex
  <1> QED
    BY <1>2, <1>3, <1>4, <1>5 DEF IInv, LoopInv, Advance

(* Nothing is listed from the candidate up.                                *)
LEMMA EndOfListInv == IInv /\ EndOfList => IInv'
  <1> SUFFICES ASSUME IInv, EndOfList PROVE IInv'
    OBVIOUS
  <1> USE LimitAssumption
  <1>1. TypeOK'
    BY DEF IInv, TypeOK, EndOfList, Index, FirstIndex
  <1>2. IsFirstFree(existing, candidate) /\ ~SearchFails(existing)
    BY DEF IInv, TypeOK, LoopInv, EndOfList, IsFirstFree, SearchFails, Index, FirstIndex
  <1> QED
    BY <1>1, <1>2 DEF IInv, LoopInv, EndOfList, SearchFails, IsFirstFree

(* The loop invariant holds at every turn of find_free_nv_index.           *)
THEOREM LoopInvariant == Spec => []IInv
  <1>1. IInv /\ [Next]_vars => IInv'
    <2> SUFFICES ASSUME IInv, [Next]_vars PROVE IInv'
      OBVIOUS
    <2>1. CASE UNCHANGED vars
      BY <2>1 DEF IInv, TypeOK, LoopInv, vars
    <2> QED
      BY <2>1, GiveUpInv, FoundGapInv, AdvanceInv, EndOfListInv DEF Next
  <1> QED
    BY InitInv, <1>1, PTL DEF Spec

(* The candidate never moves further than one past NV_INDEX_LIMIT.         *)
THEOREM TypeCorrect == Spec => []TypeOK
  BY LoopInvariant, PTL DEF IInv

(* Whatever the TPM lists, the search of find_free_nv_index answers the    *)
(* lowest unused index from 2 up, or fails as NvIndex says.                *)
THEOREM SearchIsCorrect == Spec => []SearchCorrect
  <1>1. IInv => SearchCorrect
    BY DEF IInv, LoopInv, SearchCorrect
  <1> QED
    BY LoopInvariant, <1>1, PTL

=============================================================================
