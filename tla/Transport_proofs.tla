-------------------------- MODULE Transport_proofs --------------------------
(***************************************************************************)
(* What Transport states of results, stack, rolling nonce and audit digest *)
(* holds for any number of commands.  StackBounded is what makes it        *)
(* inductive: where every session is popped again, a command starts with   *)
(* an empty stack, so that mode 2 wraps exactly when createTransport said  *)
(* so; the nonce and the digest are then those of the command at hand.     *)
(***************************************************************************)
EXTENDS Transport, SequenceTheorems, TLAPS

Fetching == {"create", "establish", "send"}     \* before the command is sent
Sent     == {"destroy", "done"}                 \* after it

StackBounded ==
    (mode = 1 => sign) =>
        /\ pc \in {"idle", "create", "establish", "done"} => stack = <<>>
        /\ pc = "send" => Len(stack) <= 1 /\ (stack # <<>> => inTp)
        /\ pc = "destroy" => Len(stack) <= 1

SentBounded ==
    /\ pc \in {"create", "establish"} => sent <= 2 * MaxCommands
    /\ pc = "send" => sent <= 2 * MaxCommands + 1

NothingYet == pc \in Fetching => outcome = "none" /\ logged = 0

\* In mode 2, in_tp says that a session was pushed.
ModeOfStep ==
    /\ pc = "establish" => mode = 1
    /\ pc = "create" => mode # 0 /\ ~ inTp
    /\ mode = 2 /\ pc = "send" /\ inTp => stack # <<>>

ResultInv == pc \in Sent /\ rc = "ok" => outcome = "ok"

AuditInv == pc \in Sent /\ rc = "ok" => logged = 2

NonceInv ==
    mode = 2 /\ inTp /\ outcome # "none" /\ rc # "io" =>
        /\ pc = "destroy" => enonce = tpmNonce
        /\ ~ faults /\ pc = "done" => file = tpmNonce

IInv ==
    /\ TypeOK /\ StackBounded /\ SentBounded /\ NothingYet
    /\ ModeOfStep /\ ResultInv /\ AuditInv /\ NonceInv

-----------------------------------------------------------------------------
(* Sequences.                                                              *)

\* All sessions of a stack frame that is gone are still a stack.
LEMMA DeadStack ==
    ASSUME NEW s \in Seq({"live", "dead"})
    PROVE  /\ [i \in 1..Len(s) |-> "dead"] \in Seq({"live", "dead"})
           /\ Len([i \in 1..Len(s) |-> "dead"]) = Len(s)
           /\ s = <<>> => [i \in 1..Len(s) |-> "dead"] = <<>>
<1> DEFINE d == [i \in 1..Len(s) |-> "dead"]
<1>1. Len(s) \in Nat
  BY LenProperties
<1>2. d \in Seq({"live", "dead"})
  BY <1>1, IsASeq
<1>3. Len(d) = Len(s)
  BY <1>1, <1>2, LenProperties
<1>4. s = <<>> => d = <<>>
  BY <1>2, <1>3, EmptySeq
<1> QED
  BY <1>2, <1>3, <1>4

\* Pop takes one session off, if there is one.
LEMMA PopShortens ==
    ASSUME NEW s \in Seq({"live", "dead"}), s # <<>>
    PROVE  /\ SubSeq(s, 1, Len(s) - 1) \in Seq({"live", "dead"})
           /\ Len(SubSeq(s, 1, Len(s) - 1)) = Len(s) - 1
           /\ Len(s) <= 1 => SubSeq(s, 1, Len(s) - 1) = <<>>
<1> DEFINE n == Len(s) - 1
<1>1. Len(s) \in Nat /\ n \in Nat /\ n < Len(s)
  BY EmptySeq, LenProperties
<1> HIDE DEF n
<1>2. SubSeq(s, 1, n) \in Seq({"live", "dead"}) /\ Len(SubSeq(s, 1, n)) = n
  BY <1>1, LenProperties, ElementOfSeq
<1>3. n = 0 => SubSeq(s, 1, n) = <<>>
  BY <1>2, EmptySeq
<1> QED
  BY <1>1, <1>2, <1>3 DEF n

\* Pop, of a stack that is one session high at most, leaves it empty.
LEMMA PopEmpties ==
    ASSUME stack \in Seq({"live", "dead"}), Pop
    PROVE  /\ stack' \in Seq({"live", "dead"})
           /\ Len(stack') <= Len(stack)
           /\ Len(stack) <= 1 => stack' = <<>>
<1>1. CASE stack = <<>>
  BY <1>1, EmptySeq DEF Pop
<1>2. CASE stack # <<>>
  BY <1>2, PopShortens, LenProperties DEF Pop
<1> QED
  BY <1>1, <1>2

-----------------------------------------------------------------------------
(* The invariant.                                                          *)

\* The invariant holds when a program starts.
LEMMA InitInv == Init => IInv
<1> SUFFICES ASSUME Init PROVE IInv
  OBVIOUS
<1>1. stack \in Seq({"live", "dead"}) /\ Len(stack) = 0
  BY EmptySeq DEF Init
<1>2. TypeOK
  <2>1. {enonce, file, tpmNonce} \subseteq 0..2
    BY DEF Init
  <2>2. inTp \in BOOLEAN
    BY Zenon DEF Init
  <2> QED
    BY <1>1, <2>1, <2>2, MaxCommandsAssumption DEF Init, TypeOK, Labels, Fresh
<1>3. StackBounded /\ SentBounded
  BY DEF Init, StackBounded, SentBounded
<1>4. NothingYet /\ ModeOfStep /\ ResultInv /\ AuditInv /\ NonceInv
  BY DEF Init, NothingYet, ModeOfStep, ResultInv, AuditInv, NonceInv, Fetching, Sent
<1> QED
  BY <1>2, <1>3, <1>4 DEF IInv

\* Each step keeps it.
LEMMA NextInv == IInv /\ [Next]_vars => IInv'
<1> SUFFICES ASSUME IInv, [Next]_vars PROVE IInv'
  OBVIOUS
<1> USE MaxCommandsAssumption
    DEF IInv, TypeOK, Labels, Fresh, StackBounded, SentBounded, NothingYet,
        ModeOfStep, ResultInv, AuditInv, NonceInv, Fetching, Sent, env
<1>0. Len(stack) \in Nat /\ (Len(stack) = 0 <=> stack = <<>>)
  BY EmptySeq, LenProperties
<1>1. CASE Begin
  <2>1. pc' \in {"create", "send"} /\ (pc' = "create" => mode # 0)
    BY <1>1 DEF Begin
  <2>2. ~ inTp' /\ inTp' \in BOOLEAN
    BY <1>1, Zenon DEF Begin
  <2> QED
    BY <1>0, <1>1, <2>1, <2>2 DEF Begin
<1>2. CASE GetPubKey
  BY <1>2 DEF GetPubKey
<1>3. CASE EstablishTransport
  <2>1. inTp' /\ inTp' \in BOOLEAN
    BY <1>3, Zenon DEF EstablishTransport, Push
  <2>2. CASE Push /\ tpmNonce' = Fresh /\ enonce' = Fresh /\ sent' = sent + 1
    <3>1. /\ stack' \in Seq({"live", "dead"})
          /\ Len(stack') = Len(stack) + 1
      BY <2>2, <1>0 DEF Push
    <3>2. stack' # <<>>
      BY <3>1, <1>0, EmptySeq
    <3>3. TypeOK'
      BY <1>0, <1>3, <2>1, <2>2, <3>1 DEF EstablishTransport
    <3>4. StackBounded'
      BY <1>0, <1>3, <2>1, <3>1, <3>2 DEF EstablishTransport
    <3> QED
      BY <1>3, <2>1, <2>2, <3>2, <3>3, <3>4 DEF EstablishTransport
  <2>3. CASE inTp' = TRUE /\ UNCHANGED <<stack, tpmNonce, enonce, sent>>
    BY <1>0, <1>3, <2>1, <2>3 DEF EstablishTransport
  <2> QED
    BY <2>2, <2>3, <1>3 DEF EstablishTransport
<1>4. CASE UseEstablished
  <2>1. stack = <<>>
    BY <1>4 DEF UseEstablished
  <2>2. CASE Push /\ enonce' = file
    <3>1. inTp' /\ inTp' \in BOOLEAN
      BY <2>2, Zenon DEF Push
    <3> QED
      BY <1>0, <1>4, <2>1, <2>2, <3>1 DEF UseEstablished, Push
  <2>3. CASE UNCHANGED <<stack, inTp, enonce>>
    BY <1>0, <1>4, <2>1, <2>3 DEF UseEstablished
  <2> QED
    BY <2>2, <2>3, <1>4 DEF UseEstablished
<1>5. CASE SendPlain
  BY <1>0, <1>5 DEF SendPlain, Wrapped, AfterCommand
<1>6. CASE ExecuteWrapped
  BY <1>0, <1>6 DEF ExecuteWrapped, Wrapped, AfterCommand, InnerResult, TakeNonce, AuditAnswer
<1>7. CASE NotWrapped
  BY <1>0, <1>7 DEF NotWrapped, Wrapped, AfterCommand
<1>8. CASE NotExecuted
  BY <1>0, <1>8 DEF NotExecuted, Wrapped, AfterCommand, NoSession
<1>9. CASE NotDecrypted
  BY <1>0, <1>9 DEF NotDecrypted, Wrapped, AfterCommand, TakeNonce, AuditAnswer
<1>10. CASE ReleaseTransportSigned
  BY <1>0, <1>10, PopEmpties, LenProperties DEF ReleaseTransportSigned, NoSession
<1>11. CASE NotReleased
  BY <1>11 DEF NotReleased
<1>12. CASE WriteEnonce
  BY <1>0, <1>12, PopEmpties, LenProperties DEF WriteEnonce
<1>13. CASE Return
  BY <1>0, <1>13, DeadStack DEF Return
<1>14. CASE KillProcess
  BY <1>0, <1>14, EmptySeq DEF KillProcess
<1>15. CASE UNCHANGED vars
  BY <1>15 DEF vars
<1> QED
  BY <1>1, <1>2, <1>3, <1>4, <1>5, <1>6, <1>7, <1>8, <1>9, <1>10, <1>11, <1>12,
     <1>13, <1>14, <1>15
     DEF Next, TPM_Transmit, createTransport, destroyTransport

\* The invariant, which the theorems below are read from.
THEOREM InvariantHolds == Spec => []IInv
BY InitInv, NextInv, PTL DEF Spec

-----------------------------------------------------------------------------
(* The properties.                                                         *)

\* Every variable keeps its type; the stack of transport functions never grows
\* beyond the commands sent.
THEOREM TypeCorrect == Spec => []TypeOK
<1>1. IInv => TypeOK
  BY DEF IInv
<1> QED
  BY <1>1, InvariantHolds, PTL

\* What TPM_Transmit returns success for, the TPM has executed with success.
THEOREM ResultsAreTheTPMs == Spec => []SuccessIsTheTPMs
<1>1. IInv => SuccessIsTheTPMs
  BY DEF IInv, ResultInv, Sent, SuccessIsTheTPMs
<1> QED
  BY <1>1, InvariantHolds, PTL

\* createTransport and destroyTransport are a bracket on the stack of transport
\* functions, whichever of their steps fail.
THEOREM StackIsRestored == Spec => []StackRestored
<1>1. IInv => StackRestored
  BY DEF IInv, StackBounded, StackRestored
<1> QED
  BY <1>1, InvariantHolds, PTL

\* The nonce left for the next program is the one the TPM expects of it.
THEOREM NonceHandedOn == Spec => []EnonceInStep
<1>1. IInv => EnonceInStep
  BY DEF IInv, NonceInv, EnonceInStep
<1> QED
  BY <1>1, InvariantHolds, PTL

\* A successful command is in the audit digest, both halves of it.
THEOREM AuditIsComplete == Spec => []AuditComplete
<1>1. IInv => AuditComplete
  BY DEF IInv, AuditInv, Sent, AuditComplete
<1> QED
  BY <1>1, InvariantHolds, PTL
=============================================================================
