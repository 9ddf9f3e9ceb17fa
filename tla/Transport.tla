----------------------------- MODULE Transport -----------------------------
(***************************************************************************)
(* TPM_Transmit (tpmutil.c) and transport sessions (transport.c).  With    *)
(* TPM_TRANSPORT set, every command a program sends is wrapped: mode 1     *)
(* establishes a transport session for this one command and releases it;   *)
(* mode 2 uses a session another program has established, whose rolling    *)
(* nonce lies in the file .enonce from one command to the next.  The       *)
(* functions that wrap a command are on a stack.  The library keeps its    *)
(* own copy of the TPM's audit digest; the commands here are ones that are *)
(* audited.                                                                *)
(***************************************************************************)
EXTENDS Naturals, Sequences

CONSTANT MaxCommands            \* bound on the commands a behaviour sends

ASSUME MaxCommandsAssumption == MaxCommands \in Nat

VARIABLES
    mode,       \* TPM_TRANSPORT: 0 not set, 1, 2
    sign,       \* TPM_TRANSPORT_SK and _SKP are set
    faults,     \* whether disk and memory may be full
    pc,
    stack,      \* g_transportFunction and g_transSession: live sessions, and
                \* those that were in a stack frame that is gone
    inTp,       \* in_tp
    enonce,     \* of the session in memory
    file,       \* .enonce
    tpmNonce,   \* of the TPM's transport session, or NoSession
    rc,         \* result of TPM_Transmit
    outcome,    \* what the TPM did with the command
    logged,     \* halves of the command in the library's audit digest
    sent        \* commands and nonces so far

env == <<mode, sign, faults>>
vars == <<env, pc, stack, inTp, enonce, file, tpmNonce, rc, outcome, logged, sent>>

NoSession == 0                      \* nonces are 1, the other program's, 2, ...
Fresh == sent + 1                   \* a nonce the TPM has not used

Labels == {"idle", "create", "establish", "send", "destroy", "done"}

TypeOK ==
    /\ mode \in {0, 1, 2}
    /\ sign \in BOOLEAN /\ faults \in BOOLEAN
    /\ pc \in Labels
    /\ stack \in Seq({"live", "dead"}) /\ Len(stack) <= sent
    /\ inTp \in BOOLEAN
    /\ {enonce, file, tpmNonce} \subseteq 0..Fresh
    /\ rc \in {"ok", "tpm", "io"}
    /\ outcome \in {"none", "ok", "refused"}
    /\ logged \in 0..2
    /\ sent \in 1..(2 * MaxCommands + 2)

\* In mode 2 another program has established the session and written .enonce.
Init ==
    /\ mode \in {0, 1, 2}
    /\ sign \in BOOLEAN
    /\ faults \in BOOLEAN
    /\ pc = "idle"
    /\ stack = <<>>
    /\ inTp = FALSE
    /\ enonce = 0
    /\ sent = 1
    /\ file = IF mode = 2 THEN 1 ELSE 0
    /\ tpmNonce = file
    /\ rc = "ok"
    /\ outcome = "none"
    /\ logged = 0

-----------------------------------------------------------------------------
(* TPM_Transmit, and createTransport.                                      *)

\* allowsTransport says whether the command may be wrapped.
Begin ==
    /\ pc = "idle"
    /\ sent <= 2 * MaxCommands
    /\ \E allowed \in BOOLEAN : pc' = IF allowed /\ mode # 0 THEN "create" ELSE "send"
    /\ inTp' = FALSE
    /\ rc' = "ok" /\ outcome' = "none" /\ logged' = 0
    /\ UNCHANGED <<env, stack, enonce, file, tpmNonce, sent>>

\* Push, and the session the function is to use.
Push == stack' = Append(stack, "live") /\ inTp' = TRUE

\* Mode 1: the key to encrypt the session's secret to.  Without it the
\* command is sent in the clear.
GetPubKey ==
    /\ pc = "create" /\ mode = 1
    /\ pc' \in {"establish", "send"}
    /\ UNCHANGED <<env, stack, inTp, enonce, file, tpmNonce, rc, outcome, logged, sent>>

\* in_tp is set in either case.
EstablishTransport ==
    /\ pc = "establish"
    /\ pc' = "send"
    /\ \/ /\ Push
          /\ tpmNonce' = Fresh /\ enonce' = Fresh /\ sent' = sent + 1
       \/ inTp' = TRUE /\ UNCHANGED <<stack, tpmNonce, enonce, sent>>
    /\ UNCHANGED <<env, file, rc, outcome, logged>>

\* Mode 2.  When .enonce cannot be read the command is sent in the clear, too.
UseEstablished ==
    /\ pc = "create" /\ mode = 2
    /\ pc' = "send"
    /\ \/ Push /\ enonce' = file
       \/ UNCHANGED <<stack, inTp, enonce>>
    /\ UNCHANGED <<env, file, tpmNonce, rc, outcome, logged, sent>>

-----------------------------------------------------------------------------
(* The command itself.                                                     *)

Wrapped == stack # <<>>

\* destroyTransport is called for what createTransport was.
AfterCommand == pc' = IF inTp THEN "destroy" ELSE "done"

\* In the clear.  Audited when the answer says success, all of it, even if it
\* has another tag or length than it should.
SendPlain ==
    /\ pc = "send" /\ ~ Wrapped
    /\ \/ outcome' = "ok" /\ rc' = "ok" /\ logged' = 2
       \/ outcome' = "ok" /\ rc' = "io" /\ logged' \in {logged, 2}
       \/ outcome' = "refused" /\ rc' = "tpm" /\ UNCHANGED logged
       \/ UNCHANGED outcome /\ rc' = "io" /\ UNCHANGED logged
    /\ sent' = sent + 1
    /\ AfterCommand
    /\ UNCHANGED <<env, stack, inTp, enonce, file, tpmNonce>>

\* A session in a stack frame that is gone has any nonce.
NonceMatches ==
    /\ tpmNonce # NoSession
    /\ stack[Len(stack)] = "live" => enonce = tpmNonce

\* Mutant: that of ExecuteTransport itself, which was executed.
InnerResultOuter(o) == "ok"

\* The result is that of the wrapped command.
InnerResult(o) == IF o = "ok" THEN "ok" ELSE "tpm"

\* Mutant: the nonce of the answer is not kept.
TakeNonceNot == UNCHANGED enonce

TakeNonce == enonce' = Fresh

\* Mutants: the answer is not audited; it is once more, by TPM_Transmit.
AuditAnswerNot == 0
AuditAnswerTwice == 2

\* _TPM_AuditOutputstream: one half more in the digest.
AuditAnswer == 1

\* _TPM_ExecuteTransport: the request is audited before it is sent, the answer
\* whatever it says.
ExecuteWrapped ==
    /\ pc = "send" /\ Wrapped /\ NonceMatches
    /\ tpmNonce' = Fresh /\ sent' = sent + 1
    /\ outcome' \in {"ok", "refused"}
    /\ \/ rc' = InnerResult(outcome') /\ TakeNonce /\ logged' = 1 + AuditAnswer
       \/ rc' = "io" /\ UNCHANGED enonce /\ logged' = 1       \* the answer is lost
       \/ rc' = "io" /\ TakeNonce /\ logged' = 1 + AuditAnswer \* its HMAC is wrong
    /\ AfterCommand
    /\ UNCHANGED <<env, stack, inTp, file>>

\* encWrappedCommand, a nonce or the HMAC fails: nothing is sent.
NotWrapped ==
    /\ pc = "send" /\ Wrapped
    /\ rc' = "io"
    /\ sent' = sent + 1
    /\ AfterCommand
    /\ UNCHANGED <<env, stack, inTp, enonce, file, tpmNonce, outcome, logged>>

\* The TPM refuses ExecuteTransport, and ends a session that was used with the
\* wrong nonce; or the request never arrives.
NotExecuted ==
    /\ pc = "send" /\ Wrapped
    /\ \/ rc' = "tpm" /\ (tpmNonce' = NoSession \/ UNCHANGED tpmNonce)
       \/ rc' = "io" /\ UNCHANGED tpmNonce
    /\ logged' = 1
    /\ sent' = sent + 1
    /\ AfterCommand
    /\ UNCHANGED <<env, stack, inTp, enonce, file, outcome>>

\* decWrappedCommand fails: there is no memory, or the wrapped answer has a tag it
\* does not know.  The digest that the HMAC check is to include is not there
\* then, and the check fails; what there is of the answer is audited before.
NotDecrypted ==
    /\ faults
    /\ pc = "send" /\ Wrapped /\ NonceMatches
    /\ tpmNonce' = Fresh /\ sent' = sent + 1
    /\ outcome' = "ok" /\ rc' = "io" /\ TakeNonce
    /\ logged' \in {1, 1 + AuditAnswer}
    /\ AfterCommand
    /\ UNCHANGED <<env, stack, inTp, file>>

-----------------------------------------------------------------------------
(* destroyTransport.                                                       *)

Pop == stack' = IF stack = <<>> THEN <<>> ELSE SubSeq(stack, 1, Len(stack) - 1)

\* Its result is not looked at.  A session that was not established is
\* released too; the TPM does not know it.
ReleaseTransportSigned ==
    /\ pc = "destroy" /\ mode = 1 /\ sign
    /\ Pop
    /\ tpmNonce' \in {NoSession, tpmNonce}
    /\ pc' = "done"
    /\ UNCHANGED <<env, inTp, enonce, file, rc, outcome, logged, sent>>

\* Without a key to sign with, nothing is released and nothing popped.
NotReleased ==
    /\ pc = "destroy" /\ mode = 1 /\ ~ sign
    /\ pc' = "done"
    /\ UNCHANGED <<env, stack, inTp, enonce, file, tpmNonce, rc, outcome, logged, sent>>

\* Mutant: the session stays on the stack.
WriteEnonceOnly ==
    /\ pc = "destroy" /\ mode = 2
    /\ file' = enonce
    /\ pc' = "done"
    /\ UNCHANGED <<env, stack, inTp, enonce, tpmNonce, rc, outcome, logged, sent>>

\* Nor is the result of this.
WriteEnonce ==
    /\ pc = "destroy" /\ mode = 2
    /\ \/ file' = enonce
       \/ faults /\ UNCHANGED file
    /\ Pop
    /\ pc' = "done"
    /\ UNCHANGED <<env, inTp, enonce, tpmNonce, rc, outcome, logged, sent>>

\* The session was a local variable of TPM_Transmit.
Return ==
    /\ pc = "done"
    /\ pc' = "idle"
    /\ stack' = [i \in 1..Len(stack) |-> "dead"]
    /\ UNCHANGED <<env, inTp, enonce, file, tpmNonce, rc, outcome, logged, sent>>

\* The program ends, or is killed, and another one starts.
KillProcess ==
    /\ pc # "idle" \/ stack # <<>>
    /\ pc' = "idle"
    /\ stack' = <<>>
    /\ UNCHANGED <<env, inTp, enonce, file, tpmNonce, rc, outcome, logged, sent>>

TPM_Transmit ==
    \/ Begin \/ SendPlain \/ Return
    \/ ExecuteWrapped \/ NotWrapped \/ NotExecuted \/ NotDecrypted

createTransport == GetPubKey \/ EstablishTransport \/ UseEstablished

destroyTransport == ReleaseTransportSigned \/ NotReleased \/ WriteEnonce

Next == TPM_Transmit \/ createTransport \/ destroyTransport \/ KillProcess

Spec == Init /\ [][Next]_vars

-----------------------------------------------------------------------------
(* Properties.                                                             *)

\* TPM_Transmit returns success only for a command the TPM has executed with
\* success, wrapped or not.
SuccessIsTheTPMs == pc = "done" /\ rc = "ok" => outcome = "ok"

\* Between two commands no transport function is left on the stack, however
\* the last one ended, where the program has been given a key to release with.
StackRestored == pc = "idle" /\ (mode = 1 => sign) => stack = <<>>

\* In mode 2, a wrapped command that was answered leaves in .enonce the nonce
\* the TPM will expect of the next one, on a disk that is not full.
EnonceInStep ==
    ~ faults /\ pc = "done" /\ mode = 2 /\ inTp /\ outcome # "none" /\ rc # "io" =>
        file = tpmNonce

\* What TPM_Transmit returns success for is in the library's audit digest with
\* its request and its answer, once each, whatever failed on the way.
AuditComplete == pc = "done" /\ rc = "ok" => logged = 2
=============================================================================
