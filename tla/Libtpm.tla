------------------------------- MODULE Libtpm -------------------------------
(***************************************************************************)
(* Programs that call the command functions of libtpm (the utilities under *)
(* swtpm-utils), the TPM they share, and the authorisation sessions the    *)
(* functions open in it.  The TPM has few session handles; a session lives *)
(* until a command that uses it ends it (the functions never ask for it to *)
(* be continued), until somebody flushes its handle, or until the next     *)
(* boot.  A function that forgets a session takes a handle from every      *)
(* other program.                                                          *)
(*                                                                         *)
(* What the functions do is in Commands (LibtpmCommands.tla); this module  *)
(* says what each of their steps does, with the session handling of        *)
(* oiaposap.c, the TPM's side of it, requests and answers that are lost,   *)
(* killed processes and reboots.                                           *)
(***************************************************************************)
EXTENDS Naturals, TssSteps

CONSTANTS
    Callers,        \* processes that use the library, one call at a time
    Commands,       \* what they call: a set of [name, steps]
    Handles,        \* the TPM's session handles
    NoHandle,       \* what a session holds that was not opened
    CharDevice,     \* the TPM is behind /dev/tpm0, not behind a socket
    Free, Stale     \* of a handle: not in use; in use, its owner is gone

ASSUME CommandsAssumption ==
    \A c \in Commands : c.name \in STRING /\ c.steps \in Seq(Step)

ASSUME OwnersAssumption == Free \notin Callers /\ Stale \notin Callers /\ Free # Stale

ASSUME HandlesAssumption == NoHandle \notin Handles

ASSUME TransportAssumption == CharDevice \in BOOLEAN

VARIABLES
    cmd,        \* the function a process is in
    at,         \* the step it is at
    closing,    \* sessions it is closing before it goes on
    want,       \* TPM_SESSION in its environment
    ret,        \* the function's ret
    sess,       \* its local variables sess and sess2
    answer,     \* what became of the last command it sent
    table       \* the TPM's sessions: who opened the one with this handle

vars == <<cmd, at, closing, want, ret, sess, answer, table>>

NoCommand == [name |-> "none", steps |-> <<>>]
NoSession == [handle |-> NoHandle, kind |-> "none"]
NoSessions == [i \in Ids |-> NoSession]

Sessions == {NoSession} \cup [handle : Handles, kind : Kinds]

\* "local": refused before anything was sent, or an answer that cannot be
\* parsed; "tpm": the TPM's error; "io": no answer; "hmac": a wrong one.
Results == {"ok", "local", "tpm", "io", "hmac"}

\* "plain": executed without authorisation; "unchecked", "checked": executed,
\* the answer's HMAC not looked at yet, or found right; "untagged": executed,
\* the answer tagged as one to a command without authorisation; "unsent": the
\* function has returned before it sent the command it is for.
Answers == {"none", "refused", "lost", "plain", "unchecked", "checked",
            "untagged", "unsent"}

\* TPM_Transmit compares the tag of the answer with the request's, but not
\* that of a character device: "the HW TPM seems to return a wrong initial
\* byte".
Untagged == IF CharDevice THEN {"untagged"} ELSE {}

TypeOK ==
    /\ cmd \in [Callers -> Commands \cup {NoCommand}]
    /\ at \in [Callers -> Nat \ {0}]
    /\ closing \in [Callers -> Seq(Ids)]
    /\ want \in [Callers -> Kinds]
    /\ ret \in [Callers -> Results]
    /\ sess \in [Callers -> [Ids -> Sessions]]
    /\ answer \in [Callers -> Answers]
    /\ table \in [Handles -> Callers \cup {Free, Stale}]

Init ==
    /\ cmd = [p \in Callers |-> NoCommand]
    /\ at = [p \in Callers |-> 1]
    /\ closing = [p \in Callers |-> <<>>]
    /\ want \in [Callers -> Kinds]
    /\ ret = [p \in Callers |-> "ok"]
    /\ sess = [p \in Callers |-> NoSessions]
    /\ answer = [p \in Callers |-> "none"]
    /\ table = [h \in Handles |-> Free]

-----------------------------------------------------------------------------
Steps(p) == cmd[p].steps
InCall(p) == cmd[p] # NoCommand
Done(p) == InCall(p) /\ closing[p] = <<>> /\ at[p] = Len(Steps(p)) + 1

\* p is at a step that does op.
AtStep(p, op) ==
    /\ InCall(p) /\ closing[p] = <<>>
    /\ at[p] \in 1..Len(Steps(p))
    /\ Steps(p)[at[p]].op = op

This(p) == Steps(p)[at[p]]

\* The handles of the sessions with these ids.
HandlesOf(p, ids) == {sess[p][ids[k]].handle : k \in 1..Len(ids)} \cap Handles

GoOn(p) == at' = [at EXCEPT ![p] = @ + 1] /\ UNCHANGED closing

\* Close held and return r.
Fail(p, r) ==
    /\ at' = [at EXCEPT ![p] = Len(Steps(p)) + 1]
    /\ closing' = [closing EXCEPT ![p] = This(p).held]
    /\ ret' = [ret EXCEPT ![p] = r]

-----------------------------------------------------------------------------
(* Calling, returning, and the steps that send nothing that matters here.  *)

Call(p) ==
    /\ cmd[p] = NoCommand
    /\ \E c \in Commands : cmd' = [cmd EXCEPT ![p] = c]
    /\ at' = [at EXCEPT ![p] = 1]
    /\ ret' = [ret EXCEPT ![p] = "ok"]
    /\ sess' = [sess EXCEPT ![p] = NoSessions]
    /\ answer' = [answer EXCEPT ![p] = "none"]
    /\ UNCHANGED <<closing, want, table>>

\* The locals are gone: nobody knows the sessions p has left.
Forgets(p) == table' = [h \in Handles |-> IF table[h] = p THEN Stale ELSE table[h]]

Return(p) ==
    /\ Done(p)
    /\ cmd' = [cmd EXCEPT ![p] = NoCommand]
    /\ Forgets(p)
    /\ UNCHANGED <<at, closing, want, ret, sess, answer>>

ComputeStep(p) ==
    /\ AtStep(p, "compute")
    /\ \/ GoOn(p) /\ ret' = [ret EXCEPT ![p] = "ok"]
       \/ Fail(p, "local")
    /\ UNCHANGED <<cmd, want, sess, answer, table>>

\* Without a nonce the function returns 0.
NonceStep(p) ==
    /\ AtStep(p, "nonce")
    /\ \/ GoOn(p) /\ UNCHANGED <<ret, answer>>
       \/ Fail(p, "ok") /\ answer' = [answer EXCEPT ![p] = "unsent"]
    /\ UNCHANGED <<cmd, want, sess, table>>

RoomStep(p) ==
    /\ AtStep(p, "room")
    /\ \/ GoOn(p) /\ ret' = [ret EXCEPT ![p] = "ok"]
       \/ \E r \in {"local", "tpm", "io"} : Fail(p, r)
    /\ UNCHANGED <<cmd, want, sess, answer, table>>

OnErrorStep(p) ==
    /\ AtStep(p, "onError")
    /\ IF ret[p] = "ok" THEN GoOn(p) /\ UNCHANGED ret ELSE Fail(p, ret[p])
    /\ UNCHANGED <<cmd, want, sess, answer, table>>

\* A refusal may be for the ordinal or for another reason.
OnlyIfBadOrdinalStep(p) ==
    /\ AtStep(p, "onlyIfBadOrdinal")
    /\ \/ ret[p] = "tpm" /\ GoOn(p) /\ UNCHANGED ret
       \/ Fail(p, ret[p])
    /\ UNCHANGED <<cmd, want, sess, answer, table>>

\* TSS_checkhmac1 and TSS_checkhmac2: a refusal has no HMAC, and the functions
\* get here with an answer only.  An answer without the tag of an authorised
\* one has no HMAC to look at, and passes: "return 0".
CheckStep(p) ==
    /\ AtStep(p, "check")
    /\ \/ /\ answer[p] # "untagged"
          /\ ret' = [ret EXCEPT ![p] = "ok"]
          /\ answer' = [answer EXCEPT ![p] = IF @ = "unchecked" THEN "checked" ELSE @]
       \/ /\ answer[p] # "untagged"
          /\ ret' = [ret EXCEPT ![p] = "hmac"]
          /\ UNCHANGED answer
       \/ /\ answer[p] = "untagged"
          /\ ret' = [ret EXCEPT ![p] = "ok"]
          /\ UNCHANGED answer
    /\ GoOn(p)
    /\ UNCHANGED <<cmd, want, sess, table>>
-----------------------------------------------------------------------------
(* TSS_SessionOpen.                                                        *)

\* have = want & allowed_type, or what is allowed apart from DSAP.
Have(p) ==
    LET allowed == This(p).kinds
    IN  IF want[p] \in allowed THEN {want[p]} ELSE allowed \ {"dsap"}

\* Mutant: nothing is left to try when it is not OSAP.
OtherKindMissing(p) == IF "osap" \in Have(p) THEN "osap" ELSE "none"

\* What is opened once DSAP is out of the question: have, not allowed_type, is
\* looked at, so where DSAP was to be had it is an OIAP session.
OtherKind(p) == IF "osap" \in Have(p) THEN "osap" ELSE "oiap"

\* A delegation blob for the key or the owner is found in the files of the
\* user, or it is not.
OpenKinds(p) ==
    IF "dsap" \in Have(p) THEN {"dsap", OtherKind(p)} ELSE {OtherKind(p)}

\* DSAP is for keys and owners; with another entity TPM_BAD_MODE is returned.
OpenUnsupported(p) == "dsap" \in Have(p) /\ This(p).entity \notin {"key", "owner"}

OpenSession(p) ==
    /\ AtStep(p, "open")
    /\ ~ OpenUnsupported(p)
    /\ \E k \in OpenKinds(p), h \in Handles :
          /\ table[h] = Free
          /\ \/ /\ table' = [table EXCEPT ![h] = p]
                /\ sess' = [sess EXCEPT ![p][This(p).id] = [handle |-> h, kind |-> k]]
                /\ ret' = [ret EXCEPT ![p] = "ok"]
                /\ GoOn(p)
             \/ table' = [table EXCEPT ![h] = Stale]      \* the answer is lost
                /\ Fail(p, "io")
                /\ UNCHANGED sess
    /\ UNCHANGED <<cmd, want, answer>>

\* Refused - there may be no handle left -, not delivered, or not supported.
OpenFails(p) ==
    /\ AtStep(p, "open")
    /\ \E r \in (IF OpenUnsupported(p) THEN {"tpm"} ELSE {"tpm", "io", "local"}) : Fail(p, r)
    /\ UNCHANGED <<cmd, want, sess, answer, table>>

-----------------------------------------------------------------------------
(* TPM_Transmit, TSS_SessionClose                                          *)

Uses(p) == HandlesOf(p, This(p).held)

Sent(p, r, a) ==
    /\ ret' = [ret EXCEPT ![p] = r]
    /\ answer' = [answer EXCEPT ![p] = a]
    /\ GoOn(p)
    /\ UNCHANGED <<cmd, want, sess>>

\* The TPM ends the sessions of a command that does not ask to keep them.
EndSessions(p) ==
    table' = [h \in Handles |-> IF h \in Uses(p) THEN Free ELSE table[h]]

\* A session whose handle somebody else has freed is no session any more: the
\* TPM can only refuse.
Executed(p) ==
    /\ AtStep(p, "transmit")
    /\ \A h \in Uses(p) : table[h] = p
    /\ EndSessions(p)
    /\ \/ This(p).held = <<>> /\ Sent(p, "ok", "plain")
       \/ \E a \in {"unchecked"} \cup Untagged : This(p).held # <<>> /\ Sent(p, "ok", a)
       \/ Sent(p, "io", "lost")

Refused(p) ==
    /\ AtStep(p, "transmit")
    /\ EndSessions(p) \/ UNCHANGED table
    /\ Sent(p, "tpm", "refused")

NotDelivered(p) ==
    /\ AtStep(p, "transmit")
    /\ UNCHANGED table
    /\ Sent(p, "io", "lost")

CloseStep(p) ==
    /\ AtStep(p, "close")
    /\ closing' = [closing EXCEPT ![p] = This(p).held]
    /\ at' = [at EXCEPT ![p] = @ + 1]
    /\ UNCHANGED <<cmd, want, ret, sess, answer, table>>

\* TSS_HANDclose frees whatever has the handle now.  sess may not have been
\* written to: then it holds any handle, or no session type.  The request may
\* not be delivered; its result is not looked at.
CloseOne(p) ==
    /\ InCall(p) /\ closing[p] # <<>>
    /\ LET h == sess[p][Head(closing[p])].handle
           candidates == IF h \in Handles THEN {h} ELSE Handles
       IN  \/ \E g \in candidates : table' = [table EXCEPT ![g] = Free]
           \/ table' = [g \in Handles |->
                           IF g = h /\ table[g] = p THEN Stale ELSE table[g]]
    /\ closing' = [closing EXCEPT ![p] = Tail(@)]
    /\ UNCHANGED <<cmd, at, want, ret, sess, answer>>

-----------------------------------------------------------------------------
(* The world.                                                              *)

KillProcess(p) ==
    /\ InCall(p)
    /\ cmd' = [cmd EXCEPT ![p] = NoCommand]
    /\ closing' = [closing EXCEPT ![p] = <<>>]
    /\ Forgets(p)
    /\ UNCHANGED <<at, want, ret, sess, answer>>

Reboot ==
    /\ cmd' = [p \in Callers |-> NoCommand]
    /\ closing' = [p \in Callers |-> <<>>]
    /\ table' = [h \in Handles |-> Free]
    /\ UNCHANGED <<at, want, ret, sess, answer>>

LibraryStep(p) ==
    \/ Call(p) \/ Return(p)
    \/ ComputeStep(p) \/ NonceStep(p) \/ RoomStep(p) \/ OnErrorStep(p) \/ OnlyIfBadOrdinalStep(p)
    \/ OpenSession(p) \/ OpenFails(p)
    \/ Executed(p) \/ Refused(p) \/ NotDelivered(p)
    \/ CloseStep(p) \/ CloseOne(p) \/ CheckStep(p)

Next == Reboot \/ \E p \in Callers : LibraryStep(p) \/ KillProcess(p)

Spec == Init /\ [][Next]_vars

-----------------------------------------------------------------------------
(* Properties.                                                             *)

\* The functions that look at nothing but the result code of the answer.
Unchecked == {"TPM_OwnerClear", "TPM_OwnerClear12", "TPM_Delegate_Manage",
    "TPM_Delegate_UpdateVerification", "TPM_RawDataOIAP", "TPM_RawDataOSAP",
    "TPM_ReleaseTransportSigned"}

\* The functions that return with a session open when something local fails
\* after it was opened: a nonce, memory, a request that cannot be built.
Leaks == {"TPM_CreateCounter", "TPM_Delegate_CreateKeyDelegation",
    "TPM_Delegate_CreateOwnerDelegation", "TPM_Delegate_LoadOwnerDelegation",
    "TPM_DirWriteAuth", "TPM_NV_DefineSpace", "TPM_NV_DefineSpace2",
    "TPM_SetTempDeactivated", "TPM_CertifySelfTest",
    "TPM_GetAuditDigestSigned", "TPM_EstablishTransport",
    "TPM_TickStampBlob", "TPM_CMK_CreateBlob", "TPM_CMK_ConvertMigration",
    "TPM_Sealx"}

\* The functions that return the 0 of a nonce that could not be drawn.
NonceIgnored == {"TPM_TakeOwnership", "TPM_TakeOwnership12", "TPM_OwnerClear",
    "TPM_OwnerClear12", "TPM_GetCapabilityOwner", "TPM_SetRedirection"}

\* What a function called name may know of its command when it returns 0.
Answered(name) ==
    {"plain", "checked"} \cup Untagged
        \cup (IF name \in Unchecked THEN {"unchecked"} ELSE {})
        \cup (IF name \in NonceIgnored THEN {"unsent"} ELSE {})

\* A function that returns success has sent its command and has an answer of
\* the TPM; where it has authorised the command, it has verified that the TPM
\* has made the answer.  But for: the functions named in Unchecked, which
\* verify nothing; those named in NonceIgnored, which may have sent nothing;
\* and, from a character device, an answer tagged as if there had been no
\* authorisation, in which nothing can be verified.
SuccessIsAnswered ==
    \A p \in Callers : Done(p) /\ ret[p] = "ok" => answer[p] \in Answered(cmd[p].name)

\* However a function ends, it has closed - or tried to close - every session
\* it has opened; of the functions named in Leaks only a local failure is
\* excepted.
NoSessionLeft ==
    \A p \in Callers :
        Done(p) /\ (cmd[p].name \in Leaks => ret[p] # "local") =>
            \A h \in Handles : table[h] # p

\* The sessions a command is sent with are open in the TPM and the caller's.
\* Holds as long as nobody else uses the TPM.
SessionsAlive ==
    \A p \in Callers :
        AtStep(p, "transmit") =>
            \A k \in 1..Len(This(p).held) :
                \E h \in Handles : h = sess[p][This(p).held[k]].handle /\ table[h] = p

\* A session is of a kind the command allows.  (oiaposap.c: without a
\* delegation, "OSAP or OIAP will do the trick. Try those instead then!!!")
SessionKindAllowed ==
    [][\A p \in Callers : AtStep(p, "open") /\ sess'[p] # sess[p] =>
          sess'[p][This(p).id].kind \in This(p).kinds]_vars
=============================================================================
