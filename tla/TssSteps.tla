------------------------------ MODULE TssSteps ------------------------------
(***************************************************************************)
(* The vocabulary in which the command functions of libtpm are written     *)
(* down.  Each of them (TPM_Seal, TPM_NV_ReadValue, ...) is straight-line  *)
(* C: check the arguments, make room for the key, open one or two          *)
(* authorisation sessions, compute the HMAC and the request, transmit it,  *)
(* close the sessions, parse the answer, check its HMAC.  What differs,    *)
(* and what goes wrong, is which of these steps a function has, in which   *)
(* order, and what it closes when one of them fails.  A program is the     *)
(* sequence of these steps; a command is the set of its programs, one per  *)
(* way through the function.  Libtpm.tla says what each step does.         *)
(*                                                                         *)
(* held lists the sessions a failing step closes before the function       *)
(* returns.  Steps that only compute (nonces, hashes, HMACs, building a    *)
(* request, parsing an answer) and close the same sessions when they fail  *)
(* are one "compute" step.                                                 *)
(***************************************************************************)
EXTENDS Sequences

Kinds == {"oiap", "osap", "dsap"}

Ops == {"compute", "nonce", "room", "open", "transmit", "close", "check",
        "onError", "onlyIfBadOrdinal"}

\* TPM_ET_*: what a session is opened for.  The SRK and any other key are
\* "key": the functions pass one type for each and nothing here tells them
\* apart.  "none" is the 0 of a session without an entity.
Entities == {"key", "owner", "nv", "counter", "none"}

Ids == {1, 2}                    \* sess and sess2 of a function

Step == [op : Ops, id : {0} \cup Ids, held : Seq(Ids), kinds : SUBSET Kinds,
         entity : Entities]

StepOf(op, id, held, kinds, entity) ==
    <<[op |-> op, id |-> id, held |-> held, kinds |-> kinds, entity |-> entity]>>

-----------------------------------------------------------------------------
(* The steps.                                                              *)

\* Local work that may fail: the function then closes held and returns.
Compute(held) == StepOf("compute", 0, held, {}, "none")

\* ret = TSS_gennonce(...); if (ret == 0) return ret;   (no session is open)
\* The 0 is the failure of RAND_bytes, and the success of the function.  Where
\* a function returns another error, drawing the nonce is part of a Compute.
Nonce == StepOf("nonce", 0, <<>>, {}, "none")

\* ret = needKeysRoom(...); if (ret != 0) return ret;   (no session is open)
NeedKeysRoom == StepOf("room", 0, <<>>, {}, "none")

\* ret = TSS_SessionOpen(kinds, &sess, auth, entity, value); on an error close
\* held and return.
SessionOpen(id, kinds, entity, held) == StepOf("open", id, held, kinds, entity)

\* ret = TPM_Transmit(...) of a request that uses the sessions listed.
Transmit(uses) == StepOf("transmit", 0, uses, {}, "none")

\* TSS_SessionClose of each, its result ignored.
SessionClose(ids) == StepOf("close", 0, ids, {}, "none")

\* ret = TSS_checkhmac1(...) or TSS_checkhmac2(...)
CheckHmac == StepOf("check", 0, <<>>, {}, "none")

\* if (ret != 0) { close held; return ret; }
OnError(held) == StepOf("onError", 0, held, {}, "none")

\* if (ret != TPM_BAD_ORDINAL) return ret;
OnlyIfBadOrdinal == StepOf("onlyIfBadOrdinal", 0, <<>>, {}, "none")

-----------------------------------------------------------------------------
(* The passages most functions share.                                      *)

OIAP     == {"oiap"}
OSAP     == {"osap"}
OsapOiap == {"osap", "oiap"}
OsapDsap == {"osap", "dsap"}

Local == Compute(<<>>)           \* no session is open, or none is closed

\* Build a request without authorisation and transmit it.
Ask == Local \o Transmit(<<>>)

\* The same, where the function looks at the result before it goes on.
AskOk == Ask \o OnError(<<>>)

\* The same, where the answer must have a given length or hold given fields.
AskSized == AskOk \o Local

\* Mutants: the session is not closed; it is closed too early.
Send1Open == Compute(<<1>>) \o Transmit(<<1>>)
Send1Early == Compute(<<1>>) \o SessionClose(<<1>>) \o Transmit(<<1>>)

\* With the session open: HMAC, request, transmit, close, look at the result.
Send1 == Compute(<<1>>) \o Transmit(<<1>>) \o SessionClose(<<1>>)

\* Mutant: the result of the transmission is not looked at.
Send1Blind == Send1

Send1Ok == Send1 \o OnError(<<>>)

\* The same with two sessions.
Send2Ok == Compute(<<1, 2>>) \o Transmit(<<1, 2>>) \o SessionClose(<<1, 2>>)
           \o OnError(<<>>)

\* One session, from opening it to the answer.
Auth1(kinds, entity) == SessionOpen(1, kinds, entity, <<>>) \o Send1Ok

\* The same where a nonce is drawn after the session was opened and the
\* function returns without closing it when there is none.
NonceLateAuth1(kinds, entity) ==
    SessionOpen(1, kinds, entity, <<>>) \o Local \o Send1Ok

\* Two sessions.
Auth2(kinds, entity, kinds2, entity2) ==
    SessionOpen(1, kinds, entity, <<>>) \o SessionOpen(2, kinds2, entity2, <<1>>)
    \o Send2Ok

\* The HMAC of the answer, and the return when it is wrong.
CheckOk == CheckHmac \o OnError(<<>>)

Command(name, programs) == {[name |-> name, steps |-> s] : s \in programs}
=============================================================================
