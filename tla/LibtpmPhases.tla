---------------------------- MODULE LibtpmPhases ----------------------------
(***************************************************************************)
(* What a function of libtpm may do next, and what is known of it there.   *)
(* The command functions are straight-line code that follows one           *)
(* discipline: open, use, close, look at the result, check the HMAC.  A    *)
(* program keeps to it when a phase can be given to every place between    *)
(* its steps such that every step is one its phase allows.  The phases say *)
(* what an inductive invariant of Libtpm.tla has to: which sessions the    *)
(* function answers for and what it knows of the last answer.              *)
(*                                                                         *)
(* The discipline is about the steps alone (checked command by command in  *)
(* LibtpmPhases_proofs.tla); what follows from it in every interleaving of *)
(* any number of callers is in Libtpm_proofs.tla.                          *)
(***************************************************************************)
EXTENDS Libtpm

\* idle: nothing is open.   one, two: sess, or sess and sess2, are open.
\* sentOne, sentTwo: they were sent with a command, its result is in ret.
\* sent: they are closed, or being closed.   executed: the TPM has executed
\* the command.   compared: the HMAC was looked at, the result is in ret.
\* checked: it is right.   asked: a command without a session was sent, its
\* result is in ret.   answered: the TPM has executed it.
Phases == {"idle", "one", "two", "sentOne", "sentTwo", "sent", "executed",
           "compared", "checked", "asked", "answered"}

\* The sessions a function has to close when it leaves in this phase.
Opened(a) ==
    IF a \in {"one", "sentOne"} THEN {1}
    ELSE IF a \in {"two", "sentTwo"} THEN {1, 2}
    ELSE {}

Members(held) == {held[k] : k \in 1..Len(held)}

\* Step st takes a function from phase a to phase b.
Moves(st, a, b) ==
    \/ /\ st.op = "compute"
       /\ \/ a \in {"idle", "one", "two", "executed", "checked", "answered"} /\ b = a
          \/ a = "compared" /\ b = "executed"
    \/ st.op \in {"room", "nonce"} /\ a = "idle" /\ b = "idle"
    \/ /\ st.op = "open"
       /\ \/ st.id = 1 /\ a = "idle" /\ b = "one"
          \/ st.id = 2 /\ a = "one" /\ b = "two"
    \/ /\ st.op = "transmit"
       /\ \/ st.held = <<>> /\ a = "idle" /\ b = "asked"
          \/ st.held = <<1>> /\ a = "one" /\ b = "sentOne"
          \/ st.held = <<1, 2>> /\ a = "two" /\ b = "sentTwo"
    \/ /\ st.op = "close"
       /\ \/ a \in {"sentOne", "sentTwo"} /\ b = "sent"
          \/ a = "asked" /\ b = "asked"
    \/ /\ st.op = "onError"
       /\ \/ a \in {"sentOne", "sent"} /\ b = "executed"
          \/ a = "compared" /\ b = "checked"
          \/ a = "asked" /\ b = "answered"
          \/ a = "answered" /\ b = "idle"
    \/ st.op = "check" /\ a = "executed" /\ b = "compared"
    \/ st.op = "onlyIfBadOrdinal" /\ a = "asked" /\ b = "idle"

\* A step that fails closes what is open.  A transmission does not return,
\* whatever becomes of it; in the functions named in Leaks, local work does
\* without closing.  Only those named in NonceIgnored take the failure of a
\* nonce for success.
Closes(name, st, a) ==
    /\ \/ Opened(a) \subseteq Members(st.held)
       \/ st.op = "transmit"
       \/ st.op = "compute" /\ name \in Leaks
    /\ st.op = "nonce" => name \in NonceIgnored

\* ph gives a phase to the beginning of s and to the end of each of its steps.
Phased(name, s, ph) ==
    /\ ph \in [1..Len(s)+1 -> Phases]
    /\ \A i \in 1..Len(s) :
          Moves(s[i], ph[i], ph[i+1]) /\ Closes(name, s[i], ph[i])

\* s takes the function called name from phase a to phase b.
Leads(name, s, a, b) ==
    /\ s \in Seq(Step)
    /\ \E ph : Phased(name, s, ph) /\ ph[1] = a /\ ph[Len(s)+1] = b

\* The phases in which a function may return.
Last(name) ==
    {"asked", "answered", "compared", "checked"}
        \cup (IF name \in Unchecked THEN {"sent", "executed"} ELSE {})

Disciplined(c) == \E b \in Last(c.name) : Leads(c.name, c.steps, "idle", b)

-----------------------------------------------------------------------------
(* Where a process is.                                                     *)

PhasesOf(c) ==
    CHOOSE ph : /\ Phased(c.name, c.steps, ph)
                /\ ph[1] = "idle"
                /\ ph[Len(c.steps)+1] \in Last(c.name)

Phase(p) == PhasesOf(cmd[p])[at[p]]

\* p's sessions in the TPM, and those it answers for in phase a.
Own(p) == {h \in Handles : table[h] = p}
OpenHandles(p, a) == {sess[p][i].handle : i \in Opened(a)} \cap Handles

\* Every session p has in the TPM is one it has open or is closing.
Accounted(p, a) ==
    /\ Own(p) \subseteq OpenHandles(p, a) \cup HandlesOf(p, closing[p])
    /\ closing[p] # <<>> => a \in {"sent", "asked"}

\* What p knows of the last answer, by itself and by its ret.
Knows(p, a) ==
    /\ a \in {"sentOne", "sentTwo"} /\ ret[p] = "ok" => Own(p) = {}
    /\ a \in {"sentOne", "sentTwo", "sent"} /\ ret[p] = "ok" =>
          answer[p] \in {"unchecked"} \cup Untagged
    /\ a \in {"executed", "compared"} => answer[p] \in {"unchecked", "checked"} \cup Untagged
    /\ a = "compared" /\ ret[p] = "ok" => answer[p] \in {"checked"} \cup Untagged
    /\ a = "checked" => answer[p] \in {"checked"} \cup Untagged
    /\ a = "asked" /\ ret[p] = "ok" => answer[p] = "plain"
    /\ a = "answered" => answer[p] = "plain"

\* p has returned but for the closing of sessions.
Ended(p) ==
    /\ \/ Own(p) \subseteq HandlesOf(p, closing[p])
       \/ cmd[p].name \in Leaks /\ ret[p] = "local"
    /\ ret[p] = "ok" => answer[p] \in Answered(cmd[p].name)

\* The inductive invariant behind NoSessionLeft and SuccessIsAnswered.
Placed(p) ==
    IF InCall(p)
    THEN /\ at[p] \in 1..Len(Steps(p))+1
         /\ IF at[p] <= Len(Steps(p))
            THEN Accounted(p, Phase(p)) /\ Knows(p, Phase(p))
            ELSE Ended(p)
    ELSE closing[p] = <<>> /\ Own(p) = {}

PhaseInv == \A p \in Callers : Placed(p)

\* The one behind SessionsAlive, for a caller that has the TPM to itself.
Alive(p, i) == sess[p][i].handle \in Handles /\ table[sess[p][i].handle] = p

AliveInv ==
    \A p \in Callers :
        InCall(p) /\ at[p] <= Len(Steps(p)) /\ Phase(p) \in {"one", "two"} =>
            \A i \in Opened(Phase(p)) : Alive(p, i)
=============================================================================
