---------------------------- MODULE Libtpm_proofs ----------------------------
(***************************************************************************)
(* What Libtpm.tla guarantees for any number of callers and handles, and   *)
(* any commands that keep to the discipline of LibtpmPhases.tla - all of   *)
(* libtpm's do (AllCommandsDisciplined).  The argument: the phase of a     *)
(* caller says which sessions it answers for and what it knows of the last *)
(* answer (PhaseInv); its own steps move it to a phase of which the same   *)
(* is true, and the steps of the others can only take sessions away.       *)
(***************************************************************************)
EXTENDS LibtpmPhases_proofs

-----------------------------------------------------------------------------
(* Types.                                                                  *)

\* The function a process is in, and the step it is at.
LEMMA CommandTypes ==
    ASSUME TypeOK, NEW p \in Callers
    PROVE  /\ Steps(p) \in Seq(Step) /\ Len(Steps(p)) \in Nat
           /\ at[p] \in Nat \ {0} /\ closing[p] \in Seq(Ids)
           /\ \A op : AtStep(p, op) => This(p) \in Step /\ This(p).op = op
<1>1. Steps(p) \in Seq(Step)
  <2>1. CASE cmd[p] \in Commands
    BY <2>1, CommandsAssumption DEF Steps
  <2>2. CASE cmd[p] = NoCommand
    <3>1. Steps(p) = <<>>
      BY <2>2 DEF Steps, NoCommand
    <3> QED
      BY <3>1
  <2> QED
    BY <2>1, <2>2 DEF TypeOK
<1>2. at[p] \in Nat \ {0} /\ closing[p] \in Seq(Ids)
  BY DEF TypeOK
<1>3. \A op : AtStep(p, op) => This(p) \in Step /\ This(p).op = op
  BY <1>1 DEF AtStep, This
<1> QED
  BY <1>1, <1>2, <1>3

\* What a step of type Step has.
LEMMA StepTypes ==
    ASSUME NEW st \in Step
    PROVE  /\ st.id \in {0} \cup Ids /\ st.held \in Seq(Ids)
           /\ st.kinds \in SUBSET Kinds
BY DEF Step

\* The kinds TSS_SessionOpen tries.
LEMMA OpenKindsTypes ==
    ASSUME NEW p \in Callers, This(p) \in Step, want[p] \in Kinds
    PROVE  OpenKinds(p) \subseteq Kinds
BY StepTypes DEF OpenKinds, OtherKind, Have, Kinds

\* The types hold when nobody has called yet.
LEMMA TypeInit == Init => TypeOK
BY DEF Init, TypeOK, NoSessions, NoSession, Sessions, Results, Answers

\* One step of one caller.
LEMMA TypeStep ==
    ASSUME TypeOK, NEW p \in Callers, LibraryStep(p)
    PROVE  TypeOK'
<1>1. /\ Steps(p) \in Seq(Step) /\ Len(Steps(p)) + 1 \in Nat \ {0}
      /\ at[p] + 1 \in Nat \ {0}
      /\ \A op : AtStep(p, op) => This(p) \in Step
  BY CommandTypes
<1>2. ASSUME NEW r \in Results, This(p) \in Step, Fail(p, r)
      PROVE  /\ at' \in [Callers -> Nat \ {0}]
             /\ closing' \in [Callers -> Seq(Ids)]
             /\ ret' \in [Callers -> Results]
  BY <1>1, <1>2, StepTypes DEF Fail, TypeOK
<1>3. ASSUME GoOn(p)
      PROVE  at' \in [Callers -> Nat \ {0}] /\ closing' \in [Callers -> Seq(Ids)]
  BY <1>1, <1>3 DEF GoOn, TypeOK
<1>4. CASE Call(p)
  <2>1. NoSessions \in [Ids -> Sessions]
    BY DEF NoSessions, Sessions
  <2> QED
    BY <1>4, <2>1 DEF Call, TypeOK, Results, Answers
<1>5. CASE Return(p)
  BY <1>5 DEF Return, Forgets, TypeOK
<1>6. CASE ComputeStep(p)
  <2>1. "ok" \in Results /\ "local" \in Results /\ AtStep(p, "compute")
    BY <1>6 DEF Results, ComputeStep
  <2> QED
    BY <1>1, <1>2, <1>3, <1>6, <2>1 DEF ComputeStep, TypeOK
<1>16. CASE NonceStep(p)
  <2>1. /\ "ok" \in Results /\ "unsent" \in Answers /\ AtStep(p, "nonce")
        /\ This(p) \in Step
    BY <1>1, <1>16 DEF Results, Answers, NonceStep
  <2>2. CASE GoOn(p) /\ UNCHANGED <<ret, answer>>
    BY <1>3, <1>16, <2>1, <2>2 DEF NonceStep, TypeOK
  <2>3. CASE Fail(p, "ok") /\ answer' = [answer EXCEPT ![p] = "unsent"]
    BY <1>2, <1>16, <2>1, <2>3 DEF NonceStep, TypeOK
  <2> QED
    BY <1>16, <2>2, <2>3 DEF NonceStep
<1>7. CASE RoomStep(p)
  <2>1. {"ok", "local", "tpm", "io"} \subseteq Results /\ AtStep(p, "room")
    BY <1>7 DEF Results, RoomStep
  <2> QED
    BY <1>1, <1>2, <1>3, <1>7, <2>1 DEF RoomStep, TypeOK
<1>8. CASE OnErrorStep(p)
  <2>1. ret[p] \in Results /\ AtStep(p, "onError")
    BY <1>8 DEF TypeOK, OnErrorStep
  <2> QED
    BY <1>1, <1>2, <1>3, <1>8, <2>1 DEF OnErrorStep, TypeOK
<1>9. CASE OnlyIfBadOrdinalStep(p)
  <2>1. ret[p] \in Results /\ AtStep(p, "onlyIfBadOrdinal")
    BY <1>9 DEF TypeOK, OnlyIfBadOrdinalStep
  <2> QED
    BY <1>1, <1>2, <1>3, <1>9, <2>1 DEF OnlyIfBadOrdinalStep, TypeOK
<1>10. CASE OpenSession(p)
  <2>1. AtStep(p, "open") /\ This(p) \in Step /\ "ok" \in Results /\ "io" \in Results
    BY <1>1, <1>10 DEF OpenSession, Results
  <2>2. PICK k \in OpenKinds(p), h \in Handles :
           \/ /\ table' = [table EXCEPT ![h] = p]
              /\ sess' = [sess EXCEPT ![p][This(p).id] = [handle |-> h, kind |-> k]]
              /\ ret' = [ret EXCEPT ![p] = "ok"]
              /\ GoOn(p)
           \/ /\ table' = [table EXCEPT ![h] = Stale]
              /\ Fail(p, "io")
              /\ UNCHANGED sess
    BY <1>10 DEF OpenSession
  <2>3. [handle |-> h, kind |-> k] \in Sessions
    BY <2>1, OpenKindsTypes DEF Sessions, TypeOK
  <2>4. UNCHANGED <<cmd, want, answer>>
    BY <1>10 DEF OpenSession
  <2>5. CASE /\ table' = [table EXCEPT ![h] = p]
             /\ sess' = [sess EXCEPT ![p][This(p).id] = [handle |-> h, kind |-> k]]
             /\ ret' = [ret EXCEPT ![p] = "ok"]
             /\ GoOn(p)
    <3>1. sess' \in [Callers -> [Ids -> Sessions]]
      BY <2>3, <2>5 DEF TypeOK
    <3> QED
      BY <1>3, <2>1, <2>4, <2>5, <3>1 DEF TypeOK
  <2>6. CASE /\ table' = [table EXCEPT ![h] = Stale]
             /\ Fail(p, "io")
             /\ UNCHANGED sess
    BY <1>2, <2>1, <2>4, <2>6 DEF TypeOK
  <2> QED
    BY <2>2, <2>5, <2>6
<1>11. CASE OpenFails(p)
  <2>1. {"local", "tpm", "io"} \subseteq Results /\ AtStep(p, "open")
    BY <1>11 DEF Results, OpenFails
  <2> QED
    BY <1>1, <1>2, <1>11, <2>1 DEF OpenFails, TypeOK
<1>12. CASE Executed(p) \/ Refused(p) \/ NotDelivered(p)
  <2>1. /\ {"ok", "tpm", "io"} \subseteq Results
        /\ {"plain", "unchecked", "lost", "refused"} \cup Untagged \subseteq Answers
    BY DEF Results, Answers, Untagged
  <2>2. table' \in [Handles -> Callers \cup {Free, Stale}]
    BY <1>12 DEF Executed, Refused, NotDelivered, EndSessions, TypeOK
  <2>3. \E r \in Results, a \in Answers : Sent(p, r, a)
    BY <1>12, <2>1 DEF Executed, Refused, NotDelivered
  <2> QED
    BY <1>3, <2>2, <2>3 DEF Sent, TypeOK
<1>13. CASE CloseStep(p)
  BY <1>1, <1>13, StepTypes DEF CloseStep, TypeOK
<1>14. CASE CloseOne(p)
  <2>1. Tail(closing[p]) \in Seq(Ids)
    BY <1>14 DEF CloseOne, TypeOK
  <2>2. table' \in [Handles -> Callers \cup {Free, Stale}]
    BY <1>14 DEF CloseOne, TypeOK
  <2> QED
    BY <1>14, <2>1, <2>2 DEF CloseOne, TypeOK
<1>15. CASE CheckStep(p)
  BY <1>3, <1>15 DEF CheckStep, TypeOK, Results, Answers
<1> QED
  BY <1>4, <1>5, <1>6, <1>7, <1>8, <1>9, <1>10, <1>11, <1>12, <1>13, <1>14,
     <1>15, <1>16 DEF LibraryStep

\* TypeOK holds in every reachable state.
THEOREM TypeCorrect == Spec => []TypeOK
<1>1. ASSUME TypeOK, [Next]_vars
      PROVE  TypeOK'
  <2>1. CASE Reboot
    BY <1>1, <2>1 DEF Reboot, TypeOK
  <2>2. ASSUME NEW p \in Callers, LibraryStep(p)
        PROVE  TypeOK'
    BY <1>1, <2>2, TypeStep
  <2>3. ASSUME NEW p \in Callers, KillProcess(p)
        PROVE  TypeOK'
    BY <1>1, <2>3 DEF KillProcess, Forgets, TypeOK
  <2>4. CASE UNCHANGED vars
    BY <1>1, <2>4 DEF vars, TypeOK
  <2> QED
    BY <1>1, <2>1, <2>2, <2>3, <2>4 DEF Next
<1> QED
  BY <1>1, TypeInit, PTL DEF Spec
-----------------------------------------------------------------------------
(* Phases.                                                                 *)

\* The assumption under which the rest holds, and what it comes to for
\* libtpm: AllCommandsDisciplined.
CommandsDisciplined == \A c \in Commands : Disciplined(c)

\* A disciplined command has phases, is not empty and ends in a last phase.
LEMMA PhasesExist ==
    ASSUME NEW c, Disciplined(c)
    PROVE  /\ Len(c.steps) \in Nat \ {0}
           /\ Phased(c.name, c.steps, PhasesOf(c))
           /\ PhasesOf(c)[1] = "idle"
           /\ PhasesOf(c)[Len(c.steps)+1] \in Last(c.name)
<1>1. PICK b \in Last(c.name) : Leads(c.name, c.steps, "idle", b)
  BY DEF Disciplined
<1>2. PICK ph : /\ Phased(c.name, c.steps, ph)
                /\ ph[1] = "idle"
                /\ ph[Len(c.steps)+1] = b
  BY <1>1 DEF Leads
<1>3. /\ Phased(c.name, c.steps, PhasesOf(c))
      /\ PhasesOf(c)[1] = "idle"
      /\ PhasesOf(c)[Len(c.steps)+1] \in Last(c.name)
  BY <1>1, <1>2 DEF PhasesOf
<1>4. Len(c.steps) \in Nat
  BY <1>1 DEF Leads
<1>5. Len(c.steps) # 0
  BY <1>3 DEF Last
<1> QED
  BY <1>3, <1>4, <1>5

\* A process at a step is in a phase in which the step is allowed.  b is the
\* phase the step leads to.
LEMMA PhaseOfStep ==
    ASSUME TypeOK, CommandsDisciplined, NEW p \in Callers, NEW op, AtStep(p, op)
    PROVE  /\ Phase(p) \in Phases
           /\ Closes(cmd[p].name, This(p), Phase(p))
           /\ \E b \in Phases :
                 /\ b = PhasesOf(cmd[p])[at[p]+1]
                 /\ Moves(This(p), Phase(p), b)
                 /\ at[p] = Len(Steps(p)) => b \in Last(cmd[p].name)
<1> DEFINE c == cmd[p]
           i == at[p]
<1>1. c \in Commands /\ i \in 1..Len(c.steps) /\ Disciplined(c)
  BY DEF AtStep, InCall, Steps, TypeOK, CommandsDisciplined
<1>2. /\ Len(c.steps) \in Nat
      /\ Phased(c.name, c.steps, PhasesOf(c))
      /\ PhasesOf(c)[Len(c.steps)+1] \in Last(c.name)
  BY <1>1, PhasesExist
<1>3. i \in 1..Len(c.steps)+1 /\ i+1 \in 1..Len(c.steps)+1
  BY <1>1, <1>2
<1>4. /\ PhasesOf(c)[i] \in Phases /\ PhasesOf(c)[i+1] \in Phases
      /\ Moves(c.steps[i], PhasesOf(c)[i], PhasesOf(c)[i+1])
      /\ Closes(c.name, c.steps[i], PhasesOf(c)[i])
  BY <1>1, <1>2, <1>3 DEF Phased
<1> QED
  BY <1>2, <1>4 DEF Phase, This, Steps

\* What a process has open but is not closing, it closes when it fails.
LEMMA HeldIsClosed ==
    ASSUME NEW p \in Callers, NEW a, NEW held \in Seq(Ids),
           Opened(a) \subseteq Members(held)
    PROVE  OpenHandles(p, a) \subseteq HandlesOf(p, held)
BY DEF OpenHandles, HandlesOf, Members

\* Nothing is closed by closing nothing.
LEMMA ClosesNothing ==
    ASSUME NEW p \in Callers
    PROVE  HandlesOf(p, <<>>) = {}
BY DEF HandlesOf

-----------------------------------------------------------------------------
(* How a step changes what PhaseInv says of a process.                     *)

\* The steps of the others leave a process its variables, and can only take
\* sessions away from it.
LEMMA Shrinks ==
    ASSUME NEW q \in Callers, Placed(q),
           cmd'[q] = cmd[q], at'[q] = at[q], closing'[q] = closing[q],
           ret'[q] = ret[q], sess'[q] = sess[q], answer'[q] = answer[q],
           Own(q)' \subseteq Own(q)
    PROVE  Placed(q)'
<1>1. /\ InCall(q)' <=> InCall(q)
      /\ Steps(q)' = Steps(q)
      /\ Phase(q)' = Phase(q)
  BY DEF InCall, Steps, Phase, NoCommand
<1>2. \A ids : HandlesOf(q, ids)' = HandlesOf(q, ids)
  BY DEF HandlesOf
<1>3. \A a : OpenHandles(q, a)' = OpenHandles(q, a)
  BY DEF OpenHandles
<1> QED
  BY <1>1, <1>2, <1>3 DEF Placed, Accounted, Knows, Ended

\* A process that gives up has its sessions closed.
LEMMA GivesUp ==
    ASSUME TypeOK, CommandsDisciplined, NEW p \in Callers, Placed(p),
           NEW op, AtStep(p, op), op # "transmit", NEW r, Fail(p, r),
           op = "compute" => r = "local",
           r = "ok" => answer[p] = "plain",
           UNCHANGED <<cmd, sess, answer>>, Own(p)' \subseteq Own(p)
    PROVE  Placed(p)'
<1>1. /\ This(p) \in Step /\ This(p).op = op /\ This(p).held \in Seq(Ids)
      /\ Len(Steps(p)) \in Nat /\ closing[p] = <<>> /\ InCall(p)
      /\ at[p] \in 1..Len(Steps(p))
  BY CommandTypes, StepTypes DEF AtStep
<1>2. Own(p) \subseteq OpenHandles(p, Phase(p))
  BY <1>1, ClosesNothing DEF Placed, Accounted
<1>3. /\ at'[p] = Len(Steps(p)) + 1 /\ closing'[p] = This(p).held /\ ret'[p] = r
      /\ cmd'[p] = cmd[p] /\ sess'[p] = sess[p] /\ answer'[p] = answer[p]
  BY DEF Fail, TypeOK
<1>4. \/ Own(p) \subseteq HandlesOf(p, This(p).held)
      \/ cmd[p].name \in Leaks /\ r = "local"
  <2>1. CASE Opened(Phase(p)) \subseteq Members(This(p).held)
    BY <1>1, <1>2, <2>1, HeldIsClosed
  <2>2. CASE op = "compute" /\ cmd[p].name \in Leaks
    BY <2>2
  <2> QED
    BY <1>1, <2>1, <2>2, PhaseOfStep DEF Closes
<1>5. HandlesOf(p, closing[p])' = HandlesOf(p, This(p).held)
  BY <1>3 DEF HandlesOf
<1>6. Ended(p)'
  BY <1>3, <1>4, <1>5 DEF Ended, Answered
<1> QED
  BY <1>1, <1>3, <1>6 DEF Placed, InCall, Steps, NoCommand

\* A process that goes on is in the phase the step leads to.
LEMMA GoesOn ==
    ASSUME TypeOK, CommandsDisciplined, NEW p \in Callers, NEW op, AtStep(p, op),
           NEW b, b = PhasesOf(cmd[p])[at[p]+1],
           at' = [at EXCEPT ![p] = @ + 1], cmd' = cmd,
           Accounted(p, b)', Knows(p, b)'
    PROVE  Placed(p)'
<1>1. /\ Len(Steps(p)) \in Nat /\ InCall(p) /\ at[p] \in 1..Len(Steps(p))
      /\ at[p] \in Nat
  BY CommandTypes DEF AtStep
<1>2. at'[p] = at[p] + 1 /\ InCall(p)' /\ Steps(p)' = Steps(p)
  BY <1>1 DEF TypeOK, InCall, Steps, NoCommand
<1>3. CASE at[p] = Len(Steps(p))
  <2>1. b \in Last(cmd[p].name)
    BY <1>3, PhaseOfStep
  <2>2. OpenHandles(p, b)' = {}
    BY <2>1 DEF Last, Opened, OpenHandles
  <2>3. Own(p)' \subseteq HandlesOf(p, closing[p])'
    BY <2>2 DEF Accounted
  <2>4. (ret[p])' = "ok" => answer'[p] \in Answered(cmd[p].name)
    BY <2>1 DEF Last, Knows, Answered
  <2>5. Ended(p)'
    BY <2>3, <2>4 DEF Ended
  <2> QED
    BY <1>1, <1>2, <1>3, <2>5 DEF Placed
<1>4. CASE at[p] # Len(Steps(p))
  <2>1. Phase(p)' = b
    BY <1>2 DEF Phase
  <2> QED
    BY <1>1, <1>2, <1>4, <2>1 DEF Placed
<1> QED
  BY <1>3, <1>4
\* The other processes' steps.
LEMMA OthersStep ==
    ASSUME TypeOK, NEW p \in Callers, NEW q \in Callers, q # p,
           LibraryStep(p) \/ KillProcess(p)
    PROVE  /\ cmd'[q] = cmd[q] /\ at'[q] = at[q] /\ closing'[q] = closing[q]
           /\ ret'[q] = ret[q] /\ sess'[q] = sess[q] /\ answer'[q] = answer[q]
           /\ Own(q)' \subseteq Own(q)
<1>1. \A h \in Handles : table'[h] = q => table[h] = q
  <2>1. CASE Return(p) \/ KillProcess(p)
    BY <2>1, OwnersAssumption DEF Return, KillProcess, Forgets
  <2>2. CASE OpenSession(p)
    BY <2>2, OwnersAssumption DEF OpenSession, TypeOK
  <2>3. CASE Executed(p) \/ Refused(p) \/ NotDelivered(p)
    BY <2>3, OwnersAssumption DEF Executed, Refused, NotDelivered, EndSessions
  <2>4. CASE CloseOne(p)
    BY <2>4, OwnersAssumption DEF CloseOne, TypeOK
  <2>5. CASE \/ Call(p) \/ ComputeStep(p) \/ NonceStep(p) \/ RoomStep(p) \/ OnErrorStep(p)
             \/ OnlyIfBadOrdinalStep(p) \/ OpenFails(p) \/ CloseStep(p) \/ CheckStep(p)
    BY <2>5 DEF Call, ComputeStep, NonceStep, RoomStep, OnErrorStep, OnlyIfBadOrdinalStep,
       OpenFails, CloseStep, CheckStep
  <2> QED
    BY <2>1, <2>2, <2>3, <2>4, <2>5 DEF LibraryStep
<1>2. /\ cmd'[q] = cmd[q] /\ at'[q] = at[q] /\ closing'[q] = closing[q]
      /\ ret'[q] = ret[q] /\ sess'[q] = sess[q] /\ answer'[q] = answer[q]
  <2> USE DEF TypeOK, GoOn, Fail, Sent
  <2>1. CASE Call(p) \/ Return(p) \/ KillProcess(p)
    BY <2>1 DEF Call, Return, KillProcess
  <2>2. CASE \/ ComputeStep(p) \/ NonceStep(p) \/ RoomStep(p) \/ OnErrorStep(p)
             \/ OnlyIfBadOrdinalStep(p) \/ CheckStep(p)
    BY <2>2 DEF ComputeStep, NonceStep, RoomStep, OnErrorStep, OnlyIfBadOrdinalStep, CheckStep
  <2>3. CASE OpenSession(p) \/ OpenFails(p)
    BY <2>3 DEF OpenSession, OpenFails
  <2>4. CASE \/ Executed(p) \/ Refused(p) \/ NotDelivered(p) \/ CloseStep(p)
             \/ CloseOne(p)
    BY <2>4 DEF Executed, Refused, NotDelivered, CloseStep, CloseOne
  <2> QED
    BY <2>1, <2>2, <2>3, <2>4 DEF LibraryStep
<1> QED
  BY <1>1, <1>2 DEF Own

-----------------------------------------------------------------------------
(* The process's own steps.                                                *)

\* What PhaseInv says of a process at a step.
LEMMA AtStepPlaced ==
    ASSUME TypeOK, CommandsDisciplined, NEW p \in Callers, Placed(p),
           NEW op, AtStep(p, op)
    PROVE  /\ Own(p) \subseteq OpenHandles(p, Phase(p))
           /\ Knows(p, Phase(p))
           /\ closing[p] = <<>>
           /\ This(p) \in Step /\ This(p).op = op
<1>1. at[p] \in 1..Len(Steps(p)) /\ closing[p] = <<>> /\ InCall(p)
  BY DEF AtStep
<1>2. Len(Steps(p)) \in Nat /\ This(p) \in Step /\ This(p).op = op
  BY CommandTypes
<1> QED
  BY <1>1, <1>2, ClosesNothing DEF Placed, Accounted

\* A call begins in phase idle, with nothing open.
LEMMA CallPlaced ==
    ASSUME TypeOK, CommandsDisciplined, NEW p \in Callers, Placed(p), Call(p)
    PROVE  Placed(p)'
<1>1. PICK c \in Commands : cmd' = [cmd EXCEPT ![p] = c]
  BY DEF Call
<1>2. cmd'[p] = c /\ at'[p] = 1 /\ closing'[p] = closing[p]
  BY <1>1 DEF Call, TypeOK
<1>3. closing[p] = <<>> /\ Own(p) = {} /\ Own(p)' = {}
  BY DEF Call, Placed, InCall, Own
<1>4. Len(c.steps) \in Nat \ {0} /\ PhasesOf(c)[1] = "idle"
  BY <1>1, PhasesExist DEF CommandsDisciplined
<1>5. Steps(p)' = c.steps /\ Phase(p)' = "idle"
  BY <1>2, <1>4 DEF Steps, Phase
<1>6. Accounted(p, "idle")' /\ Knows(p, "idle")'
  BY <1>2, <1>3 DEF Accounted, Knows
<1>7. CASE InCall(p)'
  BY <1>2, <1>4, <1>5, <1>6, <1>7 DEF Placed
<1>8. CASE ~ InCall(p)'
  BY <1>2, <1>3, <1>8 DEF Placed
<1> QED
  BY <1>7, <1>8

\* A process that returns, or is killed, has no session that it knows of.
LEMMA LeavesPlaced ==
    ASSUME TypeOK, NEW p \in Callers, Return(p) \/ KillProcess(p)
    PROVE  Placed(p)'
<1>1. cmd'[p] = NoCommand /\ closing'[p] = <<>>
  BY DEF Return, Done, KillProcess, TypeOK
<1>2. Own(p)' = {}
  BY OwnersAssumption DEF Return, KillProcess, Forgets, Own
<1> QED
  BY <1>1, <1>2 DEF Placed, InCall

\* The steps of a caller that send nothing and open nothing.
LEMMA QuietPlaced ==
    ASSUME TypeOK, CommandsDisciplined, NEW p \in Callers, Placed(p),
           \/ ComputeStep(p) \/ RoomStep(p) \/ OnErrorStep(p)
           \/ OnlyIfBadOrdinalStep(p) \/ CheckStep(p) \/ OpenFails(p)
    PROVE  Placed(p)'
<1>1. PICK op : AtStep(p, op) /\ op \in {"compute", "room", "onError", "onlyIfBadOrdinal",
                                         "check", "open"}
  BY DEF ComputeStep, RoomStep, OnErrorStep, OnlyIfBadOrdinalStep, CheckStep, OpenFails
<1>2. /\ Own(p) \subseteq OpenHandles(p, Phase(p))
      /\ Knows(p, Phase(p))
      /\ closing[p] = <<>>
      /\ This(p) \in Step /\ This(p).op = op
  BY <1>1, AtStepPlaced
<1>3. PICK b \in Phases : /\ b = PhasesOf(cmd[p])[at[p]+1]
                          /\ Moves(This(p), Phase(p), b)
  BY <1>1, PhaseOfStep
<1>4. /\ cmd' = cmd /\ sess' = sess /\ table' = table
      /\ Own(p)' = Own(p)
      /\ OpenHandles(p, b)' = OpenHandles(p, b)
  BY DEF ComputeStep, RoomStep, OnErrorStep, OnlyIfBadOrdinalStep, CheckStep, OpenFails,
     Own, OpenHandles
<1>5. ASSUME GoOn(p), Opened(b) = Opened(Phase(p)) \/ Own(p) = {}, Knows(p, b)'
      PROVE  Placed(p)'
  <2>1. closing'[p] = <<>> /\ at' = [at EXCEPT ![p] = @ + 1]
    BY <1>2, <1>5 DEF GoOn
  <2>2. Accounted(p, b)'
    BY <1>2, <1>4, <1>5, <2>1 DEF Accounted, OpenHandles
  <2> QED
    BY <1>1, <1>3, <1>4, <1>5, <2>1, <2>2, GoesOn
<1>6. ASSUME NEW r, Fail(p, r), answer' = answer,
             op = "compute" => r = "local", r = "ok" => answer[p] = "plain"
      PROVE  Placed(p)'
  BY <1>1, <1>4, <1>6, GivesUp
<1>7. ASSUME GoOn(p), op # "check", op # "open",
             op \in {"compute", "room"} => ret'[p] = "ok",
             op \in {"onError", "onlyIfBadOrdinal"} => ret' = ret,
             op = "onError" => ret[p] = "ok", answer' = answer
      PROVE  Placed(p)'
  <2>1. Opened(b) = Opened(Phase(p)) \/ Own(p) = {}
    BY <1>1, <1>2, <1>3, <1>7 DEF Moves, Opened, Knows
  <2>2. Knows(p, b)'
    BY <1>1, <1>2, <1>3, <1>4, <1>7 DEF Moves, Knows
  <2> QED
    BY <1>5, <1>7, <2>1, <2>2
<1>8. CASE ComputeStep(p)
  <2>1. op = "compute"
    BY <1>1, <1>2, <1>8, CommandTypes DEF ComputeStep
  <2>2. CASE GoOn(p) /\ ret' = [ret EXCEPT ![p] = "ok"]
    BY <1>7, <1>8, <2>1, <2>2 DEF ComputeStep, TypeOK
  <2>3. CASE Fail(p, "local")
    BY <1>6, <1>8, <2>1, <2>3 DEF ComputeStep
  <2> QED
    BY <1>8, <2>2, <2>3 DEF ComputeStep
<1>9. CASE RoomStep(p)
  <2>1. op = "room"
    BY <1>1, <1>2, <1>9, CommandTypes DEF RoomStep
  <2>2. CASE GoOn(p) /\ ret' = [ret EXCEPT ![p] = "ok"]
    BY <1>7, <1>9, <2>1, <2>2 DEF RoomStep, TypeOK
  <2>3. CASE \E r \in {"local", "tpm", "io"} : Fail(p, r)
    BY <1>6, <1>9, <2>1, <2>3 DEF RoomStep
  <2> QED
    BY <1>9, <2>2, <2>3 DEF RoomStep
<1>10. CASE OnErrorStep(p)
  <2>1. op = "onError"
    BY <1>1, <1>2, <1>10, CommandTypes DEF OnErrorStep
  <2>2. CASE ret[p] = "ok"
    BY <1>7, <1>10, <2>1, <2>2 DEF OnErrorStep
  <2>3. CASE ret[p] # "ok"
    BY <1>6, <1>10, <2>1, <2>3 DEF OnErrorStep
  <2> QED
    BY <2>2, <2>3
<1>11. CASE OnlyIfBadOrdinalStep(p)
  <2>1. op = "onlyIfBadOrdinal"
    BY <1>1, <1>2, <1>11, CommandTypes DEF OnlyIfBadOrdinalStep
  <2>2. CASE ret[p] = "tpm" /\ GoOn(p) /\ UNCHANGED ret
    BY <1>7, <1>11, <2>1, <2>2 DEF OnlyIfBadOrdinalStep
  <2>3. CASE Fail(p, ret[p])
    <3>1. Phase(p) = "asked"
      BY <1>2, <1>3, <2>1 DEF Moves
    <3>2. ret[p] = "ok" => answer[p] = "plain"
      BY <1>2, <3>1 DEF Knows
    <3> QED
      BY <1>6, <1>11, <2>1, <2>3, <3>2 DEF OnlyIfBadOrdinalStep
  <2> QED
    BY <1>11, <2>2, <2>3 DEF OnlyIfBadOrdinalStep
<1>12. CASE CheckStep(p)
  <2>1. op = "check" /\ GoOn(p)
    BY <1>1, <1>2, <1>12, CommandTypes DEF CheckStep
  <2>2. Phase(p) = "executed" /\ b = "compared"
    BY <1>2, <1>3, <2>1 DEF Moves
  <2>3. Knows(p, b)'
    BY <1>2, <1>12, <2>2 DEF CheckStep, Knows, TypeOK
  <2> QED
    BY <1>5, <2>1, <2>2, <2>3 DEF Opened
<1>13. CASE OpenFails(p)
  <2>1. op = "open"
    BY <1>1, <1>2, <1>13, CommandTypes DEF OpenFails
  <2>2. PICK r \in {"tpm", "io", "local"} : Fail(p, r)
    BY <1>13 DEF OpenFails
  <2> QED
    BY <1>6, <1>13, <2>1, <2>2 DEF OpenFails
<1> QED
  BY <1>8, <1>9, <1>10, <1>11, <1>12, <1>13

\* The nonce that may be missing is drawn with nothing open.
LEMMA NoncePlaced ==
    ASSUME TypeOK, CommandsDisciplined, NEW p \in Callers, Placed(p), NonceStep(p)
    PROVE  Placed(p)'
<1>1. /\ AtStep(p, "nonce")
      /\ cmd' = cmd /\ sess' = sess /\ Own(p)' = Own(p)
  BY DEF NonceStep, Own
<1>2. /\ Own(p) \subseteq OpenHandles(p, Phase(p))
      /\ closing[p] = <<>>
      /\ This(p).op = "nonce" /\ This(p) \in Step /\ This(p).held \in Seq(Ids)
  BY <1>1, AtStepPlaced, StepTypes
<1>3. PICK b \in Phases : /\ b = PhasesOf(cmd[p])[at[p]+1]
                          /\ Moves(This(p), Phase(p), b)
  BY <1>1, PhaseOfStep
<1>4. Phase(p) = "idle" /\ b = "idle" /\ cmd[p].name \in NonceIgnored
  BY <1>1, <1>2, <1>3, PhaseOfStep DEF Moves, Closes
<1>5. Own(p) = {}
  BY <1>2, <1>4 DEF OpenHandles, Opened
<1>6. CASE GoOn(p) /\ UNCHANGED <<ret, answer>>
  <2>1. Accounted(p, b)' /\ Knows(p, b)'
    BY <1>1, <1>2, <1>4, <1>5, <1>6 DEF Accounted, Knows, GoOn
  <2> QED
    BY <1>1, <1>3, <1>6, <2>1, GoesOn DEF GoOn
<1>7. CASE Fail(p, "ok") /\ answer' = [answer EXCEPT ![p] = "unsent"]
  <2>1. Len(Steps(p)) \in Nat /\ InCall(p)
    BY <1>1, CommandTypes DEF AtStep
  <2>2. at'[p] = Len(Steps(p)) + 1 /\ answer'[p] = "unsent" /\ cmd'[p] = cmd[p]
    BY <1>1, <1>7 DEF Fail, TypeOK
  <2>3. Ended(p)'
    BY <1>1, <1>4, <1>5, <2>2 DEF Ended, Answered
  <2> QED
    BY <2>1, <2>2, <2>3 DEF Placed, InCall, Steps, NoCommand
<1> QED
  BY <1>6, <1>7 DEF NonceStep

\* A session is opened, or its handle is lost with the answer.
LEMMA OpenPlaced ==
    ASSUME TypeOK, CommandsDisciplined, NEW p \in Callers, Placed(p), OpenSession(p)
    PROVE  Placed(p)'
<1>1. AtStep(p, "open") /\ cmd' = cmd /\ answer' = answer
  BY DEF OpenSession
<1>2. /\ Own(p) \subseteq OpenHandles(p, Phase(p))
      /\ closing[p] = <<>>
      /\ This(p) \in Step /\ This(p).op = "open"
  BY <1>1, AtStepPlaced
<1>3. PICK b \in Phases : /\ b = PhasesOf(cmd[p])[at[p]+1]
                          /\ Moves(This(p), Phase(p), b)
  BY <1>1, PhaseOfStep
<1>4. /\ This(p).id \in Ids
      /\ b \in {"one", "two"}
      /\ Opened(b) = Opened(Phase(p)) \cup {This(p).id}
      /\ This(p).id \notin Opened(Phase(p))
  BY <1>2, <1>3 DEF Moves, Opened, Ids
<1>5. PICK k \in OpenKinds(p), h \in Handles :
         /\ table[h] = Free
         /\ \/ /\ table' = [table EXCEPT ![h] = p]
               /\ sess' = [sess EXCEPT ![p][This(p).id] = [handle |-> h, kind |-> k]]
               /\ ret' = [ret EXCEPT ![p] = "ok"]
               /\ GoOn(p)
            \/ /\ table' = [table EXCEPT ![h] = Stale]
               /\ Fail(p, "io")
               /\ UNCHANGED sess
  BY DEF OpenSession
<1>6. CASE /\ table' = [table EXCEPT ![h] = p]
           /\ sess' = [sess EXCEPT ![p][This(p).id] = [handle |-> h, kind |-> k]]
           /\ GoOn(p)
  <2>1. /\ sess'[p][This(p).id].handle = h
        /\ \A i \in Ids \ {This(p).id} : sess'[p][i] = sess[p][i]
    BY <1>4, <1>6 DEF TypeOK
  <2>2. Own(p)' \subseteq Own(p) \cup {h}
    BY <1>6 DEF Own, TypeOK
  <2>3. OpenHandles(p, Phase(p)) \cup {h} \subseteq OpenHandles(p, b)'
    <3>1. h \in OpenHandles(p, b)'
      BY <1>4, <2>1 DEF OpenHandles
    <3>2. ASSUME NEW g \in OpenHandles(p, Phase(p))
          PROVE  g \in OpenHandles(p, b)'
      <4>1. PICK i \in Opened(Phase(p)) : g = sess[p][i].handle
        BY <3>2 DEF OpenHandles
      <4>2. i \in Opened(b) /\ i \in Ids \ {This(p).id}
        BY <1>4, <4>1 DEF Opened, Ids
      <4>3. g = sess'[p][i].handle /\ g \in Handles
        BY <2>1, <4>1, <4>2 DEF OpenHandles
      <4> QED
        BY <4>2, <4>3 DEF OpenHandles
    <3> QED
      BY <3>1, <3>2
  <2>4. closing'[p] = <<>> /\ at' = [at EXCEPT ![p] = @ + 1]
    BY <1>2, <1>6 DEF GoOn
  <2>5. Accounted(p, b)'
    BY <1>2, <2>2, <2>3, <2>4 DEF Accounted
  <2>6. Knows(p, b)'
    BY <1>4 DEF Knows
  <2> QED
    BY <1>1, <1>3, <2>4, <2>5, <2>6, GoesOn
<1>7. CASE /\ table' = [table EXCEPT ![h] = Stale]
           /\ Fail(p, "io")
           /\ UNCHANGED sess
  <2>1. Own(p)' \subseteq Own(p)
    BY <1>7, OwnersAssumption DEF Own, TypeOK
  <2> QED
    BY <1>1, <1>7, <2>1, GivesUp
<1> QED
  BY <1>5, <1>6, <1>7

\* A command is sent.  When the TPM has executed it, it has ended the sessions
\* the command was sent with, all that the caller had.
LEMMA TransmitPlaced ==
    ASSUME TypeOK, CommandsDisciplined, NEW p \in Callers, Placed(p),
           Executed(p) \/ Refused(p) \/ NotDelivered(p)
    PROVE  Placed(p)'
<1>1. AtStep(p, "transmit")
  BY DEF Executed, Refused, NotDelivered
<1>2. /\ Own(p) \subseteq OpenHandles(p, Phase(p))
      /\ closing[p] = <<>>
      /\ This(p) \in Step /\ This(p).op = "transmit"
  BY <1>1, AtStepPlaced
<1>3. PICK b \in Phases : /\ b = PhasesOf(cmd[p])[at[p]+1]
                          /\ Moves(This(p), Phase(p), b)
  BY <1>1, PhaseOfStep
<1>4. /\ cmd' = cmd /\ sess' = sess /\ closing' = closing
      /\ at' = [at EXCEPT ![p] = @ + 1]
  BY DEF Executed, Refused, NotDelivered, Sent, GoOn
<1>5. /\ b \in {"asked", "sentOne", "sentTwo"}
      /\ b = "asked" <=> This(p).held = <<>>
      /\ Opened(b) = Opened(Phase(p))
      /\ OpenHandles(p, Phase(p)) = Uses(p)
  <2>1. CASE This(p).held = <<>> /\ Phase(p) = "idle" /\ b = "asked"
    BY <2>1 DEF Opened, OpenHandles, Uses, HandlesOf
  <2>2. CASE This(p).held = <<1>> /\ Phase(p) = "one" /\ b = "sentOne"
    BY <2>2 DEF Opened, OpenHandles, Uses, HandlesOf
  <2>3. CASE This(p).held = <<1, 2>> /\ Phase(p) = "two" /\ b = "sentTwo"
    BY <2>3 DEF Opened, OpenHandles, Uses, HandlesOf
  <2> QED
    BY <1>2, <1>3, <2>1, <2>2, <2>3 DEF Moves
<1>6. Own(p)' \subseteq Own(p)
  BY OwnersAssumption DEF Executed, Refused, NotDelivered, EndSessions, Own
<1>7. Accounted(p, b)'
  BY <1>2, <1>4, <1>5, <1>6 DEF Accounted, OpenHandles
<1>8. CASE ret'[p] = "ok"
  <2>1. /\ Executed(p)
        /\ IF This(p).held = <<>> THEN answer'[p] = "plain"
           ELSE answer'[p] \in {"unchecked"} \cup Untagged
    BY <1>8 DEF Executed, Refused, NotDelivered, Sent, TypeOK
  <2>2. Own(p)' = {}
    BY <1>2, <1>5, <2>1, OwnersAssumption DEF Executed, EndSessions, Own
  <2>3. Knows(p, b)'
    BY <1>5, <2>1, <2>2 DEF Knows
  <2> QED
    BY <1>1, <1>3, <1>4, <1>7, <2>3, GoesOn
<1>9. CASE ret'[p] # "ok"
  <2>1. Knows(p, b)'
    BY <1>5, <1>9 DEF Knows
  <2> QED
    BY <1>1, <1>3, <1>4, <1>7, <2>1, GoesOn
<1> QED
  BY <1>8, <1>9

\* The sessions a command was sent with are to be closed.
LEMMA ClosePlaced ==
    ASSUME TypeOK, CommandsDisciplined, NEW p \in Callers, Placed(p), CloseStep(p)
    PROVE  Placed(p)'
<1>1. AtStep(p, "close") /\ UNCHANGED <<cmd, want, ret, sess, answer, table>>
  BY DEF CloseStep
<1>2. /\ Own(p) \subseteq OpenHandles(p, Phase(p))
      /\ Knows(p, Phase(p))
      /\ This(p) \in Step /\ This(p).op = "close" /\ This(p).held \in Seq(Ids)
  BY <1>1, AtStepPlaced, StepTypes
<1>3. PICK b \in Phases : /\ b = PhasesOf(cmd[p])[at[p]+1]
                          /\ Moves(This(p), Phase(p), b)
  BY <1>1, PhaseOfStep
<1>4. /\ b \in {"sent", "asked"}
      /\ b = "asked" => Phase(p) = "asked"
      /\ b = "sent" => Phase(p) \in {"sentOne", "sentTwo"}
  BY <1>2, <1>3 DEF Moves
<1>5. Own(p) \subseteq HandlesOf(p, This(p).held)
  BY <1>1, <1>2, PhaseOfStep, HeldIsClosed DEF Closes
<1>6. closing'[p] = This(p).held /\ at' = [at EXCEPT ![p] = @ + 1]
  BY DEF CloseStep, TypeOK
<1>7. Accounted(p, b)'
  BY <1>1, <1>4, <1>5, <1>6 DEF Accounted, HandlesOf, Own
<1>8. Knows(p, b)'
  BY <1>1, <1>2, <1>4 DEF Knows
<1> QED
  BY <1>1, <1>3, <1>6, <1>7, <1>8, GoesOn

\* One session is closed.
LEMMA CloseOnePlaced ==
    ASSUME TypeOK, NEW p \in Callers, Placed(p), CloseOne(p)
    PROVE  Placed(p)'
<1> DEFINE rest == Tail(closing[p])
           first == sess[p][Head(closing[p])].handle
<1>1. /\ InCall(p) /\ closing[p] # <<>> /\ closing[p] \in Seq(Ids)
      /\ UNCHANGED <<cmd, at, want, ret, sess, answer>>
      /\ closing'[p] = rest
  BY DEF CloseOne, TypeOK
<1>2. Own(p)' \subseteq Own(p) \ {first}
  BY OwnersAssumption DEF CloseOne, Own, TypeOK
<1>3. HandlesOf(p, closing[p]) \subseteq HandlesOf(p, rest) \cup {first}
  <2>1. /\ Len(rest) = Len(closing[p]) - 1 /\ Len(closing[p]) \in Nat \ {0}
        /\ \A i \in 1..Len(rest) : rest[i] = closing[p][i+1]
    BY <1>1
  <2>2. ASSUME NEW i \in 1..Len(closing[p])
        PROVE  \/ closing[p][i] = Head(closing[p])
               \/ \E j \in 1..Len(rest) : closing[p][i] = rest[j]
    <3>1. CASE i = 1
      BY <1>1, <3>1
    <3>2. CASE i # 1
      <4>1. i - 1 \in 1..Len(rest) /\ rest[i - 1] = closing[p][i]
        BY <2>1, <3>2
      <4> QED
        BY <4>1
    <3> QED
      BY <3>1, <3>2
  <2> HIDE DEF rest
  <2> QED
    BY <2>2 DEF HandlesOf
<1>4. /\ Steps(p)' = Steps(p) /\ InCall(p)' /\ Phase(p)' = Phase(p)
      /\ at'[p] = at[p] /\ ret'[p] = ret[p] /\ answer'[p] = answer[p]
  BY <1>1 DEF Steps, InCall, Phase, NoCommand
<1>5. HandlesOf(p, closing[p])' = HandlesOf(p, rest)
  BY <1>1 DEF HandlesOf
<1>6. CASE at[p] <= Len(Steps(p))
  <2>1. /\ Own(p) \subseteq OpenHandles(p, Phase(p)) \cup HandlesOf(p, closing[p])
        /\ Phase(p) \in {"sent", "asked"}
        /\ Knows(p, Phase(p))
        /\ at[p] \in 1..Len(Steps(p))+1
    BY <1>1, <1>6 DEF Placed, Accounted
  <2>2. Own(p)' \subseteq HandlesOf(p, rest)
    BY <1>2, <1>3, <2>1 DEF OpenHandles, Opened
  <2>3. Accounted(p, Phase(p))' /\ Knows(p, Phase(p))'
    BY <1>1, <1>4, <1>5, <2>1, <2>2 DEF Accounted, Knows
  <2> QED
    BY <1>4, <1>6, <2>1, <2>3 DEF Placed
<1>7. CASE ~ (at[p] <= Len(Steps(p)))
  <2>1. Ended(p) /\ at[p] \in 1..Len(Steps(p))+1
    BY <1>1, <1>7 DEF Placed
  <2>2. Ended(p)'
    BY <1>1, <1>2, <1>3, <1>4, <1>5, <2>1 DEF Ended
  <2> QED
    BY <1>4, <1>7, <2>1, <2>2 DEF Placed
<1> QED
  BY <1>6, <1>7
-----------------------------------------------------------------------------
(* The invariant of all callers, and what follows from it.                 *)

\* Between calls every caller is idle, and has no session.
LEMMA PhaseInit ==
    ASSUME Init
    PROVE  PhaseInv
BY OwnersAssumption DEF Init, PhaseInv, Placed, InCall, Own

\* Every step of any caller keeps it.
LEMMA PhaseStep ==
    ASSUME TypeOK, CommandsDisciplined, PhaseInv, [Next]_vars
    PROVE  PhaseInv'
<1>1. ASSUME NEW p \in Callers, LibraryStep(p) \/ KillProcess(p), NEW q \in Callers
      PROVE  Placed(q)'
  <2>1. Placed(p) /\ Placed(q)
    BY DEF PhaseInv
  <2>2. CASE q # p
    BY <1>1, <2>1, <2>2, OthersStep, Shrinks
  <2>3. CASE q = p
    BY <1>1, <2>1, <2>3, CallPlaced, LeavesPlaced, QuietPlaced, NoncePlaced, OpenPlaced,
       TransmitPlaced, ClosePlaced, CloseOnePlaced DEF LibraryStep
  <2> QED
    BY <2>2, <2>3
<1>2. CASE Reboot
  BY <1>2, OwnersAssumption DEF Reboot, PhaseInv, Placed, InCall, Own
<1>3. CASE UNCHANGED vars
  <2>1. ASSUME NEW q \in Callers
        PROVE  Placed(q)'
    BY <1>3, <2>1, Shrinks DEF PhaseInv, vars, Own
  <2> QED
    BY <2>1 DEF PhaseInv
<1> QED
  BY <1>1, <1>2, <1>3 DEF Next, PhaseInv

\* It holds always, for any callers and any commands of the list.
LEMMA PhaseInvHolds ==
    ASSUME CommandsDisciplined
    PROVE  Spec => [](TypeOK /\ PhaseInv)
<1>1. Init => TypeOK /\ PhaseInv
  BY TypeInit, PhaseInit
<1>2. TypeOK /\ TypeOK' /\ PhaseInv /\ [Next]_vars => PhaseInv'
  BY PhaseStep
<1> QED
  BY <1>1, <1>2, TypeCorrect, PTL DEF Spec

\* A function has come to its end.
LEMMA DoneHasEnded ==
    ASSUME TypeOK, PhaseInv, NEW p \in Callers, Done(p)
    PROVE  Ended(p) /\ closing[p] = <<>>
BY CommandTypes DEF PhaseInv, Placed, Done

\* What the command functions of libtpm are to Libtpm.tla.
LEMMA LibtpmDisciplined ==
    ASSUME Commands \subseteq AllCommands
    PROVE  CommandsDisciplined
BY AllCommandsDisciplined DEF CommandsDisciplined

\* SuccessIsAnswered holds whatever the other programs do: a function that
\* returns success has sent its command and has an answer of the TPM whose HMAC
\* it has checked, where the command was authorised - but for the functions
\* that do not look at it (Unchecked), those that return 0 when there is no
\* nonce (NonceIgnored), and, from a character device alone, an answer that
\* is not tagged as authorised.
THEOREM SuccessAnswered ==
    ASSUME Commands \subseteq AllCommands
    PROVE  Spec => []SuccessIsAnswered
<1>1. TypeOK /\ PhaseInv => SuccessIsAnswered
  BY DoneHasEnded DEF SuccessIsAnswered, Ended
<1> QED
  BY <1>1, LibtpmDisciplined, PhaseInvHolds, PTL

\* NoSessionLeft holds whatever the other programs do: a function that returns
\* has no session open in the TPM, but for a local failure in the functions
\* that forget to close theirs.
THEOREM NoSessionIsLeft ==
    ASSUME Commands \subseteq AllCommands
    PROVE  Spec => []NoSessionLeft
<1>1. TypeOK /\ PhaseInv => NoSessionLeft
  <2> SUFFICES ASSUME TypeOK, PhaseInv, NEW p \in Callers, Done(p),
                      cmd[p].name \in Leaks => ret[p] # "local",
                      NEW h \in Handles
               PROVE  table[h] # p
    BY DEF NoSessionLeft
  <2>1. Own(p) \subseteq HandlesOf(p, <<>>)
    BY DoneHasEnded DEF Ended
  <2> QED
    BY <2>1, ClosesNothing DEF Own
<1> QED
  BY <1>1, LibtpmDisciplined, PhaseInvHolds, PTL

-----------------------------------------------------------------------------
(* A caller that has the TPM to itself.                                    *)

\* A step within a function that does not fail, seen from its phases.
LEMMA AlivePreserved ==
    ASSUME TypeOK, CommandsDisciplined, NEW p \in Callers, Callers = {p},
           PhaseInv, AliveInv, LibraryStep(p)
    PROVE  AliveInv'
<1> SUFFICES ASSUME InCall(p)', (at[p] <= Len(Steps(p)))', (Phase(p) \in {"one", "two"})'
             PROVE  \A i \in Opened(Phase(p))' : Alive(p, i)'
  BY DEF AliveInv
<1>1. Placed(p)
  BY DEF PhaseInv
<1>2. CASE Call(p)
  <2>1. PICK c \in Commands : cmd' = [cmd EXCEPT ![p] = c]
    BY <1>2 DEF Call
  <2>2. cmd'[p] = c /\ at'[p] = 1 /\ PhasesOf(c)[1] = "idle"
    BY <1>2, <2>1, PhasesExist DEF Call, TypeOK, CommandsDisciplined
  <2>3. Phase(p)' = "idle"
    BY <2>2 DEF Phase
  <2> QED
    BY <2>3
<1>3. CASE Return(p)
  BY <1>3 DEF Return, InCall, TypeOK
<1>4. CASE CloseOne(p)
  <2>1. /\ InCall(p) /\ closing[p] # <<>>
        /\ Phase(p)' = Phase(p) /\ at'[p] = at[p] /\ Steps(p)' = Steps(p)
    BY <1>4 DEF CloseOne, Phase, Steps
  <2>2. Phase(p) \in {"sent", "asked"}
    BY <1>1, <2>1 DEF Placed, Accounted
  <2> QED
    BY <2>1, <2>2
<1>5. ASSUME NEW op, AtStep(p, op), cmd' = cmd,
             \/ at' = [at EXCEPT ![p] = @ + 1]
             \/ at' = [at EXCEPT ![p] = Len(Steps(p)) + 1]
      PROVE  /\ This(p).op = op
             /\ at' = [at EXCEPT ![p] = @ + 1]
             /\ Moves(This(p), Phase(p), (Phase(p))')
             /\ \A i \in Opened(Phase(p)) :
                   Phase(p) \in {"one", "two"} => Alive(p, i)
  <2>1. /\ Len(Steps(p)) \in Nat /\ Steps(p)' = Steps(p) /\ This(p).op = op
        /\ at[p] \in 1..Len(Steps(p)) /\ InCall(p)
    BY <1>5, CommandTypes DEF AtStep, Steps
  <2>2. at' = [at EXCEPT ![p] = @ + 1] /\ at'[p] = at[p] + 1
    BY <1>5, <2>1 DEF TypeOK
  <2>3. Phase(p)' = PhasesOf(cmd[p])[at[p]+1]
    BY <1>5, <2>2 DEF Phase
  <2>4. Moves(This(p), Phase(p), (Phase(p))')
    BY <1>5, <2>3, PhaseOfStep
  <2> QED
    BY <2>1, <2>2, <2>4 DEF AliveInv
<1>6. CASE ComputeStep(p)
  <2>1. /\ AtStep(p, "compute") /\ cmd' = cmd /\ sess' = sess /\ table' = table
        /\ \/ at' = [at EXCEPT ![p] = @ + 1]
           \/ at' = [at EXCEPT ![p] = Len(Steps(p)) + 1]
    BY <1>6 DEF ComputeStep, GoOn, Fail
  <2>2. Phase(p)' = Phase(p)
    BY <1>5, <2>1 DEF Moves
  <2> QED
    BY <1>5, <2>1, <2>2 DEF Alive
<1>7. CASE OpenSession(p)
  <2>1. /\ AtStep(p, "open") /\ cmd' = cmd
        /\ \/ at' = [at EXCEPT ![p] = @ + 1]
           \/ at' = [at EXCEPT ![p] = Len(Steps(p)) + 1]
    BY <1>7 DEF OpenSession, GoOn, Fail
  <2>2. /\ at' = [at EXCEPT ![p] = @ + 1] /\ This(p).op = "open"
        /\ Moves(This(p), Phase(p), (Phase(p))')
        /\ \A i \in Opened(Phase(p)) : Phase(p) \in {"one", "two"} => Alive(p, i)
    BY <1>5, <2>1
  <2>3. PICK j \in Ids :
           /\ j = This(p).id
           /\ Opened(Phase(p))' = Opened(Phase(p)) \cup {j}
           /\ \A i \in Opened(Phase(p)) : i \in Ids \ {j} /\ Alive(p, i)
    BY <2>2 DEF Moves, Opened, Ids
  <2>4. PICK k \in OpenKinds(p), h \in Handles :
           /\ table[h] = Free
           /\ \/ /\ table' = [table EXCEPT ![h] = p]
                 /\ sess' = [sess EXCEPT ![p][This(p).id] = [handle |-> h, kind |-> k]]
                 /\ ret' = [ret EXCEPT ![p] = "ok"]
                 /\ GoOn(p)
              \/ /\ table' = [table EXCEPT ![h] = Stale]
                 /\ Fail(p, "io")
                 /\ UNCHANGED sess
    BY <1>7 DEF OpenSession
  <2>5. ~ Fail(p, "io")
    <3>1. at[p] \in 1..Len(Steps(p)) /\ Len(Steps(p)) \in Nat /\ Steps(p)' = Steps(p)
      BY <2>1, CommandTypes DEF AtStep, Steps
    <3> QED
      BY <3>1 DEF Fail, TypeOK
  <2>6. /\ table'[h] = p /\ \A g \in Handles \ {h} : table'[g] = table[g]
        /\ sess'[p][j].handle = h
        /\ \A i \in Ids \ {j} : sess'[p][i] = sess[p][i]
    BY <2>3, <2>4, <2>5 DEF TypeOK
  <2>7. \A i \in Opened(Phase(p)) : Alive(p, i)'
    BY <2>3, <2>4, <2>6, OwnersAssumption DEF Alive
  <2>8. Alive(p, j)'
    BY <2>6 DEF Alive
  <2> QED
    BY <2>3, <2>7, <2>8
<1>8. CASE \/ RoomStep(p) \/ NonceStep(p) \/ OnErrorStep(p) \/ OnlyIfBadOrdinalStep(p)
           \/ OpenFails(p) \/ Executed(p) \/ Refused(p) \/ NotDelivered(p)
           \/ CloseStep(p) \/ CheckStep(p)
  <2>1. PICK op : /\ AtStep(p, op)
                  /\ op \in {"room", "nonce", "onError", "onlyIfBadOrdinal", "open", "transmit",
                             "close", "check"}
                  /\ op = "open" => at' = [at EXCEPT ![p] = Len(Steps(p)) + 1]
    BY <1>8 DEF RoomStep, NonceStep, OnErrorStep, OnlyIfBadOrdinalStep, OpenFails, Executed,
       Refused, NotDelivered, CloseStep, CheckStep, Fail
  <2>2. /\ cmd' = cmd
        /\ \/ at' = [at EXCEPT ![p] = @ + 1]
           \/ at' = [at EXCEPT ![p] = Len(Steps(p)) + 1]
    BY <1>8 DEF RoomStep, NonceStep, OnErrorStep, OnlyIfBadOrdinalStep, OpenFails, Executed,
       Refused, NotDelivered, CloseStep, CheckStep, Fail, GoOn, Sent
  <2>3. /\ This(p).op = op /\ at' = [at EXCEPT ![p] = @ + 1]
        /\ Moves(This(p), Phase(p), (Phase(p))')
    BY <1>5, <2>1, <2>2
  <2>4. op = "open"
    BY <2>1, <2>3 DEF Moves
  <2>5. at[p] \in 1..Len(Steps(p)) /\ Len(Steps(p)) \in Nat /\ Steps(p)' = Steps(p)
    BY <2>1, <2>2, CommandTypes DEF AtStep, Steps
  <2> QED
    BY <2>1, <2>4, <2>5 DEF TypeOK
<1> QED
  BY <1>2, <1>3, <1>4, <1>6, <1>7, <1>8 DEF LibraryStep

\* Every step of the only caller keeps its sessions alive.
LEMMA AliveStep ==
    ASSUME TypeOK, CommandsDisciplined, NEW p, Callers = {p}, PhaseInv, AliveInv, [Next]_vars
    PROVE  AliveInv'
<1>1. CASE LibraryStep(p)
  BY <1>1, AlivePreserved
<1>2. CASE Reboot \/ KillProcess(p)
  BY <1>2 DEF Reboot, KillProcess, AliveInv, InCall, TypeOK
<1>3. CASE UNCHANGED vars
  BY <1>3 DEF vars, AliveInv, InCall, Steps, Phase, Alive
<1> QED
  BY <1>1, <1>2, <1>3 DEF Next

\* SessionsAlive for a caller that has the TPM to itself: the sessions it sends
\* a command with are open in the TPM, and its own.
THEOREM SessionsAreAlive ==
    ASSUME NEW p, Callers = {p}, Commands \subseteq AllCommands
    PROVE  Spec => []SessionsAlive
<1>1. Init => AliveInv
  BY DEF Init, AliveInv, InCall
<1>2. TypeOK /\ PhaseInv /\ AliveInv /\ [Next]_vars => AliveInv'
  BY AliveStep, LibtpmDisciplined
<1>3. TypeOK /\ PhaseInv /\ AliveInv => SessionsAlive
  <2> SUFFICES ASSUME TypeOK, PhaseInv, AliveInv, AtStep(p, "transmit"),
                      NEW k \in 1..Len(This(p).held)
               PROVE  \E h \in Handles : h = sess[p][This(p).held[k]].handle /\ table[h] = p
    BY DEF SessionsAlive
  <2>1. /\ InCall(p) /\ at[p] <= Len(Steps(p)) /\ This(p).op = "transmit"
        /\ \E b \in Phases : Moves(This(p), Phase(p), b)
    BY CommandTypes, PhaseOfStep, LibtpmDisciplined DEF AtStep
  <2>2. /\ Phase(p) \in {"one", "two"}
        /\ This(p).held[k] \in Opened(Phase(p))
    BY <2>1 DEF Moves, Opened
  <2> QED
    BY <2>1, <2>2 DEF AliveInv, Alive
<1> QED
  BY <1>1, <1>2, <1>3, LibtpmDisciplined, PhaseInvHolds, PTL DEF Spec
=============================================================================
