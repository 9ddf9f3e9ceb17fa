------------------------ MODULE LibtpmPhases_proofs ------------------------
EXTENDS LibtpmPhases, LibtpmCommands, SequenceTheorems, TLAPS

(* Sequences of steps.                                                     *)

\* One step that its phase allows leads to the next phase.
LEMMA OneStep ==
    ASSUME NEW name, NEW st \in Step, NEW a \in Phases, NEW b \in Phases,
           Moves(st, a, b), Closes(name, st, a)
    PROVE  Leads(name, <<st>>, a, b)
<1> DEFINE s == <<st>>
           ph == [i \in 1..2 |-> IF i = 1 THEN a ELSE b]
<1>1. s \in Seq(Step) /\ Len(s) = 1 /\ s[1] = st
  OBVIOUS
<1>2. ph \in [1..2 -> Phases] /\ ph[1] = a /\ ph[2] = b
  OBVIOUS
<1>3. Phased(name, s, ph)
  BY <1>1, <1>2 DEF Phased
<1> QED
  BY <1>1, <1>2, <1>3 DEF Leads

\* What leads from a to b, followed by what leads from b to c, leads from a
\* to c.
LEMMA Then ==
    ASSUME NEW name, NEW s, NEW t, NEW a, NEW b, NEW c,
           Leads(name, s, a, b), Leads(name, t, b, c)
    PROVE  Leads(name, s \o t, a, c)
<1>1. PICK f : Phased(name, s, f) /\ f[1] = a /\ f[Len(s)+1] = b
  BY DEF Leads
<1>2. PICK g : Phased(name, t, g) /\ g[1] = b /\ g[Len(t)+1] = c
  BY DEF Leads
<1> DEFINE h == [i \in 1..(Len(s)+Len(t)+1) |->
                    IF i <= Len(s) THEN f[i] ELSE g[i - Len(s)]]
<1>3. /\ s \in Seq(Step) /\ t \in Seq(Step) /\ s \o t \in Seq(Step)
      /\ Len(s) \in Nat /\ Len(t) \in Nat /\ Len(s \o t) = Len(s) + Len(t)
      /\ \A i \in 1..Len(s) : (s \o t)[i] = s[i]
      /\ \A i \in 1..Len(t) : (s \o t)[Len(s) + i] = t[i]
  BY ConcatProperties DEF Leads
<1>4. /\ \A i \in 1..Len(s)+1 : h[i] = f[i]
      /\ \A i \in 1..Len(t)+1 : h[Len(s) + i] = g[i]
  BY <1>1, <1>2, <1>3
<1>5. h \in [1..(Len(s)+Len(t)+1) -> Phases]
  BY <1>1, <1>2, <1>3 DEF Phased
<1> HIDE DEF h
<1>6. ASSUME NEW i \in 1..(Len(s)+Len(t))
      PROVE  Moves((s \o t)[i], h[i], h[i+1]) /\ Closes(name, (s \o t)[i], h[i])
  <2>1. CASE i <= Len(s)
    <3>1. i \in 1..Len(s) /\ i+1 \in 1..Len(s)+1
      BY <2>1, <1>3
    <3>2. h[i] = f[i]
      <4>1. i \in 1..Len(s)+1
        BY <3>1, <1>3
      <4> QED
        BY <4>1, <1>4
    <3>3. h[i+1] = f[i+1] /\ (s \o t)[i] = s[i]
      BY <3>1, <1>3, <1>4
    <3> QED
      BY <3>1, <3>2, <3>3, <1>1 DEF Phased
  <2>2. CASE ~ (i <= Len(s))
    <3>1. PICK j \in 1..Len(t) : i = Len(s) + j
      <4>1. i - Len(s) \in 1..Len(t) /\ i = Len(s) + (i - Len(s))
        BY <2>2, <1>3
      <4> QED
        BY <4>1
    <3>2. j+1 \in 1..Len(t)+1 /\ j \in 1..Len(t)+1 /\ i+1 = Len(s) + (j+1)
      BY <3>1, <1>3
    <3> QED
      BY <3>1, <3>2, <1>2, <1>3, <1>4 DEF Phased
  <2> QED
    BY <2>1, <2>2
<1>7. Phased(name, s \o t, h)
  BY <1>3, <1>5, <1>6 DEF Phased
<1>8. h[1] = a /\ h[Len(s \o t)+1] = c
  <2>1. 1 \in 1..Len(s)+1 /\ Len(t)+1 \in 1..Len(t)+1 /\ Len(s \o t)+1 = Len(s) + (Len(t)+1)
    BY <1>3
  <2> QED
    BY <2>1, <1>1, <1>2, <1>4
<1> QED
  BY <1>3, <1>7, <1>8 DEF Leads
-----------------------------------------------------------------------------
(* The steps.                                                              *)

USE DEF Phases, Opened

\* What the functions open sessions of, and for.
LEMMA KindSets ==
    /\ Kinds \in SUBSET Kinds
    /\ OIAP \in SUBSET Kinds /\ OSAP \in SUBSET Kinds
    /\ OsapOiap \in SUBSET Kinds /\ OsapDsap \in SUBSET Kinds
    /\ {"key", "owner", "nv", "counter", "none"} \subseteq Entities
BY DEF Kinds, OIAP, OSAP, OsapOiap, OsapDsap, Entities

\* The lists of sessions that occur, and what they hold.
LEMMA HeldLists ==
    /\ <<>> \in Seq(Ids) /\ <<1>> \in Seq(Ids) /\ <<1, 2>> \in Seq(Ids)
    /\ Members(<<>>) = {} /\ Members(<<1>>) = {1} /\ Members(<<1, 2>>) = {1, 2}
BY DEF Ids, Members

\* A step of any kind, as the definitions of TssSteps build it.
LEMMA StepLeads ==
    ASSUME NEW name, NEW op \in Ops, NEW id \in {0} \cup Ids, NEW held \in Seq(Ids),
           NEW kinds \in SUBSET Kinds, NEW entity \in Entities,
           NEW a \in Phases, NEW b \in Phases,
           Moves([op |-> op, id |-> id, held |-> held, kinds |-> kinds,
                  entity |-> entity], a, b),
           \/ Opened(a) \subseteq Members(held)
           \/ op = "transmit"
           \/ op = "compute" /\ name \in Leaks,
           op # "nonce" \/ name \in NonceIgnored
    PROVE  Leads(name, StepOf(op, id, held, kinds, entity), a, b)
<1> DEFINE st == [op |-> op, id |-> id, held |-> held, kinds |-> kinds, entity |-> entity]
<1>1. st \in Step /\ Closes(name, st, a)
  BY DEF Step, Closes
<1> QED
  BY <1>1, OneStep DEF StepOf

\* Local work: where nothing is open it need not close anything; with sessions
\* open it closes them, or is in one of the functions that forget to.
LEMMA ComputeLeads ==
    ASSUME NEW name
    PROVE  /\ Leads(name, Local, "idle", "idle") /\ Leads(name, Local, "executed", "executed")
           /\ Leads(name, Local, "checked", "checked") /\ Leads(name, Local, "answered", "answered")
           /\ Leads(name, Local, "compared", "executed")
           /\ name \in Leaks => Leads(name, Local, "one", "one")
           /\ Leads(name, Compute(<<1>>), "idle", "idle")
           /\ Leads(name, Compute(<<1>>), "one", "one")
           /\ Leads(name, Compute(<<1, 2>>), "two", "two")
<1> USE DEF Moves, Local, Compute
<1>1. /\ "compute" \in Ops /\ "compute" # "nonce"
      /\ 0 \in {0} \cup Ids /\ {} \in SUBSET Kinds /\ "none" \in Entities
  BY DEF Ops, Ids, Entities
<1>2. /\ Leads(name, Local, "idle", "idle") /\ Leads(name, Local, "executed", "executed")
      /\ Leads(name, Local, "checked", "checked") /\ Leads(name, Local, "answered", "answered")
  <2>1. Leads(name, Local, "idle", "idle")
    BY <1>1, StepLeads, HeldLists, ZenonT(40)
  <2>2. Leads(name, Local, "executed", "executed")
    BY <1>1, StepLeads, HeldLists, ZenonT(40)
  <2>3. Leads(name, Local, "checked", "checked")
    BY <1>1, StepLeads, HeldLists, ZenonT(40)
  <2>4. Leads(name, Local, "answered", "answered")
    BY <1>1, StepLeads, HeldLists, ZenonT(40)
  <2> QED
    BY <2>1, <2>2, <2>3, <2>4
<1>3. Leads(name, Local, "compared", "executed")
  BY <1>1, StepLeads, HeldLists, ZenonT(40)
<1>4. name \in Leaks => Leads(name, Local, "one", "one")
  BY <1>1, StepLeads, HeldLists, ZenonT(40)
<1>5. Leads(name, Compute(<<1>>), "idle", "idle")
  BY <1>1, StepLeads, HeldLists, ZenonT(40)
<1>6. Leads(name, Compute(<<1>>), "one", "one")
  BY <1>1, StepLeads, HeldLists, ZenonT(40)
<1>7. Leads(name, Compute(<<1, 2>>), "two", "two")
  BY <1>1, StepLeads, HeldLists, ZenonT(40)
<1> QED
  BY <1>2, <1>3, <1>4, <1>5, <1>6, <1>7

\* Room for a key is made, and the nonce drawn that may be missing, with
\* nothing open.
LEMMA RoomLeads ==
    ASSUME NEW name
    PROVE  /\ Leads(name, NeedKeysRoom, "idle", "idle")
           /\ name \in NonceIgnored => Leads(name, Nonce, "idle", "idle")
<1>1. /\ "room" \in Ops /\ "room" # "nonce" /\ "nonce" \in Ops
      /\ 0 \in {0} \cup Ids /\ {} \in SUBSET Kinds /\ "none" \in Entities
  BY DEF Ops, Ids, Entities
<1>2. Leads(name, NeedKeysRoom, "idle", "idle")
  BY <1>1, StepLeads, HeldLists DEF Moves, NeedKeysRoom
<1>3. name \in NonceIgnored => Leads(name, Nonce, "idle", "idle")
  BY <1>1, StepLeads, HeldLists DEF Moves, Nonce
<1> QED
  BY <1>2, <1>3

\* The first session is opened with nothing to close, the second with the
\* first to close.
LEMMA OpenLeads ==
    ASSUME NEW name, NEW kinds \in SUBSET Kinds, NEW entity \in Entities
    PROVE  /\ Leads(name, SessionOpen(1, kinds, entity, <<>>), "idle", "one")
           /\ Leads(name, SessionOpen(2, kinds, entity, <<1>>), "one", "two")
<1> USE DEF Moves, SessionOpen
<1>1. "open" \in Ops /\ "open" # "nonce" /\ 1 \in {0} \cup Ids /\ 2 \in {0} \cup Ids
  BY DEF Ops, Ids
<1>2. Leads(name, SessionOpen(1, kinds, entity, <<>>), "idle", "one")
  BY <1>1, StepLeads, HeldLists, ZenonT(40)
<1>3. Leads(name, SessionOpen(2, kinds, entity, <<1>>), "one", "two")
  BY <1>1, StepLeads, HeldLists, ZenonT(40)
<1> QED
  BY <1>2, <1>3

\* A command is sent with the sessions that are open.
LEMMA TransmitLeads ==
    ASSUME NEW name
    PROVE  /\ Leads(name, Transmit(<<>>), "idle", "asked")
           /\ Leads(name, Transmit(<<1>>), "one", "sentOne")
           /\ Leads(name, Transmit(<<1, 2>>), "two", "sentTwo")
<1> USE DEF Moves, Transmit
<1>1. /\ "transmit" \in Ops /\ "transmit" # "nonce"
      /\ 0 \in {0} \cup Ids /\ {} \in SUBSET Kinds /\ "none" \in Entities
  BY DEF Ops, Ids, Entities
<1>2. Leads(name, Transmit(<<>>), "idle", "asked")
  BY <1>1, StepLeads, HeldLists, ZenonT(40)
<1>3. Leads(name, Transmit(<<1>>), "one", "sentOne")
  BY <1>1, StepLeads, HeldLists, ZenonT(40)
<1>4. Leads(name, Transmit(<<1, 2>>), "two", "sentTwo")
  BY <1>1, StepLeads, HeldLists, ZenonT(40)
<1> QED
  BY <1>2, <1>3, <1>4

\* What was sent with a command is closed; Quote2 closes what it never opened.
LEMMA CloseLeads ==
    ASSUME NEW name
    PROVE  /\ Leads(name, SessionClose(<<1>>), "sentOne", "sent")
           /\ Leads(name, SessionClose(<<1, 2>>), "sentTwo", "sent")
           /\ Leads(name, SessionClose(<<1>>), "asked", "asked")
<1> USE DEF Moves, SessionClose
<1>1. /\ "close" \in Ops /\ "close" # "nonce"
      /\ 0 \in {0} \cup Ids /\ {} \in SUBSET Kinds /\ "none" \in Entities
  BY DEF Ops, Ids, Entities
<1>2. Leads(name, SessionClose(<<1>>), "sentOne", "sent")
  BY <1>1, StepLeads, HeldLists, ZenonT(40)
<1>3. Leads(name, SessionClose(<<1, 2>>), "sentTwo", "sent")
  BY <1>1, StepLeads, HeldLists, ZenonT(40)
<1>4. Leads(name, SessionClose(<<1>>), "asked", "asked")
  BY <1>1, StepLeads, HeldLists, ZenonT(40)
<1> QED
  BY <1>2, <1>3, <1>4

\* The result is looked at, after a command or after the check of its HMAC.
LEMMA ResultLeads ==
    ASSUME NEW name
    PROVE  /\ Leads(name, OnError(<<1>>), "sentOne", "executed")
           /\ Leads(name, OnError(<<>>), "sent", "executed")
           /\ Leads(name, OnError(<<>>), "compared", "checked")
           /\ Leads(name, OnError(<<>>), "asked", "answered")
           /\ Leads(name, OnError(<<>>), "answered", "idle")
           /\ Leads(name, OnlyIfBadOrdinal, "asked", "idle")
           /\ Leads(name, CheckHmac, "executed", "compared")
<1> USE DEF Moves, OnError, OnlyIfBadOrdinal, CheckHmac
<1>1. /\ "onError" \in Ops /\ "onlyIfBadOrdinal" \in Ops /\ "check" \in Ops
      /\ "onError" # "nonce" /\ "onlyIfBadOrdinal" # "nonce" /\ "check" # "nonce"
      /\ 0 \in {0} \cup Ids /\ {} \in SUBSET Kinds /\ "none" \in Entities
  BY DEF Ops, Ids, Entities
<1>2. Leads(name, OnError(<<1>>), "sentOne", "executed")
  BY <1>1, StepLeads, HeldLists, ZenonT(40)
<1>3. Leads(name, OnError(<<>>), "sent", "executed")
  BY <1>1, StepLeads, HeldLists, ZenonT(40)
<1>4. Leads(name, OnError(<<>>), "compared", "checked")
  BY <1>1, StepLeads, HeldLists, ZenonT(40)
<1>5. Leads(name, OnError(<<>>), "asked", "answered")
  BY <1>1, StepLeads, HeldLists, ZenonT(40)
<1>6. Leads(name, OnError(<<>>), "answered", "idle")
  BY <1>1, StepLeads, HeldLists, ZenonT(40)
<1>7. Leads(name, OnlyIfBadOrdinal, "asked", "idle")
  BY <1>1, StepLeads, HeldLists, ZenonT(40)
<1>8. Leads(name, CheckHmac, "executed", "compared")
  BY <1>1, StepLeads, HeldLists, ZenonT(40)
<1> QED
  BY <1>2, <1>3, <1>4, <1>5, <1>6, <1>7, <1>8
-----------------------------------------------------------------------------
(* The passages.  Prepares: what a function does before it opens a session *)
(* or sends a command without one; Authorises: from the opening of its     *)
(* sessions to the answer.                                                 *)

Prepares(name, s) == Leads(name, s, "idle", "idle")
Authorises(name, s) == Leads(name, s, "idle", "executed")

\* A command without a session.
LEMMA AskLeads ==
    ASSUME NEW name
    PROVE  /\ Leads(name, Ask, "idle", "asked")
           /\ Leads(name, AskOk, "idle", "answered")
           /\ Leads(name, AskSized, "idle", "answered")
<1>1. Leads(name, Ask, "idle", "asked")
  BY Then, ComputeLeads, TransmitLeads DEF Ask
<1>2. Leads(name, AskOk, "idle", "answered")
  BY <1>1, Then, ResultLeads DEF AskOk
<1>3. Leads(name, AskSized, "idle", "answered")
  BY <1>2, Then, ComputeLeads DEF AskSized
<1> QED
  BY <1>1, <1>2, <1>3

\* A command with the sessions that are open.
LEMMA SendLeads ==
    ASSUME NEW name
    PROVE  /\ Leads(name, Send1, "one", "sent")
           /\ Leads(name, Send1Ok, "one", "executed")
           /\ Leads(name, Send2Ok, "two", "executed")
<1>1. Leads(name, Send1, "one", "sent")
  <2>1. Leads(name, Compute(<<1>>) \o Transmit(<<1>>), "one", "sentOne")
    BY Then, ComputeLeads, TransmitLeads
  <2> QED
    BY <2>1, Then, CloseLeads DEF Send1
<1>2. Leads(name, Send1Ok, "one", "executed")
  BY <1>1, Then, ResultLeads DEF Send1Ok
<1>3. Leads(name, Send2Ok, "two", "executed")
  <2>1. Leads(name, Compute(<<1, 2>>) \o Transmit(<<1, 2>>), "two", "sentTwo")
    BY Then, ComputeLeads, TransmitLeads
  <2>2. Leads(name, Compute(<<1, 2>>) \o Transmit(<<1, 2>>) \o SessionClose(<<1, 2>>),
              "two", "sent")
    BY <2>1, Then, CloseLeads
  <2> QED
    BY <2>2, Then, ResultLeads DEF Send2Ok
<1> QED
  BY <1>1, <1>2, <1>3

\* From the opening of the sessions to the answer.  Where the nonce is drawn
\* with the session open, the function must be one of those that may leave it.
LEMMA AuthorisesLeads ==
    ASSUME NEW name, NEW kinds \in SUBSET Kinds, NEW entity \in Entities
    PROVE  /\ Authorises(name, Auth1(kinds, entity))
           /\ name \in Leaks => Authorises(name, NonceLateAuth1(kinds, entity))
           /\ \A kinds2 \in SUBSET Kinds, entity2 \in Entities :
                 Authorises(name, Auth2(kinds, entity, kinds2, entity2))
<1> USE DEF Authorises
<1>1. Leads(name, SessionOpen(1, kinds, entity, <<>>), "idle", "one")
  BY OpenLeads
<1>2. Leads(name, Auth1(kinds, entity), "idle", "executed")
  BY <1>1, Then, SendLeads DEF Auth1
<1>3. ASSUME name \in Leaks
      PROVE  Leads(name, NonceLateAuth1(kinds, entity), "idle", "executed")
  <2>1. Leads(name, SessionOpen(1, kinds, entity, <<>>) \o Local, "idle", "one")
    BY <1>1, <1>3, Then, ComputeLeads
  <2> QED
    BY <2>1, Then, SendLeads DEF NonceLateAuth1
<1>4. ASSUME NEW kinds2 \in SUBSET Kinds, NEW entity2 \in Entities
      PROVE  Leads(name, Auth2(kinds, entity, kinds2, entity2), "idle", "executed")
  <2>1. Leads(name, SessionOpen(2, kinds2, entity2, <<1>>), "one", "two")
    BY OpenLeads
  <2>2. Leads(name, SessionOpen(1, kinds, entity, <<>>)
                    \o SessionOpen(2, kinds2, entity2, <<1>>), "idle", "two")
    BY <1>1, <2>1, Then
  <2> QED
    BY <2>2, Then, SendLeads DEF Auth2
<1> QED
  BY <1>2, <1>3, <1>4

\* The HMAC of the answer is checked, and the result of that looked at.
LEMMA CheckOkLeads ==
    ASSUME NEW name
    PROVE  Leads(name, CheckOk, "executed", "checked")
BY Then, ResultLeads DEF CheckOk
\* A function that calls another with no session open, and returns its error,
\* is where it was.
LEMMA CallLeads ==
    ASSUME NEW name
    PROVE  /\ Prepares(name, CallOk(TPM_ReadPubek))
           /\ Prepares(name, CallOk(TPM_GetCapability))
<1>1. ASSUME NEW called, NEW s, Leads(name, s, "idle", "answered")
      PROVE  Prepares(name, CallOk(Command(called, {s})))
  <2> DEFINE y == CHOOSE x \in Command(called, {s}) : TRUE
  <2>1. Command(called, {s}) = {[name |-> called, steps |-> s]}
    BY DEF Command
  <2>2. y \in Command(called, {s})
    <3>1. \E x : x \in Command(called, {s})
      BY <2>1
    <3> QED
      BY <3>1
  <2>3. CallOk(Command(called, {s})) = s \o OnError(<<>>)
    <3>1. CallOk(Command(called, {s})) = y.steps \o OnError(<<>>)
      BY DEF CallOk
    <3> HIDE DEF y
    <3>2. y.steps = s
      BY <2>1, <2>2
    <3> QED
      BY <3>1, <3>2
  <2>4. Leads(name, s \o OnError(<<>>), "idle", "idle")
    BY <1>1, Then, ResultLeads
  <2> QED
    BY <2>3, <2>4 DEF Prepares
<1>2. /\ Leads(name, Local \o Local \o AskSized, "idle", "answered")
      /\ Leads(name, Local \o AskSized, "idle", "answered")
  <2>1. Leads(name, Local \o Local, "idle", "idle")
    BY Then, ComputeLeads
  <2> QED
    BY <2>1, Then, ComputeLeads, AskLeads
<1> QED
  BY <1>1, <1>2 DEF TPM_ReadPubek, TPM_GetCapability

\* The beginnings of the functions.
LEMMA PreparesLeads ==
    ASSUME NEW name
    PROVE  /\ Prepares(name, Local)
           /\ Prepares(name, NeedKeysRoom)
           /\ Prepares(name, Local \o Local)
           /\ Prepares(name, Local \o NeedKeysRoom)
           /\ Prepares(name, NeedKeysRoom \o Local)
           /\ Prepares(name, Local \o NeedKeysRoom \o Local)
           /\ \A version \in {<<>>, CallOk(TPM_GetCapability)} :
                 /\ Prepares(name, Local \o NeedKeysRoom \o version)
                 /\ Prepares(name, Local \o CallOk(TPM_ReadPubek) \o Local \o version)
<1> USE DEF Prepares
<1>1. Leads(name, Local, "idle", "idle") /\ Leads(name, NeedKeysRoom, "idle", "idle")
  BY ComputeLeads, RoomLeads
<1>2. /\ Leads(name, Local \o Local, "idle", "idle")
      /\ Leads(name, Local \o NeedKeysRoom, "idle", "idle")
      /\ Leads(name, NeedKeysRoom \o Local, "idle", "idle")
  BY <1>1, Then
<1>3. Leads(name, Local \o NeedKeysRoom \o Local, "idle", "idle")
  BY <1>1, <1>2, Then
<1>4. ASSUME NEW version \in {<<>>, CallOk(TPM_GetCapability)}
      PROVE  Leads(name, version, "idle", "idle")
  <2>1. Leads(name, <<>>, "idle", "idle")
    <3> DEFINE ph == [i \in 1..1 |-> "idle"]
    <3>1. <<>> \in Seq(Step) /\ Phased(name, <<>>, ph) /\ ph[1] = "idle"
      BY DEF Phased
    <3> QED
      BY <3>1 DEF Leads
  <2> QED
    BY <2>1, CallLeads
<1>5. Leads(name, Local \o CallOk(TPM_ReadPubek) \o Local, "idle", "idle")
  <2>1. Leads(name, Local \o CallOk(TPM_ReadPubek), "idle", "idle")
    BY <1>1, CallLeads, Then
  <2> QED
    BY <1>1, <2>1, Then
<1>6. ASSUME NEW version \in {<<>>, CallOk(TPM_GetCapability)}
      PROVE  /\ Leads(name, Local \o NeedKeysRoom \o version, "idle", "idle")
             /\ Leads(name, Local \o CallOk(TPM_ReadPubek) \o Local \o version, "idle", "idle")
  BY <1>2, <1>4, <1>5, Then
<1> QED
  BY <1>1, <1>2, <1>3, <1>6

\* The beginnings that end with the nonce that may be missing.
LEMMA NoncePrepares ==
    ASSUME NEW name \in NonceIgnored
    PROVE  /\ Prepares(name, Local \o Nonce)
           /\ Prepares(name, NeedKeysRoom \o Nonce)
           /\ \A version \in {<<>>, CallOk(TPM_GetCapability)} :
                 Prepares(name, Local \o CallOk(TPM_ReadPubek) \o Local \o version \o Nonce)
<1> USE DEF Prepares
<1>1. Leads(name, Local \o Nonce, "idle", "idle")
  BY PreparesLeads, RoomLeads, Then
<1>2. Leads(name, NeedKeysRoom \o Nonce, "idle", "idle")
  BY PreparesLeads, RoomLeads, Then
<1>3. ASSUME NEW version \in {<<>>, CallOk(TPM_GetCapability)}
      PROVE  Leads(name, Local \o CallOk(TPM_ReadPubek) \o Local \o version \o Nonce,
                   "idle", "idle")
  BY PreparesLeads, RoomLeads, Then
<1> QED
  BY <1>1, <1>2, <1>3

\* The programs with sessions: how they go on from the answer.  The first
\* three ends are of functions that check its HMAC; the last two of those that
\* do not look at it, or not at the result of the check.
LEMMA SessionPrograms ==
    ASSUME NEW name, NEW pre, Prepares(name, pre), NEW body, Authorises(name, body)
    PROVE  /\ Leads(name, pre \o body \o CheckHmac, "idle", "compared")
           /\ Leads(name, pre \o body \o Local \o CheckHmac, "idle", "compared")
           /\ Leads(name, pre \o body \o CheckOk, "idle", "checked")
           /\ Leads(name, pre \o body \o CheckOk \o Local, "idle", "checked")
           /\ Leads(name, pre \o body \o Local \o CheckOk, "idle", "checked")
           /\ Leads(name, pre \o body \o Local \o CheckOk \o Local, "idle", "checked")
           /\ Leads(name, pre \o body \o Local, "idle", "executed")
           /\ Leads(name, pre \o body \o Local \o CheckHmac \o Local, "idle", "executed")
<1>1. Leads(name, pre \o body, "idle", "executed")
  BY Then DEF Prepares, Authorises
<1>2. Leads(name, pre \o body \o Local, "idle", "executed")
  BY <1>1, Then, ComputeLeads
<1>3. /\ Leads(name, pre \o body \o CheckHmac, "idle", "compared")
      /\ Leads(name, pre \o body \o Local \o CheckHmac, "idle", "compared")
  BY <1>1, <1>2, Then, ResultLeads
<1>4. /\ Leads(name, pre \o body \o CheckOk, "idle", "checked")
      /\ Leads(name, pre \o body \o Local \o CheckOk, "idle", "checked")
  BY <1>1, <1>2, Then, CheckOkLeads
<1>5. /\ Leads(name, pre \o body \o CheckOk \o Local, "idle", "checked")
      /\ Leads(name, pre \o body \o Local \o CheckOk \o Local, "idle", "checked")
  BY <1>4, Then, ComputeLeads
<1>6. Leads(name, pre \o body \o Local \o CheckHmac \o Local, "idle", "executed")
  BY <1>3, Then, ComputeLeads
<1> QED
  BY <1>2, <1>3, <1>4, <1>5, <1>6

\* The programs without.
LEMMA AskPrograms ==
    ASSUME NEW name, NEW pre, Prepares(name, pre)
    PROVE  /\ Leads(name, pre \o Transmit(<<>>), "idle", "asked")
           /\ Leads(name, pre \o Transmit(<<>>) \o OnError(<<>>) \o Local, "idle", "answered")
           /\ Leads(name, pre \o Ask, "idle", "asked")
           /\ Leads(name, pre \o AskOk, "idle", "answered")
           /\ Leads(name, pre \o AskSized, "idle", "answered")
<1>1. /\ Leads(name, pre \o Transmit(<<>>), "idle", "asked")
      /\ Leads(name, pre \o Ask, "idle", "asked")
      /\ Leads(name, pre \o AskOk, "idle", "answered")
      /\ Leads(name, pre \o AskSized, "idle", "answered")
  BY Then, TransmitLeads, AskLeads DEF Prepares
<1>2. Leads(name, pre \o Transmit(<<>>) \o OnError(<<>>), "idle", "answered")
  BY <1>1, Then, ResultLeads
<1>3. Leads(name, pre \o Transmit(<<>>) \o OnError(<<>>) \o Local, "idle", "answered")
  BY <1>2, Then, ComputeLeads
<1> QED
  BY <1>1, <1>3

\* The programs that begin with the first session or the first request.
LEMMA BarePrograms ==
    ASSUME NEW name
    PROVE  /\ \A body : Authorises(name, body) =>
                 /\ Leads(name, body \o CheckHmac, "idle", "compared")
                 /\ Leads(name, body \o CheckOk, "idle", "checked")
           /\ Leads(name, Transmit(<<>>), "idle", "asked")
           /\ Leads(name, Transmit(<<>>) \o OnError(<<>>), "idle", "answered")
           /\ Leads(name, Transmit(<<>>) \o OnError(<<>>) \o Local, "idle", "answered")
           /\ Leads(name, Ask, "idle", "asked")
           /\ Leads(name, AskOk, "idle", "answered")
           /\ Leads(name, AskSized, "idle", "answered")
<1>1. ASSUME NEW body, Authorises(name, body)
      PROVE  /\ Leads(name, body \o CheckHmac, "idle", "compared")
             /\ Leads(name, body \o CheckOk, "idle", "checked")
  BY <1>1, Then, ResultLeads, CheckOkLeads DEF Authorises
<1>2. Leads(name, Transmit(<<>>) \o OnError(<<>>), "idle", "answered")
  BY Then, TransmitLeads, ResultLeads
<1>3. Leads(name, Transmit(<<>>) \o OnError(<<>>) \o Local, "idle", "answered")
  BY <1>2, Then, ComputeLeads
<1> QED
  BY <1>1, <1>2, <1>3, TransmitLeads, AskLeads
\* The functions that return right after the session was closed.
LEMMA UncheckedPrograms ==
    ASSUME NEW name, NEW kinds \in SUBSET Kinds, NEW entity \in Entities
    PROVE  /\ Leads(name, SessionOpen(1, kinds, entity, <<>>) \o Send1, "idle", "sent")
           /\ \A pre : Prepares(name, pre) =>
                 Leads(name, pre \o SessionOpen(1, kinds, entity, <<>>) \o Send1, "idle", "sent")
<1>1. Leads(name, SessionOpen(1, kinds, entity, <<>>), "idle", "one")
  BY OpenLeads
<1>2. ASSUME NEW pre, Prepares(name, pre)
      PROVE  Leads(name, pre \o SessionOpen(1, kinds, entity, <<>>) \o Send1, "idle", "sent")
  <2>1. Leads(name, pre \o SessionOpen(1, kinds, entity, <<>>), "idle", "one")
    BY <1>1, <1>2, Then DEF Prepares
  <2> QED
    BY <2>1, Then, SendLeads
<1> QED
  BY <1>1, <1>2, Then, SendLeads

\* The functions that build the request with the session open and leave it
\* when they cannot; the last one closes it only when the TPM refuses.
LEMMA LeavingPrograms ==
    ASSUME NEW name \in Leaks, NEW pre, Prepares(name, pre),
           NEW kinds \in SUBSET Kinds, NEW entity \in Entities
    PROVE  /\ Leads(name, pre \o SessionOpen(1, kinds, entity, <<>>) \o Compute(<<1>>)
                             \o Local \o Transmit(<<1>>) \o SessionClose(<<1>>)
                             \o OnError(<<>>) \o Local \o CheckOk, "idle", "checked")
           /\ Leads(name, pre \o SessionOpen(1, kinds, entity, <<>>) \o Compute(<<1>>)
                             \o Local \o Transmit(<<1>>) \o SessionClose(<<1>>)
                             \o OnError(<<>>) \o Local \o CheckOk \o Local, "idle", "checked")
           /\ Leads(name, pre \o SessionOpen(1, kinds, entity, <<>>) \o Compute(<<1>>)
                             \o Local \o Transmit(<<1>>) \o OnError(<<1>>) \o Local
                             \o CheckOk, "idle", "checked")
<1> DEFINE opened == pre \o SessionOpen(1, kinds, entity, <<>>) \o Compute(<<1>>) \o Local
           sent == opened \o Transmit(<<1>>)
           closed == sent \o SessionClose(<<1>>)
<1>1. Leads(name, opened, "idle", "one")
  <2>1. Leads(name, pre \o SessionOpen(1, kinds, entity, <<>>), "idle", "one")
    BY OpenLeads, Then DEF Prepares
  <2>2. Leads(name, pre \o SessionOpen(1, kinds, entity, <<>>) \o Compute(<<1>>), "idle", "one")
    BY <2>1, ComputeLeads, Then
  <2> QED
    BY <2>2, ComputeLeads, Then
<1> HIDE DEF opened
<1>2. Leads(name, sent, "idle", "sentOne")
  BY <1>1, TransmitLeads, Then
<1> HIDE DEF sent
<1>3. Leads(name, closed, "idle", "sent")
  BY <1>2, CloseLeads, Then
<1> HIDE DEF closed
<1>4. /\ Leads(name, closed \o OnError(<<>>), "idle", "executed")
      /\ Leads(name, sent \o OnError(<<1>>), "idle", "executed")
  BY <1>2, <1>3, ResultLeads, Then
<1>5. /\ Leads(name, closed \o OnError(<<>>) \o Local, "idle", "executed")
      /\ Leads(name, sent \o OnError(<<1>>) \o Local, "idle", "executed")
  BY <1>4, ComputeLeads, Then
<1>6. /\ Leads(name, closed \o OnError(<<>>) \o Local \o CheckOk, "idle", "checked")
      /\ Leads(name, sent \o OnError(<<1>>) \o Local \o CheckOk, "idle", "checked")
  BY <1>5, CheckOkLeads, Then
<1>7. Leads(name, closed \o OnError(<<>>) \o Local \o CheckOk \o Local, "idle", "checked")
  BY <1>6, ComputeLeads, Then
<1> QED
  BY <1>6, <1>7 DEF opened, sent, closed

-----------------------------------------------------------------------------
(* The commands.                                                           *)

\* A program that leads to the end of its function is disciplined.
LEMMA ProgramDisciplined ==
    ASSUME NEW name, NEW s, NEW b \in Last(name), Leads(name, s, "idle", b)
    PROVE  Disciplined([name |-> name, steps |-> s])
BY DEF Disciplined

\* owner.c, optin.c, management.c, maintenance.c, delegation.c, dir.c,
\* startup.c, testing.c
LEMMA OwnerCommandsDisciplined == \A c \in OwnerCommands : Disciplined(c)
<1>1. \A c \in UNION {
        TPM_ReadPubek, TPM_GetCapability, TPM_SetOperatorAuth,
        TPM_LoadManuMaintPub} : Disciplined(c)
  <2> USE AskPrograms, PreparesLeads, ProgramDisciplined
        DEF Command, Last
  <2>1. \A c \in TPM_ReadPubek : Disciplined(c)
    BY DEF TPM_ReadPubek
  <2>2. \A c \in TPM_GetCapability : Disciplined(c)
    BY DEF TPM_GetCapability
  <2>3. \A c \in TPM_SetOperatorAuth : Disciplined(c)
    BY DEF TPM_SetOperatorAuth
  <2>4. \A c \in TPM_LoadManuMaintPub : Disciplined(c)
    BY DEF TPM_LoadManuMaintPub
  <2> QED
    BY <2>1, <2>2, <2>3, <2>4
<1>2. \A c \in UNION {
        TPM_DisableOwnerClear, TPM_OwnerSetDisable, TPM_ResetLockValue,
        TPM_CreateMaintenanceArchive, TPM_LoadMaintenanceArchive,
        TPM_KillMaintenanceFeature} : Disciplined(c)
  <2> USE AuthorisesLeads, KindSets, SessionPrograms, PreparesLeads,
        ProgramDisciplined
        DEF Command, Last
  <2>1. \A c \in TPM_DisableOwnerClear : Disciplined(c)
    BY DEF TPM_DisableOwnerClear
  <2>2. \A c \in TPM_OwnerSetDisable : Disciplined(c)
    BY DEF TPM_OwnerSetDisable
  <2>3. \A c \in TPM_ResetLockValue : Disciplined(c)
    BY DEF TPM_ResetLockValue
  <2>4. \A c \in TPM_CreateMaintenanceArchive : Disciplined(c)
    BY DEF TPM_CreateMaintenanceArchive
  <2>5. \A c \in TPM_LoadMaintenanceArchive : Disciplined(c)
    BY DEF TPM_LoadMaintenanceArchive
  <2>6. \A c \in TPM_KillMaintenanceFeature : Disciplined(c)
    BY DEF TPM_KillMaintenanceFeature
  <2> QED
    BY <2>1, <2>2, <2>3, <2>4, <2>5, <2>6
<1>10. \A c \in UNION {
        TPM_TakeOwnership, TPM_TakeOwnership12, TPM_SetRedirection} : Disciplined(c)
  <2> USE AuthorisesLeads, KindSets, SessionPrograms, NoncePrepares,
        ProgramDisciplined
        DEF Command, Last, NonceIgnored
  <2>1. \A c \in TPM_TakeOwnership : Disciplined(c)
    BY DEF TPM_TakeOwnership
  <2>2. \A c \in TPM_TakeOwnership12 : Disciplined(c)
    BY DEF TPM_TakeOwnership12
  <2>3. \A c \in TPM_SetRedirection : Disciplined(c)
    BY DEF TPM_SetRedirection
  <2> QED
    BY <2>1, <2>2, <2>3
<1>3. \A c \in UNION {
        TPM_OwnerClear, TPM_OwnerClear12} : Disciplined(c)
  <2> USE UncheckedPrograms, NoncePrepares, KindSets, ProgramDisciplined
        DEF Command, Last, Unchecked, NonceIgnored
  <2>1. \A c \in TPM_OwnerClear : Disciplined(c)
    BY DEF TPM_OwnerClear
  <2>2. \A c \in TPM_OwnerClear12 : Disciplined(c)
    BY DEF TPM_OwnerClear12
  <2> QED
    BY <2>1, <2>2
<1>4. \A c \in UNION {
        TPM_ForceClear, TPM_DisableForceClear, TSC_PhysicalPresence,
        TPM_ResetEstablishmentBit, TPM_SetOwnerInstall, TPM_PhysicalEnable,
        TPM_PhysicalDisable, TPM_PhysicalSetDeactivated, TPM_ReadManuMaintPub,
        TPM_Delegate_ReadTable, TPM_Delegate_VerifyDelegation, TPM_DirRead,
        TPM_Startup, TPM_SaveState, TPM_Init, TPM_SelfTestFull,
        TPM_ContinueSelfTest, TPM_GetTestResult,
        TPM_SetOwnerPointer} : Disciplined(c)
  <2> USE BarePrograms, ProgramDisciplined
        DEF Command, Last
  <2>1. \A c \in TPM_ForceClear : Disciplined(c)
    BY DEF TPM_ForceClear
  <2>2. \A c \in TPM_DisableForceClear : Disciplined(c)
    BY DEF TPM_DisableForceClear
  <2>3. \A c \in TSC_PhysicalPresence : Disciplined(c)
    BY DEF TSC_PhysicalPresence
  <2>4. \A c \in TPM_ResetEstablishmentBit : Disciplined(c)
    BY DEF TPM_ResetEstablishmentBit
  <2>5. \A c \in TPM_SetOwnerInstall : Disciplined(c)
    BY DEF TPM_SetOwnerInstall
  <2>6. \A c \in TPM_PhysicalEnable : Disciplined(c)
    BY DEF TPM_PhysicalEnable
  <2>7. \A c \in TPM_PhysicalDisable : Disciplined(c)
    BY DEF TPM_PhysicalDisable
  <2>8. \A c \in TPM_PhysicalSetDeactivated : Disciplined(c)
    BY DEF TPM_PhysicalSetDeactivated
  <2>9. \A c \in TPM_ReadManuMaintPub : Disciplined(c)
    BY DEF TPM_ReadManuMaintPub
  <2>10. \A c \in TPM_Delegate_ReadTable : Disciplined(c)
    BY DEF TPM_Delegate_ReadTable
  <2>11. \A c \in TPM_Delegate_VerifyDelegation : Disciplined(c)
    BY DEF TPM_Delegate_VerifyDelegation
  <2>12. \A c \in TPM_DirRead : Disciplined(c)
    BY DEF TPM_DirRead
  <2>13. \A c \in TPM_Startup : Disciplined(c)
    BY DEF TPM_Startup
  <2>14. \A c \in TPM_SaveState : Disciplined(c)
    BY DEF TPM_SaveState
  <2>15. \A c \in TPM_Init : Disciplined(c)
    BY DEF TPM_Init
  <2>16. \A c \in TPM_SelfTestFull : Disciplined(c)
    BY DEF TPM_SelfTestFull
  <2>17. \A c \in TPM_ContinueSelfTest : Disciplined(c)
    BY DEF TPM_ContinueSelfTest
  <2>18. \A c \in TPM_GetTestResult : Disciplined(c)
    BY DEF TPM_GetTestResult
  <2>19. \A c \in TPM_SetOwnerPointer : Disciplined(c)
    BY DEF TPM_SetOwnerPointer
  <2> QED
    BY <2>1, <2>2, <2>3, <2>4, <2>5, <2>6, <2>7, <2>8, <2>9, <2>10, <2>11,
       <2>12, <2>13, <2>14, <2>15, <2>16, <2>17, <2>18, <2>19
<1>5. \A c \in TPM_SetTempDeactivated : Disciplined(c)
  BY AuthorisesLeads, KindSets, BarePrograms, ProgramDisciplined
     DEF TPM_SetTempDeactivated, Command, Last, Leaks
<1>6. \A c \in TPM_Delegate_Manage : Disciplined(c)
  BY AuthorisesLeads, KindSets, SessionPrograms, AskPrograms, PreparesLeads,
     ProgramDisciplined
     DEF TPM_Delegate_Manage, Command, Last, Unchecked
<1>7. \A c \in UNION {
        TPM_Delegate_CreateKeyDelegation, TPM_Delegate_CreateOwnerDelegation,
        TPM_DirWriteAuth} : Disciplined(c)
  <2> USE AuthorisesLeads, KindSets, SessionPrograms, PreparesLeads,
        ProgramDisciplined
        DEF Command, Last, Leaks
  <2>1. \A c \in TPM_Delegate_CreateKeyDelegation : Disciplined(c)
    BY DEF TPM_Delegate_CreateKeyDelegation
  <2>2. \A c \in TPM_Delegate_CreateOwnerDelegation : Disciplined(c)
    BY DEF TPM_Delegate_CreateOwnerDelegation
  <2>3. \A c \in TPM_DirWriteAuth : Disciplined(c)
    BY DEF TPM_DirWriteAuth
  <2> QED
    BY <2>1, <2>2, <2>3
<1>8. \A c \in UNION {
        TPM_Delegate_LoadOwnerDelegation, TPM_CertifySelfTest} : Disciplined(c)
  <2> USE AuthorisesLeads, KindSets, SessionPrograms, AskPrograms,
        PreparesLeads, ProgramDisciplined
        DEF Command, Last, Leaks
  <2>1. \A c \in TPM_Delegate_LoadOwnerDelegation : Disciplined(c)
    BY DEF TPM_Delegate_LoadOwnerDelegation
  <2>2. \A c \in TPM_CertifySelfTest : Disciplined(c)
    BY DEF TPM_CertifySelfTest
  <2> QED
    BY <2>1, <2>2
<1>9. \A c \in TPM_Delegate_UpdateVerification : Disciplined(c)
  BY AuthorisesLeads, KindSets, SessionPrograms, PreparesLeads,
     ProgramDisciplined
     DEF TPM_Delegate_UpdateVerification, Command, Last, Unchecked
<1> QED
  BY <1>1, <1>2, <1>3, <1>4, <1>5, <1>6, <1>7, <1>8, <1>9, <1>10
     DEF OwnerCommands

\* keys.c, chgauth.c, context.c, eviction.c, bind.c, seal.c, signature.c,
\* identity.c, migrate.c
LEMMA KeyCommandsDisciplined == \A c \in KeyCommands : Disciplined(c)
<1>1. \A c \in UNION {
        TPM_CreateEndorsementKeyPair, TPM_CreateRevocableEK, TPM_RevokeTrust,
        TPM_SaveKeyContext} : Disciplined(c)
  <2> USE AskPrograms, PreparesLeads, ProgramDisciplined
        DEF Command, Last
  <2>1. \A c \in TPM_CreateEndorsementKeyPair : Disciplined(c)
    BY DEF TPM_CreateEndorsementKeyPair
  <2>2. \A c \in TPM_CreateRevocableEK : Disciplined(c)
    BY DEF TPM_CreateRevocableEK
  <2>3. \A c \in TPM_RevokeTrust : Disciplined(c)
    BY DEF TPM_RevokeTrust
  <2>4. \A c \in TPM_SaveKeyContext : Disciplined(c)
    BY DEF TPM_SaveKeyContext
  <2> QED
    BY <2>1, <2>2, <2>3, <2>4
<1>2. \A c \in UNION {
        TPM_OwnerReadPubek, TPM_DisablePubekRead} : Disciplined(c)
  <2> USE AuthorisesLeads, KindSets, BarePrograms, ProgramDisciplined
        DEF Command, Last
  <2>1. \A c \in TPM_OwnerReadPubek : Disciplined(c)
    BY DEF TPM_OwnerReadPubek
  <2>2. \A c \in TPM_DisablePubekRead : Disciplined(c)
    BY DEF TPM_DisablePubekRead
  <2> QED
    BY <2>1, <2>2
<1>3. \A c \in UNION {
        TPM_OwnerReadInternalPub, TPM_CreateWrapKey, TPM_CertifyKey_AUTH2,
        TPM_CertifyKey_AUTH1, TPM_CertifyKey2_AUTH2, TPM_CertifyKey2_AUTH1,
        TPM_ChangeKeyAuth, TPM_ChangeAuth, TPM_ChangeSRKAuth,
        TPM_ChangeOwnAuth, TPM_KeyControlOwner, TPM_Seal, TPM_Unseal_AUTH2,
        TPM_Unseal_AUTH1, TPM_Unsealx, TPM_MakeIdentity_AUTH2,
        TPM_MakeIdentity_AUTH1, TPM_ActivateIdentity_AUTH2,
        TPM_ActivateIdentity_AUTH1, TPM_AuthorizeMigrationKey,
        TPM_CreateMigrationBlob_AUTH2, TPM_CreateMigrationBlob_AUTH1,
        TPM_CMK_SetRestrictions, TPM_CMK_ApproveMA, TPM_CMK_CreateKey,
        TPM_CMK_CreateTicket} : Disciplined(c)
  <2> USE AuthorisesLeads, KindSets, SessionPrograms, PreparesLeads,
        ProgramDisciplined
        DEF Command, Last
  <2>1. \A c \in TPM_OwnerReadInternalPub : Disciplined(c)
    BY DEF TPM_OwnerReadInternalPub
  <2>2. \A c \in TPM_CreateWrapKey : Disciplined(c)
    BY DEF TPM_CreateWrapKey
  <2>3. \A c \in TPM_CertifyKey_AUTH2 : Disciplined(c)
    BY DEF TPM_CertifyKey_AUTH2
  <2>4. \A c \in TPM_CertifyKey_AUTH1 : Disciplined(c)
    BY DEF TPM_CertifyKey_AUTH1
  <2>5. \A c \in TPM_CertifyKey2_AUTH2 : Disciplined(c)
    BY DEF TPM_CertifyKey2_AUTH2
  <2>6. \A c \in TPM_CertifyKey2_AUTH1 : Disciplined(c)
    BY DEF TPM_CertifyKey2_AUTH1
  <2>7. \A c \in TPM_ChangeKeyAuth : Disciplined(c)
    BY DEF TPM_ChangeKeyAuth
  <2>8. \A c \in TPM_ChangeAuth : Disciplined(c)
    BY DEF TPM_ChangeAuth
  <2>9. \A c \in TPM_ChangeSRKAuth : Disciplined(c)
    BY DEF TPM_ChangeSRKAuth
  <2>10. \A c \in TPM_ChangeOwnAuth : Disciplined(c)
    BY DEF TPM_ChangeOwnAuth
  <2>11. \A c \in TPM_KeyControlOwner : Disciplined(c)
    BY DEF TPM_KeyControlOwner
  <2>12. \A c \in TPM_Seal : Disciplined(c)
    BY DEF TPM_Seal
  <2>13. \A c \in TPM_Unseal_AUTH2 : Disciplined(c)
    BY DEF TPM_Unseal_AUTH2
  <2>14. \A c \in TPM_Unseal_AUTH1 : Disciplined(c)
    BY DEF TPM_Unseal_AUTH1
  <2>15. \A c \in TPM_Unsealx : Disciplined(c)
    BY DEF TPM_Unsealx
  <2>16. \A c \in TPM_MakeIdentity_AUTH2 : Disciplined(c)
    BY DEF TPM_MakeIdentity_AUTH2
  <2>17. \A c \in TPM_MakeIdentity_AUTH1 : Disciplined(c)
    BY DEF TPM_MakeIdentity_AUTH1
  <2>18. \A c \in TPM_ActivateIdentity_AUTH2 : Disciplined(c)
    BY DEF TPM_ActivateIdentity_AUTH2
  <2>19. \A c \in TPM_ActivateIdentity_AUTH1 : Disciplined(c)
    BY DEF TPM_ActivateIdentity_AUTH1
  <2>20. \A c \in TPM_AuthorizeMigrationKey : Disciplined(c)
    BY DEF TPM_AuthorizeMigrationKey
  <2>21. \A c \in TPM_CreateMigrationBlob_AUTH2 : Disciplined(c)
    BY DEF TPM_CreateMigrationBlob_AUTH2
  <2>22. \A c \in TPM_CreateMigrationBlob_AUTH1 : Disciplined(c)
    BY DEF TPM_CreateMigrationBlob_AUTH1
  <2>23. \A c \in TPM_CMK_SetRestrictions : Disciplined(c)
    BY DEF TPM_CMK_SetRestrictions
  <2>24. \A c \in TPM_CMK_ApproveMA : Disciplined(c)
    BY DEF TPM_CMK_ApproveMA
  <2>25. \A c \in TPM_CMK_CreateKey : Disciplined(c)
    BY DEF TPM_CMK_CreateKey
  <2>26. \A c \in TPM_CMK_CreateTicket : Disciplined(c)
    BY DEF TPM_CMK_CreateTicket
  <2> QED
    BY <2>1, <2>2, <2>3, <2>4, <2>5, <2>6, <2>7, <2>8, <2>9, <2>10, <2>11,
       <2>12, <2>13, <2>14, <2>15, <2>16, <2>17, <2>18, <2>19, <2>20, <2>21,
       <2>22, <2>23, <2>24, <2>25, <2>26
<1>4. \A c \in UNION {
        TPM_LoadKey, TPM_LoadKey2, TPM_GetPubKey, TPM_UnBind, TPM_Sign,
        TPM_ConvertMigrationBlob, TPM_MigrateKey} : Disciplined(c)
  <2> USE AuthorisesLeads, KindSets, SessionPrograms, AskPrograms,
        PreparesLeads, ProgramDisciplined
        DEF Command, Last
  <2>1. \A c \in TPM_LoadKey : Disciplined(c)
    BY DEF TPM_LoadKey
  <2>2. \A c \in TPM_LoadKey2 : Disciplined(c)
    BY DEF TPM_LoadKey2
  <2>3. \A c \in TPM_GetPubKey : Disciplined(c)
    BY DEF TPM_GetPubKey
  <2>4. \A c \in TPM_UnBind : Disciplined(c)
    BY DEF TPM_UnBind
  <2>5. \A c \in TPM_Sign : Disciplined(c)
    BY DEF TPM_Sign
  <2>6. \A c \in TPM_ConvertMigrationBlob : Disciplined(c)
    BY DEF TPM_ConvertMigrationBlob
  <2>7. \A c \in TPM_MigrateKey : Disciplined(c)
    BY DEF TPM_MigrateKey
  <2> QED
    BY <2>1, <2>2, <2>3, <2>4, <2>5, <2>6, <2>7
<1>5. \A c \in UNION {
        TPM_FlushSpecific, TPM_LoadKeyContext, TPM_SaveAuthContext,
        TPM_LoadAuthContext, TPM_SaveContext, TPM_LoadContext} : Disciplined(c)
  <2> USE BarePrograms, ProgramDisciplined
        DEF Command, Last
  <2>1. \A c \in TPM_FlushSpecific : Disciplined(c)
    BY DEF TPM_FlushSpecific
  <2>2. \A c \in TPM_LoadKeyContext : Disciplined(c)
    BY DEF TPM_LoadKeyContext
  <2>3. \A c \in TPM_SaveAuthContext : Disciplined(c)
    BY DEF TPM_SaveAuthContext
  <2>4. \A c \in TPM_LoadAuthContext : Disciplined(c)
    BY DEF TPM_LoadAuthContext
  <2>5. \A c \in TPM_SaveContext : Disciplined(c)
    BY DEF TPM_SaveContext
  <2>6. \A c \in TPM_LoadContext : Disciplined(c)
    BY DEF TPM_LoadContext
  <2> QED
    BY <2>1, <2>2, <2>3, <2>4, <2>5, <2>6
<1>6. \A c \in TPM_EvictKey : Disciplined(c)
  <2>1. Leads("TPM_EvictKey", Ask \o OnlyIfBadOrdinal, "idle", "idle")
    BY AskLeads, ResultLeads, Then
  <2>2. Leads("TPM_EvictKey", Ask \o OnlyIfBadOrdinal \o Ask, "idle", "asked")
    BY <2>1, AskLeads, Then
  <2> QED
    BY <2>2, AskLeads, ProgramDisciplined DEF TPM_EvictKey, Command, Last
<1>7. \A c \in TPM_Sealx : Disciplined(c)
  BY AuthorisesLeads, KindSets, SessionPrograms, PreparesLeads,
     ProgramDisciplined
     DEF TPM_Sealx, Command, Last, Leaks
<1>8. \A c \in UNION {
        TPM_CMK_CreateBlob, TPM_CMK_ConvertMigration} : Disciplined(c)
  <2> USE LeavingPrograms, PreparesLeads, KindSets, ProgramDisciplined
        DEF Command, Last, Leaks
  <2>1. \A c \in TPM_CMK_CreateBlob : Disciplined(c)
    BY ZenonT(40) DEF TPM_CMK_CreateBlob
  <2>2. \A c \in TPM_CMK_ConvertMigration : Disciplined(c)
    BY ZenonT(40) DEF TPM_CMK_ConvertMigration
  <2> QED
    BY <2>1, <2>2
<1> QED
  BY <1>1, <1>2, <1>3, <1>4, <1>5, <1>6, <1>7, <1>8 DEF KeyCommands

\* Every command function of libtpm keeps to the discipline: it never waits
\* for an answer, returns, or goes on with a session open that it does not
\* close, but for the functions named in Leaks, and never returns success
\* before the answer was looked at, but for those named in Unchecked.
THEOREM AllCommandsDisciplined == \A c \in AllCommands : Disciplined(c)
<1>1. \A c \in UNION {
        TPM_CreateCounter, TPM_GetAuditDigestSigned_AUTH1,
        TPM_EstablishTransport} : Disciplined(c)
  <2> USE AuthorisesLeads, KindSets, SessionPrograms, PreparesLeads,
        ProgramDisciplined
        DEF Command, Last, Leaks
  <2>1. \A c \in TPM_CreateCounter : Disciplined(c)
    BY DEF TPM_CreateCounter
  <2>2. \A c \in TPM_GetAuditDigestSigned_AUTH1 : Disciplined(c)
    BY DEF TPM_GetAuditDigestSigned_AUTH1
  <2>3. \A c \in TPM_EstablishTransport : Disciplined(c)
    BY DEF TPM_EstablishTransport
  <2> QED
    BY <2>1, <2>2, <2>3
<1>2. \A c \in UNION {
        TPM_IncrementCounter, TPM_ReleaseCounter, TPM_ReleaseCounterOwner,
        TPM_NV_WriteValueAuth, TPM_NV_ReadValueAuth, TPM_Quote_AUTH1,
        TPM_Quote2_AUTH1, TPM_DAA_Join, TPM_DAA_Sign,
        TPM_SetOrdinalAuditStatus} : Disciplined(c)
  <2> USE AuthorisesLeads, KindSets, SessionPrograms, PreparesLeads,
        ProgramDisciplined
        DEF Command, Last
  <2>1. \A c \in TPM_IncrementCounter : Disciplined(c)
    BY DEF TPM_IncrementCounter
  <2>2. \A c \in TPM_ReleaseCounter : Disciplined(c)
    BY DEF TPM_ReleaseCounter
  <2>3. \A c \in TPM_ReleaseCounterOwner : Disciplined(c)
    BY DEF TPM_ReleaseCounterOwner
  <2>4. \A c \in TPM_NV_WriteValueAuth : Disciplined(c)
    BY DEF TPM_NV_WriteValueAuth
  <2>5. \A c \in TPM_NV_ReadValueAuth : Disciplined(c)
    BY DEF TPM_NV_ReadValueAuth
  <2>6. \A c \in TPM_Quote_AUTH1 : Disciplined(c)
    BY DEF TPM_Quote_AUTH1
  <2>7. \A c \in TPM_Quote2_AUTH1 : Disciplined(c)
    BY DEF TPM_Quote2_AUTH1
  <2>8. \A c \in TPM_DAA_Join : Disciplined(c)
    BY DEF TPM_DAA_Join
  <2>9. \A c \in TPM_DAA_Sign : Disciplined(c)
    BY DEF TPM_DAA_Sign
  <2>10. \A c \in TPM_SetOrdinalAuditStatus : Disciplined(c)
    BY DEF TPM_SetOrdinalAuditStatus
  <2> QED
    BY <2>1, <2>2, <2>3, <2>4, <2>5, <2>6, <2>7, <2>8, <2>9, <2>10
<1>14. \A c \in TPM_GetCapabilityOwner : Disciplined(c)
  BY AuthorisesLeads, KindSets, SessionPrograms, NoncePrepares,
     ProgramDisciplined
     DEF TPM_GetCapabilityOwner, Command, Last, NonceIgnored
<1>3. \A c \in UNION {
        TPM_ReadCounter, TPM_Quote_AUTH0, TPM_PcrRead, TPM_PCRReset,
        TPM_SHA1Update, TPM_GetAuditDigest} : Disciplined(c)
  <2> USE AskPrograms, PreparesLeads, ProgramDisciplined
        DEF Command, Last
  <2>1. \A c \in TPM_ReadCounter : Disciplined(c)
    BY DEF TPM_ReadCounter
  <2>2. \A c \in TPM_Quote_AUTH0 : Disciplined(c)
    BY DEF TPM_Quote_AUTH0
  <2>3. \A c \in TPM_PcrRead : Disciplined(c)
    BY DEF TPM_PcrRead
  <2>4. \A c \in TPM_PCRReset : Disciplined(c)
    BY DEF TPM_PCRReset
  <2>5. \A c \in TPM_SHA1Update : Disciplined(c)
    BY DEF TPM_SHA1Update
  <2>6. \A c \in TPM_GetAuditDigest : Disciplined(c)
    BY DEF TPM_GetAuditDigest
  <2> QED
    BY <2>1, <2>2, <2>3, <2>4, <2>5, <2>6
<1>4. \A c \in UNION {
        TPM_GetTicks, TPM_GetRandom, TPM_StirRandom, TPM_Extend, TPM_Reset,
        TPM_SHA1Start, TPM_SHA1Complete, TPM_SHA1CompleteExtend,
        TPM_RawDataRaw} : Disciplined(c)
  <2> USE BarePrograms, ProgramDisciplined
        DEF Command, Last
  <2>1. \A c \in TPM_GetTicks : Disciplined(c)
    BY DEF TPM_GetTicks
  <2>2. \A c \in TPM_GetRandom : Disciplined(c)
    BY DEF TPM_GetRandom
  <2>3. \A c \in TPM_StirRandom : Disciplined(c)
    BY DEF TPM_StirRandom
  <2>4. \A c \in TPM_Extend : Disciplined(c)
    BY DEF TPM_Extend
  <2>5. \A c \in TPM_Reset : Disciplined(c)
    BY DEF TPM_Reset
  <2>6. \A c \in TPM_SHA1Start : Disciplined(c)
    BY DEF TPM_SHA1Start
  <2>7. \A c \in TPM_SHA1Complete : Disciplined(c)
    BY DEF TPM_SHA1Complete
  <2>8. \A c \in TPM_SHA1CompleteExtend : Disciplined(c)
    BY DEF TPM_SHA1CompleteExtend
  <2>9. \A c \in TPM_RawDataRaw : Disciplined(c)
    BY DEF TPM_RawDataRaw
  <2> QED
    BY <2>1, <2>2, <2>3, <2>4, <2>5, <2>6, <2>7, <2>8, <2>9
<1>5. \A c \in TPM_TickStampBlob : Disciplined(c)
  <2>1. Leads("TPM_TickStampBlob",
              NeedKeysRoom \o SessionOpen(1, OsapOiap, "key", <<>>) \o Compute(<<1>>)
                \o Local \o Transmit(<<1>>) \o SessionClose(<<1>>) \o OnError(<<>>)
                \o Local \o CheckOk \o Local, "idle", "checked")
    BY LeavingPrograms, PreparesLeads, KindSets DEF Leaks
  <2>2. Leads("TPM_TickStampBlob", NeedKeysRoom \o AskSized, "idle", "answered")
    BY AskPrograms, PreparesLeads
  <2> QED
    BY <2>1, <2>2, ProgramDisciplined DEF TPM_TickStampBlob, Command, Last
<1>6. \A c \in TPM_NV_DefineSpace : Disciplined(c)
  BY AuthorisesLeads, KindSets, SessionPrograms, AskPrograms, PreparesLeads,
     ProgramDisciplined
     DEF TPM_NV_DefineSpace, Command, Last, Leaks
<1>7. \A c \in TPM_NV_DefineSpace2 : Disciplined(c)
  <2> DEFINE name == "TPM_NV_DefineSpace2"
             one == Local \o NonceLateAuth1(OSAP, "owner") \o CheckHmac
             none == Local \o AskOk
  <2>1. Leads(name, one, "idle", "compared")
    BY SessionPrograms, AuthorisesLeads, PreparesLeads, KindSets DEF Leaks
  <2>2. Leads(name, none, "idle", "answered")
    BY AskPrograms, PreparesLeads
  <2>3. \A c \in TPM_NV_DefineSpace : c.steps \in {one, none}
    BY DEF TPM_NV_DefineSpace, Command
  <2> HIDE DEF one, none
  <2>4. Leads(name, Local \o one, "idle", "compared") /\ Leads(name, Local \o none, "idle", "answered")
    BY <2>1, <2>2, ComputeLeads, Then
  <2> QED
    BY <2>3, <2>4, ProgramDisciplined DEF TPM_NV_DefineSpace2, Command, Last
<1>8. \A c \in UNION {
        TPM_NV_WriteValue, TPM_SetCapability} : Disciplined(c)
  <2> USE AuthorisesLeads, KindSets, SessionPrograms, BarePrograms,
        PreparesLeads, ProgramDisciplined
        DEF Command, Last
  <2>1. \A c \in TPM_NV_WriteValue : Disciplined(c)
    BY DEF TPM_NV_WriteValue
  <2>2. \A c \in TPM_SetCapability : Disciplined(c)
    BY DEF TPM_SetCapability
  <2> QED
    BY <2>1, <2>2
<1>9. \A c \in UNION {
        TPM_NV_ReadValue, TPM_GetCapabilitySigned} : Disciplined(c)
  <2> USE AuthorisesLeads, KindSets, SessionPrograms, AskPrograms,
        PreparesLeads, ProgramDisciplined
        DEF Command, Last
  <2>1. \A c \in TPM_NV_ReadValue : Disciplined(c)
    BY DEF TPM_NV_ReadValue
  <2>2. \A c \in TPM_GetCapabilitySigned : Disciplined(c)
    BY DEF TPM_GetCapabilitySigned
  <2> QED
    BY <2>1, <2>2
<1>10. \A c \in TPM_Quote2_AUTH0 : Disciplined(c)
  <2> DEFINE built == Local \o NeedKeysRoom \o Local \o Compute(<<1>>)
             closed == built \o Transmit(<<>>) \o SessionClose(<<1>>)
  <2>1. Leads("TPM_Quote2", built, "idle", "idle")
    BY PreparesLeads, ComputeLeads, Then DEF Prepares
  <2> HIDE DEF built
  <2>2. Leads("TPM_Quote2", built \o Transmit(<<>>), "idle", "asked")
    BY <2>1, TransmitLeads, Then
  <2>3. Leads("TPM_Quote2", closed, "idle", "asked")
    BY <2>2, CloseLeads, Then
  <2> HIDE DEF closed
  <2>4. Leads("TPM_Quote2", closed \o OnError(<<>>), "idle", "answered")
    BY <2>3, ResultLeads, Then
  <2>5. Leads("TPM_Quote2", closed \o OnError(<<>>) \o Local, "idle", "answered")
    BY <2>4, ComputeLeads, Then
  <2> QED
    BY <2>5, ProgramDisciplined DEF TPM_Quote2_AUTH0, Command, Last, built, closed
<1>11. \A c \in UNION {
        TPM_RawDataOIAP, TPM_RawDataOSAP} : Disciplined(c)
  <2> USE UncheckedPrograms, PreparesLeads, KindSets, ProgramDisciplined
        DEF Command, Last, Unchecked
  <2>1. \A c \in TPM_RawDataOIAP : Disciplined(c)
    BY DEF TPM_RawDataOIAP
  <2>2. \A c \in TPM_RawDataOSAP : Disciplined(c)
    BY DEF TPM_RawDataOSAP
  <2> QED
    BY <2>1, <2>2
<1>12. \A c \in TPM_GetAuditDigestSigned_AUTH0 : Disciplined(c)
  BY AskPrograms, PreparesLeads, ProgramDisciplined
     DEF TPM_GetAuditDigestSigned_AUTH0, Command, Last, Leaks
<1>13. \A c \in TPM_ReleaseTransportSigned : Disciplined(c)
  BY AuthorisesLeads, KindSets, SessionPrograms, PreparesLeads,
     ProgramDisciplined
     DEF TPM_ReleaseTransportSigned, Command, Last, Unchecked
<1> QED
  BY <1>1, <1>2, <1>3, <1>4, <1>5, <1>6, <1>7, <1>8, <1>9, <1>10, <1>11, <1>12,
     <1>13, <1>14, OwnerCommandsDisciplined, KeyCommandsDisciplined DEF AllCommands
=============================================================================
