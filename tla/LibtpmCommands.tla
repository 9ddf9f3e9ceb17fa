--------------------------- MODULE LibtpmCommands ---------------------------
(***************************************************************************)
(* The other command functions of libtpm - counter.c, ticks.c, nv.c,       *)
(* pcrs.c, miscfunc.c, rng.c, sha.c, raw.c, daa.c, auditing.c,             *)
(* transport.c - and the set of all of them.                               *)
(***************************************************************************)
EXTENDS LibtpmKeys

-----------------------------------------------------------------------------
(* counter.c, ticks.c, rng.c                                               *)

\* The nonce is drawn with the session open.
TPM_CreateCounter == Command("TPM_CreateCounter",
    {Local \o NeedKeysRoom \o NonceLateAuth1(OsapDsap, "owner") \o CheckOk \o Local})

\* The request is transmitted whether or not it could be built.
TPM_IncrementCounter == Command("TPM_IncrementCounter",
    {Local \o Auth1(OsapOiap, "counter") \o CheckOk})

TPM_ReadCounter == Command("TPM_ReadCounter", {Local \o AskOk})

TPM_ReleaseCounter == Command("TPM_ReleaseCounter",
    {Local \o Auth1(OsapOiap, "counter") \o CheckOk})

TPM_ReleaseCounterOwner == Command("TPM_ReleaseCounterOwner",
    {Local \o Auth1(Kinds, "owner") \o CheckHmac})

TPM_GetTicks == Command("TPM_GetTicks", {AskOk})

\* A request that cannot be built leaves the session open.
TPM_TickStampBlob == Command("TPM_TickStampBlob",
    {NeedKeysRoom \o SessionOpen(1, OsapOiap, "key", <<>>) \o Compute(<<1>>) \o Local
        \o Transmit(<<1>>) \o SessionClose(<<1>>) \o OnError(<<>>) \o Local
        \o CheckOk \o Local,
     NeedKeysRoom \o AskSized})

TPM_GetRandom == Command("TPM_GetRandom", {Transmit(<<>>) \o OnError(<<>>) \o Local})

TPM_StirRandom == Command("TPM_StirRandom", {Transmit(<<>>)})

-----------------------------------------------------------------------------
(* nv.c                                                                    *)

\* The nonce is drawn with the session open.
TPM_NV_DefineSpace == Command("TPM_NV_DefineSpace",
    {Local \o NonceLateAuth1(OSAP, "owner") \o CheckHmac,
     Local \o AskOk})

TPM_NV_DefineSpace2 == Command("TPM_NV_DefineSpace2",
    {Local \o c.steps : c \in TPM_NV_DefineSpace})

TPM_NV_WriteValue == Command("TPM_NV_WriteValue",
    {Local \o Auth1(OsapOiap, "owner") \o CheckOk,
     AskOk})

TPM_NV_WriteValueAuth == Command("TPM_NV_WriteValueAuth",
    {Local \o Auth1(OsapOiap, "nv") \o CheckHmac})

TPM_NV_ReadValue == Command("TPM_NV_ReadValue",
    {Local \o Auth1(OsapOiap, "owner") \o Local \o CheckOk,
     Local \o AskSized})

TPM_NV_ReadValueAuth == Command("TPM_NV_ReadValueAuth",
    {Local \o Auth1(OsapOiap, "nv") \o Local \o CheckOk})

-----------------------------------------------------------------------------
(* pcrs.c                                                                  *)

TPM_Extend == Command("TPM_Extend", {AskOk})

\* The key has a secret.
TPM_Quote_AUTH1 == Command("TPM_Quote",
    {Local \o NeedKeysRoom \o Local \o Auth1(OsapDsap, "key") \o Local \o CheckOk \o Local})

TPM_Quote_AUTH0 == Command("TPM_Quote", {Local \o NeedKeysRoom \o Local \o AskSized})

TPM_Quote2_AUTH1 == Command("TPM_Quote2",
    {Local \o NeedKeysRoom \o Local \o Auth1(OsapDsap, "key") \o Local \o CheckOk \o Local})

\* Without a secret no session is opened, but one is closed: sess is read
\* before anything was written to it.
TPM_Quote2_AUTH0 == Command("TPM_Quote2",
    {Local \o NeedKeysRoom \o Local \o Compute(<<1>>) \o Transmit(<<>>)
        \o SessionClose(<<1>>) \o OnError(<<>>) \o Local})

TPM_PcrRead == Command("TPM_PcrRead", {Local \o AskOk})

TPM_PCRReset == Command("TPM_PCRReset", {Local \o Ask})

-----------------------------------------------------------------------------
(* miscfunc.c                                                              *)

TPM_GetCapabilityOwner == Command("TPM_GetCapabilityOwner",
    {Local \o Nonce \o Auth1(OSAP, "owner") \o CheckOk \o Local})

TPM_GetCapabilitySigned == Command("TPM_GetCapabilitySigned",
    {NeedKeysRoom \o Local \o Auth1(OsapOiap, "key") \o Local \o CheckOk,
     NeedKeysRoom \o Local \o AskSized})

\* Without a secret the request is transmitted whether or not it was built.
TPM_SetCapability == Command("TPM_SetCapability",
    {Local \o Auth1(OsapOiap, "owner") \o CheckHmac,
     Transmit(<<>>)})

TPM_Reset == Command("TPM_Reset", {Transmit(<<>>)})

-----------------------------------------------------------------------------
(* sha.c, raw.c, daa.c                                                     *)

TPM_SHA1Start == Command("TPM_SHA1Start", {Transmit(<<>>) \o OnError(<<>>) \o Local})

TPM_SHA1Update == Command("TPM_SHA1Update", {Local \o Ask})

TPM_SHA1Complete == Command("TPM_SHA1Complete", {Transmit(<<>>) \o OnError(<<>>)})

TPM_SHA1CompleteExtend == Command("TPM_SHA1CompleteExtend", {Transmit(<<>>) \o OnError(<<>>)})

TPM_RawDataRaw == Command("TPM_RawDataRaw", {Ask})

\* Here the caller checks the HMAC of the answer, or does not.
TPM_RawDataOIAP == Command("TPM_RawDataOIAP", {SessionOpen(1, OIAP, "none", <<>>) \o Send1})

TPM_RawDataOSAP == Command("TPM_RawDataOSAP",
    {NeedKeysRoom \o SessionOpen(1, OSAP, "owner", <<>>) \o Send1})

TPM_DAA_Join == Command("TPM_DAA_Join", {Local \o Auth1(Kinds, "owner") \o Local \o CheckOk})

TPM_DAA_Sign == Command("TPM_DAA_Sign", {Local \o Auth1(Kinds, "owner") \o Local \o CheckOk})

-----------------------------------------------------------------------------
(* auditing.c, transport.c                                                 *)

TPM_GetAuditDigest == Command("TPM_GetAuditDigest", {Local \o AskSized})

\* The nonce is drawn with the session open.
TPM_GetAuditDigestSigned_AUTH1 == Command("TPM_GetAuditDigestSigned",
    {NeedKeysRoom \o NonceLateAuth1(Kinds, "key") \o Local \o CheckOk \o Local})

TPM_GetAuditDigestSigned_AUTH0 == Command("TPM_GetAuditDigestSigned",
    {NeedKeysRoom \o AskSized})

TPM_SetOrdinalAuditStatus == Command("TPM_SetOrdinalAuditStatus",
    {Local \o Auth1(Kinds, "owner") \o CheckHmac})

\* What is to be sent of the transport's public part is written with the
\* session open; the function returns without closing it when it cannot be.
TPM_EstablishTransport == Command("TPM_EstablishTransport",
    {Local \o NeedKeysRoom \o Local \o NonceLateAuth1(Kinds, "key") \o CheckOk \o Local})

\* The second authorisation is the transport session's, which the caller
\* opened.  The result of the HMAC check is overwritten by the next line.
TPM_ReleaseTransportSigned == Command("TPM_ReleaseTransportSigned",
    {Local \o NeedKeysRoom \o Auth1(Kinds, "key") \o Local \o CheckHmac \o Local})

-----------------------------------------------------------------------------
AllCommands == OwnerCommands \cup KeyCommands \cup UNION {
    TPM_CreateCounter, TPM_IncrementCounter, TPM_ReadCounter,
    TPM_ReleaseCounter, TPM_ReleaseCounterOwner, TPM_GetTicks,
    TPM_TickStampBlob, TPM_GetRandom, TPM_StirRandom, TPM_NV_DefineSpace,
    TPM_NV_DefineSpace2,
    TPM_NV_WriteValue, TPM_NV_WriteValueAuth, TPM_NV_ReadValue,
    TPM_NV_ReadValueAuth, TPM_Extend, TPM_Quote_AUTH1, TPM_Quote_AUTH0,
    TPM_Quote2_AUTH1, TPM_Quote2_AUTH0, TPM_PcrRead, TPM_PCRReset,
    TPM_GetCapabilityOwner, TPM_GetCapabilitySigned, TPM_SetCapability,
    TPM_Reset, TPM_SHA1Start, TPM_SHA1Update, TPM_SHA1Complete,
    TPM_SHA1CompleteExtend, TPM_RawDataRaw, TPM_RawDataOIAP,
    TPM_RawDataOSAP, TPM_DAA_Join, TPM_DAA_Sign, TPM_GetAuditDigest,
    TPM_GetAuditDigestSigned_AUTH1, TPM_GetAuditDigestSigned_AUTH0,
    TPM_SetOrdinalAuditStatus, TPM_EstablishTransport,
    TPM_ReleaseTransportSigned}
=============================================================================
