----------------------------- MODULE LibtpmKeys -----------------------------
(***************************************************************************)
(* The command functions of libtpm that create, load, certify, migrate and *)
(* use keys: keys.c, chgauth.c, context.c, eviction.c, bind.c, seal.c,     *)
(* signature.c, identity.c, migrate.c.  The steps are those of             *)
(* TssSteps.tla; a function too long to read at once is two definitions,   *)
(* one per branch.                                                         *)
(***************************************************************************)
EXTENDS LibtpmOwner

-----------------------------------------------------------------------------
(* keys.c: the endorsement key                                             *)

TPM_CreateEndorsementKeyPair == Command("TPM_CreateEndorsementKeyPair",
    {Local \o AskSized})

TPM_CreateRevocableEK == Command("TPM_CreateRevocableEK", {Local \o AskSized})

\* The request is transmitted whether or not it could be built.
TPM_RevokeTrust == Command("TPM_RevokeTrust", {Local \o Transmit(<<>>)})

TPM_OwnerReadPubek == Command("TPM_OwnerReadPubek",
    {Auth1(Kinds, "owner") \o CheckOk})

TPM_DisablePubekRead == Command("TPM_DisablePubekRead",
    {Auth1(Kinds, "owner") \o CheckOk})

TPM_OwnerReadInternalPub == Command("TPM_OwnerReadInternalPub",
    {Local \o Auth1(Kinds, "owner") \o Local \o CheckOk})

-----------------------------------------------------------------------------
(* keys.c: keys                                                            *)

\* For a 1.1 key structure the version is asked for first.
TPM_CreateWrapKey == Command("TPM_CreateWrapKey",
    {Local \o NeedKeysRoom \o version \o Auth1(OsapDsap, "key") \o CheckOk
        : version \in {<<>>, CallOk(TPM_GetCapability)}})

TPM_LoadKey == Command("TPM_LoadKey",
    {NeedKeysRoom \o Local \o Auth1(Kinds, "key") \o CheckOk \o Local,
     NeedKeysRoom \o Local \o AskSized})

TPM_LoadKey2 == Command("TPM_LoadKey2",
    {Local \o NeedKeysRoom \o Auth1(Kinds, "key") \o CheckOk \o Local,
     Local \o NeedKeysRoom \o AskSized})

TPM_GetPubKey == Command("TPM_GetPubKey",
    {NeedKeysRoom \o Local \o Auth1(Kinds, "key") \o Local \o CheckOk,
     NeedKeysRoom \o Local \o AskSized})

TPM_FlushSpecific == Command("TPM_FlushSpecific", {Ask})

\* A 1.2 TPM does not know EvictKey; with TPM_VERSION set to something else
\* than 11 it is not even tried.
TPM_EvictKey == Command("TPM_EvictKey", {Ask \o OnlyIfBadOrdinal \o Ask, Ask})

\* The certifying key has a secret.
TPM_CertifyKey_AUTH2 == Command("TPM_CertifyKey",
    {Local \o NeedKeysRoom \o Auth2(Kinds, "key", OIAP, "none") \o Local \o CheckOk})

\* The certifying key has none.
TPM_CertifyKey_AUTH1 == Command("TPM_CertifyKey",
    {Local \o NeedKeysRoom \o Auth1(OIAP, "none") \o Local \o CheckOk})

TPM_CertifyKey2_AUTH2 == Command("TPM_CertifyKey2",
    {Local \o NeedKeysRoom \o Auth2(OIAP, "none", OIAP, "none") \o Local \o CheckOk})

TPM_CertifyKey2_AUTH1 == Command("TPM_CertifyKey2",
    {Local \o NeedKeysRoom \o Auth1(OIAP, "none") \o Local \o CheckOk})

-----------------------------------------------------------------------------
(* chgauth.c                                                               *)

TPM_ChangeKeyAuth == Command("TPM_ChangeKeyAuth",
    {Local \o NeedKeysRoom \o Auth2(OsapDsap, "key", OIAP, "none") \o Local \o CheckOk})

TPM_ChangeAuth == Command("TPM_ChangeAuth",
    {Local \o NeedKeysRoom \o Auth2(OsapDsap, "key", OIAP, "none") \o Local \o CheckOk})

TPM_ChangeSRKAuth == Command("TPM_ChangeSRKAuth",
    {Local \o Auth1(OSAP, "owner") \o CheckHmac})

TPM_ChangeOwnAuth == Command("TPM_ChangeOwnAuth",
    {Local \o Auth1(OSAP, "owner") \o CheckHmac})

-----------------------------------------------------------------------------
(* context.c, session.c                                                    *)

TPM_SaveKeyContext == Command("TPM_SaveKeyContext", {NeedKeysRoom \o AskSized})

TPM_LoadKeyContext == Command("TPM_LoadKeyContext", {AskSized})

TPM_SaveAuthContext == Command("TPM_SaveAuthContext", {AskSized})

TPM_LoadAuthContext == Command("TPM_LoadAuthContext", {AskSized})

TPM_KeyControlOwner == Command("TPM_KeyControlOwner",
    {Local \o NeedKeysRoom \o Local \o Auth1(OsapOiap, "owner") \o CheckHmac})

TPM_SaveContext == Command("TPM_SaveContext", {AskSized})

TPM_LoadContext == Command("TPM_LoadContext", {AskSized})

-----------------------------------------------------------------------------
(* bind.c, signature.c, seal.c                                             *)

TPM_UnBind == Command("TPM_UnBind",
    {Local \o NeedKeysRoom \o Auth1(OsapDsap, "key") \o Local \o CheckOk,
     Local \o NeedKeysRoom \o AskSized})

TPM_Sign == Command("TPM_Sign",
    {Local \o NeedKeysRoom \o Auth1(Kinds, "key") \o Local \o CheckOk,
     Local \o NeedKeysRoom \o AskSized})

TPM_Seal == Command("TPM_Seal",
    {Local \o NeedKeysRoom \o Local \o Auth1(OsapDsap, "key") \o Local \o CheckOk})

\* The sealing key has a secret.
TPM_Unseal_AUTH2 == Command("TPM_Unseal",
    {NeedKeysRoom \o Local \o Auth2(OsapDsap, "key", OIAP, "none") \o Local \o CheckOk})

\* The sealing key has none: one session, for the data.
TPM_Unseal_AUTH1 == Command("TPM_Unseal",
    {NeedKeysRoom \o Local \o Auth1(OIAP, "none") \o Local \o CheckOk})

\* The memory for the encrypted data is taken, and the data encrypted, with
\* the session open; a failure of either leaves it open.
TPM_Sealx == Command("TPM_Sealx",
    {Local \o NeedKeysRoom \o Local \o NonceLateAuth1(OsapDsap, "key") \o Local
        \o CheckOk})

TPM_Unsealx == Command("TPM_Unsealx",
    {Local \o NeedKeysRoom \o Auth2(OsapDsap, "key", OIAP, "none") \o Local \o CheckOk
        \o Local})

-----------------------------------------------------------------------------
(* identity.c                                                              *)

\* The SRK has a secret: its session, then the owner's.
TPM_MakeIdentity_AUTH2 == Command("TPM_MakeIdentity",
    {Local \o Auth2(Kinds, "key", OsapDsap, "owner") \o Local \o CheckHmac})

\* The SRK has none.
TPM_MakeIdentity_AUTH1 == Command("TPM_MakeIdentity",
    {Local \o Auth1(OsapDsap, "owner") \o Local \o CheckHmac})

\* The identity key has a secret.
TPM_ActivateIdentity_AUTH2 == Command("TPM_ActivateIdentity",
    {Local \o NeedKeysRoom \o Auth2(Kinds, "key", OsapOiap, "owner") \o CheckOk})

\* The identity key has none.
TPM_ActivateIdentity_AUTH1 == Command("TPM_ActivateIdentity",
    {Local \o NeedKeysRoom \o Auth1(Kinds, "owner") \o CheckOk})

-----------------------------------------------------------------------------
(* migrate.c                                                               *)

TPM_AuthorizeMigrationKey == Command("TPM_AuthorizeMigrationKey",
    {Local \o Auth1(Kinds, "owner") \o Local \o CheckOk})

\* The parent key has a secret.
TPM_CreateMigrationBlob_AUTH2 == Command("TPM_CreateMigrationBlob",
    {Local \o NeedKeysRoom \o Auth2(Kinds, "key", OIAP, "none") \o Local \o CheckOk})

\* The parent key has none: one session, for the migration secret.
TPM_CreateMigrationBlob_AUTH1 == Command("TPM_CreateMigrationBlob",
    {Local \o NeedKeysRoom \o Auth1(OIAP, "none") \o Local \o CheckOk})

\* Without a secret the request is transmitted whether or not it was built.
TPM_ConvertMigrationBlob == Command("TPM_ConvertMigrationBlob",
    {Local \o NeedKeysRoom \o Auth1(Kinds, "key") \o Local \o CheckOk,
     Local \o NeedKeysRoom \o Transmit(<<>>) \o OnError(<<>>) \o Local})

TPM_MigrateKey == Command("TPM_MigrateKey",
    {Local \o NeedKeysRoom \o Local \o Auth1(Kinds, "key") \o Local \o CheckHmac,
     Local \o NeedKeysRoom \o AskSized})

TPM_CMK_SetRestrictions == Command("TPM_CMK_SetRestrictions",
    {Local \o Auth1(OsapOiap, "owner") \o CheckHmac})

TPM_CMK_ApproveMA == Command("TPM_CMK_ApproveMA",
    {Local \o Auth1(OsapOiap, "owner") \o CheckOk})

TPM_CMK_CreateKey == Command("TPM_CMK_CreateKey",
    {Local \o NeedKeysRoom \o Local \o Auth1(OsapDsap, "key") \o CheckOk})

TPM_CMK_CreateTicket == Command("TPM_CMK_CreateTicket",
    {Local \o Auth1(Kinds, "owner") \o CheckHmac})

\* A request that cannot be built leaves the session open.
TPM_CMK_CreateBlob == Command("TPM_CMK_CreateBlob",
    {Local \o NeedKeysRoom \o Local \o SessionOpen(1, Kinds, "key", <<>>)
        \o Compute(<<1>>) \o Local \o Transmit(<<1>>) \o SessionClose(<<1>>)
        \o OnError(<<>>) \o Local \o CheckOk})

\* The same, and the session is closed only when the TPM refuses: when it
\* answers it has ended the session itself.
TPM_CMK_ConvertMigration == Command("TPM_CMK_ConvertMigration",
    {Local \o NeedKeysRoom \o Local \o SessionOpen(1, OsapOiap, "key", <<>>)
        \o Compute(<<1>>) \o Local \o Transmit(<<1>>) \o OnError(<<1>>) \o Local
        \o CheckOk})

-----------------------------------------------------------------------------
KeyCommands == UNION {
    TPM_CreateEndorsementKeyPair, TPM_CreateRevocableEK, TPM_RevokeTrust,
    TPM_OwnerReadPubek, TPM_DisablePubekRead, TPM_OwnerReadInternalPub,
    TPM_CreateWrapKey, TPM_LoadKey, TPM_LoadKey2, TPM_GetPubKey,
    TPM_FlushSpecific, TPM_EvictKey, TPM_CertifyKey_AUTH2,
    TPM_CertifyKey_AUTH1, TPM_CertifyKey2_AUTH2, TPM_CertifyKey2_AUTH1,
    TPM_ChangeKeyAuth, TPM_ChangeAuth, TPM_ChangeSRKAuth, TPM_ChangeOwnAuth,
    TPM_SaveKeyContext, TPM_LoadKeyContext, TPM_SaveAuthContext,
    TPM_LoadAuthContext, TPM_KeyControlOwner, TPM_SaveContext,
    TPM_LoadContext, TPM_UnBind, TPM_Sign, TPM_Seal, TPM_Unseal_AUTH2,
    TPM_Unseal_AUTH1, TPM_Sealx, TPM_Unsealx, TPM_MakeIdentity_AUTH2,
    TPM_MakeIdentity_AUTH1, TPM_ActivateIdentity_AUTH2,
    TPM_ActivateIdentity_AUTH1, TPM_AuthorizeMigrationKey,
    TPM_CreateMigrationBlob_AUTH2, TPM_CreateMigrationBlob_AUTH1,
    TPM_ConvertMigrationBlob, TPM_MigrateKey, TPM_CMK_SetRestrictions,
    TPM_CMK_ApproveMA, TPM_CMK_CreateKey, TPM_CMK_CreateTicket,
    TPM_CMK_CreateBlob, TPM_CMK_ConvertMigration}
=============================================================================
