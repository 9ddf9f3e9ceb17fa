---------------------------- MODULE LibtpmOwner ----------------------------
(***************************************************************************)
(* The command functions of libtpm by which the owner administers the TPM: *)
(* owner.c, ownertpmdiag.c, optin.c, management.c, maintenance.c,          *)
(* delegation.c, dir.c, startup.c, testing.c.  The steps are those of      *)
(* TssSteps.tla; a command has one program per way through its function.   *)
(* A comment says where a function leaves the common pattern.              *)
(***************************************************************************)
EXTENDS TssSteps

-----------------------------------------------------------------------------
(* keys.c, miscfunc.c: the commands these functions begin with.            *)

TPM_ReadPubek == Command("TPM_ReadPubek", {Local \o Local \o AskSized})
TPM_GetCapability == Command("TPM_GetCapability", {Local \o AskSized})

\* The steps of a command with one program, for the functions that call it
\* with no session open and return its error.
CallOk(c) == (CHOOSE x \in c : TRUE).steps \o OnError(<<>>)

-----------------------------------------------------------------------------
(* owner.c, ownertpmdiag.c                                                 *)

\* Encrypt the secrets to the endorsement key, then, for a 1.1 key structure,
\* ask for the version.  OIAP is the only kind allowed.
TPM_TakeOwnership == Command("TPM_TakeOwnership",
    {Local \o CallOk(TPM_ReadPubek) \o Local \o version \o Nonce
        \o Auth1(OIAP, "owner") \o Local \o CheckOk
        : version \in {<<>>, CallOk(TPM_GetCapability)}})

\* The HMAC of the answer is not looked at.
TPM_OwnerClear == Command("TPM_OwnerClear",
    {Local \o Nonce \o SessionOpen(1, Kinds, "owner", <<>>) \o Send1})

TPM_ForceClear == Command("TPM_ForceClear", {AskSized})

TPM_DisableOwnerClear == Command("TPM_DisableOwnerClear",
    {Local \o Auth1(Kinds, "owner") \o CheckHmac})

TPM_DisableForceClear == Command("TPM_DisableForceClear", {AskSized})

TSC_PhysicalPresence == Command("TSC_PhysicalPresence", {AskSized})

TPM_ResetEstablishmentBit == Command("TPM_ResetEstablishmentBit", {AskSized})

TPM_TakeOwnership12 == Command("TPM_TakeOwnership12",
    {Local \o CallOk(TPM_ReadPubek) \o Local \o CallOk(TPM_GetCapability) \o Nonce
        \o Auth1(OsapOiap, "owner") \o Local \o CheckOk})

\* As TPM_OwnerClear.
TPM_OwnerClear12 == Command("TPM_OwnerClear12",
    {Local \o Nonce \o SessionOpen(1, Kinds, "owner", <<>>) \o Send1})

-----------------------------------------------------------------------------
(* optin.c                                                                 *)

TPM_SetOwnerInstall == Command("TPM_SetOwnerInstall", {AskSized})

TPM_OwnerSetDisable == Command("TPM_OwnerSetDisable",
    {Local \o Auth1(Kinds, "owner") \o CheckHmac})

\* The nonce is drawn with the session open; without the operator's secret
\* the request is transmitted whether or not it could be built.
TPM_SetTempDeactivated == Command("TPM_SetTempDeactivated",
    {NonceLateAuth1(OsapOiap, "owner") \o CheckHmac,
     Transmit(<<>>)})

TPM_PhysicalEnable == Command("TPM_PhysicalEnable", {AskSized})

TPM_PhysicalDisable == Command("TPM_PhysicalDisable", {AskSized})

TPM_PhysicalSetDeactivated == Command("TPM_PhysicalSetDeactivated", {AskSized})

TPM_SetOperatorAuth == Command("TPM_SetOperatorAuth", {Local \o AskSized})

-----------------------------------------------------------------------------
(* management.c, maintenance.c                                             *)

TPM_SetRedirection == Command("TPM_SetRedirection",
    {NeedKeysRoom \o Nonce \o Auth1(OsapDsap, "owner") \o CheckHmac})

TPM_ResetLockValue == Command("TPM_ResetLockValue",
    {Local \o Auth1(Kinds, "owner") \o CheckHmac})

TPM_CreateMaintenanceArchive == Command("TPM_CreateMaintenanceArchive",
    {Local \o Auth1(Kinds, "owner") \o Local \o CheckHmac})

TPM_LoadMaintenanceArchive == Command("TPM_LoadMaintenanceArchive",
    {Local \o Auth1(Kinds, "owner") \o CheckHmac})

TPM_KillMaintenanceFeature == Command("TPM_KillMaintenanceFeature",
    {Local \o Auth1(Kinds, "owner") \o CheckHmac})

TPM_LoadManuMaintPub == Command("TPM_LoadManuMaintPub", {Local \o AskOk})

TPM_ReadManuMaintPub == Command("TPM_ReadManuMaintPub", {AskOk})

-----------------------------------------------------------------------------
(* delegation.c                                                            *)

\* The HMAC of the answer is not looked at ("need to check HAMC here!").
TPM_Delegate_Manage == Command("TPM_Delegate_Manage",
    {Local \o Auth1(Kinds, "owner") \o Local,
     Local \o AskSized})

\* The nonce is drawn with the session open.
TPM_Delegate_CreateKeyDelegation == Command("TPM_Delegate_CreateKeyDelegation",
    {Local \o NeedKeysRoom \o Local \o NonceLateAuth1(OsapDsap, "key") \o Local
        \o CheckOk})

\* The nonce is drawn with the session open.
TPM_Delegate_CreateOwnerDelegation == Command("TPM_Delegate_CreateOwnerDelegation",
    {Local \o NonceLateAuth1(OsapDsap, "owner") \o Local \o CheckOk})

\* The nonce is drawn with the session open.
TPM_Delegate_LoadOwnerDelegation == Command("TPM_Delegate_LoadOwnerDelegation",
    {Local \o NonceLateAuth1(OsapDsap, "owner") \o CheckHmac,
     Local \o Ask})

TPM_Delegate_ReadTable == Command("TPM_Delegate_ReadTable", {AskSized})

\* The HMAC of the answer is not looked at.
TPM_Delegate_UpdateVerification == Command("TPM_Delegate_UpdateVerification",
    {Local \o Auth1(Kinds, "owner") \o Local})

TPM_Delegate_VerifyDelegation == Command("TPM_Delegate_VerifyDelegation", {Ask})

-----------------------------------------------------------------------------
(* dir.c, startup.c, testing.c, oiaposap.c                                 *)

\* The nonce is drawn with the session open.
TPM_DirWriteAuth == Command("TPM_DirWriteAuth",
    {Local \o NonceLateAuth1(Kinds, "owner") \o CheckHmac})

TPM_DirRead == Command("TPM_DirRead", {AskSized})

TPM_Startup == Command("TPM_Startup", {AskSized})

TPM_SaveState == Command("TPM_SaveState", {AskSized})

TPM_Init == Command("TPM_Init", {Ask})

TPM_SelfTestFull == Command("TPM_SelfTestFull", {AskSized})

TPM_ContinueSelfTest == Command("TPM_ContinueSelfTest", {AskSized})

TPM_GetTestResult == Command("TPM_GetTestResult", {AskSized})

\* The nonce is drawn with the session open.
TPM_CertifySelfTest == Command("TPM_CertifySelfTest",
    {NeedKeysRoom \o NonceLateAuth1(Kinds, "key") \o Local \o CheckOk,
     NeedKeysRoom \o AskSized})

TPM_SetOwnerPointer == Command("TPM_SetOwnerPointer", {Ask})

-----------------------------------------------------------------------------
OwnerCommands == UNION {
    TPM_ReadPubek, TPM_GetCapability, TPM_TakeOwnership, TPM_OwnerClear,
    TPM_ForceClear, TPM_DisableOwnerClear, TPM_DisableForceClear,
    TSC_PhysicalPresence, TPM_ResetEstablishmentBit, TPM_TakeOwnership12,
    TPM_OwnerClear12, TPM_SetOwnerInstall, TPM_OwnerSetDisable,
    TPM_SetTempDeactivated, TPM_PhysicalEnable, TPM_PhysicalDisable,
    TPM_PhysicalSetDeactivated, TPM_SetOperatorAuth, TPM_SetRedirection,
    TPM_ResetLockValue, TPM_CreateMaintenanceArchive,
    TPM_LoadMaintenanceArchive, TPM_KillMaintenanceFeature,
    TPM_LoadManuMaintPub, TPM_ReadManuMaintPub, TPM_Delegate_Manage,
    TPM_Delegate_CreateKeyDelegation, TPM_Delegate_CreateOwnerDelegation,
    TPM_Delegate_LoadOwnerDelegation, TPM_Delegate_ReadTable,
    TPM_Delegate_UpdateVerification, TPM_Delegate_VerifyDelegation,
    TPM_DirWriteAuth, TPM_DirRead, TPM_Startup, TPM_SaveState, TPM_Init,
    TPM_SelfTestFull, TPM_ContinueSelfTest, TPM_GetTestResult,
    TPM_CertifySelfTest, TPM_SetOwnerPointer}
=============================================================================
