---------------------------- MODULE NamespaceLock ----------------------------
(***************************************************************************)
(* The lock of a namespace: the ValidatingWebhookConfiguration the         *)
(* controller creates, the requests it sends to the lock server and the    *)
(* lock server's verdict on them.                                          *)
(***************************************************************************)
CONSTANTS
    Ns,     \* the tenant's namespace
    MtqNs   \* the namespace MTQ is installed in

\* The fields of the webhook that depend on the two namespaces.
getLockingValidatingWebhook(mtqNs, nsToLock) ==
    [Name |-> nsToLock, NamespaceSelector |-> nsToLock, Service |-> mtqNs]

isOurValidatingWebhookConfiguration(mtqNs, lockedNs, existing) ==
    existing = getLockingValidatingWebhook(mtqNs, lockedNs)

\* The verbs the controller's ClusterRole grants on webhook configurations.
getControllerClusterPolicyRules == {"create", "get", "delete"}

\* Mutant of NamespaceLocked: a webhook that is not found counts as found.
NamespaceLockedNotFound(exists) == "locked"

\* NamespaceLocked(nsToVerify, mtqNs): it passes its two namespaces to the
\* comparison in the wrong order, so it takes the controller's own webhook for
\* a foreign one and updates it; without the verb the update is refused.
NamespaceLocked(exists) ==
    LET existing == getLockingValidatingWebhook(MtqNs, Ns)
    IN  IF ~ exists THEN "unlocked"
        ELSE IF \/ isOurValidatingWebhookConfiguration(Ns, MtqNs, existing)
                \/ "update" \in getControllerClusterPolicyRules
             THEN "locked"
             ELSE "error"

-----------------------------------------------------------------------------
\* An admission request as the lock server sees it.
Request(kind, operation, user, labels) ==
    [Kind |-> kind, Operation |-> operation, User |-> user, Labels |-> labels]

\* Mutant of matchesRules: the rule for the deletion of a VMMRQ is missing.
matchesRulesNoDelete(req) ==
    <<req.Kind, req.Operation>> \in
        {<<"ResourceQuota", "UPDATE">>,
         <<"VirtualMachineMigrationResourceQuota", "CREATE">>,
         <<"Pod", "CREATE">>}

\* The rules of the webhook: the requests the API server sends to it.
matchesRules(req) ==
    <<req.Kind, req.Operation>> \in
        {<<"ResourceQuota", "UPDATE">>,
         <<"VirtualMachineMigrationResourceQuota", "DELETE">>,
         <<"VirtualMachineMigrationResourceQuota", "CREATE">>,
         <<"Pod", "CREATE">>}

validateRQCtlModification(req) == req.User = "mtq-controller"

\* Mutant of validateTargetVirtLauncherPod: the wrong service account.
validateCtlLauncherPod(req) ==
    /\ req.User = "mtq-controller"
    /\ "kubevirt.io/migrationJobUID" \in req.Labels

validateTargetVirtLauncherPod(req) ==
    /\ req.User = "kubevirt-controller"
    /\ "kubevirt.io/migrationJobUID" \in req.Labels

Validate(req) ==
    IF req.Kind = "Pod"
    THEN validateTargetVirtLauncherPod(req)
    ELSE validateRQCtlModification(req)

\* Whether a request passes admission while the webhook exists or not.
Admitted(locked, req) == locked /\ matchesRules(req) => Validate(req)
=============================================================================
