------------------------------ MODULE Resources ------------------------------
(***************************************************************************)
(* What the operator deploys: the objects the builders describe, the rules *)
(* the roles grant, and what the programs that run with these roles do.    *)
(*                                                                         *)
(* An object is a pair of its resource and its name.  A rule set is a set  *)
(* of pairs of a resource and a verb.  API groups, labels, images and      *)
(* resource requests are left out.                                         *)
(***************************************************************************)
EXTENDS Naturals, FiniteSets, SequencesExt

CONSTANTS
    DeployClusterResources, \* the DEPLOY_CLUSTER_RESOURCES of the operator
    MTQPriorityClass,       \* kubevirt-cluster-critical
    NoClass,                \* no priority class
    Nodes                   \* the nodes pods can be scheduled on

ASSUME ResourcesAssumption ==
    /\ DeployClusterResources \in BOOLEAN
    /\ MTQPriorityClass # NoClass
    /\ IsFiniteSet(Nodes)

ControllerName == "mtq-controller"
LockName == "mtq-lock"
DefaultPort == 8443

Read == {"get", "list", "watch"}
ListWatch == {"list", "watch"}
Own == Read \cup {"create", "delete", "update"}

-----------------------------------------------------------------------------
\* Rules of the roles.

getMTQLockServerClusterPolicyRules == {"kubevirts"} \X ListWatch

getControllerClusterPolicyRules ==
    ({"pods", "resourcequotas", "limitranges", "kubevirts",
      "virtualmachineinstances", "virtualmachineinstancemigrations"} \X ListWatch)
    \cup ({"persistentvolumeclaims", "namespaces", "customresourcedefinitions"} \X Read)
    \cup ({"virtualmachinemigrationresourcequotas"} \X (Read \cup {"update"}))
    \cup ({"validatingwebhookconfigurations"} \X {"create", "get", "delete"})
    \cup {<<"events", "create">>, <<"events", "patch">>,
          <<"resourcequotas", "update">>,
          <<"virtualmachinemigrationresourcequotas/status", "update">>}

GetClusterRolePolicyRules ==
    getControllerClusterPolicyRules \cup getMTQLockServerClusterPolicyRules

createControllerRole ==
    ({"configmaps", "secrets"} \X Read)
    \cup ({"endpoints"} \X (Read \cup {"create", "update"}))
    \cup ({"leases"} \X (Own \cup {"patch"}))

createMTQlockRole == {"secrets"} \X Read

\* The operator's own rules, from its manifest.
getClusterPolicyRules ==
    ({"clusterrolebindings", "clusterroles",
      "customresourcedefinitions", "customresourcedefinitions/status"} \X Own)
    \cup ({"mtqs", "mtqs/finalizers"} \X (Read \cup {"delete", "update"}))
    \cup ({"mtqs/status"} \X {"get", "update", "patch"})
    \cup ({"priorityclasses"} \X Read)
    \cup GetClusterRolePolicyRules

getNamespacedPolicyRules ==
    ({"serviceaccounts", "configmaps", "events", "secrets", "services",
      "deployments", "deployments/finalizers", "rolebindings", "roles"} \X Own)
    \cup ({"pods", "services", "endpoints"} \X (Read \cup {"create", "update"}))
    \cup ({"servicemonitors", "prometheusrules", "leases"} \X (Own \cup {"patch"}))

-----------------------------------------------------------------------------
\* What the programs do with these rules.

\* The informers of the controller; each lists and watches one resource.
Informed ==
    {"virtualmachineinstancemigrations", "virtualmachinemigrationresourcequotas",
     "pods", "virtualmachineinstances", "kubevirts", "customresourcedefinitions",
     "resourcequotas", "limitranges", "persistentvolumeclaims", "namespaces"}

\* Execute creates the informers; Run adds one for secrets, leader election and
\* events; the worker lends, records, locks and reads the CA bundle.
ControllerCalls ==
    (Informed \X ListWatch)
    \cup ({"secrets"} \X ListWatch)
    \cup ({"leases"} \X {"get", "create", "update"})
    \cup ({"validatingwebhookconfigurations"} \X {"get", "create", "delete"})
    \cup {<<"events", "create">>, <<"configmaps", "get">>,
          <<"resourcequotas", "update">>,
          <<"virtualmachinemigrationresourcequotas/status", "update">>}

LockServerCalls == {"secrets", "kubevirts"} \X ListWatch

CallsOf(name) == IF name = ControllerName THEN ControllerCalls ELSE LockServerCalls

\* Where the webhook of the controller sends requests, and where StartTLS and
\* the controller's http.Server listen.
WebhookTarget == [service |-> LockName, port |-> 443]
ListenPort == DefaultPort

-----------------------------------------------------------------------------
\* The builders, each a sequence of objects in the order of the code.

createStaticMTQLockResources == <<<<"clusterroles", LockName>>,
                                  <<"clusterrolebindings", LockName>>>>

createStaticControllerResources == <<<<"clusterroles", ControllerName>>,
                                     <<"clusterrolebindings", ControllerName>>>>

createCRDResources ==
    <<<<"customresourcedefinitions", "virtualmachinemigrationresourcequotas">>>>

createMTQLockResources ==
    <<<<"roles", LockName>>, <<"rolebindings", LockName>>,
      <<"serviceaccounts", LockName>>, <<"services", LockName>>,
      <<"deployments", LockName>>>>

\* The binding comes before the role it refers to.
createMTQControllerResources ==
    <<<<"serviceaccounts", ControllerName>>, <<"rolebindings", ControllerName>>,
      <<"roles", ControllerName>>, <<"deployments", ControllerName>>>>

\* The one definition of createCertificateDefinitions: the secret of the CA, the
\* ConfigMap with the CAs to trust, the secret of the server and its host name.
Signer == <<"secrets", "mtq-lock">>
Bundle == <<"configmaps", "mtq-lock-signer-bundle">>
Target == <<"secrets", "mtq-lock-server-cert">>
TargetService == LockName

\* The groups of the two factories are kept in Go maps and come in any order.
staticFactoryFunctions ==
    {createStaticMTQLockResources, createStaticControllerResources, createCRDResources}
factoryFunctions == {createMTQLockResources, createMTQControllerResources}

CreateAllStaticResources == {FlattenSeq(gs) : gs \in SetToSeqs(staticFactoryFunctions)}
CreateAllResources == {FlattenSeq(gs) : gs \in SetToSeqs(factoryFunctions)}

\* The lists of objects GetAllResources may return.
GetAllResources ==
    {cluster \o namespaced \o <<Signer, Bundle, Target>> :
        cluster \in IF DeployClusterResources THEN CreateAllStaticResources ELSE {<<>>},
        namespaced \in CreateAllResources}

\* The objects in these lists.
Groups ==
    factoryFunctions \cup (IF DeployClusterResources THEN staticFactoryFunctions ELSE {})
Objects == {Signer, Bundle, Target} \cup (UNION {ToSet(group) : group \in Groups})

Resource(o) == o[1]
Name(o) == o[2]

-----------------------------------------------------------------------------
\* Contents of the objects that others depend on.

\* What a Deployment asks for: pods on different nodes, at most so many of them
\* down during a rollout, and what they need to start.
createMTQControllerDeployment ==
    [replicas |-> 2, maxUnavailable |-> 1, account |-> ControllerName,
     secret |-> Target, keys |-> {"tls.crt", "tls.key"}, port |-> 8443]

createMTQLockDeployment ==
    [replicas |-> 2, maxUnavailable |-> 1, account |-> LockName,
     secret |-> Target, keys |-> {}, port |-> 8443]

Deployment(name) ==
    IF name = ControllerName THEN createMTQControllerDeployment ELSE createMTQLockDeployment

createMTQLockService == [name |-> LockName, port |-> 443, targetPort |-> 8443]

RulesOf(role) ==
    CASE role = <<"clusterroles", ControllerName>> -> getControllerClusterPolicyRules
      [] role = <<"clusterroles", LockName>> -> getMTQLockServerClusterPolicyRules
      [] role = <<"roles", ControllerName>> -> createControllerRole
      [] role = <<"roles", LockName>> -> createMTQlockRole

Roles == {"roles", "clusterroles"}
Bindings == {"rolebindings", "clusterrolebindings"}

\* A binding, its role and the account it binds to the role share one name.
RoleRef(b) ==
    <<IF Resource(b) = "rolebindings" THEN "roles" ELSE "clusterroles", Name(b)>>

\* Requests of the webhook reach the port the lock server listens on, under a
\* name for which it has a certificate.
Wired ==
    /\ WebhookTarget.service = createMTQLockService.name
    /\ WebhookTarget.port = createMTQLockService.port
    /\ createMTQLockService.targetPort = createMTQLockDeployment.port
    /\ createMTQLockDeployment.port = ListenPort
    /\ WebhookTarget.service = TargetService

\* The priority class of the pods: the one asked for or else the default one,
\* if there is such a class.
getNamespacedArgs(class, classes) ==
    LET name == IF class = NoClass THEN MTQPriorityClass ELSE class
    IN  IF name \in classes THEN name ELSE NoClass
=============================================================================
