----------------------------- MODULE LockServer -----------------------------
(***************************************************************************)
(* The lock server's process, the webhook of one locked namespace and the  *)
(* certificates both rest on.  The API server sends a request that the     *)
(* webhook matches to the lock server, which must present a certificate    *)
(* issued by a CA of the bundle the webhook was created with; if it does   *)
(* not, the request fails, the controller's own requests included.         *)
(***************************************************************************)
EXTENDS CertRotation, NamespaceLock

CONSTANTS
    KvNamespaces,    \* namespaces KubeVirt may be installed in
    MaxLockAge       \* bound on the ticks a namespace stays locked

ASSUME ServerAssumption == KvNamespaces # {} /\ MaxLockAge \in Nat

VARIABLES
    server,      \* the process: "down", "starting" or "serving"
    served,      \* the certificate it presents, Unset for the self-signed fallback
    kvNS,        \* the handler's KubeVirt namespace, Unset before the first request
    kubevirts,   \* namespaces with a KubeVirt object
    hook         \* the webhook: CA bundle and time of creation, or Unset

serverVars == <<server, served, kvNS, kubevirts, hook>>
vars == <<certVars, serverVars>>

Init ==
    /\ CertInit
    /\ server = "down"
    /\ served = Unset
    /\ kvNS = Unset
    /\ kubevirts = {CHOOSE k \in KvNamespaces : TRUE}
    /\ hook = Unset

\* The CAs the webhook and the served certificate still name.
Held == (IF hook = Unset THEN {} ELSE {c.id : c \in hook.bundle})
        \cup (IF served = Unset THEN {} ELSE {served.issuer})

-----------------------------------------------------------------------------
\* The TLS handshake of the API server with the lock server.
Trusted(cas) ==
    /\ served # Unset
    /\ now <= served.notAfter
    /\ \E c \in cas : c.id = served.issuer /\ now <= c.notAfter

\* The user names that Validate composes from the namespaces it is given.
ServiceAccount(user, ns) ==
    CASE user = <<MtqNs, "mtq-controller">> -> "mtq-controller"
      [] user = <<ns, "kubevirt-controller">> -> "kubevirt-controller"
      [] OTHER -> "other"

\* The namespace of the KubeVirt object an informer lists first.
KubeVirtNS == IF kubevirts = {} THEN Unset ELSE CHOOSE k \in kubevirts : TRUE

\* The namespace the handler would use for a request that arrives now.
HandlerNS == IF kvNS # Unset THEN kvNS ELSE KubeVirtNS

\* The handler's verdict.
Validated(req) == Validate([req EXCEPT !.User = ServiceAccount(@, HandlerNS)])

\* What becomes of a request while the namespace is locked with these CAs:
\* failurePolicy Fail refuses it when the server cannot be reached or trusted.
Passes(req, cas) ==
    matchesRules(req) => server = "serving" /\ Trusted(cas) /\ Validated(req)

\* The requests a locked namespace must let through.
RestoreQuota == Request("ResourceQuota", "UPDATE", <<MtqNs, "mtq-controller">>, {})
TargetPod(kv) == Request("Pod", "CREATE", <<kv, "kubevirt-controller">>,
                         {"kubevirt.io/migrationJobUID"})

-----------------------------------------------------------------------------
\* main: the ready file first, then the informer of secrets.
StartServer ==
    /\ server = "down"
    /\ server' = "starting"
    /\ UNCHANGED <<certVars, served, kvNS, kubevirts, hook>>

LiveCert == secret["target"].cert

\* The informer has listed the secrets, and the server starts to listen.
StartTLS ==
    /\ server = "starting"
    /\ server' = "serving"
    /\ served' = LiveCert
    /\ UNCHANGED <<certVars, kvNS, kubevirts, hook>>

\* Current: the newest certificate of the secret, or the last one that was good.
Current == IF LiveCert = Unset THEN served ELSE LiveCert

DeliverServed ==
    /\ server = "serving"
    /\ served # Current
    /\ served' = Current
    /\ UNCHANGED <<certVars, server, kvNS, kubevirts, hook>>

Exit ==
    /\ server' = "down"
    /\ served' = Unset
    /\ kvNS' = Unset

\* Mutant of getKVNS: a missing KubeVirt is taken for one without namespace.
getKVNSAny ==
    /\ kvNS' = IF kubevirts = {} THEN "" ELSE KubeVirtNS
    /\ UNCHANGED <<server, served>>

\* GetKVNS exits the process unless there is exactly one KubeVirt.
getKVNS ==
    IF Cardinality(kubevirts) = 1
    THEN kvNS' = KubeVirtNS /\ UNCHANGED <<server, served>>
    ELSE Exit

\* ServeHTTP: a request that passes the handshake; the first one looks the
\* namespace of KubeVirt up, which stays as it is until the process ends.
ServeHTTP ==
    /\ hook # Unset
    /\ server = "serving"
    /\ Trusted(hook.bundle)
    /\ kvNS = Unset
    /\ getKVNS
    /\ UNCHANGED <<certVars, kubevirts, hook>>

-----------------------------------------------------------------------------
\* The controller locks the namespace with the bundle as it is now; without a
\* bundle BundleBytes fails and so does the lock.
LockNamespace ==
    /\ hook = Unset
    /\ bundle \notin {Unset, {}}
    /\ hook' = [bundle |-> bundle, at |-> now]
    /\ UNCHANGED <<certVars, server, served, kvNS, kubevirts>>

UnlockNamespace ==
    /\ hook # Unset
    /\ hook' = Unset
    /\ UNCHANGED <<certVars, server, served, kvNS, kubevirts>>

ServerCrash ==
    /\ Trouble
    /\ server # "down"
    /\ Exit
    /\ UNCHANGED <<certLess, kubevirts, hook>>

\* KubeVirt is removed and installed again.
KubeVirtRemoved ==
    /\ Trouble
    /\ kubevirts' = {}
    /\ UNCHANGED <<certLess, server, served, kvNS, hook>>

KubeVirtInstalled ==
    /\ kubevirts = {}
    /\ \E k \in KvNamespaces : kubevirts' = {k}
    /\ UNCHANGED <<certVars, server, served, kvNS, hook>>

CertStep == CertNext(Held) /\ UNCHANGED serverVars

\* A tick: the server is up, and its informer has caught up too.
PassTime ==
    /\ Tick
    /\ server = "serving"
    /\ served = Current
    /\ hook # Unset => now - hook.at < MaxLockAge
    /\ UNCHANGED serverVars

Next ==
    \/ CertStep \/ PassTime
    \/ StartServer \/ StartTLS \/ DeliverServed \/ ServeHTTP
    \/ LockNamespace \/ UnlockNamespace
    \/ ServerCrash \/ KubeVirtRemoved \/ KubeVirtInstalled

\* The reconciler calls Sync again and again, at least every certPollInterval,
\* informers deliver, and a process that ended is started again.
Fairness ==
    /\ WF_vars(Start /\ UNCHANGED serverVars)
    /\ WF_vars(SyncStep(Held) /\ UNCHANGED serverVars)
    /\ WF_vars(DeliverSecrets /\ UNCHANGED serverVars)
    /\ WF_vars(DeliverBundle /\ UNCHANGED serverVars)
    /\ WF_vars(StartServer)
    /\ WF_vars(StartTLS)
    /\ WF_vars(DeliverServed)
    /\ WF_vars(KubeVirtInstalled)

Spec == Init /\ [][Next]_vars /\ Fairness

-----------------------------------------------------------------------------
CA == [id : CAs, notBefore : 0 .. MaxTime, notAfter : Nat]
Cert == [issuer : CAs, notAfter : Nat]
SecretOf(x) ==
    [live : BOOLEAN, uid : {0, 1}, tls : BOOLEAN,
     cfg : {Unset} \cup {d[x] : d \in Definitions},
     notBefore : {Unset} \cup (0 .. MaxTime), notAfter : {Unset} \cup Int,
     cert : {Unset} \cup (IF x = "signer" THEN CA ELSE Cert)]
SecretsType ==
    {f \in [Secrets -> SecretOf("signer") \cup SecretOf("target")] :
        \A x \in Secrets : f[x] \in SecretOf(x)}
Call ==
    [pc : {"idle", "config", "ensure", "recreate", "bundle", "target"}, who : Secrets,
     want : {Unset} \cup Definitions,
     read : {Unset} \cup SecretOf("signer") \cup SecretOf("target"),
     ca : {Unset} \cup CA, certs : SUBSET CA]

ASSUME UnsetAssumption == Unset \notin CA \cup Cert

\* Types: every certificate is one that some CA of the pool issued, and the
\* pool never runs out.
TypeOK ==
    /\ now \in 0 .. MaxTime
    /\ certConfig \in CertConfigs
    /\ {secret, secretView} \subseteq SecretsType
    /\ {bundle, bundleView} \subseteq {Unset} \cup SUBSET CA
    /\ sync \in Call
    /\ {listers, synced} \subseteq BOOLEAN
    /\ disturbed \in 0 .. now
    /\ server \in {"down", "starting", "serving"}
    /\ served \in {Unset} \cup Cert
    /\ hook = Unset \/ hook \in [at : 0 .. now, bundle : SUBSET CA]
    /\ CAs \ (UsedCAs \cup Held) # {}

\* Rotation that follows the clock never cuts the controller off from a lock it
\* has just taken.  For a tenth of the target's refresh time after LockNamespace
\* the webhook's bundle verifies whatever certificate the server serves, so the
\* controller can restore the quotas (ensureCertBundle before ensureTarget, and
\* the wait of the target for its signer), unless spec.certConfig was changed or
\* an object deleted meanwhile.
YoungLockTrusted ==
    \/ hook = Unset
    \/ hook.at <= disturbed \/ now = disturbed
    \/ 10 * (now - hook.at) > CreateCertificateDefinitions(certConfig).target.Refresh
    \/ server = "serving" => Passes(RestoreQuota, hook.bundle)

\* The bundle in the cluster verifies the server and a lock taken now lets both
\* the controller's restore and virt-controller's target pods through.
LockUsable ==
    /\ bundle # Unset
    /\ Passes(RestoreQuota, bundle)
    /\ \E kv \in kubevirts : Passes(TargetPod(kv), bundle)

\* Whatever is deleted, changed or crashes, and with every cache behind, the
\* certificate manager and the lock server come back to a state in which locks
\* work.
LockUsableAgain == []<>LockUsable

\* A change of spec.certConfig reaches the certificates: in the end the signer
\* and the target are marked with the configuration and the CA has its lifetime,
\* whatever copies of the secrets Sync worked from (ensureCertConfig).
CertConfigApplied ==
    \A c \in CertConfigs :
        LET d == CreateCertificateDefinitions(c) IN
        [](certConfig = c =>
             <>(\/ certConfig # c
                \/ /\ \A x \in Secrets : secret[x].cfg = d[x]
                   /\ secret["signer"].cert # Unset
                   /\ secret["signer"].cert.notAfter
                        = secret["signer"].cert.notBefore + d["signer"].Lifetime))
=============================================================================
