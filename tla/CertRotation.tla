---------------------------- MODULE CertRotation ----------------------------
(***************************************************************************)
(* The operator's certificate manager: the signer secret (the current CA), *)
(* the bundle ConfigMap (all CAs to trust) and the target secret (the      *)
(* certificate the lock server serves), kept up to date by Sync.           *)
(*                                                                         *)
(* Sync reads from informer caches and writes to the API server, one call  *)
(* per step here.  The rotators and Apply are library-go's and are         *)
(* modelled from what Sync asks of them.  Time is a number of ticks, each  *)
(* far longer than the period in which Sync is repeated.                   *)
(***************************************************************************)
EXTENDS Integers, FiniteSets

CONSTANTS
    Unset,        \* a field or an annotation that has no value
    CertConfigs,  \* the values spec.certConfig of the MTQ object may take
    InitialCerts, \* the member of CertConfigs at installation
    CAs,          \* identities (subject names and keys) of CAs
    MaxTime,      \* bound on the ticks
    MaxTroubles,  \* bound on changes of the configuration, crashes, deletions
    TroubleTimes, \* the ticks at which these happen
    MaxStaleSyncs \* bound on the calls of Sync that begin with old copies

\* A CertConfig: what the administrator says of a certificate.
Durations == [duration : Nat \cup {Unset}, renewBefore : Nat \cup {Unset}]

ASSUME CertAssumption ==
    /\ Unset \notin Int
    /\ InitialCerts \in CertConfigs
    /\ CertConfigs \subseteq [ca : Durations, server : Durations]
    /\ {MaxTime, MaxTroubles, MaxStaleSyncs} \subseteq Nat

Secrets == {"signer", "target"}

VARIABLES
    now,        \* the clock
    certConfig, \* spec.certConfig of the MTQ object
    secret,     \* the two secrets in the API server
    bundle,     \* the CAs in the ConfigMap, or Unset when it does not exist
    secretView, \* the certificate manager's lister of secrets
    bundleView, \* its lister of ConfigMaps
    listers,    \* has Start filled the lister map
    sync,       \* the call of Sync that is under way
    synced,     \* since the last tick a Sync began with current copies, and
                \* after it none has failed and nothing was written or changed
    disturbed,  \* when the last change that does not follow the clock happened
    troubles,   \* changes of the configuration, crashes and deletions left
    staleSyncs  \* calls of Sync with old copies left

certApi == <<secret, bundle>>
certViews == <<secretView, bundleView>>
certRest == <<now, certConfig, certViews, listers, disturbed, troubles, staleSyncs>>
certLess == <<now, certConfig, certApi, certViews, listers, sync, synced,
              disturbed, staleSyncs>>
certVars == <<certLess, troubles>>

-----------------------------------------------------------------------------
\* Configuration.  A certConfig has a duration and a renewBefore, each perhaps
\* Unset, for the CA and for the server's certificate.

\* renewBefore counts back from NotAfter, Refresh forward from NotBefore.
Refresh(lifetime, renewBefore, default) ==
    IF renewBefore = Unset THEN default ELSE lifetime - renewBefore

Config(args, lifetime, refresh) ==
    LET life == IF args.duration = Unset THEN lifetime ELSE args.duration
    IN  [Lifetime |-> life, Refresh |-> Refresh(life, args.renewBefore, refresh)]

\* In ticks of 1.2 hours: 48 and 24 hours for the signer, 24 and 12 for the target.
CreateCertificateDefinitions(spec) ==
    [signer |-> Config(spec.ca, 40, 20), target |-> Config(spec.server, 20, 10)]

Definitions == {CreateCertificateDefinitions(c) : c \in CertConfigs}

-----------------------------------------------------------------------------
\* Objects.  A secret carries the annotations cfg, notBefore, notAfter and its
\* certificate: for the signer the CA, for the target who issued it and until
\* when it is valid.  uid tells a secret from one created in its place.

NoSecret(uid) ==
    [live |-> FALSE, uid |-> uid, tls |-> FALSE, cfg |-> Unset,
     notBefore |-> Unset, notAfter |-> Unset, cert |-> Unset]

\* The secret that createSecret and the reconciler create: no data, type Opaque.
EmptySecret(uid) == [NoSecret(1 - uid) EXCEPT !.live = TRUE]

Idle == [pc |-> "idle", who |-> "signer", want |-> Unset, read |-> Unset,
         ca |-> Unset, certs |-> {}]

CertInit ==
    /\ now = 0
    /\ certConfig = InitialCerts
    /\ secret = [x \in Secrets |-> NoSecret(0)]
    /\ bundle = Unset
    /\ secretView = secret
    /\ bundleView = bundle
    /\ listers = FALSE
    /\ sync = Idle
    /\ synced = FALSE
    /\ disturbed = 0
    /\ troubles = MaxTroubles
    /\ staleSyncs = MaxStaleSyncs

\* Are the listers' copies up to date.
Fresh == secretView = secret /\ bundleView = bundle

At(pc) == sync.pc = pc

\* Sync returns an error; the reconciler tries again.
Fail == sync' = Idle /\ synced' = FALSE

\* CAs that are nowhere in use; the next one to be generated is one of them.
UsedCAs ==
    {s.cert.id : s \in {t \in {secret["signer"], secretView["signer"]} : t.cert # Unset}}
    \cup {c.id : c \in (IF bundle = Unset THEN {} ELSE bundle)
                   \cup (IF bundleView = Unset THEN {} ELSE bundleView)
                   \cup (IF sync.ca = Unset THEN {} ELSE {sync.ca})}
    \cup {s.cert.issuer : s \in {t \in {secret["target"], secretView["target"]} : t.cert # Unset}}

-----------------------------------------------------------------------------
\* Start: the informers list and watch, then the lister map is filled.
Start ==
    /\ ~ listers
    /\ listers' = TRUE
    /\ secretView' = secret
    /\ bundleView' = bundle
    /\ UNCHANGED <<now, certConfig, certApi, sync, synced, disturbed, troubles, staleSyncs>>

\* Before it calls Sync the reconciler creates the objects its own cache lacks.
ReconcileCreate ==
    /\ At("idle")
    /\ \/ \E x \in Secrets :
            /\ ~ secret[x].live
            /\ secret' = [secret EXCEPT ![x] = EmptySecret(secret[x].uid)]
            /\ UNCHANGED bundle
       \/ /\ bundle = Unset
          /\ bundle' = {}
          /\ UNCHANGED secret
    /\ UNCHANGED <<certRest, sync, synced>>

\* ensureSigner and ensureTarget begin alike: the secret from the lister, or a
\* new one, which fails if the API server has one already.  s is the state of
\* Sync before the call.
GetOrCreateSecret(x, s) ==
    LET read(o) == IF o.cfg = s.want[x]
                   THEN [s EXCEPT !.pc = "ensure", !.who = x]
                   ELSE [s EXCEPT !.pc = "config", !.who = x, !.read = o]
    IN
    IF secretView[x].live
    THEN sync' = read(secretView[x]) /\ UNCHANGED secret
    ELSE IF secret[x].live
    THEN sync' = Idle /\ UNCHANGED secret
    ELSE /\ secret' = [secret EXCEPT ![x] = EmptySecret(secret[x].uid)]
         /\ sync' = read(secret'[x])

\* syncPerishables calls Sync with the definitions that follow from the MTQ
\* object.  Without listers Sync fails.
ensureSigner ==
    /\ At("idle")
    /\ listers
    /\ GetOrCreateSecret("signer",
                         [Idle EXCEPT !.want = CreateCertificateDefinitions(certConfig)])
    /\ synced' = Fresh
    /\ Fresh \/ staleSyncs > 0
    /\ staleSyncs' = IF Fresh THEN staleSyncs ELSE staleSyncs - 1
    /\ UNCHANGED <<now, certConfig, bundle, certViews, listers, disturbed, troubles>>

ensureTarget ==
    /\ At("target")
    /\ GetOrCreateSecret("target", sync)
    /\ synced' = (synced /\ sync' # Idle)
    /\ UNCHANGED <<certRest, bundle>>

\* Mutant of configured: the refresh is not forced.
configuredOnly(s, cfg) == [s EXCEPT !.cfg = cfg]

\* The secret with the new configuration; a certificate it has is marked as
\* expired: the annotation is the time in whole seconds, which is over at once.
configured(s, cfg) ==
    [s EXCEPT !.cfg = cfg, !.notAfter = IF s.notAfter = Unset THEN Unset ELSE now - 1]

\* ensureCertConfig: an update, which conflicts when the copy is out of date.
ensureCertConfig ==
    LET x == sync.who IN
    /\ At("config")
    /\ IF secret[x] # sync.read
       THEN Fail /\ UNCHANGED secret
       ELSE /\ secret' = [secret EXCEPT ![x] = configured(@, sync.want[x])]
            /\ sync' = [sync EXCEPT !.pc = "ensure", !.read = Unset]
            /\ UNCHANGED synced
    /\ UNCHANGED <<certRest, bundle>>

\* Past 80% of the validity the annotations state, or expired.
Expiring(s) ==
    \/ now > s.notAfter
    \/ 5 * now > 5 * s.notAfter - (s.notAfter - s.notBefore)

needNewSigningCertKeyPair(s, refresh) ==
    \/ s.notAfter = Unset
    \/ Expiring(s)
    \/ now > s.notBefore + refresh

\* Mutant of needNewTargetCertKeyPair: the age of the signer is not looked at.
needNewTargetAnySigner(s, refresh, ca, certs) ==
    \/ s.notAfter = Unset
    \/ Expiring(s)
    \/ now > s.notBefore + refresh
    \/ s.cert.issuer \notin {c.id : c \in certs}

\* Past its refresh time a target waits until its signer has had time to be
\* trusted: a tenth of the refresh time.
needNewTargetCertKeyPair(s, refresh, ca, certs) ==
    \/ s.notAfter = Unset
    \/ Expiring(s)
    \/ now > s.notBefore + refresh /\ 10 * (now - ca.notBefore) > refresh
    \/ s.cert.issuer \notin {c.id : c \in certs}

\* The secret with a certificate that is valid for life from now on.
Issued(s, cert, life) ==
    [s EXCEPT !.live = TRUE, !.tls = TRUE, !.cert = cert,
              !.notBefore = now, !.notAfter = now + life]

\* What ApplySecret makes of the live secret: the annotations of d win, and the
\* data is d's.
Merged(live, d) ==
    [d EXCEPT !.uid = live.uid, !.cfg = IF d.cfg = Unset THEN live.cfg ELSE d.cfg]

Done == sync.who = "target"

\* After the signer comes the bundle, after the target Sync returns.
Ensured(ca) ==
    IF Done THEN Idle ELSE [sync EXCEPT !.pc = "bundle", !.ca = ca, !.read = Unset]

\* ApplySecret: create, or update, or, since the type of a secret cannot
\* change, delete and create anew.  The lister's copy of a secret that is gone
\* carries a resourceVersion, with which nothing can be created.
ApplySecret(x, d, ca) ==
    \/ /\ ~ secret[x].live
       /\ secretView[x].live
       /\ Fail
       /\ UNCHANGED secret
    \/ /\ ~ secret[x].live
       /\ ~ secretView[x].live
       /\ secret' = [secret EXCEPT ![x] = [d EXCEPT !.uid = 1 - secret[x].uid]]
       /\ sync' = Ensured(ca)
       /\ UNCHANGED synced
    \/ /\ secret[x].live
       /\ secret[x].tls
       /\ secret' = [secret EXCEPT ![x] = Merged(@, d)]
       /\ sync' = Ensured(ca)
       /\ UNCHANGED synced
    \/ /\ secret[x].live
       /\ ~ secret[x].tls
       /\ secret' = [secret EXCEPT ![x] = NoSecret(@.uid)]
       /\ sync' = [sync EXCEPT !.pc = "recreate", !.ca = ca, !.read = Merged(secret[x], d)]
       /\ UNCHANGED synced

\* EnsureSigningCertKeyPair reads the lister once more.  held are the CAs that
\* others still know, so that a new CA is none of them.
EnsureSigningCertKeyPair(held) ==
    LET s == secretView["signer"]
        cfg == sync.want["signer"]
        id == CHOOSE i \in CAs \ (UsedCAs \cup held) : TRUE
        ca == [id |-> id, notBefore |-> now, notAfter |-> now + cfg.Lifetime]
    IN
    /\ At("ensure")
    /\ ~ Done
    /\ IF needNewSigningCertKeyPair(s, cfg.Refresh)
       THEN ApplySecret("signer", Issued(s, ca, cfg.Lifetime), ca)
       ELSE sync' = Ensured(s.cert) /\ UNCHANGED <<secret, synced>>
    /\ UNCHANGED <<certRest, bundle>>

\* The second half of a change of type.
Recreate ==
    LET x == sync.who IN
    /\ At("recreate")
    /\ IF secret[x].live
       THEN Fail /\ UNCHANGED secret
       ELSE /\ secret' = [secret EXCEPT ![x] = [sync.read EXCEPT !.uid = 1 - secret[x].uid]]
            /\ sync' = Ensured(sync.ca)
            /\ UNCHANGED synced
    /\ UNCHANGED <<certRest, bundle>>

\* Mutant of manageCABundle: what is added is not the certificate of the CA.
manageCABundleIds(certs, ca) == certs \cup {ca.id}

\* The current signer and the CAs of the bundle that have not expired.
manageCABundle(certs, ca) == {c \in certs \cup {ca} : now <= c.notAfter}

\* ensureCertBundle: written when it differs from the lister's copy; as with
\* secrets a copy of a ConfigMap that is gone cannot be created.
ensureCertBundle ==
    LET old == IF bundleView = Unset THEN {} ELSE bundleView
        new == manageCABundle(old, sync.ca)
    IN
    /\ At("bundle")
    /\ IF bundle = Unset /\ bundleView # Unset /\ new # old
       THEN Fail /\ UNCHANGED bundle
       ELSE /\ bundle' = IF bundleView = Unset \/ new # old THEN new ELSE bundle
            /\ sync' = [sync EXCEPT !.pc = "target", !.certs = new]
            /\ UNCHANGED synced
    /\ UNCHANGED <<certRest, secret>>

\* EnsureTargetCertKeyPair: a certificate never outlives its signer.
EnsureTargetCertKeyPair ==
    LET s == secretView["target"]
        cfg == sync.want["target"]
        left == sync.ca.notAfter - now
        life == IF left < cfg.Lifetime THEN left ELSE cfg.Lifetime
        cert == [issuer |-> sync.ca.id, notAfter |-> now + life]
    IN
    /\ At("ensure")
    /\ Done
    /\ IF needNewTargetCertKeyPair(s, cfg.Refresh, sync.ca, sync.certs)
       THEN ApplySecret("target", Issued(s, cert, life), sync.ca)
       ELSE sync' = Idle /\ UNCHANGED <<secret, synced>>
    /\ UNCHANGED <<certRest, bundle>>

SyncStep(held) ==
    \/ ensureSigner \/ ensureCertConfig \/ EnsureSigningCertKeyPair(held)
    \/ ensureCertBundle \/ ensureTarget \/ EnsureTargetCertKeyPair \/ Recreate

-----------------------------------------------------------------------------
\* The informers deliver what the API server has; each has its own watch.
DeliverSecrets ==
    /\ listers
    /\ secretView # secret
    /\ secretView' = secret
    /\ synced' = FALSE
    /\ UNCHANGED <<now, certConfig, certApi, bundleView, listers, sync, disturbed, troubles, staleSyncs>>

DeliverBundle ==
    /\ listers
    /\ bundleView # bundle
    /\ bundleView' = bundle
    /\ synced' = FALSE
    /\ UNCHANGED <<now, certConfig, certApi, secretView, listers, sync, disturbed, troubles, staleSyncs>>

\* Time passes once Sync has succeeded and the caches have caught up: both take
\* minutes, a tick more than an hour.
Settled == At("idle") /\ synced /\ Fresh

Tick ==
    /\ Settled
    /\ now < MaxTime
    /\ now' = now + 1
    /\ synced' = FALSE
    /\ UNCHANGED <<certConfig, certApi, certViews, listers, sync, disturbed, troubles, staleSyncs>>

Trouble == now \in TroubleTimes /\ troubles > 0 /\ troubles' = troubles - 1

\* The administrator changes spec.certConfig.
ChangeCertConfig ==
    /\ Trouble
    /\ certConfig' \in CertConfigs \ {certConfig}
    /\ disturbed' = now
    /\ synced' = FALSE
    /\ UNCHANGED <<now, certApi, certViews, listers, sync, staleSyncs>>

\* The operator's process dies between any two calls and starts again.
OperatorCrash ==
    /\ Trouble
    /\ listers' = FALSE
    /\ Fail
    /\ UNCHANGED <<now, certConfig, certApi, certViews, disturbed, staleSyncs>>

\* Somebody deletes one of the objects.
DeleteCertObject ==
    /\ Trouble
    /\ \/ \E x \in Secrets : /\ secret[x].live
                             /\ secret' = [secret EXCEPT ![x] = NoSecret(@.uid)]
                             /\ UNCHANGED bundle
       \/ bundle # Unset /\ bundle' = Unset /\ UNCHANGED secret
    /\ disturbed' = now
    /\ synced' = FALSE
    /\ UNCHANGED <<now, certConfig, certViews, listers, sync, staleSyncs>>

\* All steps but Tick, which waits for the users of the certificates as well.
CertNext(held) ==
    \/ Start \/ ReconcileCreate \/ SyncStep(held) \/ DeliverSecrets \/ DeliverBundle
    \/ ChangeCertConfig \/ OperatorCrash \/ DeleteCertObject
=============================================================================
