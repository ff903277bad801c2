----------------------------- MODULE LockTrust -----------------------------
(***************************************************************************)
(* Why a lock that has just been taken can be used while certificates are  *)
(* renewed: what is true of the certificates in the cluster, in the caches *)
(* and in a call of Sync, and of what the webhook's bundle has of them.    *)
(***************************************************************************)
EXTENDS LockServer

Wanted == CreateCertificateDefinitions(certConfig)
CertsIn(b) == IF b = Unset THEN {} ELSE b
Some(c) == IF c = Unset THEN {} ELSE {c}

\* The copies of a secret: the last one is about to be created.
Copies(x) ==
    {secret[x], secretView[x]}
        \cup (IF At("recreate") /\ sync.who = x THEN {sync.read} ELSE {})

\* CAs that may come to be trusted or to sign.
Signers == Some(secret["signer"].cert) \cup Some(secretView["signer"].cert) \cup Some(sync.ca)
Known == Signers \cup CertsIn(bundle) \cup CertsIn(bundleView) \cup sync.certs
           \cup (IF hook = Unset THEN {} ELSE hook.bundle)

\* A CA is told by its id and has one of the lifetimes.
CAsDistinct ==
    \A c \in Known :
        /\ c.notBefore <= now
        /\ \E d \in Definitions : c.notAfter = c.notBefore + d.signer.Lifetime
        /\ \A e \in Known : c.id = e.id => c = e

\* The certificate in s is one that c issued while it was not due for renewal.
Issues(c, s) ==
    /\ c.notBefore <= s.notBefore
    /\ \/ s.notBefore = c.notBefore
       \/ \E d \in Definitions : s.notBefore <= c.notBefore + d.signer.Refresh
    /\ s.notBefore <= s.cert.notAfter
    /\ s.cert.notAfter <= c.notAfter
    /\ \/ s.cert.notAfter = c.notAfter
       \/ \E d \in Definitions : s.cert.notAfter = s.notBefore + d.target.Lifetime

\* The annotations say of the certificate what is true, or that it has expired.
Annotated(s) ==
    IF s.notAfter = Unset THEN s.cert = Unset
    ELSE /\ s.cert # Unset /\ s.tls
         /\ s.notBefore # Unset /\ s.notBefore <= now
         /\ s.notAfter = s.cert.notAfter \/ s.notAfter < now

SecretsTrue ==
    /\ \A x \in Secrets : \A s \in Copies(x) : Annotated(s)
    /\ \A s \in Copies("signer") : s.cert # Unset => s.notBefore = s.cert.notBefore
    /\ \A s \in Copies("target"), c \in Known :
          s.cert # Unset /\ s.cert.issuer = c.id => Issues(c, s)

\* The CA of a call of Sync that has one is the signer, and not due for renewal.
CallSound ==
    /\ At("idle") => sync = Idle
    /\ ~ listers => At("idle") /\ ~ synced
    /\ ~ At("idle") => sync.want \in Definitions
    /\ sync.who = "signer" /\ sync.pc \in {"config", "ensure"} => sync.ca = Unset
    /\ sync.who = "signer" /\ sync.pc # "target" => sync.certs = {}
    /\ sync.pc \in {"bundle", "target"} => sync.who = "signer"
    /\ At("recreate") => sync.read \in SecretOf(sync.who) /\ sync.read.live /\ sync.read.tls
    /\ At("recreate") /\ sync.who = "signer" => sync.read.cert = sync.ca
    /\ sync.pc \in {"bundle", "target", "recreate"} \/ sync.who = "target" =>
          /\ sync.ca # Unset
          /\ \/ now = sync.ca.notBefore
             \/ now <= sync.ca.notBefore + sync.want.signer.Refresh
          /\ now <= sync.ca.notAfter
    /\ At("target") \/ sync.who = "target" => sync.ca \in sync.certs

\* What Sync has found in order, if it has not written it.
SignerFine(s) ==
    /\ s.live
    /\ s.cfg = Wanted.signer
    /\ ~ needNewSigningCertKeyPair(s, Wanted.signer.Refresh)

TargetFine(s, ca, certs) ==
    /\ s.live
    /\ s.cfg = Wanted.target
    /\ ~ needNewTargetCertKeyPair(s, Wanted.target.Refresh, ca, certs)

SyncedTrue ==
    LET s == secretView["signer"]
        view == secretView[sync.who]
        same(x) == secret[x] = secretView[x]
        early == sync.who = "signer" /\ sync.pc \in {"config", "ensure", "recreate", "bundle"}
    IN  synced =>
          /\ ~ At("idle") => sync.want = Wanted
          /\ sync.pc \in {"config", "ensure"} => secret[sync.who].live
          /\ At("config") => ~ (view.live /\ view.cfg = Wanted[sync.who])
          /\ At("ensure") /\ same(sync.who) => view.live /\ view.cfg = Wanted[sync.who]
          /\ At("recreate") => \/ sync.read.cert # view.cert
                               \/ sync.read.notBefore # view.notBefore
                               \/ sync.read.notAfter # view.notAfter
                               \/ ~ view.live
                               \/ ~ view.tls
          /\ early => bundle = bundleView
          /\ early \/ At("target") => same("target")
          /\ At("bundle") => /\ secret["signer"].live
                             /\ same("signer") => SignerFine(s) /\ sync.ca = s.cert
          /\ At("target") \/ sync.who = "target" =>
                /\ secret["signer"].live
                /\ bundle # Unset
                /\ same("signer") /\ bundle = bundleView =>
                      SignerFine(s) /\ sync.ca = s.cert /\ sync.certs = bundle
          /\ At("idle") =>
                /\ \A x \in Secrets : secret[x].live
                /\ bundle # Unset
                /\ Fresh => /\ SignerFine(s)
                            /\ s.cert \in bundle
                            /\ TargetFine(secretView["target"], s.cert, bundle)

\* No trouble since the last tick.
Calm == disturbed < now

\* Since before the last tick, and still valid.
Older(b) == {c \in b : c.notBefore < now /\ now <= c.notAfter}

\* Old enough for everybody to trust it, or from before the last trouble.
Seasoned(c) ==
    c.notBefore <= disturbed \/ 10 * (now - c.notBefore) > Wanted.target.Refresh

Vouched(cert) ==
    /\ cert # Unset
    /\ now <= cert.notAfter
    /\ \E c \in Older(bundle) : c.id = cert.issuer /\ Seasoned(c)

CalmTrue ==
    LET refresh == Wanted.target.Refresh IN
    Calm =>
      /\ \A x \in Secrets : \A s \in Copies(x) :
            s.live /\ s.cfg = Wanted[x] /\ s.cert # Unset /\ s.notAfter = s.cert.notAfter
      /\ bundle # Unset /\ bundleView # Unset
      /\ Older(bundle) = Older(bundleView)
      /\ sync.pc \in {"idle", "ensure", "bundle", "target"}
      /\ ~ At("idle") => sync.want = Wanted
      /\ At("target") \/ sync.who = "target" => Older(bundle) \subseteq sync.certs
      /\ \A c \in Signers : c.notBefore = now \/ c \in Older(bundle)
      /\ \A s \in Copies("target") : Vouched(s.cert)
      /\ served # Unset => Vouched(served)
      /\ server = "serving" => served # Unset
      /\ \A c \in Signers, s \in Copies("target") :
            /\ \/ c.notBefore = now
               \/ now - 1 <= s.notBefore + refresh
               \/ 10 * (now - 1 - c.notBefore) <= refresh
            /\ \/ Seasoned(c)
               \/ c.notBefore <= s.notBefore + refresh + 1

\* The webhook's bundle has what was trusted before it was created and still is.
HookTrue ==
    hook # Unset /\ disturbed < hook.at =>
        {c \in Older(bundle) : c.notBefore < hook.at} \subseteq hook.bundle

\* The durations leave room between the refresh times and the lifetimes: whatever
\* configuration gave a certificate its lifetime, a target that has to wait for its
\* signer is renewed well before it expires, and so is a signer.
Spaced ==
    \A d, e, f \in Definitions :
        /\ d.target.Refresh >= 0
        /\ 10 * d.signer.Refresh >= d.target.Refresh + 10
        /\ 8 * d.target.Lifetime >= 11 * e.target.Refresh + 10
        /\ 8 * d.signer.Lifetime >= 8 * e.signer.Refresh + 11 * f.target.Refresh + 10

\* The inductive invariant behind YoungLockTrusted: the annotations of the secrets
\* tell the truth or force a renewal, a call of Sync that finds nothing to do is
\* right, and since the last trouble only a CA that has been in the bundle for a
\* tenth of the target's refresh time has issued what the server serves
\* (ensureCertBundle before ensureTarget, EnsureTargetCertKeyPair).
TrustIndInv == CAsDistinct /\ SecretsTrue /\ CallSound /\ SyncedTrue /\ CalmTrue /\ HookTrue
=============================================================================
