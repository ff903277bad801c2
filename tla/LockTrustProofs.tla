--------------------------- MODULE LockTrustProofs ---------------------------
(***************************************************************************)
(* For any configurations whose refresh times and lifetimes are far enough *)
(* apart, any number of ticks, troubles and calls of Sync from old copies: *)
(* rotation never cuts the controller off from a lock it has just taken.   *)
(***************************************************************************)
EXTENDS LockServerProofs

\* What is wanted now.
LEMMA WantedParts ==
    ASSUME Types
    PROVE  /\ Wanted \in Definitions
           /\ Wanted["signer"] = Wanted.signer /\ Wanted["target"] = Wanted.target
           /\ Wanted.signer.Lifetime \in Nat /\ Wanted.signer.Refresh \in Int
           /\ Wanted.target.Lifetime \in Nat /\ Wanted.target.Refresh \in Int
<1>1. Wanted \in Definitions
  BY DEF Types, Wanted, Definitions
<1> QED
  BY <1>1, DefinitionParts

-----------------------------------------------------------------------------
\* SyncedTrue.  It says nothing when the call has failed or things have changed.
LEMMA NotSynced ==
    ASSUME synced' = FALSE
    PROVE  SyncedTrue'
  BY DEF SyncedTrue

LEMMA ServerSynced ==
    ASSUME SyncedTrue, ServerMove
    PROVE  SyncedTrue'
<1>1. UNCHANGED <<now, certConfig, secret, bundle, secretView, bundleView, listers,
                  sync, synced, disturbed>>
  BY ServerFrame
<1> QED
  BY <1>1 DEF SyncedTrue, At, Wanted, Fresh, SignerFine, TargetFine,
              needNewSigningCertKeyPair, needNewTargetCertKeyPair, Expiring

LEMMA ReconcileCreateSynced ==
    ASSUME Base, SyncedTrue, ReconcileCreate
    PROVE  SyncedTrue'
<1>1. synced = FALSE
  BY DEF SyncedTrue, ReconcileCreate, Base, Types
<1>2. synced' = synced
  BY DEF ReconcileCreate
<1> QED
  BY <1>1, <1>2, NotSynced

LEMMA ensureSignerSynced ==
    ASSUME Base, SyncedTrue, ensureSigner, UNCHANGED serverVars
    PROVE  SyncedTrue'
<1> DEFINE s == [Idle EXCEPT !.want = Wanted]
<1>1. SyncFrame /\ bundle' = bundle /\ synced' = Fresh /\ GetOrCreateSecret("signer", s)
  BY DEF ensureSigner, SyncFrame, certViews, serverVars, Wanted
<1>2. s \in Call /\ s.want = Wanted
  BY SignerBegins DEF Base
<1> HIDE DEF s
<1>3. "signer" \in Secrets /\ "target" \in Secrets \ {"signer"}
  BY DEF Secrets
<1>4. CASE ~ Fresh
  BY <1>1, <1>4 DEF SyncedTrue
<1>5. CASE Fresh
  <2>1. /\ secret'["target"] = secret["target"]
        /\ \/ secret' = secret
           \/ ~ secret["signer"].live /\ secret'["signer"].live
        /\ \/ sync' = Idle /\ ~ secretView["signer"].live /\ secret["signer"].live
           \/ /\ sync'.pc \in {"config", "ensure"} /\ sync'.who = "signer" /\ sync'.want = Wanted
              /\ \/ secretView["signer"].live /\ secret' = secret
                 \/ ~ secretView["signer"].live /\ ~ secret["signer"].live /\ secret'["signer"].live
              /\ secretView["signer"].live =>
                    (sync'.pc = "ensure" <=> secretView["signer"].cfg = Wanted["signer"])
    BY <1>1, <1>2, <1>3, Gotten DEF Base
  <2>2. sync'.pc \in {"config", "ensure"}
    BY <2>1, <1>5 DEF Fresh
  <2>3. sync' # Idle
    BY <2>2, IdleCall
  <2>4. bundle' = bundleView' /\ secret["target"] = secretView["target"]
        /\ secret["signer"] = secretView["signer"]
    BY <1>1, <1>5 DEF Fresh, SyncFrame
  <2>5. secretView' = secretView /\ Wanted' = Wanted
    BY <1>1 DEF SyncFrame, Wanted
  <2> QED
    BY <2>1, <2>2, <2>3, <2>4, <2>5 DEF SyncedTrue, At
<1> QED
  BY <1>4, <1>5

LEMMA ensureTargetSynced ==
    ASSUME Base, SyncedTrue, ensureTarget, UNCHANGED serverVars
    PROVE  SyncedTrue'
<1>1. /\ SyncFrame /\ bundle' = bundle /\ synced' = (synced /\ sync' # Idle)
      /\ GetOrCreateSecret("target", sync) /\ At("target")
  BY DEF ensureTarget, SyncFrame, certRest, certViews, serverVars
<1>2. "target" \in Secrets /\ "signer" \in Secrets \ {"target"} /\ sync \in Call
  BY DEF Secrets, Base, Types
<1>3. CASE ~ synced'
  BY <1>3 DEF SyncedTrue
<1>4. CASE synced'
  <2>0. synced /\ sync' # Idle
    BY <1>1, <1>4
  <2>1. /\ secret'["signer"] = secret["signer"]
        /\ sync'.pc \in {"config", "ensure"} /\ sync'.who = "target" /\ sync'.want = sync.want
        /\ sync'.ca = sync.ca /\ sync'.certs = sync.certs
        /\ \/ secretView["target"].live /\ secret' = secret
           \/ ~ secretView["target"].live /\ secret'["target"].live
        /\ secretView["target"].live =>
              (sync'.pc = "ensure" <=> secretView["target"].cfg = sync.want["target"])
    BY <2>0, <1>1, <1>2, Gotten DEF Base
  <2>2. sync.pc = "target"
    BY <1>1 DEF At
  <2>3. /\ sync.want = Wanted /\ secret["target"] = secretView["target"]
        /\ secret["signer"].live /\ bundle # Unset
        /\ secret["signer"] = secretView["signer"] /\ bundle = bundleView =>
              /\ SignerFine(secretView["signer"]) /\ sync.ca = secretView["signer"].cert
              /\ sync.certs = bundle
    BY <2>0, <2>2 DEF SyncedTrue, At
  <2>4. secretView' = secretView /\ bundleView' = bundleView /\ Wanted' = Wanted /\ now' = now
    BY <1>1 DEF SyncFrame, Wanted
  <2>5. \A t : SignerFine(t)' <=> SignerFine(t)
    BY <2>4 DEF SignerFine, needNewSigningCertKeyPair, Expiring
  <2> QED
    BY <2>1, <2>3, <2>4, <2>5, <1>1 DEF SyncedTrue, At
<1> QED
  BY <1>3, <1>4

LEMMA ensureCertConfigSynced ==
    ASSUME Base, SyncedTrue, ensureCertConfig, UNCHANGED serverVars
    PROVE  SyncedTrue'
<1>1. SyncFrame /\ bundle' = bundle /\ At("config") /\ sync.pc = "config"
  BY DEF ensureCertConfig, SyncFrame, certRest, certViews, serverVars, At
<1>2. sync \in Call /\ sync.who \in Secrets /\ synced \in BOOLEAN
  BY DEF Base, Types, Call
<1>3. CASE Fail
  BY <1>3, NotSynced DEF Fail
<1>4. CASE ~ synced /\ synced' = synced
  BY <1>4 DEF SyncedTrue
<1>5. CASE /\ synced
           /\ \A y \in Secrets \ {sync.who} : secret'[y] = secret[y]
           /\ secret'[sync.who].live = secret[sync.who].live
           /\ secret'[sync.who].cfg = sync.want[sync.who]
           /\ sync' = [sync EXCEPT !.pc = "ensure", !.read = Unset]
  <2>1. /\ sync'.pc = "ensure" /\ sync'.who = sync.who /\ sync'.ca = sync.ca
        /\ sync'.certs = sync.certs /\ sync'.want = sync.want
    BY <1>2, <1>5 DEF Call
  <2>2. sync.want = Wanted /\ secret[sync.who].live
    BY <1>1, <1>5 DEF SyncedTrue, At
  <2>3. secretView' = secretView /\ bundleView' = bundleView /\ Wanted' = Wanted /\ now' = now
    BY <1>1 DEF SyncFrame, Wanted
  <2>4. \A t : SignerFine(t)' <=> SignerFine(t)
    BY <2>3 DEF SignerFine, needNewSigningCertKeyPair, Expiring
  <2>5. CASE sync.who = "signer"
    <3>1. bundle = bundleView /\ secret["target"] = secretView["target"]
      BY <2>5, <1>1, <1>5 DEF SyncedTrue, At
    <3>2. secret'["target"] = secret["target"]
      BY <2>5, <1>5 DEF Secrets
    <3> QED
      BY <2>1, <2>2, <2>3, <2>5, <3>1, <3>2, <1>1, <1>5 DEF SyncedTrue, At
  <2>6. CASE sync.who = "target"
    <3>1. /\ secret["signer"].live /\ bundle # Unset
          /\ secret["signer"] = secretView["signer"] /\ bundle = bundleView =>
                /\ SignerFine(secretView["signer"]) /\ sync.ca = secretView["signer"].cert
                /\ sync.certs = bundle
      BY <2>6, <1>1, <1>5 DEF SyncedTrue, At
    <3>2. secret'["signer"] = secret["signer"]
      BY <2>6, <1>5 DEF Secrets
    <3> QED
      BY <2>1, <2>2, <2>3, <2>4, <2>6, <3>1, <3>2, <1>1, <1>5 DEF SyncedTrue, At
  <2> QED
    BY <2>5, <2>6, <1>2 DEF Secrets
<1> QED
  BY <1>3, <1>4, <1>5, ensureCertConfigWrites

\* A new CA is not the one of any copy of the signer.
LEMMA NextCAUnlike ==
    ASSUME ManyCAs, Base, At("ensure"), sync.who = "signer"
    PROVE  secretView["signer"].cert # NextCA
<1>1. NewCA(NextCA, now) /\ NextCA # Unset
  BY NextCAIsNew, NextSignerIsNew
<1>2. secretView["signer"].cert # Unset => secretView["signer"].cert \in Known
  BY DEF Known, Signers, Some
<1> QED
  BY <1>1, <1>2 DEF NewCA

LEMMA EnsureSigningSynced ==
    ASSUME ManyCAs, Base, SyncedTrue, EnsureSigningCertKeyPair(Held), UNCHANGED serverVars
    PROVE  SyncedTrue'
<1>1. SyncFrame /\ bundle' = bundle /\ At("ensure") /\ sync.who = "signer" /\ sync.pc = "ensure"
  BY SignerSteps DEF At
<1>2. "signer" \in Secrets /\ "target" \in Secrets \ {"signer"} /\ synced \in BOOLEAN /\ Types
  BY DEF Secrets, Base, Types
<1>3. secretView' = secretView /\ bundleView' = bundleView /\ Wanted' = Wanted /\ now' = now
  BY <1>1 DEF SyncFrame, Wanted
<1>4. \A t : SignerFine(t)' <=> SignerFine(t)
  BY <1>3 DEF SignerFine, needNewSigningCertKeyPair, Expiring
<1>5. CASE ~ synced'
  BY <1>5 DEF SyncedTrue
<1> SUFFICES ASSUME synced' /\ ~ Fail
             PROVE  SyncedTrue'
  BY <1>5, NotSynced DEF Fail
<1>6. synced => /\ sync.want = Wanted /\ secret["signer"].live
                /\ bundle = bundleView /\ secret["target"] = secretView["target"]
                /\ secret["signer"] = secretView["signer"] =>
                      SignerNow.live /\ SignerNow.cfg = Wanted["signer"]
  BY <1>1 DEF SyncedTrue, At, SignerNow
<1>7. CASE needNewSigningCertKeyPair(SignerNow, SignerCfg.Refresh)
  <2>1. /\ NextSigner \in SecretOf("signer") /\ NextSigner.live /\ NextSigner.cert = NextCA
        /\ NextCA \in CA /\ secretView["signer"].cert # NextCA
    BY <1>1, NextSignerIsNew, NextCAIsNew, NextCAUnlike
  <2>2. ApplySecret("signer", NextSigner, NextCA)
    BY <1>7, SignerSteps
  <2>3. CASE /\ sync' = Ensured(NextCA) /\ synced' = synced
             /\ \A y \in Secrets \ {"signer"} : secret'[y] = secret[y]
             /\ Like(secret'["signer"], NextSigner)
    <3>1. sync'.pc = "bundle" /\ sync'.who = "signer" /\ sync'.want = sync.want
      BY <2>1, <2>3, <1>1, SignerEnsured
    <3>2. secret'["signer"].live /\ secret'["signer"] # secretView["signer"]
      BY <2>1, <2>3 DEF Like
    <3>3. secret'["target"] = secret["target"]
      BY <2>3, <1>2
    <3> QED
      BY <2>3, <3>1, <3>2, <3>3, <1>1, <1>3, <1>6 DEF SyncedTrue, At
  <2>4. CASE /\ synced' = synced
             /\ \A y \in Secrets \ {"signer"} : secret'[y] = secret[y]
             /\ \E r \in SecretOf("signer") : Like(r, NextSigner) /\ sync' = Recreating(NextCA, r)
    <3>1. PICK r \in SecretOf("signer") : Like(r, NextSigner) /\ sync' = Recreating(NextCA, r)
      BY <2>4
    <3>2. sync'.pc = "recreate" /\ sync'.who = "signer" /\ sync'.want = sync.want /\ sync'.read = r
      BY <3>1, <2>1, <1>1, ApplyRecreates
    <3>3. r.cert # secretView["signer"].cert
      BY <3>1, <2>1 DEF Like
    <3>4. secret'["target"] = secret["target"]
      BY <2>4, <1>2
    <3> QED
      BY <2>4, <3>2, <3>3, <3>4, <1>1, <1>3, <1>6 DEF SyncedTrue, At
  <2> QED
    BY <2>1, <2>2, <2>3, <2>4, <1>2, Applied
<1>8. CASE ~ needNewSigningCertKeyPair(SignerNow, SignerCfg.Refresh)
  <2>1. sync' = Ensured(SignerNow.cert) /\ secret' = secret /\ synced' = synced
    BY <1>8, SignerSteps
  <2>2. SignerCfg = sync.want.signer /\ SignerCfg.Refresh \in Int
    BY <1>1, NextCAIsNew
  <2>3. SignerNow.cert \in CA
    BY <1>8, <2>2, KeptSigner
  <2>4. /\ sync'.pc = "bundle" /\ sync'.who = "signer" /\ sync'.ca = SignerNow.cert
        /\ sync'.want = sync.want
    BY <2>1, <2>3, <1>1, SignerEnsured
  <2>5. secret["signer"] = secretView["signer"] => SignerFine(SignerNow)
    BY <1>2, <1>6, <1>8, <2>1, <2>2, WantedParts DEF SignerFine
  <2> QED
    BY <2>1, <2>4, <2>5, <1>1, <1>3, <1>4, <1>6 DEF SyncedTrue, At, SignerNow
<1> QED
  BY <1>7, <1>8

LEMMA RecreateSynced ==
    ASSUME Base, SyncedTrue, Recreate, UNCHANGED serverVars
    PROVE  SyncedTrue'
<1>1. SyncFrame /\ bundle' = bundle /\ At("recreate") /\ sync.who \in Secrets /\ sync.pc = "recreate"
  BY RecreateWrites DEF At
<1>2. secretView' = secretView /\ bundleView' = bundleView /\ Wanted' = Wanted
  BY <1>1 DEF SyncFrame, Wanted
<1>3. CASE Fail
  BY <1>3, NotSynced DEF Fail
<1>4. CASE ~ synced /\ synced' = synced
  BY <1>4 DEF SyncedTrue
<1>5. CASE /\ synced
           /\ \A y \in Secrets \ {sync.who} : secret'[y] = secret[y]
           /\ Like(secret'[sync.who], sync.read)
           /\ sync' = Ensured(sync.ca)
  <2>1. sync.read.live /\ sync.read.tls
    BY <1>1 DEF Base, CallSound
  <2>2. sync.want = Wanted
    BY <1>1, <1>5 DEF SyncedTrue, At
  <2>3. \/ sync.read.cert # secretView[sync.who].cert
        \/ sync.read.notBefore # secretView[sync.who].notBefore
        \/ sync.read.notAfter # secretView[sync.who].notAfter
        \/ ~ secretView[sync.who].live
        \/ ~ secretView[sync.who].tls
    BY <1>1, <1>5 DEF SyncedTrue, At
  <2>4. secret'[sync.who] # secretView[sync.who] /\ secret'[sync.who].live
    BY <2>1, <2>3, <1>5 DEF Like
  <2>5. CASE sync.who = "signer"
    <3>1. sync'.pc = "bundle" /\ sync'.who = "signer" /\ sync'.want = sync.want
      BY <1>5, <2>5 DEF Ensured, Done, Base, Types, Call
    <3>2. bundle = bundleView /\ secret["target"] = secretView["target"]
      BY <2>5, <1>1, <1>5 DEF SyncedTrue, At
    <3>3. secret'["target"] = secret["target"]
      BY <2>5, <1>5 DEF Secrets
    <3> QED
      BY <3>1, <3>2, <3>3, <2>2, <2>4, <2>5, <1>1, <1>2 DEF SyncedTrue, At
  <2>6. CASE sync.who = "target"
    <3>1. sync'.pc = "idle" /\ sync'.who = "signer"
      BY <1>5, <2>6 DEF Ensured, Done, Idle
    <3>2. secret["signer"].live /\ bundle # Unset
      BY <2>6, <1>5 DEF SyncedTrue
    <3>3. secret'["signer"] = secret["signer"]
      BY <2>6, <1>5 DEF Secrets
    <3>4. \A x \in Secrets : secret'[x].live
      BY <2>4, <2>6, <3>2, <3>3 DEF Secrets
    <3>5. ~ Fresh'
      BY <2>4, <2>6, <1>2 DEF Fresh
    <3> QED
      BY <3>1, <3>2, <3>4, <3>5, <1>1 DEF SyncedTrue, At
  <2> QED
    BY <2>5, <2>6, <1>1 DEF Secrets
<1> QED
  BY <1>3, <1>4, <1>5, RecreateWrites

LEMMA ensureCertBundleSynced ==
    ASSUME ManyCAs, Base, SyncedTrue, ensureCertBundle, UNCHANGED serverVars
    PROVE  SyncedTrue'
<1>1. SyncFrame /\ secret' = secret /\ At("bundle") /\ sync.pc = "bundle" /\ NextBundle \subseteq CA
  BY BundleSteps DEF At
<1>2. sync.who = "signer"
  BY <1>1 DEF Base, CallSound
<1>3. secretView' = secretView /\ bundleView' = bundleView /\ Wanted' = Wanted /\ now' = now
  BY <1>1 DEF SyncFrame, Wanted
<1>4. \A t : SignerFine(t)' <=> SignerFine(t)
  BY <1>3 DEF SignerFine, needNewSigningCertKeyPair, Expiring
<1>5. CASE Fail
  BY <1>5, NotSynced DEF Fail
<1>6. CASE ~ synced /\ synced' = synced
  BY <1>6 DEF SyncedTrue
<1>7. CASE /\ synced
           /\ bundle' = IF bundleView = Unset \/ NextBundle # CertsIn(bundleView)
                        THEN NextBundle ELSE bundle
           /\ sync'.pc = "target" /\ sync'.certs = NextBundle
           /\ sync'.who = sync.who /\ sync'.ca = sync.ca /\ sync'.want = sync.want
  <2>1. /\ sync.want = Wanted /\ bundle = bundleView /\ secret["target"] = secretView["target"]
        /\ secret["signer"].live
        /\ secret["signer"] = secretView["signer"] =>
              SignerFine(secretView["signer"]) /\ sync.ca = secretView["signer"].cert
    BY <1>1, <1>2, <1>7 DEF SyncedTrue, At
  <2>2. NextBundle # Unset
    BY <1>1 DEF ManyCAs
  <2>3. bundle' = NextBundle
    BY <2>1, <1>7 DEF CertsIn
  <2> QED
    BY <2>1, <2>2, <2>3, <1>1, <1>2, <1>3, <1>4, <1>7 DEF SyncedTrue, At
<1> QED
  BY <1>5, <1>6, <1>7, BundleSteps DEF Base, Types

\* A certificate that has just been issued is not in need of another.
LEMMA NextTargetUnlike ==
    ASSUME Base, Spaced, At("ensure"), sync.who = "target",
           needNewTargetCertKeyPair(TargetNow, TargetCfg.Refresh, sync.ca, sync.certs)
    PROVE  \/ NextTarget.cert # TargetNow.cert
           \/ NextTarget.notBefore # TargetNow.notBefore
           \/ NextTarget.notAfter # TargetNow.notAfter
<1> SUFFICES ASSUME /\ TargetNow.cert = NextTarget.cert
                    /\ TargetNow.notBefore = NextTarget.notBefore
                    /\ TargetNow.notAfter = NextTarget.notAfter
             PROVE  FALSE
  OBVIOUS
<1>1. /\ NextTarget.cert = NextCert /\ NextTarget.notBefore = now
      /\ NextTarget.notAfter = NextCert.notAfter /\ now <= NextCert.notAfter
      /\ NextCert.issuer = sync.ca.id /\ sync.ca \in sync.certs
      /\ TargetCfg = sync.want.target /\ TargetCfg.Refresh \in Int
      /\ NextTarget \in SecretOf("target") /\ NextCert # Unset
  BY NextTargetIsNew
<1>2. now \in Nat /\ sync.want \in Definitions
  <2>1. now \in Nat
    BY DEF Base, Types
  <2> QED
    BY <2>1, CallHasListers DEF At
<1>3. TargetCfg.Refresh >= 0
  BY <1>1, <1>2 DEF Spaced
<1>4. NextCert.notAfter \in Nat
  BY <1>1 DEF SecretOf, Cert
<1>5. NextCert.notAfter # Unset
  BY <1>4, CertAssumption
<1>6. ~ Expiring(TargetNow)
  BY <1>1, <1>2, <1>4 DEF Expiring
<1>7. ~ (now > TargetNow.notBefore + TargetCfg.Refresh)
  BY <1>1, <1>2, <1>3
<1> QED
  BY <1>1, <1>5, <1>6, <1>7 DEF needNewTargetCertKeyPair

LEMMA EnsureTargetSynced ==
    ASSUME Spaced, Base, SyncedTrue, EnsureTargetCertKeyPair, UNCHANGED serverVars
    PROVE  SyncedTrue'
<1>1. SyncFrame /\ bundle' = bundle /\ At("ensure") /\ sync.who = "target" /\ sync.pc = "ensure"
  BY TargetSteps DEF At
<1>2. "target" \in Secrets /\ "signer" \in Secrets \ {"target"} /\ synced \in BOOLEAN /\ Types
  BY DEF Secrets, Base, Types
<1>3. secretView' = secretView /\ bundleView' = bundleView /\ Wanted' = Wanted /\ now' = now
  BY <1>1 DEF SyncFrame, Wanted
<1>4. \A t : SignerFine(t)' <=> SignerFine(t)
  BY <1>3 DEF SignerFine, needNewSigningCertKeyPair, Expiring
<1>5. \A t, ca, certs : TargetFine(t, ca, certs)' <=> TargetFine(t, ca, certs)
  BY <1>3 DEF TargetFine, needNewTargetCertKeyPair, Expiring
<1>6. CASE ~ synced'
  BY <1>6 DEF SyncedTrue
<1> SUFFICES ASSUME synced' /\ ~ Fail
             PROVE  SyncedTrue'
  BY <1>6, NotSynced DEF Fail
<1>7. synced => /\ sync.want = Wanted /\ secret["target"].live
                /\ secret["signer"].live /\ bundle # Unset
                /\ secret["target"] = secretView["target"] =>
                      TargetNow.live /\ TargetNow.cfg = Wanted["target"]
                /\ secret["signer"] = secretView["signer"] /\ bundle = bundleView =>
                      /\ SignerFine(secretView["signer"]) /\ sync.ca = secretView["signer"].cert
                      /\ sync.certs = bundle
  BY <1>1 DEF SyncedTrue, At, TargetNow
<1>8. /\ NextTarget \in SecretOf("target") /\ NextTarget.live /\ NextTarget.tls
      /\ sync.ca \in CA /\ sync.ca \in sync.certs /\ TargetCfg = sync.want.target
  BY <1>1, NextTargetIsNew
<1>9. CASE needNewTargetCertKeyPair(TargetNow, TargetCfg.Refresh, sync.ca, sync.certs)
  <2>1. \/ NextTarget.cert # secretView["target"].cert
        \/ NextTarget.notBefore # secretView["target"].notBefore
        \/ NextTarget.notAfter # secretView["target"].notAfter
    BY <1>1, <1>9, NextTargetUnlike DEF TargetNow
  <2>2. ApplySecret("target", NextTarget, sync.ca)
    BY <1>9, TargetSteps
  <2>3. CASE /\ sync' = Ensured(sync.ca) /\ synced' = synced
             /\ \A y \in Secrets \ {"target"} : secret'[y] = secret[y]
             /\ Like(secret'["target"], NextTarget)
    <3>1. sync'.pc = "idle" /\ sync'.who = "signer"
      BY <1>1, <2>3 DEF Ensured, Done, Idle
    <3>2. secret'["target"].live /\ secret'["target"] # secretView["target"]
      BY <2>1, <2>3, <1>8 DEF Like
    <3>3. ~ Fresh'
      BY <3>2, <1>3 DEF Fresh
    <3>4. \A x \in Secrets : secret'[x].live
      BY <2>3, <3>2, <1>7 DEF Secrets
    <3> QED
      BY <2>3, <3>1, <3>3, <3>4, <1>1, <1>7 DEF SyncedTrue, At
  <2>4. CASE /\ synced' = synced
             /\ \A y \in Secrets \ {"target"} : secret'[y] = secret[y]
             /\ \E r \in SecretOf("target") : Like(r, NextTarget) /\ sync' = Recreating(sync.ca, r)
    <3>1. PICK r \in SecretOf("target") : Like(r, NextTarget) /\ sync' = Recreating(sync.ca, r)
      BY <2>4
    <3>2. /\ sync'.pc = "recreate" /\ sync'.who = "target" /\ sync'.want = sync.want
          /\ sync'.read = r /\ sync'.ca = sync.ca /\ sync'.certs = sync.certs
      BY <3>1, <1>1, <1>8, ApplyRecreates
    <3>3. \/ r.cert # secretView["target"].cert
          \/ r.notBefore # secretView["target"].notBefore
          \/ r.notAfter # secretView["target"].notAfter
      BY <3>1, <2>1 DEF Like
    <3>4. secret'["signer"] = secret["signer"]
      BY <2>4, <1>2
    <3> QED
      BY <2>4, <3>2, <3>3, <3>4, <1>1, <1>3, <1>4, <1>7 DEF SyncedTrue, At
  <2> QED
    BY <2>2, <2>3, <2>4, <1>2, <1>8, Applied
<1>10. CASE ~ needNewTargetCertKeyPair(TargetNow, TargetCfg.Refresh, sync.ca, sync.certs)
  <2>1. sync' = Idle /\ secret' = secret /\ synced' = synced
    BY <1>10, TargetSteps
  <2>2. sync'.pc = "idle" /\ sync'.who = "signer"
    BY <2>1 DEF Idle
  <2>3. \A x \in Secrets : secret'[x].live
    BY <1>7, <2>1 DEF Secrets
  <2>4. ASSUME Fresh'
        PROVE  /\ SignerFine(secretView["signer"])
               /\ secretView["signer"].cert \in bundle
               /\ TargetFine(secretView["target"], secretView["signer"].cert, bundle)
    <3>1. secret = secretView /\ bundle = bundleView
      BY <2>4, <2>1, <1>1, <1>3 DEF Fresh
    <3>2. /\ SignerFine(secretView["signer"]) /\ sync.ca = secretView["signer"].cert
          /\ sync.certs = bundle /\ TargetNow.live /\ TargetNow.cfg = Wanted["target"]
      BY <3>1, <2>1, <1>7
    <3>3. TargetCfg.Refresh = Wanted.target.Refresh /\ Wanted["target"] = Wanted.target
      BY <2>1, <1>2, <1>7, <1>8, WantedParts
    <3>4. TargetFine(TargetNow, sync.ca, sync.certs)
      BY <3>2, <3>3, <1>10 DEF TargetFine
    <3> QED
      BY <3>2, <3>4, <1>8 DEF TargetNow
  <2> QED
    BY <2>1, <2>2, <2>3, <2>4, <1>1, <1>3, <1>4, <1>5, <1>7 DEF SyncedTrue, At
<1> QED
  BY <1>9, <1>10

-----------------------------------------------------------------------------
\* CalmTrue.  What it says of time does not depend on the rest.
SameTime == now' = now /\ disturbed' = disturbed /\ certConfig' = certConfig

LEMMA SeasonedKept ==
    ASSUME SameTime
    PROVE  /\ Calm' <=> Calm
           /\ Wanted' = Wanted
           /\ \A c : Seasoned(c)' <=> Seasoned(c)
           /\ Older(bundle)' = Older(bundle) => \A cert : Vouched(cert)' <=> Vouched(cert)
<1>1. Wanted' = Wanted /\ (Calm' <=> Calm)
  BY DEF SameTime, Wanted, Calm
<1>2. \A c : Seasoned(c)' <=> Seasoned(c)
  BY <1>1 DEF SameTime, Seasoned
<1>3. now' = now
  BY DEF SameTime
<1> QED
  BY <1>1, <1>2, <1>3 DEF Vouched

\* Steps that add nothing.
LEMMA CalmKept ==
    ASSUME CalmTrue, SameTime,
           Calm => /\ \A x \in Secrets : Copies(x)' \subseteq Copies(x)
                   /\ Signers' \subseteq Signers
                   /\ bundle' # Unset /\ bundleView' # Unset
                   /\ Older(bundle)' = Older(bundle) /\ Older(bundleView)' = Older(bundle)
                   /\ sync'.pc \in {"idle", "ensure", "bundle", "target"}
                   /\ sync'.pc # "idle" => sync'.want = Wanted
                   /\ sync'.pc = "target" \/ sync'.who = "target" => Older(bundle) \subseteq sync'.certs
                   /\ served' \in {Unset, served, LiveCert}
                   /\ server' = "serving" => served' # Unset
    PROVE  CalmTrue'
<1>1. CASE ~ Calm
  BY <1>1, SeasonedKept DEF CalmTrue
<1>2. CASE Calm
  <2>1. /\ Wanted' = Wanted /\ now' = now
        /\ \A c : Seasoned(c)' <=> Seasoned(c)
        /\ \A cert : Vouched(cert)' <=> Vouched(cert)
    BY <1>2, SeasonedKept DEF SameTime
  <2>2. \A x \in Secrets : \A s \in Copies(x)' :
           s.live /\ s.cfg = Wanted[x] /\ s.cert # Unset /\ s.notAfter = s.cert.notAfter
    BY <1>2 DEF CalmTrue
  <2>3. \A c \in Signers' : c.notBefore = now \/ c \in Older(bundle)
    BY <1>2 DEF CalmTrue
  <2>4. \A s \in Copies("target")' : Vouched(s.cert)
    BY <1>2 DEF CalmTrue, Secrets
  <2>5. served' # Unset => Vouched(served')
    <3>1. LiveCert # Unset => Vouched(LiveCert)
      BY <1>2 DEF CalmTrue, Copies, LiveCert
    <3>2. served # Unset => Vouched(served)
      BY <1>2 DEF CalmTrue
    <3> QED
      BY <3>1, <3>2, <1>2
  <2>6. \A c \in Signers', s \in Copies("target")' :
          LET refresh == Wanted.target.Refresh IN
          /\ \/ c.notBefore = now
             \/ now - 1 <= s.notBefore + refresh
             \/ 10 * (now - 1 - c.notBefore) <= refresh
          /\ \/ Seasoned(c)
             \/ c.notBefore <= s.notBefore + refresh + 1
    <3>1. Signers' \subseteq Signers /\ Copies("target")' \subseteq Copies("target")
      BY <1>2 DEF Secrets
    <3> QED
      BY <1>2, <3>1 DEF CalmTrue
  <2> QED
    BY <1>2, <2>1, <2>2, <2>3, <2>4, <2>5, <2>6 DEF CalmTrue, At
<1> QED
  BY <1>1, <1>2

LEMMA ServerCalm ==
    ASSUME CalmTrue, ServerMove
    PROVE  CalmTrue'
<1>1. /\ SameTime /\ UNCHANGED <<bundle, bundleView, sync, now>>
      /\ \A x \in Secrets : Copies(x)' = Copies(x)
      /\ Signers' = Signers
  BY ServerFrame DEF SameTime
<1>2. Older(bundle)' = Older(bundle) /\ Older(bundleView)' = Older(bundleView)
  BY <1>1 DEF Older
<1>3. Calm => LiveCert # Unset
  BY DEF CalmTrue, Copies, LiveCert, Secrets
<1>4. Calm => (server' = "serving" => served' # Unset) /\ served' \in {Unset, served, LiveCert}
  BY <1>3 DEF CalmTrue, ServerMove
<1>5. Calm => /\ bundle # Unset /\ bundleView # Unset /\ Older(bundle) = Older(bundleView)
              /\ sync.pc \in {"idle", "ensure", "bundle", "target"}
              /\ sync.pc # "idle" => sync.want = Wanted
              /\ sync.pc = "target" \/ sync.who = "target" => Older(bundle) \subseteq sync.certs
  BY DEF CalmTrue, At
<1> QED
  BY <1>1, <1>2, <1>4, <1>5, CalmKept

LEMMA ViewCalm ==
    ASSUME CalmTrue, ViewMove
    PROVE  CalmTrue'
<1>1. /\ SameTime /\ UNCHANGED <<bundle, secret, sync, now, server, served>>
      /\ secretView' \in {secretView, secret} /\ bundleView' \in {bundleView, bundle}
  BY DEF ViewMove, SameTime, serverVars
<1>2. \A x \in Secrets : Copies(x)' \subseteq Copies(x)
  BY <1>1 DEF Copies, At
<1>3. Signers' \subseteq Signers
  BY <1>1 DEF Signers, Some
<1>4. Older(bundle)' = Older(bundle) /\ Older(bundleView)' \in {Older(bundleView), Older(bundle)}
  BY <1>1 DEF Older
<1>5. Calm => /\ bundle # Unset /\ bundleView # Unset /\ Older(bundle) = Older(bundleView)
              /\ sync.pc \in {"idle", "ensure", "bundle", "target"}
              /\ sync.pc # "idle" => sync.want = Wanted
              /\ sync.pc = "target" \/ sync.who = "target" => Older(bundle) \subseteq sync.certs
              /\ server = "serving" => served # Unset
  BY DEF CalmTrue, At
<1> QED
  BY <1>1, <1>2, <1>3, <1>4, <1>5, CalmKept

\* Trouble with the objects or their configuration.
LEMMA TroubleCalm ==
    ASSUME Types, ChangeCertConfig \/ DeleteCertObject, UNCHANGED serverVars
    PROVE  CalmTrue' /\ HookTrue'
<1>1. now' = now /\ disturbed' = now /\ hook' = hook
  BY DEF ChangeCertConfig, DeleteCertObject, serverVars
<1>2. now \in Nat /\ (hook # Unset => hook.at \in 0 .. now)
  BY DEF Types
<1>3. ~ Calm'
  BY <1>1, <1>2 DEF Calm
<1>4. ~ (hook # Unset /\ now < hook.at)
  BY <1>2
<1> QED
  BY <1>1, <1>3, <1>4 DEF CalmTrue, HookTrue

LEMMA OperatorCrashCalm ==
    ASSUME CalmTrue, OperatorCrash, UNCHANGED serverVars
    PROVE  CalmTrue'
<1>1. /\ SameTime /\ UNCHANGED <<bundle, bundleView, secret, secretView, now, server, served>>
      /\ sync' = Idle
  BY DEF OperatorCrash, Fail, SameTime, serverVars, certApi, certViews
<1>2. sync'.pc = "idle" /\ sync'.who = "signer" /\ sync'.ca = Unset
  BY <1>1 DEF Idle
<1>3. (\A x \in Secrets : Copies(x)' \subseteq Copies(x)) /\ Signers' \subseteq Signers
  BY <1>1, <1>2 DEF Copies, At, Signers, Some
<1>4. Older(bundle)' = Older(bundle) /\ Older(bundleView)' = Older(bundleView)
  BY <1>1 DEF Older
<1>5. Calm => /\ bundle # Unset /\ bundleView # Unset /\ Older(bundle) = Older(bundleView)
              /\ server = "serving" => served # Unset
  BY DEF CalmTrue
<1> QED
  BY <1>1, <1>2, <1>3, <1>4, <1>5, CalmKept

LEMMA ReconcileCreateCalm ==
    ASSUME CalmTrue, ReconcileCreate
    PROVE  CalmTrue'
<1>1. SameTime
  BY DEF ReconcileCreate, certRest, SameTime
<1>2. \A x \in Secrets : secret[x] \in Copies(x)
  BY DEF Copies
<1>3. ~ Calm
  BY <1>2 DEF ReconcileCreate, CalmTrue
<1> QED
  BY <1>1, <1>3, SeasonedKept DEF CalmTrue

-----------------------------------------------------------------------------
\* The steps of Sync in calm times.

\* What a step of Sync leaves alone.
LEMMA SyncSameTime ==
    ASSUME SyncFrame
    PROVE  /\ SameTime /\ UNCHANGED <<now, secretView, bundleView, served, server, hook>>
           /\ Older(bundleView)' = Older(bundleView)
           /\ bundle' = bundle => Older(bundle)' = Older(bundle)
  BY DEF SyncFrame, SameTime, Older

\* What calm times are like.
LEMMA CalmFacts ==
    ASSUME CalmTrue, Calm
    PROVE  /\ \A x \in Secrets :
                 /\ secret[x].live /\ secretView[x].live
                 /\ secret[x].cfg = Wanted[x] /\ secretView[x].cfg = Wanted[x]
                 /\ secret[x].cert # Unset /\ secretView[x].cert # Unset
           /\ bundle # Unset /\ bundleView # Unset /\ Older(bundle) = Older(bundleView)
           /\ sync.pc \in {"idle", "ensure", "bundle", "target"}
           /\ sync.pc # "idle" => sync.want = Wanted
           /\ sync.pc = "target" \/ sync.who = "target" => Older(bundle) \subseteq sync.certs
           /\ server = "serving" => served # Unset
  BY DEF CalmTrue, At, Copies

\* Steps that leave the bundle and the secrets as they are.
LEMMA QuietSyncCalm ==
    ASSUME CalmTrue, SyncFrame, bundle' = bundle,
           Calm => /\ secret' = secret
                   /\ sync'.pc \in {"idle", "ensure", "bundle", "target"}
                   /\ sync'.pc # "idle" => sync'.want = Wanted
                   /\ sync'.pc = "target" \/ sync'.who = "target" => Older(bundle) \subseteq sync'.certs
                   /\ Some(sync'.ca) \subseteq Signers
    PROVE  CalmTrue'
<1>1. /\ SameTime /\ UNCHANGED <<now, secretView, bundleView, served, server>>
      /\ Older(bundleView)' = Older(bundleView) /\ Older(bundle)' = Older(bundle)
  BY SyncSameTime
<1>2. CASE ~ Calm
  BY <1>1, <1>2, SeasonedKept DEF CalmTrue
<1>3. CASE Calm
  <2>1. \A x \in Secrets : Copies(x)' \subseteq Copies(x)
    BY <1>1, <1>3 DEF Copies, At
  <2>2. Signers' \subseteq Signers
    BY <1>1, <1>3 DEF Signers, Some
  <2> QED
    BY <1>1, <1>3, <2>1, <2>2, CalmFacts, CalmKept
<1> QED
  BY <1>2, <1>3

LEMMA ensureSignerCalm ==
    ASSUME Base, CalmTrue, ensureSigner, UNCHANGED serverVars
    PROVE  CalmTrue'
<1> DEFINE s == [Idle EXCEPT !.want = Wanted]
<1>1. SyncFrame /\ bundle' = bundle /\ GetOrCreateSecret("signer", s)
  BY DEF ensureSigner, SyncFrame, certViews, serverVars, Wanted
<1>2. s \in Call /\ s.want = Wanted /\ s.ca = Unset
  BY SignerBegins DEF Base
<1> HIDE DEF s
<1>3. "signer" \in Secrets
  BY DEF Secrets
<1>4. ASSUME Calm
      PROVE  /\ secret' = secret /\ sync'.pc = "ensure" /\ sync'.want = Wanted
             /\ sync'.who = "signer" /\ sync'.ca = Unset
  <2>1. secretView["signer"].live /\ secretView["signer"].cfg = Wanted["signer"]
    BY <1>4, CalmFacts DEF Secrets
  <2> QED
    BY <1>1, <1>2, <1>3, <2>1, Gotten DEF Base
<1> QED
  BY <1>1, <1>4, QuietSyncCalm DEF Some

LEMMA ensureTargetCalm ==
    ASSUME Base, CalmTrue, ensureTarget, UNCHANGED serverVars
    PROVE  CalmTrue'
<1>1. /\ SyncFrame /\ bundle' = bundle /\ GetOrCreateSecret("target", sync)
      /\ sync.pc = "target"
  BY DEF ensureTarget, SyncFrame, certRest, certViews, serverVars, At
<1>2. "target" \in Secrets /\ sync \in Call
  BY DEF Secrets, Base, Types
<1>3. ASSUME Calm
      PROVE  /\ secret' = secret /\ sync'.pc = "ensure" /\ sync'.want = Wanted
             /\ sync'.ca = sync.ca /\ sync'.certs = sync.certs
             /\ Older(bundle) \subseteq sync.certs
  <2>1. /\ secretView["target"].live /\ secretView["target"].cfg = Wanted["target"]
        /\ sync.want = Wanted /\ Older(bundle) \subseteq sync.certs
    BY <1>1, <1>3, CalmFacts DEF Secrets
  <2> QED
    BY <1>1, <1>2, <2>1, Gotten DEF Base
<1>4. Some(sync.ca) \subseteq Signers
  BY DEF Signers
<1> QED
  BY <1>1, <1>3, <1>4, QuietSyncCalm

LEMMA OtherCalm ==
    ASSUME Base, CalmTrue, ensureCertConfig \/ Recreate, UNCHANGED serverVars
    PROVE  CalmTrue'
<1>1. SyncFrame /\ sync.pc \in {"config", "recreate"}
  BY DEF ensureCertConfig, Recreate, SyncFrame, certRest, certViews, serverVars, At
<1>2. ~ Calm
  BY <1>1, CalmFacts
<1>3. SameTime
  BY <1>1, SyncSameTime
<1> QED
  BY <1>2, <1>3, SeasonedKept DEF CalmTrue

\* The bundle keeps the CAs from before the last tick.
LEMMA OlderKept ==
    ASSUME CalmTrue, Calm, ensureCertBundle, Base, UNCHANGED serverVars
    PROVE  /\ Older(NextBundle) = Older(bundle) /\ Older(bundle) \subseteq NextBundle
           /\ bundle' \in {bundle, NextBundle}
           /\ ~ Fail
           /\ sync'.pc = "target" /\ sync'.certs = NextBundle
           /\ sync'.ca = sync.ca /\ sync'.want = sync.want
<1>1. /\ SyncFrame /\ At("bundle")
      /\ NextBundle = {c \in CertsIn(bundleView) \cup {sync.ca} : now <= c.notAfter}
      /\ sync.ca # Unset
  BY BundleSteps
<1>2. /\ bundle # Unset /\ bundleView # Unset /\ Older(bundle) = Older(bundleView)
  BY CalmFacts
<1>3. sync.ca.notBefore = now \/ sync.ca \in Older(bundle)
  BY <1>1 DEF CalmTrue, Signers, Some
<1>4. now \in Nat
  BY DEF Base, Types
<1>5. Older(NextBundle) = Older(bundle)
  BY <1>1, <1>2, <1>3, <1>4 DEF Older, CertsIn
<1>6. Older(bundle) \subseteq NextBundle
  BY <1>1, <1>2 DEF Older, CertsIn
<1>7. ~ Fail
  BY <1>1, <1>2, IdleCall DEF ensureCertBundle, Fail, At, Base, Types, Call
<1> QED
  BY <1>5, <1>6, <1>7, BundleSteps

LEMMA ensureCertBundleCalm ==
    ASSUME ManyCAs, Base, CalmTrue, ensureCertBundle, UNCHANGED serverVars
    PROVE  CalmTrue'
<1>1. SyncFrame /\ secret' = secret /\ At("bundle") /\ NextBundle \subseteq CA
  BY BundleSteps
<1>2. /\ SameTime /\ UNCHANGED <<now, secretView, bundleView, served, server>>
      /\ Older(bundleView)' = Older(bundleView)
  BY <1>1, SyncSameTime
<1>3. CASE ~ Calm
  BY <1>2, <1>3, SeasonedKept DEF CalmTrue
<1>4. CASE Calm
  <2>1. /\ Older(NextBundle) = Older(bundle) /\ Older(bundle) \subseteq NextBundle
        /\ bundle' \in {bundle, NextBundle}
        /\ sync'.pc = "target" /\ sync'.certs = NextBundle
        /\ sync'.ca = sync.ca /\ sync'.want = sync.want
    BY <1>4, OlderKept
  <2>2. Older(bundle)' = Older(bundle)
    BY <2>1, <1>2 DEF Older
  <2>3. NextBundle # Unset
    BY <1>1 DEF ManyCAs
  <2>4. /\ bundle # Unset /\ bundleView # Unset /\ Older(bundle) = Older(bundleView)
        /\ sync.want = Wanted /\ (server = "serving" => served # Unset)
    BY <1>1, <1>4, CalmFacts DEF At
  <2>5. \A x \in Secrets : Copies(x)' \subseteq Copies(x)
    BY <2>1, <1>1, <1>2 DEF Copies, At
  <2>6. Signers' \subseteq Signers
    BY <2>1, <1>1, <1>2 DEF Signers, Some
  <2> QED
    BY <2>1, <2>2, <2>3, <2>4, <2>5, <2>6, <1>2, CalmKept
<1> QED
  BY <1>3, <1>4

-----------------------------------------------------------------------------
\* Times.

\* A certificate of the server lives much longer than a refresh time.
LEMMA LongLived ==
    ASSUME Spaced, Base, NEW s \in Copies("target"), s.cert # Unset,
           NEW c \in Known, c.id = s.cert.issuer, NEW f \in Definitions
    PROVE  /\ s.notBefore \in Nat /\ s.cert.notAfter \in Nat /\ c \in CA
           /\ s.cert.notAfter <= c.notAfter
           /\ 8 * (s.cert.notAfter - s.notBefore) >= 11 * f.target.Refresh + 10
<1>1. s \in SecretOf("target") /\ c \in CA
  BY CopyTypes DEF CopiesTyped, Base, Secrets
<1>2. s.cert \in Cert /\ s.cert.notAfter \in Nat
  <2>1. s.cert \in Cert
    BY <1>1, SecretFields DEF Secrets
  <2> QED
    BY <2>1 DEF Cert
<1>3. Annotated(s) /\ Issues(c, s)
  BY DEF Base, SecretsTrue, Secrets
<1>4. s.notBefore \in Nat
  <2>1. s.notBefore # Unset
    BY <1>3 DEF Annotated
  <2> QED
    BY <1>1, <2>1, SecretFields DEF Secrets
<1>5. c.notBefore \in Nat /\ c.notAfter \in Nat
  BY <1>1 DEF CA
<1>6. PICK l \in Definitions : c.notAfter = c.notBefore + l.signer.Lifetime
  BY DEF Base, CAsDistinct
<1>7. f.target.Refresh \in Int /\ l.signer.Lifetime \in Nat
  BY DefinitionParts
<1>8. CASE \E d \in Definitions : s.cert.notAfter = s.notBefore + d.target.Lifetime
  <2>1. PICK d \in Definitions : s.cert.notAfter = s.notBefore + d.target.Lifetime
    BY <1>8
  <2>2. d.target.Lifetime \in Nat /\ 8 * d.target.Lifetime >= 11 * f.target.Refresh + 10
    BY DefinitionParts DEF Spaced
  <2>3. s.cert.notAfter <= c.notAfter
    BY <1>3 DEF Issues
  <2> QED
    BY <1>1, <1>2, <1>4, <1>7, <2>1, <2>2, <2>3
<1>9. CASE s.cert.notAfter = c.notAfter
  <2>1. \/ s.notBefore = c.notBefore
        \/ \E d \in Definitions : s.notBefore <= c.notBefore + d.signer.Refresh
    BY <1>3 DEF Issues
  <2>2. ASSUME NEW d \in Definitions, s.notBefore <= c.notBefore + d.signer.Refresh
        PROVE  8 * (s.cert.notAfter - s.notBefore) >= 11 * f.target.Refresh + 10
    <3>1. /\ d.signer.Refresh \in Int
          /\ 8 * l.signer.Lifetime >= 8 * d.signer.Refresh + 11 * f.target.Refresh + 10
      BY DefinitionParts DEF Spaced
    <3> QED
      BY <1>4, <1>5, <1>6, <1>7, <1>9, <2>2, <3>1
  <2>3. ASSUME s.notBefore = c.notBefore
        PROVE  8 * (s.cert.notAfter - s.notBefore) >= 11 * f.target.Refresh + 10
    <3>1. /\ f.signer.Refresh \in Int /\ f.target.Refresh >= 0
          /\ 10 * f.signer.Refresh >= f.target.Refresh + 10
          /\ 8 * l.signer.Lifetime >= 8 * f.signer.Refresh + 11 * f.target.Refresh + 10
      BY DefinitionParts DEF Spaced
    <3>2. f.signer.Refresh >= 0
      BY <3>1, <1>7
    <3>3. 8 * l.signer.Lifetime >= 11 * f.target.Refresh + 10
      BY <3>1, <3>2, <1>7
    <3>4. s.cert.notAfter - s.notBefore = l.signer.Lifetime
      BY <1>4, <1>5, <1>6, <1>7, <1>9, <2>3
    <3> QED
      BY <3>3, <3>4
  <2>4. s.cert.notAfter <= c.notAfter
    BY <1>3 DEF Issues
  <2> QED
    BY <1>1, <1>2, <1>4, <2>1, <2>2, <2>3, <2>4
<1> QED
  BY <1>3, <1>8, <1>9 DEF Issues

\* In calm times the signer's secret tells the truth about its CA.
LEMMA CalmSigner ==
    ASSUME Base, CalmTrue, Calm
    PROVE  /\ SignerNow.cert \in CA /\ SignerNow.cert \in Signers /\ SignerNow.cert \in Known
           /\ SignerNow.notAfter = SignerNow.cert.notAfter /\ SignerNow.notAfter # Unset
           /\ SignerNow.notBefore = SignerNow.cert.notBefore
           /\ SignerNow.cert.notBefore \in Nat /\ SignerNow.cert.notAfter \in Nat
<1>1. SignerNow \in Copies("signer") /\ "signer" \in Secrets /\ SignerNow \in SecretOf("signer")
  BY DEF SignerNow, Copies, Secrets, Base, Types, SecretsType
<1>2. SignerNow.cert # Unset /\ SignerNow.notAfter = SignerNow.cert.notAfter
  BY <1>1 DEF CalmTrue
<1>3. SignerNow.cert \in CA
  BY <1>1, <1>2, SecretFields
<1>4. SignerNow.cert.notBefore \in Nat /\ SignerNow.cert.notAfter \in Nat
  BY <1>3 DEF CA
<1>5. SignerNow.notBefore = SignerNow.cert.notBefore
  BY <1>1, <1>2 DEF Base, SecretsTrue
<1>6. SignerNow.cert \in Signers
  BY <1>2 DEF Signers, Some, SignerNow
<1> QED
  BY <1>2, <1>3, <1>4, <1>5, <1>6, CertAssumption DEF Known

\* When the signer is due, no target is far past its refresh time.
LEMMA SignerDue ==
    ASSUME Spaced, Base, CalmTrue, Calm,
           needNewSigningCertKeyPair(SignerNow, Wanted.signer.Refresh),
           NEW s \in Copies("target")
    PROVE  now - 1 <= s.notBefore + Wanted.target.Refresh
<1> DEFINE c == SignerNow.cert
           rs == Wanted.signer.Refresh
           rt == Wanted.target.Refresh
<1>1. /\ c \in Signers /\ c \in Known /\ c.notBefore \in Nat /\ c.notAfter \in Nat
      /\ SignerNow.notAfter = c.notAfter /\ SignerNow.notBefore = c.notBefore
      /\ SignerNow.notAfter # Unset
  BY CalmSigner
<1>2. now \in Nat /\ Wanted \in Definitions /\ rs \in Int /\ rt \in Int
  BY WantedParts DEF Base, Types
<1>3. PICK l \in Definitions : c.notAfter = c.notBefore + l.signer.Lifetime
  BY <1>1 DEF Base, CAsDistinct
<1>4. /\ l.signer.Lifetime \in Nat /\ rt >= 0 /\ 10 * rs >= rt + 10
      /\ 8 * l.signer.Lifetime >= 8 * rs + 11 * rt + 10
  BY <1>2, DefinitionParts DEF Spaced
<1>5. \/ now > c.notAfter
      \/ 5 * now > 5 * c.notAfter - (c.notAfter - c.notBefore)
      \/ now > c.notBefore + rs
  BY <1>1 DEF needNewSigningCertKeyPair, Expiring
<1>6. \/ c.notBefore = now
      \/ now - 1 <= s.notBefore + rt
      \/ 10 * (now - 1 - c.notBefore) <= rt
  BY <1>1 DEF CalmTrue
<1> HIDE DEF c, rs, rt
<1>7. ~ (c.notBefore = now)
  BY <1>1, <1>2, <1>3, <1>4, <1>5
<1>8. ~ (10 * (now - 1 - c.notBefore) <= rt)
  BY <1>1, <1>2, <1>3, <1>4, <1>5
<1> QED
  BY <1>6, <1>7, <1>8 DEF rt

LEMMA EnsureSigningCalm ==
    ASSUME ManyCAs, Spaced, Base, CalmTrue, EnsureSigningCertKeyPair(Held), UNCHANGED serverVars
    PROVE  CalmTrue'
<1>1. SyncFrame /\ bundle' = bundle /\ At("ensure") /\ sync.who = "signer" /\ sync.pc = "ensure"
  BY SignerSteps DEF At
<1>2. "signer" \in Secrets /\ "target" \in Secrets \ {"signer"} /\ Types
  BY DEF Secrets, Base
<1>3. /\ SameTime /\ UNCHANGED <<now, secretView, bundleView, served, server>>
      /\ Older(bundleView)' = Older(bundleView) /\ Older(bundle)' = Older(bundle)
  BY <1>1, SyncSameTime
<1>4. CASE ~ Calm
  BY <1>3, <1>4, SeasonedKept DEF CalmTrue
<1> SUFFICES ASSUME Calm
             PROVE  CalmTrue'
  BY <1>4
<1>5. /\ \A x \in Secrets : secret[x].live /\ secret[x].cfg = Wanted[x] /\ secretView[x].cfg = Wanted[x]
      /\ bundle # Unset /\ bundleView # Unset /\ Older(bundle) = Older(bundleView)
      /\ sync.want = Wanted /\ (server = "serving" => served # Unset)
      /\ secret["signer"].cert # Unset
  BY <1>1, <1>2, CalmFacts
<1>6. SignerCfg = Wanted.signer /\ SignerCfg.Refresh \in Int
  BY <1>1, <1>5, NextCAIsNew
<1>7. CASE ~ needNewSigningCertKeyPair(SignerNow, SignerCfg.Refresh)
  <2>1. sync' = Ensured(SignerNow.cert) /\ secret' = secret
    BY <1>7, SignerSteps
  <2>2. SignerNow.cert \in CA /\ SignerNow.cert \in Signers
    BY CalmSigner
  <2>3. sync'.pc = "bundle" /\ sync'.who = "signer" /\ sync'.ca = SignerNow.cert /\ sync'.want = sync.want
    BY <2>1, <2>2, <1>1, SignerEnsured
  <2> QED
    BY <2>1, <2>2, <2>3, <1>1, <1>5, QuietSyncCalm DEF Some
<1>8. CASE needNewSigningCertKeyPair(SignerNow, SignerCfg.Refresh)
  <2>1. /\ NextSigner \in SecretOf("signer") /\ NextSigner.live /\ NextSigner.cert = NextCA
        /\ NextSigner.cfg = SignerNow.cfg /\ NextSigner.notAfter = NextCA.notAfter
        /\ NextCA \in CA /\ NextCA # Unset /\ NextCA.notBefore = now
    BY <1>1, NextSignerIsNew, NextCAIsNew
  <2>2. ApplySecret("signer", NextSigner, NextCA)
    BY <1>8, SignerSteps
  <2>3. secret["signer"].tls
    <3>1. Annotated(secret["signer"])
      BY <1>2 DEF Base, SecretsTrue, Copies
    <3> QED
      BY <3>1, <1>5 DEF Annotated
  <2>4. /\ sync' = Ensured(NextCA)
        /\ \A y \in Secrets \ {"signer"} : secret'[y] = secret[y]
        /\ Like(secret'["signer"], NextSigner)
        /\ secret'["signer"].cfg \in {NextSigner.cfg, secret["signer"].cfg}
    BY <2>1, <2>2, <2>3, <1>2, <1>5, Applied
  <2>5. sync'.pc = "bundle" /\ sync'.who = "signer" /\ sync'.ca = NextCA /\ sync'.want = sync.want
    BY <2>1, <2>4, <1>1, SignerEnsured
  <2>6. /\ Copies("signer")' \subseteq {secret'["signer"]} \cup Copies("signer")
        /\ Copies("target")' \subseteq Copies("target")
    BY <2>4, <2>5, <1>2, <1>3 DEF Copies, At
  <2>7. /\ secret'["signer"].live /\ secret'["signer"].cfg = Wanted["signer"]
        /\ secret'["signer"].cert = NextCA /\ secret'["signer"].notAfter = NextCA.notAfter
    BY <2>1, <2>4, <1>2, <1>5 DEF Like, SignerNow
  <2>8. Signers' \subseteq Signers \cup {NextCA}
    BY <2>5, <2>7, <1>3 DEF Signers, Some
  <2>9. /\ Wanted' = Wanted /\ now' = now
        /\ \A c : Seasoned(c)' <=> Seasoned(c)
        /\ \A cert : Vouched(cert)' <=> Vouched(cert)
    BY <1>3, SeasonedKept
  <2>10. \A x \in Secrets : \A s \in Copies(x)' :
            s.live /\ s.cfg = Wanted[x] /\ s.cert # Unset /\ s.notAfter = s.cert.notAfter
    <3>1. \A x \in Secrets : \A s \in Copies(x) :
             s.live /\ s.cfg = Wanted[x] /\ s.cert # Unset /\ s.notAfter = s.cert.notAfter
      BY DEF CalmTrue
    <3> QED
      BY <3>1, <2>1, <2>6, <2>7 DEF Secrets
  <2>11. \A c \in Signers' : c.notBefore = now \/ c \in Older(bundle)
    BY <2>1, <2>8 DEF CalmTrue
  <2>12. \A s \in Copies("target")' : Vouched(s.cert)
    BY <2>6 DEF CalmTrue
  <2>13. served # Unset => Vouched(served)
    BY DEF CalmTrue
  <2>14. ASSUME NEW c \in Signers', NEW s \in Copies("target")'
         PROVE  LET refresh == Wanted.target.Refresh IN
                /\ \/ c.notBefore = now
                   \/ now - 1 <= s.notBefore + refresh
                   \/ 10 * (now - 1 - c.notBefore) <= refresh
                /\ \/ Seasoned(c)
                   \/ c.notBefore <= s.notBefore + refresh + 1
    <3>1. s \in Copies("target")
      BY <2>6
    <3>2. CASE c \in Signers
      BY <3>1, <3>2 DEF CalmTrue
    <3>3. CASE c = NextCA
      <4>1. now - 1 <= s.notBefore + Wanted.target.Refresh
        BY <3>1, <1>6, <1>8, SignerDue
      <4>2. s.notBefore \in Nat
        <5>1. s \in SecretOf("target")
          BY <3>1, CopyTypes DEF CopiesTyped, Base, Secrets
        <5>2. Annotated(s) /\ s.cert # Unset
          BY <3>1, <1>2 DEF Base, SecretsTrue, CalmTrue, Secrets
        <5> QED
          BY <5>1, <5>2, SecretFields DEF Annotated, Secrets
      <4>3. now \in Nat /\ Wanted.target.Refresh \in Int
        BY <1>2, WantedParts DEF Types
      <4>4. now <= s.notBefore + Wanted.target.Refresh + 1
        BY <4>1, <4>2, <4>3
      <4> QED
        BY <4>4, <3>3, <2>1
    <3> QED
      BY <2>8, <3>2, <3>3
  <2> QED
    BY <1>1, <1>3, <1>5, <2>5, <2>9, <2>10, <2>11, <2>12, <2>13, <2>14 DEF CalmTrue, At
<1> QED
  BY <1>7, <1>8

\* In calm times a new certificate for the server is issued only by a CA that
\* everybody has come to trust: the target cannot be about to expire before.
LEMMA IssuerSeasoned ==
    ASSUME Spaced, Base, CalmTrue, Calm, At("ensure"), sync.who = "target",
           needNewTargetCertKeyPair(TargetNow, TargetCfg.Refresh, sync.ca, sync.certs)
    PROVE  sync.ca \in Older(bundle) /\ Seasoned(sync.ca)
<1> DEFINE rt == Wanted.target.Refresh
           ca == sync.ca
           b == TargetNow.notBefore
           a == TargetNow.cert.notAfter
<1>1. now \in Nat /\ Wanted \in Definitions /\ rt \in Int /\ Types /\ disturbed \in Nat
  BY WantedParts DEF Base, Types
<1>2. /\ sync.want = Wanted /\ Older(bundle) \subseteq sync.certs
  BY CalmFacts DEF At
<1>3. ca \in CA /\ ca # Unset /\ TargetCfg.Refresh = rt
  BY <1>2, NextTargetIsNew
<1>4. ca \in Signers /\ ca \in Known /\ ca.notBefore \in Nat
  BY <1>3 DEF Signers, Known, Some, CA
<1>5. TargetNow \in Copies("target") /\ "target" \in Secrets
  BY DEF TargetNow, Copies, Secrets
<1>6. /\ TargetNow.cert # Unset /\ TargetNow.notAfter = a /\ Vouched(TargetNow.cert)
  BY <1>5 DEF CalmTrue
<1>7. PICK c \in Older(bundle) : c.id = TargetNow.cert.issuer
  BY <1>6 DEF Vouched
<1>8. c \in Known
  BY CalmFacts DEF Older, Known, CertsIn
<1>9. b \in Nat /\ a \in Nat /\ 8 * (a - b) >= 11 * rt + 10
  BY <1>1, <1>5, <1>6, <1>7, <1>8, LongLived
<1>10. now <= a /\ a # Unset
  BY <1>6, <1>9, CertAssumption DEF Vouched
<1>11. \E e \in sync.certs : e.id = TargetNow.cert.issuer
  BY <1>2, <1>7
<1>12. \/ 5 * now > 5 * a - (a - b)
       \/ 10 * (now - ca.notBefore) > rt
  BY <1>1, <1>3, <1>6, <1>9, <1>10, <1>11 DEF needNewTargetCertKeyPair, Expiring
<1>13. rt >= 0
  BY <1>1 DEF Spaced
<1>14. Seasoned(ca) \/ ca.notBefore <= b + rt + 1
  BY <1>4, <1>5 DEF CalmTrue
<1>15. Seasoned(ca) <=> ca.notBefore <= disturbed \/ 10 * (now - ca.notBefore) > rt
  BY DEF Seasoned
<1>16. disturbed < now
  BY DEF Calm
<1>17. ca.notBefore = now \/ ca \in Older(bundle)
  BY <1>4 DEF CalmTrue
<1> HIDE DEF a, b, ca, rt
<1>18. Seasoned(ca)
  <2> SUFFICES ASSUME ~ Seasoned(ca)
               PROVE  FALSE
    OBVIOUS
  <2>1. 10 * (now - ca.notBefore) <= rt /\ ca.notBefore <= b + rt + 1
    BY <1>1, <1>4, <1>14, <1>15
  <2>2. 10 * (now - b) <= 11 * rt + 10
    BY <2>1, <1>1, <1>4, <1>9
  <2>3. 5 * now > 5 * a - (a - b)
    BY <2>1, <1>1, <1>4, <1>12
  <2> QED
    BY <2>2, <2>3, <1>1, <1>9
<1>19. ca.notBefore # now
  BY <1>1, <1>4, <1>13, <1>15, <1>16, <1>18
<1> QED
  BY <1>17, <1>18, <1>19 DEF ca

LEMMA EnsureTargetCalm ==
    ASSUME Spaced, Base, CalmTrue, EnsureTargetCertKeyPair, UNCHANGED serverVars
    PROVE  CalmTrue'
<1>1. SyncFrame /\ bundle' = bundle /\ At("ensure") /\ sync.who = "target" /\ sync.pc = "ensure"
  BY TargetSteps DEF At
<1>2. "target" \in Secrets /\ "signer" \in Secrets \ {"target"} /\ Types
  BY DEF Secrets, Base
<1>3. /\ SameTime /\ UNCHANGED <<now, secretView, bundleView, served, server>>
      /\ Older(bundleView)' = Older(bundleView) /\ Older(bundle)' = Older(bundle)
  BY <1>1, SyncSameTime
<1>4. CASE ~ Calm
  BY <1>3, <1>4, SeasonedKept DEF CalmTrue
<1> SUFFICES ASSUME Calm
             PROVE  CalmTrue'
  BY <1>4
<1>5. /\ \A x \in Secrets : secret[x].live /\ secret[x].cfg = Wanted[x] /\ secretView[x].cfg = Wanted[x]
      /\ bundle # Unset /\ bundleView # Unset /\ Older(bundle) = Older(bundleView)
      /\ (server = "serving" => served # Unset) /\ secret["target"].cert # Unset
  BY <1>1, <1>2, CalmFacts
<1>6. CASE ~ needNewTargetCertKeyPair(TargetNow, TargetCfg.Refresh, sync.ca, sync.certs)
  <2>1. sync' = Idle /\ secret' = secret
    BY <1>6, TargetSteps
  <2>2. sync'.pc = "idle" /\ sync'.who = "signer" /\ sync'.ca = Unset
    BY <2>1 DEF Idle
  <2> QED
    BY <2>1, <2>2, <1>1, QuietSyncCalm DEF Some
<1>7. CASE needNewTargetCertKeyPair(TargetNow, TargetCfg.Refresh, sync.ca, sync.certs)
  <2>1. /\ NextTarget \in SecretOf("target") /\ NextTarget.live /\ NextTarget.cert = NextCert
        /\ NextTarget.cfg = TargetNow.cfg /\ NextTarget.notAfter = NextCert.notAfter
        /\ NextTarget.notBefore = now /\ NextCert # Unset /\ NextCert.issuer = sync.ca.id
        /\ now <= NextCert.notAfter
    BY <1>1, NextTargetIsNew
  <2>2. ApplySecret("target", NextTarget, sync.ca)
    BY <1>7, TargetSteps
  <2>3. secret["target"].tls
    <3>1. Annotated(secret["target"])
      BY <1>2 DEF Base, SecretsTrue, Copies
    <3> QED
      BY <3>1, <1>5 DEF Annotated
  <2>4. /\ sync' = Ensured(sync.ca)
        /\ \A y \in Secrets \ {"target"} : secret'[y] = secret[y]
        /\ Like(secret'["target"], NextTarget)
        /\ secret'["target"].cfg \in {NextTarget.cfg, secret["target"].cfg}
    BY <2>1, <2>2, <2>3, <1>2, <1>5, Applied
  <2>5. sync'.pc = "idle" /\ sync'.who = "signer" /\ sync'.ca = Unset
    BY <2>4, <1>1 DEF Ensured, Done, Idle
  <2>6. /\ Copies("target")' \subseteq {secret'["target"]} \cup Copies("target")
        /\ Copies("signer")' \subseteq Copies("signer")
    BY <2>4, <2>5, <1>2, <1>3 DEF Copies, At
  <2>7. /\ secret'["target"].live /\ secret'["target"].cfg = Wanted["target"]
        /\ secret'["target"].cert = NextCert /\ secret'["target"].notAfter = NextCert.notAfter
        /\ secret'["target"].notBefore = now
    BY <2>1, <2>4, <1>2, <1>5 DEF Like, TargetNow
  <2>8. Signers' \subseteq Signers
    BY <2>4, <2>5, <1>2, <1>3 DEF Signers, Some
  <2>9. /\ Wanted' = Wanted /\ now' = now
        /\ \A c : Seasoned(c)' <=> Seasoned(c)
        /\ \A cert : Vouched(cert)' <=> Vouched(cert)
    BY <1>3, SeasonedKept
  <2>10. \A x \in Secrets : \A s \in Copies(x)' :
            s.live /\ s.cfg = Wanted[x] /\ s.cert # Unset /\ s.notAfter = s.cert.notAfter
    <3>1. \A x \in Secrets : \A s \in Copies(x) :
             s.live /\ s.cfg = Wanted[x] /\ s.cert # Unset /\ s.notAfter = s.cert.notAfter
      BY DEF CalmTrue
    <3> QED
      BY <3>1, <2>1, <2>6, <2>7 DEF Secrets
  <2>11. \A c \in Signers' : c.notBefore = now \/ c \in Older(bundle)
    BY <2>8 DEF CalmTrue
  <2>12. Vouched(NextCert)
    BY <2>1, <1>1, <1>7, IssuerSeasoned DEF Vouched
  <2>13. \A s \in Copies("target")' : Vouched(s.cert)
    <3>1. \A s \in Copies("target") : Vouched(s.cert)
      BY DEF CalmTrue
    <3> QED
      BY <3>1, <2>6, <2>7, <2>12
  <2>14. served # Unset => Vouched(served)
    BY DEF CalmTrue
  <2>15. ASSUME NEW c \in Signers', NEW s \in Copies("target")'
         PROVE  LET refresh == Wanted.target.Refresh IN
                /\ \/ c.notBefore = now
                   \/ now - 1 <= s.notBefore + refresh
                   \/ 10 * (now - 1 - c.notBefore) <= refresh
                /\ \/ Seasoned(c)
                   \/ c.notBefore <= s.notBefore + refresh + 1
    <3>1. c \in Signers
      BY <2>8
    <3>2. CASE s \in Copies("target")
      BY <3>1, <3>2 DEF CalmTrue
    <3>3. CASE s = secret'["target"]
      <4>1. now \in Nat /\ Wanted.target.Refresh \in Int /\ Wanted \in Definitions
        BY <1>2, WantedParts DEF Types
      <4>2. Wanted.target.Refresh >= 0
        BY <4>1 DEF Spaced
      <4>3. c.notBefore \in Nat /\ c.notBefore <= now
        <5>1. c \in Known /\ c \in CA
          BY <3>1, CopyTypes DEF CopiesTyped, Known, Base
        <5> QED
          BY <5>1 DEF CA, Base, CAsDistinct
      <4>4. s.notBefore = now
        BY <3>3, <2>7
      <4> HIDE DEF CalmTrue
      <4> QED
        BY <4>1, <4>2, <4>3, <4>4
    <3> QED
      BY <2>6, <3>2, <3>3
  <2> QED
    BY <1>1, <1>3, <1>5, <2>5, <2>9, <2>10, <2>11, <2>13, <2>14, <2>15 DEF CalmTrue, At
<1> QED
  BY <1>6, <1>7

-----------------------------------------------------------------------------
\* A tick: everything was in order just before it.

\* The secrets, and the times of their certificates.
LEMMA TickFacts ==
    ASSUME Spaced, Base, SyncedTrue, PassTime
    PROVE  /\ UNCHANGED <<certConfig, secret, bundle, secretView, bundleView, sync,
                          disturbed, hook, server, served>>
           /\ now' = now + 1 /\ sync = Idle /\ secret = secretView /\ bundle = bundleView
           /\ bundle # Unset /\ server = "serving" /\ served = Current
           /\ \A x \in Secrets : /\ secret[x].live /\ secret[x].cfg = Wanted[x]
                                 /\ secret[x].cert # Unset
                                 /\ secret[x].notAfter = secret[x].cert.notAfter
           /\ SignerNow.cert \in bundle /\ SignerNow.cert \in CA
           /\ now + 1 <= SignerNow.cert.notAfter
           /\ ~ needNewTargetCertKeyPair(TargetNow, Wanted.target.Refresh, SignerNow.cert, bundle)
<1>1. /\ UNCHANGED <<certConfig, secret, bundle, secretView, bundleView, sync,
                     disturbed, hook, server, served>>
      /\ now' = now + 1 /\ synced /\ Fresh /\ sync.pc = "idle"
      /\ server = "serving" /\ served = Current
  BY DEF PassTime, Tick, Settled, serverVars, certApi, certViews, At
<1>2. sync = Idle /\ secret = secretView /\ bundle = bundleView
  BY <1>1 DEF Base, CallSound, At, Fresh
<1>3. /\ \A x \in Secrets : secret[x].live
      /\ bundle # Unset
      /\ SignerFine(SignerNow) /\ SignerNow.cert \in bundle
      /\ TargetFine(TargetNow, SignerNow.cert, bundle)
  BY <1>1 DEF SyncedTrue, At, SignerNow, TargetNow
<1>4. /\ now \in Nat /\ Wanted \in Definitions /\ Wanted.signer.Refresh \in Int
      /\ Wanted["signer"] = Wanted.signer /\ Wanted["target"] = Wanted.target
      /\ Wanted.target.Refresh \in Int
  BY WantedParts DEF Base, Types
<1>5. /\ SignerNow.cert \in CA /\ SignerNow.cert # Unset
      /\ SignerNow.notAfter = SignerNow.cert.notAfter
      /\ now <= SignerNow.cert.notBefore + Wanted.signer.Refresh
  BY <1>3, <1>4, KeptSigner DEF SignerFine
<1>6. now + 1 <= SignerNow.cert.notAfter
  <2> DEFINE c == SignerNow.cert
  <2>1. c \in Known /\ c.notBefore \in Nat
    BY <1>3, <1>5 DEF Known, CertsIn, CA
  <2>2. PICK l \in Definitions : c.notAfter = c.notBefore + l.signer.Lifetime
    BY <2>1 DEF Base, CAsDistinct
  <2>3. /\ l.signer.Lifetime \in Nat /\ Wanted.target.Refresh >= 0
        /\ 8 * l.signer.Lifetime >= 8 * Wanted.signer.Refresh + 11 * Wanted.target.Refresh + 10
    BY <1>4, DefinitionParts DEF Spaced
  <2>4. now <= c.notBefore + Wanted.signer.Refresh
    BY <1>5
  <2> HIDE DEF c
  <2> QED
    BY <2>1, <2>2, <2>3, <2>4, <1>4 DEF c
<1>7. TargetNow.cert # Unset /\ TargetNow.notAfter = TargetNow.cert.notAfter
  <2>1. TargetNow \in Copies("target") /\ TargetNow \in SecretOf("target") /\ "target" \in Secrets
    BY DEF TargetNow, Copies, Base, Types, SecretsType, Secrets
  <2>2. Annotated(TargetNow)
    BY <2>1 DEF Base, SecretsTrue
  <2>3. TargetNow.notAfter # Unset /\ ~ (now > TargetNow.notAfter)
    BY <1>3 DEF TargetFine, needNewTargetCertKeyPair, Expiring
  <2>4. TargetNow.notAfter \in Int
    BY <2>1, <2>3, SecretFields
  <2> QED
    BY <2>2, <2>3, <2>4, <1>4 DEF Annotated
<1>8. \A x \in Secrets : /\ secret[x].live /\ secret[x].cfg = Wanted[x]
                         /\ secret[x].cert # Unset
                         /\ secret[x].notAfter = secret[x].cert.notAfter
  BY <1>2, <1>3, <1>4, <1>5, <1>7 DEF Secrets, SignerFine, TargetFine, SignerNow, TargetNow
<1>9. ~ needNewTargetCertKeyPair(TargetNow, Wanted.target.Refresh, SignerNow.cert, bundle)
  BY <1>3 DEF TargetFine
<1> QED
  BY <1>1, <1>2, <1>3, <1>5, <1>6, <1>8, <1>9

\* What is seasoned stays so, and a trouble just before the tick makes all of it old.
LEMMA TickSeasons ==
    ASSUME Base, now' = now + 1, disturbed' = disturbed, certConfig' = certConfig
    PROVE  /\ Wanted' = Wanted
           /\ \A c \in Known : Seasoned(c) => Seasoned(c)'
           /\ ~ Calm => \A c \in Known : Seasoned(c)'
<1>1. now \in Nat /\ disturbed \in 0 .. now /\ Wanted.target.Refresh \in Int
  BY WantedParts DEF Base, Types
<1>2. Wanted' = Wanted
  BY DEF Wanted
<1>3. \A c \in Known : c.notBefore \in Nat /\ c.notBefore <= now
  BY CopyTypes DEF CopiesTyped, CA, Base, CAsDistinct
<1>4. \A c \in Known : Seasoned(c) => Seasoned(c)'
  BY <1>1, <1>2, <1>3 DEF Seasoned
<1>5. ~ Calm => \A c \in Known : Seasoned(c)'
  BY <1>1, <1>3 DEF Seasoned, Calm
<1> QED
  BY <1>2, <1>4, <1>5

LEMMA TickVouched ==
    ASSUME Spaced, Base, SyncedTrue, CalmTrue, PassTime
    PROVE  Vouched(TargetNow.cert)'
<1> DEFINE t == TargetNow
           b == TargetNow.notBefore
           a == TargetNow.cert.notAfter
<1>1. /\ secretView' = secretView /\ bundle' = bundle /\ bundle # Unset
      /\ now' = now + 1 /\ disturbed' = disturbed /\ certConfig' = certConfig
      /\ secret = secretView
      /\ \A x \in Secrets : secret[x].cert # Unset /\ secret[x].notAfter = secret[x].cert.notAfter
      /\ ~ needNewTargetCertKeyPair(TargetNow, Wanted.target.Refresh, SignerNow.cert, bundle)
  BY TickFacts
<1>2. t.cert # Unset /\ t.notAfter = a /\ t \in Copies("target")
  BY <1>1 DEF TargetNow, Secrets, Copies
<1>3. PICK c \in bundle : c.id = t.cert.issuer
  BY <1>1 DEF needNewTargetCertKeyPair
<1>4. c \in Known
  BY <1>1, <1>3 DEF Known, CertsIn
<1>5. now \in Nat /\ Wanted \in Definitions /\ Wanted.target.Refresh \in Int
  BY WantedParts DEF Base, Types
<1>6. /\ b \in Nat /\ a \in Nat /\ c \in CA /\ a <= c.notAfter
      /\ 8 * (a - b) >= 11 * Wanted.target.Refresh + 10
  BY <1>2, <1>3, <1>4, <1>5, LongLived
<1>7. c.notBefore \in Nat /\ c.notAfter \in Nat /\ c.notBefore <= now
  BY <1>4, <1>6 DEF CA, Base, CAsDistinct
<1>8. Wanted.target.Refresh >= 0
  BY <1>5 DEF Spaced
<1>9. ~ (5 * now > 5 * a - (a - b))
  BY <1>1, <1>2 DEF needNewTargetCertKeyPair, Expiring
<1>10. Seasoned(c)'
  <2>1. CASE ~ Calm
    BY <2>1, <1>1, <1>4, TickSeasons
  <2>2. CASE Calm
    <3>1. PICK e \in Older(bundle) : e.id = t.cert.issuer /\ Seasoned(e)
      BY <2>2, <1>2 DEF CalmTrue, Vouched
    <3>2. e \in Known
      BY <1>1, <3>1 DEF Older, Known, CertsIn
    <3>3. e = c
      BY <1>3, <1>4, <3>1, <3>2 DEF Base, CAsDistinct
    <3> QED
      BY <1>1, <1>4, <3>1, <3>3, TickSeasons
  <2> QED
    BY <2>1, <2>2
<1>11. t' = t
  BY <1>1 DEF TargetNow
<1> HIDE DEF a, b
<1>12. now + 1 <= a
  BY <1>5, <1>6, <1>8, <1>9
<1>13. c.notBefore < now + 1 /\ now + 1 <= c.notAfter
  BY <1>5, <1>6, <1>7, <1>12
<1>14. c \in Older(bundle)'
  BY <1>1, <1>3, <1>13 DEF Older
<1> QED
  BY <1>1, <1>2, <1>3, <1>10, <1>11, <1>12, <1>14 DEF Vouched, a

LEMMA TickCalm ==
    ASSUME Spaced, Base, SyncedTrue, CalmTrue, PassTime
    PROVE  CalmTrue'
<1> DEFINE rt == Wanted.target.Refresh
           ca == SignerNow.cert
<1>1. /\ UNCHANGED <<certConfig, secret, bundle, secretView, bundleView, sync,
                     disturbed, hook, server, served>>
      /\ now' = now + 1 /\ sync = Idle /\ secret = secretView /\ bundle = bundleView
      /\ bundle # Unset /\ server = "serving" /\ served = Current
      /\ \A x \in Secrets : /\ secret[x].live /\ secret[x].cfg = Wanted[x]
                            /\ secret[x].cert # Unset
                            /\ secret[x].notAfter = secret[x].cert.notAfter
      /\ ca \in bundle /\ ca \in CA
      /\ now + 1 <= ca.notAfter
      /\ ~ needNewTargetCertKeyPair(TargetNow, Wanted.target.Refresh, SignerNow.cert, bundle)
  BY TickFacts
<1>2. now \in Nat /\ rt \in Int /\ ca.notBefore \in Nat /\ Wanted' = Wanted
  BY <1>1, WantedParts DEF Base, Types, CA, Wanted
<1>3. ca \in Known /\ ca.notBefore <= now
  <2>1. ca \in Known
    BY <1>1 DEF Known, CertsIn
  <2> QED
    BY <2>1 DEF Base, CAsDistinct
<1>4. /\ \A x \in Secrets : Copies(x)' = {secret[x]} /\ Copies(x) = {secret[x]}
      /\ Signers' = {ca} /\ Signers = {ca}
  <2>1. sync.pc = "idle" /\ sync.ca = Unset
    BY <1>1 DEF Idle
  <2>2. ca = secret["signer"].cert /\ ca # Unset
    BY <1>1 DEF SignerNow, Secrets
  <2> QED
    BY <1>1, <2>1, <2>2 DEF Copies, Signers, Some, At
<1>5. sync.pc = "idle" /\ sync.who = "signer"
  BY <1>1 DEF Idle
<1>6. Older(bundle)' = Older(bundleView)'
  BY <1>1 DEF Older
<1>7. ca \in Older(bundle)'
  BY <1>1, <1>2, <1>3 DEF Older
<1>8. TargetNow = secret["target"] /\ Vouched(secret["target"].cert)'
  <2>1. TargetNow = secret["target"] /\ TargetNow' = TargetNow /\ secret' = secret
    BY <1>1 DEF TargetNow
  <2> QED
    BY <2>1, TickVouched DEF Vouched
<1>9. served = secret["target"].cert /\ served # Unset
  BY <1>1 DEF Current, LiveCert, Secrets
<1>10. /\ \/ now <= TargetNow.notBefore + rt
          \/ 10 * (now - ca.notBefore) <= rt
       /\ TargetNow.notBefore \in Nat
  <2>1. TargetNow.notBefore \in Nat
    <3>1. TargetNow \in SecretOf("target") /\ Annotated(TargetNow) /\ "target" \in Secrets
      BY DEF TargetNow, Base, Types, SecretsType, Secrets, SecretsTrue, Copies
    <3>2. TargetNow.cert # Unset
      BY <1>1, <1>8 DEF Secrets
    <3>3. TargetNow.notBefore # Unset
      BY <3>1, <3>2 DEF Annotated
    <3> QED
      BY <3>1, <3>3, SecretFields
  <2>2. ~ (now > TargetNow.notBefore + rt /\ 10 * (now - ca.notBefore) > rt)
    BY <1>1 DEF needNewTargetCertKeyPair
  <2> QED
    BY <2>1, <2>2, <1>2
<1>11. \A c : c = ca => Seasoned(c)' \/ c.notBefore <= TargetNow.notBefore + rt + 1
  <2> SUFFICES ASSUME NEW c, c = ca
               PROVE  Seasoned(c)' \/ c.notBefore <= TargetNow.notBefore + rt + 1
    OBVIOUS
  <2>0. c \in Known
    BY <1>3
  <2>1. CASE ~ Calm
    BY <2>0, <2>1, <1>1, TickSeasons
  <2>2. CASE Calm
    <3>1. c \in Signers /\ TargetNow \in Copies("target")
      BY <1>4, <1>8 DEF Secrets
    <3>2. Seasoned(c) \/ c.notBefore <= TargetNow.notBefore + rt + 1
      BY <2>2, <3>1 DEF CalmTrue
    <3> QED
      BY <2>0, <1>1, <3>2, TickSeasons
  <2> QED
    BY <2>1, <2>2
<1>12. now' - 1 = now
  BY <1>1, <1>2
<1> HIDE DEF ca, rt
<1>13. ASSUME NEW c \in Signers', NEW s \in Copies("target")'
       PROVE  /\ \/ c.notBefore = now'
                 \/ now' - 1 <= s.notBefore + rt
                 \/ 10 * (now' - 1 - c.notBefore) <= rt
              /\ \/ Seasoned(c)'
                 \/ c.notBefore <= s.notBefore + rt + 1
  <2>1. c = ca /\ s = TargetNow
    BY <1>4, <1>8 DEF Secrets
  <2> QED
    BY <2>1, <1>10, <1>11, <1>12
<1>14. \A x \in Secrets : \A s \in Copies(x)' :
          s.live /\ s.cfg = Wanted'[x] /\ s.cert # Unset /\ s.notAfter = s.cert.notAfter
  BY <1>1, <1>2, <1>4
<1>15. \A s \in Copies("target")' : Vouched(s.cert)'
  BY <1>1, <1>4, <1>8 DEF Vouched, Secrets
<1>16. Vouched(served)'
  BY <1>1, <1>8, <1>9 DEF Vouched
<1> QED
  BY <1>1, <1>2, <1>4, <1>5, <1>6, <1>7, <1>9, <1>13, <1>14, <1>15, <1>16 DEF CalmTrue, At, rt

-----------------------------------------------------------------------------
\* HookTrue.
LEMMA HookKept ==
    ASSUME HookTrue, hook' = hook, disturbed' = disturbed,
           hook # Unset /\ disturbed < hook.at => Older(bundle)' \subseteq Older(bundle)
    PROVE  HookTrue'
  BY DEF HookTrue

LEMMA ServerHook ==
    ASSUME HookTrue, ServerMove
    PROVE  HookTrue'
<1>1. now' = now /\ disturbed' = disturbed /\ bundle' = bundle
  BY ServerFrame
<1>2. Older(bundle)' = Older(bundle)
  BY <1>1 DEF Older
<1>3. CASE hook' = Unset
  BY <1>3 DEF HookTrue
<1>4. CASE hook' = hook
  BY <1>1, <1>2, <1>4, HookKept
<1>5. CASE hook' = [bundle |-> bundle, at |-> now]
  <2>1. hook'.bundle = bundle
    BY <1>5
  <2>2. Older(bundle)' \subseteq bundle
    BY <1>2 DEF Older
  <2> QED
    BY <2>1, <2>2 DEF HookTrue
<1> QED
  BY <1>3, <1>4, <1>5 DEF ServerMove

LEMMA QuietHook ==
    ASSUME HookTrue, hook' = hook, disturbed' = disturbed, now' = now, bundle' \in {bundle, {}}
    PROVE  HookTrue'
<1>1. Older(bundle)' \subseteq Older(bundle)
  BY DEF Older
<1> QED
  BY <1>1, HookKept

LEMMA ensureCertBundleHook ==
    ASSUME Base, CalmTrue, HookTrue, ensureCertBundle, UNCHANGED serverVars
    PROVE  HookTrue'
<1>1. hook' = hook /\ disturbed' = disturbed /\ now' = now
  BY BundleSteps DEF SyncFrame
<1>2. ASSUME hook # Unset, disturbed < hook.at
      PROVE  Older(bundle)' \subseteq Older(bundle)
  <2>1. Calm
    BY <1>2 DEF Calm, Base, Types
  <2>2. Older(NextBundle) = Older(bundle) /\ bundle' \in {bundle, NextBundle}
    BY <2>1, OlderKept
  <2> QED
    BY <1>1, <2>2 DEF Older
<1> QED
  BY <1>1, <1>2, HookKept

LEMMA TickHook ==
    ASSUME Spaced, Base, SyncedTrue, HookTrue, PassTime
    PROVE  HookTrue'
<1>1. /\ now' = now + 1 /\ hook' = hook /\ disturbed' = disturbed /\ bundle' = bundle
      /\ bundle # Unset
  BY TickFacts
<1>2. now \in Nat /\ (hook # Unset => hook.at \in 0 .. now)
  BY DEF Base, Types
<1> SUFFICES ASSUME hook # Unset, disturbed < hook.at,
                    NEW c \in Older(bundle)', c.notBefore < hook.at
             PROVE  c \in hook.bundle
  BY <1>1 DEF HookTrue
<1>3. c \in CertsIn(bundle) /\ c \in bundle /\ now + 1 <= c.notAfter
  BY <1>1 DEF CertsIn, Older
<1>4. c \in CA
  BY <1>3, CopyTypes DEF CopiesTyped, Known, Base
<1>5. c.notBefore \in Nat /\ c.notAfter \in Nat
  BY <1>4 DEF CA
<1>6. c \in Older(bundle)
  BY <1>2, <1>3, <1>5 DEF Older
<1> QED
  BY <1>6 DEF HookTrue

-----------------------------------------------------------------------------
\* The whole of it.
Trust == Base /\ SyncedTrue /\ CalmTrue /\ HookTrue

LEMMA InitTrust == Init => Trust
<1> SUFFICES ASSUME Init
             PROVE  Trust
  OBVIOUS
<1>1. now = 0 /\ disturbed = 0 /\ synced = FALSE /\ hook = Unset
  BY DEF Init, CertInit
<1> QED
  BY <1>1, InitBase DEF Trust, SyncedTrue, CalmTrue, Calm, HookTrue

\* The steps of Sync.
LEMMA SyncTrust ==
    ASSUME ManyCAs, Spaced, Trust, SyncStep(Held), UNCHANGED serverVars
    PROVE  SyncedTrue' /\ CalmTrue' /\ HookTrue'
<1> USE DEF Trust
<1>1. CASE ensureCertBundle
  BY <1>1, ensureCertBundleSynced, ensureCertBundleCalm, ensureCertBundleHook
<1>2. CASE /\ SyncFrame /\ bundle' = bundle
           /\ SyncedTrue' /\ CalmTrue'
  BY <1>2, QuietHook DEF SyncFrame
<1>3. CASE ensureSigner
  <2>1. SyncFrame /\ bundle' = bundle
    BY <1>3 DEF ensureSigner, SyncFrame, certViews, serverVars
  <2> QED
    BY <1>2, <1>3, <2>1, ensureSignerSynced, ensureSignerCalm
<1>4. CASE ensureTarget
  <2>1. SyncFrame /\ bundle' = bundle
    BY <1>4 DEF ensureTarget, SyncFrame, certRest, certViews, serverVars
  <2> QED
    BY <1>2, <1>4, <2>1, ensureTargetSynced, ensureTargetCalm
<1>5. CASE ensureCertConfig
  <2>1. SyncFrame /\ bundle' = bundle
    BY <1>5 DEF ensureCertConfig, SyncFrame, certRest, certViews, serverVars
  <2> QED
    BY <1>2, <1>5, <2>1, ensureCertConfigSynced, OtherCalm
<1>6. CASE Recreate
  <2>1. SyncFrame /\ bundle' = bundle
    BY <1>6, RecreateWrites
  <2> QED
    BY <1>2, <1>6, <2>1, RecreateSynced, OtherCalm
<1>7. CASE EnsureSigningCertKeyPair(Held)
  <2>1. SyncFrame /\ bundle' = bundle
    BY <1>7, SignerSteps
  <2> QED
    BY <1>2, <1>7, <2>1, EnsureSigningSynced, EnsureSigningCalm
<1>8. CASE EnsureTargetCertKeyPair
  <2>1. SyncFrame /\ bundle' = bundle
    BY <1>8, TargetSteps
  <2> QED
    BY <1>2, <1>8, <2>1, EnsureTargetSynced, EnsureTargetCalm
<1> QED
  BY <1>1, <1>3, <1>4, <1>5, <1>6, <1>7, <1>8 DEF SyncStep

LEMMA NextTrust ==
    ASSUME ManyCAs, Spaced
    PROVE  Trust /\ [Next]_vars => Trust'
<1> SUFFICES ASSUME Trust, [Next]_vars
             PROVE  Trust'
  OBVIOUS
<1>0. Base /\ Types /\ SyncedTrue /\ CalmTrue /\ HookTrue
  BY DEF Trust, Base
<1>1. Base'
  BY <1>0, NextBase
<1>2. ASSUME ServerMove
      PROVE  Trust'
  BY <1>0, <1>1, <1>2, ServerSynced, ServerCalm, ServerHook DEF Trust
<1>3. CASE \/ StartServer \/ StartTLS \/ DeliverServed \/ ServeHTTP
           \/ LockNamespace \/ UnlockNamespace
           \/ ServerCrash \/ KubeVirtRemoved \/ KubeVirtInstalled
  BY <1>0, <1>2, <1>3, ServerMoves
<1>4. CASE UNCHANGED vars
  <2>1. ServerMove
    BY <1>0, <1>4 DEF ServerMove, vars, certVars, serverVars, Types
  <2> QED
    BY <1>2, <2>1
<1>5. CASE PassTime
  <2>1. synced' = FALSE
    BY <1>5 DEF PassTime, Tick
  <2> QED
    BY <1>0, <1>1, <1>5, <2>1, NotSynced, TickCalm, TickHook DEF Trust
<1>6. CASE CertStep
  <2>1. UNCHANGED serverVars /\ CertNext(Held) /\ hook' = hook
    BY <1>6 DEF CertStep, serverVars
  <2>2. CASE Start \/ DeliverSecrets \/ DeliverBundle
    <3>1. ViewMove
      BY <1>0, <2>1, <2>2, ViewMoves
    <3>2. synced' = FALSE /\ disturbed' = disturbed /\ now' = now /\ bundle' = bundle
      BY <3>1 DEF ViewMove
    <3> QED
      BY <1>0, <1>1, <2>1, <3>1, <3>2, NotSynced, ViewCalm, QuietHook DEF Trust
  <2>3. CASE ChangeCertConfig \/ DeleteCertObject
    <3>1. synced' = FALSE
      BY <2>3 DEF ChangeCertConfig, DeleteCertObject
    <3> QED
      BY <1>0, <1>1, <2>1, <2>3, <3>1, NotSynced, TroubleCalm DEF Trust
  <2>4. CASE OperatorCrash
    <3>1. synced' = FALSE /\ disturbed' = disturbed /\ now' = now /\ bundle' = bundle
      BY <2>4 DEF OperatorCrash, Fail, certApi
    <3> QED
      BY <1>0, <1>1, <2>1, <2>4, <3>1, NotSynced, OperatorCrashCalm, QuietHook DEF Trust
  <2>5. CASE ReconcileCreate
    <3>1. disturbed' = disturbed /\ now' = now /\ bundle' \in {bundle, {}}
      BY <2>5 DEF ReconcileCreate, certRest
    <3> QED
      BY <1>0, <1>1, <2>1, <2>5, <3>1, ReconcileCreateSynced, ReconcileCreateCalm, QuietHook
         DEF Trust
  <2>6. CASE SyncStep(Held)
    BY <1>1, <2>1, <2>6, SyncTrust DEF Trust
  <2> QED
    BY <2>1, <2>2, <2>3, <2>4, <2>5, <2>6 DEF CertNext
<1> QED
  BY <1>3, <1>4, <1>5, <1>6 DEF Next

\* In every reachable state the annotations tell the truth, a call of Sync that
\* found everything in order was right, and in calm times only CAs that have been
\* in the bundle for long enough sign (Sync, ensureCertBundle before ensureTarget).
THEOREM CertificatesInOrder ==
    ASSUME ManyCAs, Spaced
    PROVE  Spec => []TrustIndInv
<1>1. Init => Trust
  BY InitTrust
<1>2. Trust /\ [Next]_vars => Trust'
  BY NextTrust
<1>3. Trust => TrustIndInv
  BY DEF Trust, Base, TrustIndInv
<1> QED
  BY <1>1, <1>2, <1>3, PTL DEF Spec

\* The invariant is enough: the server's certificate is trusted by the bundle of
\* a lock that is young.
LEMMA TrustIsEnough ==
    ASSUME Trust
    PROVE  YoungLockTrusted
<1> SUFFICES ASSUME hook # Unset, ~ (hook.at <= disturbed), ~ (now = disturbed),
                    ~ (10 * (now - hook.at) > Wanted.target.Refresh),
                    server = "serving"
             PROVE  Passes(RestoreQuota, hook.bundle)
  BY DEF YoungLockTrusted, Wanted
<1>1. /\ now \in Nat /\ disturbed \in 0 .. now /\ hook.at \in 0 .. now
      /\ Wanted.target.Refresh \in Int
  BY WantedParts DEF Trust, Base, Types
<1>2. Calm /\ disturbed < hook.at
  BY <1>1 DEF Calm
<1>3. served # Unset /\ Vouched(served) /\ bundle # Unset
  BY <1>2 DEF Trust, CalmTrue
<1>4. PICK c \in Older(bundle) : c.id = served.issuer /\ Seasoned(c)
  BY <1>3 DEF Vouched
<1>5. c \in bundle /\ now <= c.notAfter
  BY <1>4 DEF Older
<1>6. c.notBefore \in Nat
  BY <1>3, <1>5 DEF Trust, Base, Types, CA
<1>7. c.notBefore <= disturbed \/ 10 * (now - c.notBefore) > Wanted.target.Refresh
  BY <1>4 DEF Seasoned
<1>8. c.notBefore < hook.at
  BY <1>1, <1>2, <1>6, <1>7
<1>9. c \in hook.bundle
  BY <1>2, <1>4, <1>8 DEF Trust, HookTrue
<1>10. Trusted(hook.bundle)
  BY <1>3, <1>4, <1>5, <1>9 DEF Trusted, Vouched
<1>11. Validated(RestoreQuota)
  BY DEF Validated, RestoreQuota, Request, Validate, validateRQCtlModification, ServiceAccount
<1> QED
  BY <1>10, <1>11 DEF Passes

\* Rotation that follows the clock never cuts the controller off from a lock it
\* has just taken, with any number of CAs, ticks, crashes and calls of Sync that
\* begin with old copies (EnsureTargetCertKeyPair's wait for its signer).
THEOREM YoungLocksTrusted ==
    ASSUME ManyCAs, Spaced
    PROVE  Spec => []YoungLockTrusted
<1>1. Init => Trust
  BY InitTrust
<1>2. Trust /\ [Next]_vars => Trust'
  BY NextTrust
<1>3. Trust => YoungLockTrusted
  BY TrustIsEnough
<1> QED
  BY <1>1, <1>2, <1>3, PTL DEF Spec
=============================================================================
