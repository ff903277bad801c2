-------------------------- MODULE LockServerProofs --------------------------
(***************************************************************************)
(* What is true of the certificates whatever the durations are: their      *)
(* types, that CAs are told apart by their ids, and that annotations tell  *)
(* the truth, for any number of ticks, troubles, CAs and calls of Sync     *)
(* that begin with old copies.                                             *)
(***************************************************************************)
EXTENDS LockTrust, FiniteSetTheorems, TLAPS

\* There is always another key pair for a CA, and Unset is not a bundle.
ManyCAs == ~ IsFiniteSet(CAs) /\ Unset \notin SUBSET CA

Ids(b) == {c.id : c \in CertsIn(b)}
HookIds == IF hook = Unset THEN {} ELSE {c.id : c \in hook.bundle}

\* Only finitely many CAs are in use.
FiniteIds == IsFiniteSet(Ids(bundle)) /\ IsFiniteSet(Ids(bundleView)) /\ IsFiniteSet(HookIds)

\* All but the pool.
Types ==
    /\ now \in 0 .. MaxTime /\ certConfig \in CertConfigs /\ disturbed \in 0 .. now
    /\ secret \in SecretsType /\ secretView \in SecretsType
    /\ bundle \in {Unset} \cup SUBSET CA /\ bundleView \in {Unset} \cup SUBSET CA
    /\ sync \in Call
    /\ listers \in BOOLEAN /\ synced \in BOOLEAN
    /\ server \in {"down", "starting", "serving"}
    /\ served \in {Unset} \cup Cert
    /\ hook = Unset \/ hook \in [at : 0 .. now, bundle : SUBSET CA]

\* What holds whatever the durations are.
Base == Types /\ FiniteIds /\ CallSound /\ CAsDistinct /\ SecretsTrue

\* A secret without a certificate.
Blank(s) == s.cert = Unset /\ s.notAfter = Unset

-----------------------------------------------------------------------------
\* Constants and records.

LEMMA DefinitionParts ==
    \A d \in Definitions :
        /\ d.signer.Lifetime \in Nat /\ d.signer.Refresh \in Int
        /\ d.target.Lifetime \in Nat /\ d.target.Refresh \in Int
        /\ d["signer"] = d.signer /\ d["target"] = d.target
<1> SUFFICES ASSUME NEW c \in CertConfigs
             PROVE  LET d == CreateCertificateDefinitions(c) IN
                    /\ d.signer.Lifetime \in Nat /\ d.signer.Refresh \in Int
                    /\ d.target.Lifetime \in Nat /\ d.target.Refresh \in Int
                    /\ d["signer"] = d.signer /\ d["target"] = d.target
  BY DEF Definitions
<1>1. c.ca \in Durations /\ c.server \in Durations
  BY CertAssumption
<1>2. \A a \in Durations, l, r \in Nat : /\ Config(a, l, r).Lifetime \in Nat
                                         /\ Config(a, l, r).Refresh \in Int
  BY DEF Durations, Config, Refresh
<1>3. /\ Config(c.ca, 40, 20).Lifetime \in Nat /\ Config(c.ca, 40, 20).Refresh \in Int
      /\ Config(c.server, 20, 10).Lifetime \in Nat /\ Config(c.server, 20, 10).Refresh \in Int
  BY <1>1, <1>2
<1> HIDE DEF Config
<1> QED
  BY <1>3 DEF CreateCertificateDefinitions

\* The types by their parts.
LEMMA TypeParts == TypeOK <=> Types /\ CAs \ (UsedCAs \cup Held) # {}
  BY DEF TypeOK, Types

LEMMA TypePartsNext == TypeOK' <=> Types' /\ (CAs \ (UsedCAs \cup Held) # {})'
  BY TypeParts, PTL

\* The pool of CAs never runs out.
LEMMA PoolLasts ==
    ASSUME ManyCAs, FiniteIds
    PROVE  CAs \ (UsedCAs \cup Held) # {}
<1> DEFINE few == {secret["signer"].cert.id, secretView["signer"].cert.id, sync.ca.id,
                   secret["target"].cert.issuer, secretView["target"].cert.issuer,
                   served.issuer}
           all == Ids(bundle) \cup Ids(bundleView) \cup HookIds \cup few
<1>1. IsFiniteSet(few)
  <2> DEFINE f1 == {secret["signer"].cert.id}
             f2 == f1 \cup {secretView["signer"].cert.id}
             f3 == f2 \cup {sync.ca.id}
             f4 == f3 \cup {secret["target"].cert.issuer}
             f5 == f4 \cup {secretView["target"].cert.issuer}
  <2>1. few = f5 \cup {served.issuer}
    OBVIOUS
  <2>2. IsFiniteSet(f1)
    BY FS_Singleton
  <2> HIDE DEF f1, few
  <2>3. IsFiniteSet(f2)
    BY <2>2, FS_AddElement
  <2> HIDE DEF f2
  <2>4. IsFiniteSet(f3)
    BY <2>3, FS_AddElement
  <2> HIDE DEF f3
  <2>5. IsFiniteSet(f4)
    BY <2>4, FS_AddElement
  <2> HIDE DEF f4
  <2>6. IsFiniteSet(f5)
    BY <2>5, FS_AddElement
  <2> HIDE DEF f5
  <2> QED
    BY <2>1, <2>6, FS_AddElement
<1> HIDE DEF few
<1>2. IsFiniteSet(all)
  BY <1>1, FS_Union DEF FiniteIds
<1>3. UsedCAs \subseteq all
  BY DEF UsedCAs, few, Ids, CertsIn
<1>4. Held \subseteq all
  BY DEF Held, HookIds, few
<1> HIDE DEF all
<1>5. CAs \cap (UsedCAs \cup Held) \in SUBSET all
  BY <1>3, <1>4
<1>6. IsFiniteSet(CAs \cap (UsedCAs \cup Held))
  BY <1>2, <1>5, FS_Subset
<1>7. CAs \cap (UsedCAs \cup Held) # CAs
  BY <1>6 DEF ManyCAs
<1> QED
  BY <1>7

LEMMA PoolLastsNext ==
    ASSUME ManyCAs
    PROVE  FiniteIds' => (CAs \ (UsedCAs \cup Held) # {})'
<1>1. FiniteIds => CAs \ (UsedCAs \cup Held) # {}
  BY PoolLasts
<1> QED
  BY <1>1, PTL

-----------------------------------------------------------------------------
\* Secrets.

\* The fields of a secret.
LEMMA SecretFields ==
    ASSUME NEW x \in Secrets, NEW s \in SecretOf(x)
    PROVE  /\ s.uid \in {0, 1} /\ s.live \in BOOLEAN /\ s.tls \in BOOLEAN
           /\ s.notBefore # Unset => s.notBefore \in Nat
           /\ s.notAfter # Unset => s.notAfter \in Int
           /\ x = "signer" /\ s.cert # Unset => s.cert \in CA
           /\ x = "target" /\ s.cert # Unset => s.cert \in Cert
  BY DEF SecretOf, Secrets

\* Secrets without data.
LEMMA BlankSecrets ==
    ASSUME NEW x \in Secrets, NEW uid \in {0, 1}
    PROVE  /\ NoSecret(uid) \in SecretOf(x) /\ Blank(NoSecret(uid)) /\ ~ NoSecret(uid).live
           /\ EmptySecret(uid) \in SecretOf(x) /\ Blank(EmptySecret(uid))
           /\ EmptySecret(uid).live /\ EmptySecret(uid).cfg = Unset
<1>1. 1 - uid \in {0, 1}
  OBVIOUS
<1> QED
  BY <1>1 DEF NoSecret, EmptySecret, SecretOf, Blank

\* A secret with its configuration.
LEMMA ConfiguredSecret ==
    ASSUME Types, NEW x \in Secrets, NEW s \in SecretOf(x), NEW d \in Definitions
    PROVE  LET r == configured(s, d[x]) IN
           /\ r \in SecretOf(x) /\ r.cfg = d[x] /\ r.live = s.live /\ r.cert = s.cert
           /\ r.notBefore = s.notBefore /\ r.tls = s.tls
           /\ r.notAfter = IF s.notAfter = Unset THEN Unset ELSE now - 1
<1>1. now - 1 \in Int
  BY DEF Types
<1> QED
  BY <1>1 DEF configured, SecretOf

\* A secret with a new certificate.
LEMMA IssuedSecret ==
    ASSUME Types, NEW x \in Secrets, NEW s \in SecretOf(x), NEW life \in Int,
           NEW cert \in IF x = "signer" THEN CA ELSE Cert
    PROVE  LET r == Issued(s, cert, life) IN
           /\ r \in SecretOf(x) /\ r.live /\ r.tls /\ r.cfg = s.cfg /\ r.cert = cert
           /\ r.notBefore = now /\ r.notAfter = now + life
<1>1. now + life \in Int /\ now \in 0 .. MaxTime
  BY DEF Types
<1> QED
  BY <1>1 DEF Issued, SecretOf

\* A secret that is applied to another, or created.
LEMMA MergedSecret ==
    ASSUME NEW x \in Secrets, NEW s \in SecretOf(x), NEW d \in SecretOf(x)
    PROVE  LET r == Merged(s, d) IN
           /\ r \in SecretOf(x) /\ r.live = d.live /\ r.tls = d.tls /\ r.cert = d.cert
           /\ r.notBefore = d.notBefore /\ r.notAfter = d.notAfter
           /\ r.cfg = IF d.cfg = Unset THEN s.cfg ELSE d.cfg
  BY DEF Merged, SecretOf

LEMMA CreatedSecret ==
    ASSUME NEW x \in Secrets, NEW d \in SecretOf(x), NEW uid \in {0, 1}
    PROVE  LET r == [d EXCEPT !.uid = 1 - uid] IN
           /\ r \in SecretOf(x) /\ r.live = d.live /\ r.tls = d.tls /\ r.cert = d.cert
           /\ r.notBefore = d.notBefore /\ r.notAfter = d.notAfter /\ r.cfg = d.cfg
<1>1. 1 - uid \in {0, 1}
  OBVIOUS
<1> QED
  BY <1>1 DEF SecretOf

\* A write of one secret.
Put(f, x, s) == [f EXCEPT ![x] = s]

LEMMA SecretWrite ==
    ASSUME NEW f \in SecretsType, NEW x \in Secrets, NEW s \in SecretOf(x)
    PROVE  /\ Put(f, x, s) \in SecretsType
           /\ Put(f, x, s)[x] = s
           /\ \A y \in Secrets \ {x} : Put(f, x, s)[y] = f[y]
<1> DEFINE new == [f EXCEPT ![x] = s]
<1>1. f \in [Secrets -> SecretOf("signer") \cup SecretOf("target")]
  BY DEF SecretsType
<1>2. new \in [Secrets -> SecretOf("signer") \cup SecretOf("target")]
  BY <1>1 DEF Secrets
<1>3. new[x] = s /\ \A y \in Secrets \ {x} : new[y] = f[y]
  BY <1>1
<1>4. \A y \in Secrets : new[y] \in SecretOf(y)
  BY <1>3 DEF SecretsType
<1> QED
  BY <1>2, <1>3, <1>4 DEF SecretsType, Put

-----------------------------------------------------------------------------
\* How CAs and copies of secrets come about.

\* At this time s has the certificate of t, perhaps marked as expired.
Same(s, t, time) ==
    /\ s.cert = t.cert /\ s.notBefore = t.notBefore /\ s.tls = t.tls
    /\ \/ s.notAfter = t.notAfter
       \/ s.notAfter # Unset /\ t.notAfter # Unset /\ s.notAfter < time

\* A secret whose certificate was issued at this time.
NewSecret(s, time) ==
    /\ s.cert # Unset /\ s.tls
    /\ s.notBefore = time /\ s.notAfter = s.cert.notAfter

\* A CA that was made at this time and that nobody can know.
NewCA(c, time) ==
    /\ c.notBefore = time
    /\ \E d \in Definitions : c.notAfter = time + d.signer.Lifetime
    /\ \A e \in Known : c.id # e.id
    /\ \A s \in Copies("target") : s.cert # Unset => c.id # s.cert.issuer

\* The types of the copies and of the CAs.
CopiesTyped == Known \subseteq CA /\ \A x \in Secrets : Copies(x) \subseteq SecretOf(x)

LEMMA CopyTypes ==
    ASSUME Types, CallSound
    PROVE  CopiesTyped
<1>1. \A x \in Secrets : secret[x] \in SecretOf(x) /\ secretView[x] \in SecretOf(x)
  BY DEF Types, SecretsType
<1>2. \A x \in Secrets : Copies(x) \subseteq SecretOf(x)
  BY <1>1 DEF Copies, CallSound
<1>3. Some(secret["signer"].cert) \cup Some(secretView["signer"].cert) \subseteq CA
  BY <1>1, SecretFields DEF Some, Secrets
<1>4. Some(sync.ca) \cup sync.certs \subseteq CA
  BY DEF Some, Types, Call
<1>5. CertsIn(bundle) \cup CertsIn(bundleView) \subseteq CA
  BY DEF CertsIn, Types
<1>6. (IF hook = Unset THEN {} ELSE hook.bundle) \subseteq CA
  BY DEF Types
<1> QED
  BY <1>2, <1>3, <1>4, <1>5, <1>6 DEF Known, Signers, CopiesTyped

LEMMA CopyTypesNext == Types' /\ CallSound' => CopiesTyped'
<1>1. Types /\ CallSound => CopiesTyped
  BY CopyTypes
<1> QED
  BY <1>1, PTL

\* What is true of CAs and secrets stays true when old CAs are kept or one new
\* one is made, and every copy of a secret is blank, an old one or a new one.
LEMMA TruthKept ==
    ASSUME Types, CallSound, CAsDistinct, SecretsTrue, Types', CallSound', now <= now',
           NEW fresh, \A c \in fresh : NewCA(c, now'), \A c, e \in fresh : c = e,
           Known' \subseteq Known \cup fresh,
           \A x \in Secrets : \A s \in Copies(x)' :
              \/ Blank(s)
              \/ \E t \in Copies(x) : Same(s, t, now')
              \/ NewSecret(s, now'),
           \A s \in Copies("signer")' :
              NewSecret(s, now') => s.notBefore = s.cert.notBefore,
           \A s \in Copies("target")' :
              NewSecret(s, now') => \/ \E t \in Copies("target") : Same(s, t, now')
                                    \/ \E c \in Known : c.id = s.cert.issuer /\ Issues(c, s)
    PROVE  CAsDistinct' /\ SecretsTrue'
<1>1. now \in Nat /\ now' \in Nat
  BY DEF Types
<1>2. /\ Known \subseteq CA /\ Known' \subseteq CA
      /\ \A x \in Secrets : Copies(x) \subseteq SecretOf(x) /\ Copies(x)' \subseteq SecretOf(x)
  BY CopyTypes, CopyTypesNext DEF CopiesTyped
<1>3. CAsDistinct'
  <2> SUFFICES ASSUME NEW c \in Known'
               PROVE  /\ c.notBefore <= now'
                      /\ \E d \in Definitions : c.notAfter = c.notBefore + d.signer.Lifetime
                      /\ \A e \in Known' : c.id = e.id => c = e
    BY DEF CAsDistinct
  <2>1. c \in CA /\ c.notBefore \in Nat
    BY <1>2 DEF CA
  <2>2. CASE c \in fresh
    BY <2>1, <2>2, <1>1 DEF NewCA
  <2>3. CASE c \in Known
    <3>1. c.notBefore <= now'
      BY <2>1, <2>3, <1>1 DEF CAsDistinct
    <3>2. \A e \in Known' : c.id = e.id => c = e
      BY <2>3 DEF CAsDistinct, NewCA
    <3> QED
      BY <3>1, <3>2, <2>3 DEF CAsDistinct
  <2> QED
    BY <2>2, <2>3
<1>4. ASSUME NEW x \in Secrets, NEW s \in Copies(x)'
      PROVE  Annotated(s)'
  <2>0. s \in SecretOf(x)
    BY <1>2
  <2>1. CASE Blank(s)
    BY <2>1 DEF Blank, Annotated
  <2>2. ASSUME NEW t \in Copies(x), Same(s, t, now')
        PROVE  Annotated(s)'
    <3>1. Annotated(t) /\ t \in SecretOf(x)
      BY <1>2 DEF SecretsTrue
    <3>2. t.notAfter \in Int \cup {Unset} /\ t.notBefore \in Nat \cup {Unset}
      BY <3>1, SecretFields
    <3>3. CASE s.notAfter = Unset
      BY <3>1, <3>3, <2>2 DEF Annotated, Same
    <3>4. CASE s.notAfter # Unset
      <4>1. t.notAfter # Unset
        BY <3>4, <2>2 DEF Same
      <4>2. t.cert # Unset /\ t.tls /\ t.notBefore # Unset /\ t.notBefore <= now
        BY <3>1, <4>1 DEF Annotated
      <4>3. t.notAfter = t.cert.notAfter \/ t.notAfter < now
        BY <3>1, <4>1 DEF Annotated
      <4>4. s.notAfter = s.cert.notAfter \/ s.notAfter < now'
        BY <4>1, <4>3, <2>2, <3>2, <1>1 DEF Same
      <4>5. t.notBefore <= now'
        BY <4>2, <3>2, <1>1
      <4> QED
        BY <3>4, <4>2, <4>4, <4>5, <2>2 DEF Annotated, Same
    <3> QED
      BY <3>3, <3>4
  <2>3. CASE NewSecret(s, now')
    <3>1. s.notBefore # Unset /\ s.notBefore <= now'
      BY <2>3, <1>1, CertAssumption DEF NewSecret
    <3>2. s.notAfter # Unset
      <4>1. s.cert \in CA \cup Cert
        BY <2>0, <2>3 DEF SecretOf, NewSecret
      <4>2. s.cert.notAfter \in Nat
        BY <4>1 DEF CA, Cert
      <4> QED
        BY <4>2, <2>3, CertAssumption DEF NewSecret
    <3> QED
      BY <2>3, <3>1, <3>2 DEF NewSecret, Annotated
  <2> QED
    BY <2>1, <2>2, <2>3
<1>5. ASSUME NEW s \in Copies("signer")', s.cert # Unset
      PROVE  s.notBefore = s.cert.notBefore
  BY <1>5 DEF SecretsTrue, Same, Blank, Secrets
<1>6. ASSUME NEW s \in Copies("target")', NEW c \in Known', s.cert # Unset, s.cert.issuer = c.id
      PROVE  Issues(c, s)
  <2>1. \/ \E t \in Copies("target") : Same(s, t, now')
        \/ \E e \in Known : e.id = s.cert.issuer /\ Issues(e, s)
    BY <1>6 DEF Blank, Secrets
  <2>2. ASSUME NEW t \in Copies("target"), Same(s, t, now')
        PROVE  Issues(c, s)
    <3>1. c \in Known
      BY <1>6, <2>2 DEF Same, NewCA
    <3>2. Issues(c, t)
      BY <3>1, <1>6, <2>2 DEF SecretsTrue, Same
    <3> QED
      BY <3>2, <2>2 DEF Issues, Same
  <2>3. ASSUME NEW e \in Known, e.id = s.cert.issuer, Issues(e, s)
        PROVE  Issues(c, s)
    <3>1. c \in Known
      BY <1>6, <2>3 DEF NewCA
    <3>2. c = e
      BY <3>1, <1>6, <2>3 DEF CAsDistinct
    <3> QED
      BY <3>2, <2>3
  <2> QED
    BY <2>1, <2>2, <2>3
<1>7. (\A s \in Copies("target"), c \in Known :
          s.cert # Unset /\ s.cert.issuer = c.id => Issues(c, s))'
  BY <1>6 DEF Issues
<1> QED
  BY <1>3, <1>4, <1>5, <1>7 DEF SecretsTrue

\* The same when nothing new comes about.
LEMMA NothingNew ==
    ASSUME Base, Types', CallSound', now <= now', Known' \subseteq Known,
           \A x \in Secrets : \A s \in Copies(x)' : Blank(s) \/ s \in Copies(x)
    PROVE  CAsDistinct' /\ SecretsTrue'
<1>1. \A s : Same(s, s, now')
  BY DEF Same
<1>2. \A x \in Secrets : \A s \in Copies(x)' :
         Blank(s) \/ (\E t \in Copies(x) : Same(s, t, now')) \/ NewSecret(s, now')
  BY <1>1
<1>3. \A s \in Copies("signer")' : NewSecret(s, now') => s.notBefore = s.cert.notBefore
  BY DEF NewSecret, Blank, Base, SecretsTrue, Secrets
<1>4. \A s \in Copies("target")' : NewSecret(s, now') =>
         \/ \E t \in Copies("target") : Same(s, t, now')
         \/ \E c \in Known : c.id = s.cert.issuer /\ Issues(c, s)
  BY <1>1 DEF NewSecret, Blank, Secrets
<1> DEFINE fresh == {}
<1>5. /\ Known' \subseteq Known \cup fresh
      /\ \A c \in fresh : NewCA(c, now')
      /\ \A c, e \in fresh : c = e
  OBVIOUS
<1> HIDE DEF fresh
<1>6. Types /\ CallSound /\ CAsDistinct /\ SecretsTrue
  BY DEF Base
<1> QED
  BY <1>2, <1>3, <1>4, <1>5, <1>6, TruthKept

-----------------------------------------------------------------------------
\* The writes of Sync.

\* The result of GetOrCreateSecret.
LEMMA Gotten ==
    ASSUME Types, NEW x \in Secrets, NEW s \in Call, GetOrCreateSecret(x, s)
    PROVE  /\ secret' \in SecretsType
           /\ \A y \in Secrets \ {x} : secret'[y] = secret[y]
           /\ \/ secret' = secret
              \/ /\ ~ secret[x].live /\ ~ secretView[x].live
                 /\ secret'[x].live /\ Blank(secret'[x])
           /\ sync' \in Call
           /\ \/ sync' = Idle /\ ~ secretView[x].live /\ secret[x].live
              \/ /\ sync'.pc \in {"config", "ensure"} /\ sync'.who = x
                 /\ sync'.want = s.want /\ sync'.ca = s.ca /\ sync'.certs = s.certs
                 /\ \/ secretView[x].live /\ secret' = secret
                    \/ ~ secretView[x].live /\ ~ secret[x].live /\ secret'[x].live
                 /\ secretView[x].live =>
                       (sync'.pc = "ensure" <=> secretView[x].cfg = s.want[x])
<1> DEFINE read(o) == IF o.cfg = s.want[x]
                      THEN [s EXCEPT !.pc = "ensure", !.who = x]
                      ELSE [s EXCEPT !.pc = "config", !.who = x, !.read = o]
<1>1. secret[x] \in SecretOf(x) /\ secretView[x] \in SecretOf(x) /\ secret[x].uid \in {0, 1}
  BY SecretFields DEF Types, SecretsType
<1>2. ASSUME NEW o \in SecretOf(x)
      PROVE  /\ read(o) \in Call
             /\ read(o).pc \in {"config", "ensure"} /\ read(o).who = x
             /\ read(o).want = s.want /\ read(o).ca = s.ca /\ read(o).certs = s.certs
             /\ read(o).pc = "ensure" <=> o.cfg = s.want[x]
  <2>1. o \in SecretOf("signer") \cup SecretOf("target")
    BY DEF Secrets
  <2> QED
    BY <2>1 DEF Call
<1>3. CASE secretView[x].live
  <2>1. secret' = secret /\ sync' = read(secretView[x])
    BY <1>3 DEF GetOrCreateSecret
  <2> HIDE DEF read
  <2> QED
    BY <2>1, <1>1, <1>2, <1>3 DEF Types
<1>4. CASE ~ secretView[x].live /\ secret[x].live
  <2>1. secret' = secret /\ sync' = Idle
    BY <1>4 DEF GetOrCreateSecret
  <2>2. Idle \in Call
    BY DEF Idle, Call, Secrets
  <2> QED
    BY <2>1, <2>2, <1>4 DEF Types
<1>5. CASE ~ secretView[x].live /\ ~ secret[x].live
  <2> DEFINE e == EmptySecret(secret[x].uid)
  <2>1. secret' = Put(secret, x, e) /\ sync' = read(secret'[x])
    BY <1>5 DEF GetOrCreateSecret, Put
  <2>2. e \in SecretOf(x) /\ Blank(e) /\ e.live
    BY <1>1, BlankSecrets
  <2> HIDE DEF e
  <2>3. secret' \in SecretsType /\ secret'[x] = e /\ \A y \in Secrets \ {x} : secret'[y] = secret[y]
    BY <2>1, <2>2, SecretWrite DEF Types
  <2>4. sync' = read(e)
    BY <2>1, <2>3
  <2> HIDE DEF read
  <2> QED
    BY <2>2, <2>3, <2>4, <1>2, <1>5
<1> QED
  BY <1>3, <1>4, <1>5

\* r is a secret with the certificate and the annotations of d.
Like(r, d) ==
    /\ r.live = d.live /\ r.tls = d.tls /\ r.cert = d.cert
    /\ r.notBefore = d.notBefore /\ r.notAfter = d.notAfter

Recreating(ca, r) == [sync EXCEPT !.pc = "recreate", !.ca = ca, !.read = r]

\* The results of ApplySecret.
LEMMA Applied ==
    ASSUME Types, NEW x \in Secrets, NEW d \in SecretOf(x), NEW ca, ApplySecret(x, d, ca)
    PROVE  \/ Fail /\ secret' = secret /\ ~ secret[x].live
           \/ /\ sync' = Ensured(ca) /\ synced' = synced
              /\ secret' \in SecretsType /\ \A y \in Secrets \ {x} : secret'[y] = secret[y]
              /\ Like(secret'[x], d) /\ secret'[x].cfg \in {d.cfg, secret[x].cfg}
           \/ /\ secret[x].live /\ ~ secret[x].tls /\ synced' = synced
              /\ secret' \in SecretsType /\ \A y \in Secrets \ {x} : secret'[y] = secret[y]
              /\ Blank(secret'[x]) /\ ~ secret'[x].live
              /\ \E r \in SecretOf(x) : Like(r, d) /\ sync' = Recreating(ca, r)
<1>1. secret[x] \in SecretOf(x) /\ secretView[x] \in SecretOf(x) /\ secret[x].uid \in {0, 1}
  BY SecretFields DEF Types, SecretsType
<1> DEFINE c == [d EXCEPT !.uid = 1 - secret[x].uid]
           m == Merged(secret[x], d)
           n == NoSecret(secret[x].uid)
<1>2. c \in SecretOf(x) /\ Like(c, d) /\ c.cfg = d.cfg
  BY <1>1, CreatedSecret DEF Like
<1>3. m \in SecretOf(x) /\ Like(m, d) /\ m.cfg \in {d.cfg, secret[x].cfg}
  BY <1>1, MergedSecret DEF Like
<1>4. n \in SecretOf(x) /\ Blank(n) /\ ~ n.live
  BY <1>1, BlankSecrets
<1>5. \/ Fail /\ secret' = secret /\ ~ secret[x].live
      \/ secret' = Put(secret, x, c) /\ sync' = Ensured(ca) /\ synced' = synced
      \/ secret' = Put(secret, x, m) /\ sync' = Ensured(ca) /\ synced' = synced
      \/ /\ secret' = Put(secret, x, n) /\ sync' = Recreating(ca, m)
         /\ synced' = synced /\ secret[x].live /\ ~ secret[x].tls
  BY DEF ApplySecret, Recreating, Put
<1> HIDE DEF c, m, n
<1>6. \A r \in SecretOf(x) : secret' = Put(secret, x, r) =>
         /\ secret' \in SecretsType /\ secret'[x] = r
         /\ \A y \in Secrets \ {x} : secret'[y] = secret[y]
  BY SecretWrite DEF Types
<1> QED
  BY <1>2, <1>3, <1>4, <1>5, <1>6

-----------------------------------------------------------------------------
\* Base is inductive.  The steps of the server and of the controller.
ServerMove ==
    /\ UNCHANGED certLess
    /\ server' \in {"down", "starting", "serving"}
    /\ served' \in {Unset, served, LiveCert}
    /\ server' = "serving" => served' = LiveCert \/ (server = "serving" /\ served' = served)
    /\ \/ hook' \in {Unset, hook}
       \/ bundle # Unset /\ hook' = [bundle |-> bundle, at |-> now]

LEMMA ServerMoves ==
    ASSUME Types,
           \/ StartServer \/ StartTLS \/ DeliverServed \/ ServeHTTP
           \/ LockNamespace \/ UnlockNamespace
           \/ ServerCrash \/ KubeVirtRemoved \/ KubeVirtInstalled
    PROVE  ServerMove
<1> USE DEF ServerMove, certVars
<1>1. CASE StartServer
  BY <1>1 DEF StartServer
<1>2. CASE StartTLS
  BY <1>2 DEF StartTLS
<1>3. CASE DeliverServed
  BY <1>3 DEF DeliverServed, Current, Types
<1>4. CASE ServeHTTP
  BY <1>4 DEF ServeHTTP, getKVNS, Exit, Types
<1>5. CASE LockNamespace
  BY <1>5 DEF LockNamespace, Types
<1>6. CASE UnlockNamespace
  BY <1>6 DEF UnlockNamespace, Types
<1>7. CASE ServerCrash
  BY <1>7 DEF ServerCrash, Exit, Types
<1>8. CASE KubeVirtRemoved
  BY <1>8 DEF KubeVirtRemoved, Types
<1>9. CASE KubeVirtInstalled
  BY <1>9 DEF KubeVirtInstalled, Types
<1> QED
  BY <1>1, <1>2, <1>3, <1>4, <1>5, <1>6, <1>7, <1>8, <1>9

\* What a step of the server leaves alone.
LEMMA ServerFrame ==
    ASSUME ServerMove
    PROVE  /\ UNCHANGED <<now, certConfig, secret, bundle, secretView, bundleView, listers,
                          sync, synced, disturbed>>
           /\ \A x \in Secrets : Copies(x)' = Copies(x)
           /\ Signers' = Signers
<1>1. UNCHANGED <<now, certConfig, secret, bundle, secretView, bundleView, listers,
                  sync, synced, disturbed>>
  BY DEF ServerMove, certLess, certApi, certViews
<1> QED
  BY <1>1 DEF Copies, Signers, At

LEMMA ServerBase ==
    ASSUME Base, ServerMove
    PROVE  Base'
<1>1. UNCHANGED <<now, certConfig, secret, bundle, secretView, bundleView, listers,
                  sync, synced, disturbed>>
  BY ServerFrame
<1>2. LiveCert \in {Unset} \cup Cert
  BY DEF Base, Types, SecretsType, SecretOf, Secrets, LiveCert
<1>3. Types'
  <2>1. now \in Nat
    BY DEF Base, Types
  <2>2. hook' = Unset \/ hook' \in [at : 0 .. now, bundle : SUBSET CA]
    BY <2>1 DEF ServerMove, Base, Types
  <2> QED
    BY <1>1, <1>2, <2>2 DEF Base, Types, ServerMove
<1>4. FiniteIds'
  <2>1. Ids(bundle)' = Ids(bundle) /\ Ids(bundleView)' = Ids(bundleView)
    BY <1>1 DEF Ids, CertsIn
  <2>2. CASE hook' = Unset
    BY <2>1, <2>2, FS_EmptySet DEF Base, FiniteIds, HookIds
  <2>3. CASE hook' = hook
    BY <2>1, <2>3 DEF Base, FiniteIds, HookIds
  <2>4. CASE hook' # Unset /\ bundle # Unset /\ hook' = [bundle |-> bundle, at |-> now]
    <3>1. HookIds' = Ids(bundle)
      BY <2>4 DEF HookIds, Ids, CertsIn
    <3> QED
      BY <2>1, <3>1 DEF Base, FiniteIds
  <2> QED
    BY <2>2, <2>3, <2>4 DEF ServerMove
<1>5. CallSound'
  BY <1>1 DEF Base, CallSound, At
<1>6. Known' \subseteq Known
  BY <1>1, ServerFrame DEF Known, CertsIn, ServerMove
<1>7. \A x \in Secrets : Copies(x)' = Copies(x)
  BY ServerFrame
<1>8. now <= now'
  BY <1>1 DEF Base, Types
<1> QED
  BY <1>3, <1>4, <1>5, <1>6, <1>7, <1>8, NothingNew DEF Base

-----------------------------------------------------------------------------
\* The informers.
ViewMove ==
    /\ UNCHANGED <<now, certConfig, secret, bundle, sync, disturbed, serverVars>>
    /\ secretView' \in {secretView, secret}
    /\ bundleView' \in {bundleView, bundle}
    /\ listers' = TRUE
    /\ synced' = FALSE

LEMMA ViewMoves ==
    ASSUME Base, Start \/ DeliverSecrets \/ DeliverBundle, UNCHANGED serverVars
    PROVE  ViewMove
<1>0. listers \in BOOLEAN /\ synced \in BOOLEAN
  BY DEF Base, Types
<1>1. CASE Start
  <2>1. listers = FALSE
    BY <1>1, <1>0 DEF Start
  <2>2. synced = FALSE
    BY <2>1, <1>0 DEF Base, CallSound
  <2> QED
    BY <1>1, <2>2 DEF Start, ViewMove, certApi
<1>2. CASE DeliverSecrets
  <2>1. listers = TRUE
    BY <1>2, <1>0 DEF DeliverSecrets
  <2> QED
    BY <1>2, <2>1 DEF DeliverSecrets, ViewMove, certApi
<1>3. CASE DeliverBundle
  <2>1. listers = TRUE
    BY <1>3, <1>0 DEF DeliverBundle
  <2> QED
    BY <1>3, <2>1 DEF DeliverBundle, ViewMove, certApi
<1> QED
  BY <1>1, <1>2, <1>3

LEMMA ViewBase ==
    ASSUME Base, ViewMove
    PROVE  Base'
<1>1. /\ UNCHANGED <<now, certConfig, secret, bundle, sync, disturbed, hook, server, served>>
      /\ secretView' \in {secretView, secret} /\ bundleView' \in {bundleView, bundle}
      /\ listers' = TRUE /\ synced' = FALSE
  BY DEF ViewMove, serverVars
<1>2. Types'
  BY <1>1 DEF Base, Types
<1>3. FiniteIds'
  BY <1>1 DEF Base, FiniteIds, Ids, HookIds, CertsIn
<1>4. CallSound'
  BY <1>1 DEF Base, CallSound, At
<1>5. Known' \subseteq Known
  BY <1>1 DEF Known, Signers, CertsIn, Some
<1>6. \A x \in Secrets : Copies(x)' \subseteq Copies(x)
  BY <1>1 DEF Copies, At
<1>7. now <= now'
  BY <1>1 DEF Base, Types
<1> QED
  BY <1>2, <1>3, <1>4, <1>5, <1>6, <1>7, NothingNew DEF Base

-----------------------------------------------------------------------------
\* A call of Sync that has ended.
LEMMA IdleSound ==
    ASSUME sync' = Idle, synced' = FALSE \/ listers' = TRUE
    PROVE  CallSound'
<1>1. /\ sync'.pc = "idle" /\ sync'.who = "signer" /\ sync'.certs = {} /\ sync'.ca = Unset
      /\ sync' = Idle
  BY DEF Idle
<1>2. ~ listers' => ~ synced'
  OBVIOUS
<1> QED
  BY <1>1, <1>2 DEF CallSound, At

-----------------------------------------------------------------------------
\* Changes of the objects from outside of Sync.
ObjectMove ==
    /\ UNCHANGED <<now, secretView, bundleView, serverVars>>
    /\ certConfig' \in CertConfigs
    /\ disturbed' \in {disturbed, now}
    /\ secret' \in SecretsType
    /\ \A x \in Secrets : secret'[x] = secret[x] \/ Blank(secret'[x])
    /\ bundle' \in {bundle, Unset, {}}
    /\ \/ sync' = sync /\ listers' = listers
       \/ sync' = Idle /\ listers' = FALSE /\ synced' = FALSE
    /\ \/ synced' = FALSE
       \/ synced' = synced /\ listers' = listers

LEMMA ObjectMoves ==
    ASSUME Base, ChangeCertConfig \/ OperatorCrash \/ DeleteCertObject \/ ReconcileCreate,
           UNCHANGED serverVars
    PROVE  ObjectMove
<1>1. secret \in SecretsType /\ \A x \in Secrets : secret[x] \in SecretOf(x) /\ secret[x].uid \in {0, 1}
  BY SecretFields DEF Base, Types, SecretsType
<1>2. \A x \in Secrets : \A s \in SecretOf(x) :
         Blank(s) /\ secret' = Put(secret, x, s) =>
             /\ secret' \in SecretsType
             /\ \A y \in Secrets : secret'[y] = secret[y] \/ Blank(secret'[y])
  BY <1>1, SecretWrite
<1>3. CASE ChangeCertConfig
  BY <1>3, <1>1 DEF ChangeCertConfig, ObjectMove, certApi, certViews
<1>4. CASE OperatorCrash
  BY <1>4, <1>1 DEF OperatorCrash, Fail, ObjectMove, certApi, certViews, Base, Types
<1>5. CASE DeleteCertObject
  <2>1. /\ secret' \in SecretsType
        /\ \A x \in Secrets : secret'[x] = secret[x] \/ Blank(secret'[x])
    <3>1. CASE UNCHANGED secret
      BY <3>1, <1>1
    <3>2. CASE \E x \in Secrets : secret' = Put(secret, x, NoSecret(secret[x].uid))
      BY <3>2, <1>1, <1>2, BlankSecrets
    <3> QED
      BY <1>5, <3>1, <3>2 DEF DeleteCertObject, Put
  <2> QED
    BY <1>5, <2>1 DEF DeleteCertObject, ObjectMove, certViews, Base, Types
<1>6. CASE ReconcileCreate
  <2>1. /\ secret' \in SecretsType
        /\ \A x \in Secrets : secret'[x] = secret[x] \/ Blank(secret'[x])
    <3>1. CASE UNCHANGED secret
      BY <3>1, <1>1
    <3>2. CASE \E x \in Secrets : secret' = Put(secret, x, EmptySecret(secret[x].uid))
      BY <3>2, <1>1, <1>2, BlankSecrets
    <3> QED
      BY <1>6, <3>1, <3>2 DEF ReconcileCreate, Put
  <2> QED
    BY <1>6, <2>1 DEF ReconcileCreate, ObjectMove, certRest, certViews, Base, Types
<1> QED
  BY <1>3, <1>4, <1>5, <1>6

LEMMA ObjectBase ==
    ASSUME Base, ObjectMove
    PROVE  Base'
<1>1. /\ UNCHANGED <<now, secretView, bundleView, hook, server, served>>
      /\ sync' \in {sync, Idle}
  BY DEF ObjectMove, serverVars
<1>2. Idle \in Call
  BY DEF Idle, Call, Secrets
<1>3. Types'
  <2>1. listers' \in BOOLEAN /\ synced' \in BOOLEAN /\ sync' \in Call
    BY <1>1, <1>2 DEF ObjectMove, Base, Types
  <2>2. disturbed' \in 0 .. now' /\ bundle' \in {Unset} \cup SUBSET CA
    BY <1>1 DEF ObjectMove, Base, Types
  <2>3. hook' = Unset \/ hook' \in [at : 0 .. now', bundle : SUBSET CA]
    BY <1>1 DEF Base, Types
  <2> QED
    BY <2>1, <2>2, <2>3, <1>1 DEF ObjectMove, Base, Types
<1>4. FiniteIds'
  BY <1>1, FS_EmptySet DEF ObjectMove, Base, FiniteIds, Ids, HookIds, CertsIn
<1>5. CallSound'
  <2>1. CASE sync' = Idle /\ synced' = FALSE
    BY <2>1, IdleSound
  <2>2. CASE sync' = sync /\ listers' = listers
    BY <2>2, <1>1 DEF ObjectMove, Base, CallSound, At
  <2> QED
    BY <2>1, <2>2 DEF ObjectMove
<1>6. Known' \subseteq Known
  <2>1. Some(secret'["signer"].cert) \subseteq Some(secret["signer"].cert)
    BY DEF ObjectMove, Blank, Some, Secrets
  <2>2. Some(sync'.ca) \subseteq Some(sync.ca) /\ sync'.certs \subseteq sync.certs
    BY <1>1 DEF Idle, Some
  <2>3. CertsIn(bundle)' \subseteq CertsIn(bundle) /\ CertsIn(bundleView)' = CertsIn(bundleView)
    BY <1>1 DEF ObjectMove, CertsIn
  <2> QED
    BY <2>1, <2>2, <2>3, <1>1 DEF Known, Signers, Some
<1>7. \A x \in Secrets : \A s \in Copies(x)' : Blank(s) \/ s \in Copies(x)
  <2>1. CASE sync' = Idle
    BY <2>1, <1>1 DEF ObjectMove, Copies, At, Idle
  <2>2. CASE sync' = sync
    BY <2>2, <1>1 DEF ObjectMove, Copies, At
  <2> QED
    BY <2>1, <2>2, <1>1
<1>8. now <= now'
  BY <1>1 DEF Base, Types
<1> QED
  BY <1>3, <1>4, <1>5, <1>6, <1>7, <1>8, NothingNew DEF Base

-----------------------------------------------------------------------------
\* A tick.
LEMMA TickBase ==
    ASSUME Base, PassTime
    PROVE  Base'
<1>1. /\ UNCHANGED <<certConfig, secret, bundle, secretView, bundleView, listers, sync,
                     disturbed, hook, server, served>>
      /\ now' = now + 1 /\ now < MaxTime /\ synced' = FALSE /\ At("idle") /\ synced
  BY DEF PassTime, Tick, Settled, serverVars, certApi, certViews
<1>2. now \in Nat /\ MaxTime \in Nat
  BY CertAssumption DEF Base, Types
<1>3. Types'
  <2>1. now' \in 0 .. MaxTime /\ disturbed' \in 0 .. now'
    BY <1>1, <1>2 DEF Base, Types
  <2>2. hook' = Unset \/ hook' \in [at : 0 .. now', bundle : SUBSET CA]
    <3>1. 0 .. now \subseteq 0 .. now'
      BY <1>1, <1>2
    <3>2. hook = Unset \/ hook \in [at : 0 .. now, bundle : SUBSET CA]
      BY DEF Base, Types
    <3> QED
      BY <3>1, <3>2, <1>1
  <2> QED
    BY <1>1, <2>1, <2>2 DEF Base, Types
<1>4. FiniteIds'
  BY <1>1 DEF Base, FiniteIds, Ids, HookIds, CertsIn
<1>5. CallSound'
  BY <1>1 DEF Base, CallSound, At, Idle
<1>6. Known' = Known /\ \A x \in Secrets : Copies(x)' = Copies(x)
  BY <1>1 DEF Known, Signers, CertsIn, Some, Copies, At
<1>7. now <= now'
  BY <1>1, <1>2
<1> QED
  BY <1>3, <1>4, <1>5, <1>6, <1>7, NothingNew DEF Base

-----------------------------------------------------------------------------
\* The steps of Sync.
SyncFrame ==
    UNCHANGED <<now, certConfig, secretView, bundleView, listers, disturbed, server, served, hook>>

LEMMA SyncTypes ==
    ASSUME Types, SyncFrame, secret' \in SecretsType, bundle' \in {Unset} \cup SUBSET CA,
           sync' \in Call, synced' \in BOOLEAN
    PROVE  Types' /\ now <= now'
  BY DEF SyncFrame, Types

LEMMA SyncFinite ==
    ASSUME Base, SyncFrame, bundle' = bundle
    PROVE  FiniteIds'
  BY DEF Base, SyncFrame, FiniteIds, Ids, CertsIn, HookIds

\* A call of Sync that has begun has listers.
LEMMA CallHasListers ==
    ASSUME Base, ~ At("idle")
    PROVE  listers = TRUE /\ sync.want \in Definitions
  BY DEF Base, CallSound, Types

LEMMA IdleCall == Idle \in Call /\ Idle.pc = "idle" /\ Idle.ca = Unset /\ Idle.certs = {}
  BY DEF Idle, Call, Secrets

\* GetOrCreateSecret makes nothing new.
LEMMA GottenBase ==
    ASSUME Base, SyncFrame, bundle' = bundle, synced' \in BOOLEAN, CallSound',
           NEW x \in Secrets, NEW s \in Call, s.ca \in {Unset, sync.ca}, s.certs \subseteq sync.certs,
           GetOrCreateSecret(x, s)
    PROVE  Base'
<1>1. /\ secret' \in SecretsType /\ sync' \in Call
      /\ \A y \in Secrets : secret'[y] = secret[y] \/ Blank(secret'[y])
      /\ sync'.pc # "recreate" /\ sync'.ca \in {Unset, sync.ca} /\ sync'.certs \subseteq sync.certs
  BY Gotten, IdleCall DEF Base
<1>2. Types' /\ now <= now'
  BY <1>1, SyncTypes DEF Base, Types
<1>3. Known' \subseteq Known
  <2>1. Some(secret'["signer"].cert) \subseteq Some(secret["signer"].cert)
    BY <1>1 DEF Blank, Some, Secrets
  <2>2. Some(sync'.ca) \subseteq Some(sync.ca)
    BY <1>1 DEF Some
  <2> QED
    BY <2>1, <2>2, <1>1 DEF Known, Signers, Some, SyncFrame, CertsIn
<1>4. \A y \in Secrets : \A t \in Copies(y)' : Blank(t) \/ t \in Copies(y)
  BY <1>1 DEF Copies, At, SyncFrame
<1> QED
  BY <1>2, <1>3, <1>4, SyncFinite, NothingNew DEF Base

LEMMA SignerBegins ==
    LET s == [Idle EXCEPT !.want = Wanted] IN
    Types => /\ s \in Call /\ s.want = Wanted /\ Wanted \in Definitions
             /\ s.ca = Unset /\ s.certs = {}
  BY DEF Types, Wanted, Definitions, Idle, Call, Secrets

LEMMA ensureSignerBase ==
    ASSUME Base, ensureSigner, UNCHANGED serverVars
    PROVE  Base'
<1> DEFINE s == [Idle EXCEPT !.want = Wanted]
<1>1. SyncFrame /\ bundle' = bundle /\ synced' \in BOOLEAN /\ GetOrCreateSecret("signer", s)
  BY DEF ensureSigner, SyncFrame, certViews, serverVars, Wanted, Fresh
<1>2. listers' = TRUE
  BY DEF ensureSigner, Base, Types
<1>3. s \in Call /\ s.want \in Definitions /\ s.ca = Unset /\ s.certs = {}
  BY SignerBegins DEF Base
<1> HIDE DEF s
<1>4. "signer" \in Secrets
  BY DEF Secrets
<1>5. CallSound'
  <2>1. \/ sync' = Idle
        \/ /\ sync'.pc \in {"config", "ensure"} /\ sync'.who = "signer"
           /\ sync'.want = s.want /\ sync'.ca = s.ca /\ sync'.certs = s.certs
    BY <1>1, <1>3, <1>4, Gotten DEF Base
  <2>2. CASE sync' = Idle
    BY <2>2, <1>2, IdleSound
  <2>3. CASE sync' # Idle
    BY <2>1, <2>3, <1>2, <1>3 DEF CallSound, At
  <2> QED
    BY <2>2, <2>3
<1> QED
  BY <1>1, <1>3, <1>4, <1>5, GottenBase

LEMMA ensureTargetBase ==
    ASSUME Base, ensureTarget, UNCHANGED serverVars
    PROVE  Base'
<1>1. /\ SyncFrame /\ bundle' = bundle /\ synced' \in BOOLEAN
      /\ GetOrCreateSecret("target", sync) /\ At("target")
      /\ sync' = Idle => synced' = FALSE
  BY DEF ensureTarget, SyncFrame, certRest, certViews, serverVars
<1>2. listers' = TRUE /\ sync.want \in Definitions
  BY <1>1, CallHasListers DEF SyncFrame, At
<1>3. "target" \in Secrets /\ sync \in Call
  BY DEF Secrets, Base, Types
<1>4. CallSound'
  <2>1. \/ sync' = Idle
        \/ /\ sync'.pc \in {"config", "ensure"} /\ sync'.who = "target"
           /\ sync'.want = sync.want /\ sync'.ca = sync.ca /\ sync'.certs = sync.certs
    BY <1>1, <1>3, Gotten DEF Base
  <2>2. CASE sync' = Idle
    BY <2>2, <1>1, IdleSound
  <2>3. CASE sync' # Idle
    <3>1. /\ sync.ca # Unset /\ now <= sync.ca.notAfter /\ sync.ca \in sync.certs
          /\ now = sync.ca.notBefore \/ now <= sync.ca.notBefore + sync.want.signer.Refresh
      BY <1>1 DEF Base, CallSound, At
    <3>2. now' = now
      BY <1>1 DEF SyncFrame
    <3> QED
      BY <2>1, <2>3, <1>2, <3>1, <3>2 DEF CallSound, At
  <2> QED
    BY <2>2, <2>3
<1> QED
  BY <1>1, <1>3, <1>4, GottenBase

\* A call of Sync ends and has written nothing.
LEMMA EndBase ==
    ASSUME Base, SyncFrame, bundle' = bundle, secret' = secret, sync' = Idle,
           synced' \in BOOLEAN, synced' = FALSE \/ listers = TRUE
    PROVE  Base'
<1>1. CallSound'
  BY IdleSound DEF SyncFrame
<1>2. Types' /\ now <= now'
  BY IdleCall, SyncTypes DEF Base, Types
<1>3. Known' \subseteq Known
  BY IdleCall DEF Known, Signers, Some, SyncFrame, CertsIn
<1>4. \A x \in Secrets : \A s \in Copies(x)' : Blank(s) \/ s \in Copies(x)
  BY IdleCall DEF Copies, At, SyncFrame
<1> QED
  BY <1>1, <1>2, <1>3, <1>4, SyncFinite, NothingNew DEF Base

\* The secret s may become a copy of secret x.
GoodCopy(x, s) ==
    \/ Blank(s)
    \/ \E t \in Copies(x) : Same(s, t, now)
    \/ /\ NewSecret(s, now)
       /\ x = "signer" => s.notBefore = s.cert.notBefore
       /\ x = "target" => \E c \in Known : c.id = s.cert.issuer /\ Issues(c, s)

\* Sync writes secret x or has taken notes of what to write.
LEMMA WriteBase ==
    ASSUME Base, SyncFrame, bundle' = bundle,
           secret' \in SecretsType, sync' \in Call, synced' \in BOOLEAN, CallSound',
           NEW x \in Secrets, \A y \in Secrets \ {x} : secret'[y] = secret[y],
           secret'[x] = secret[x] \/ GoodCopy(x, secret'[x]),
           sync'.pc = "recreate" => sync'.who = x /\ GoodCopy(x, sync'.read),
           NEW fresh, \A c \in fresh : NewCA(c, now), \A c, e \in fresh : c = e,
           Known' \subseteq Known \cup fresh
    PROVE  Base'
<1>1. Types' /\ now <= now' /\ now' = now
  BY SyncTypes DEF Base, Types, SyncFrame
<1>2. ASSUME NEW y \in Secrets, NEW s \in Copies(y)'
      PROVE  GoodCopy(y, s)
  <2>1. \A t : Same(t, t, now)
    BY DEF Same
  <2>2. \A t \in Copies(y) : GoodCopy(y, t)
    BY <2>1 DEF GoodCopy
  <2>3. GoodCopy(y, secret[y]) /\ GoodCopy(y, secretView[y])
    BY <2>2 DEF Copies
  <2>4. s = secret'[y] \/ s = secretView[y] \/ (sync'.pc = "recreate" /\ sync'.who = y /\ s = sync'.read)
    BY <1>2 DEF Copies, At, SyncFrame
  <2>5. GoodCopy(y, secret'[y])
    BY <2>3
  <2>6. sync'.pc = "recreate" /\ sync'.who = y => GoodCopy(y, sync'.read)
    OBVIOUS
  <2> QED
    BY <2>3, <2>4, <2>5, <2>6
<1>3. \A y \in Secrets : \A s \in Copies(y)' :
         Blank(s) \/ (\E t \in Copies(y) : Same(s, t, now')) \/ NewSecret(s, now')
  BY <1>1, <1>2 DEF GoodCopy
<1>4. \A s \in Copies("signer")' : NewSecret(s, now') => s.notBefore = s.cert.notBefore
  <2> SUFFICES ASSUME NEW s \in Copies("signer")', NewSecret(s, now')
               PROVE  s.notBefore = s.cert.notBefore
    OBVIOUS
  <2>1. GoodCopy("signer", s) /\ s.cert # Unset
    BY <1>2 DEF Secrets, NewSecret
  <2> QED
    BY <2>1 DEF GoodCopy, Blank, Same, Base, SecretsTrue
<1>5. \A s \in Copies("target")' : NewSecret(s, now') =>
         \/ \E t \in Copies("target") : Same(s, t, now')
         \/ \E c \in Known : c.id = s.cert.issuer /\ Issues(c, s)
  BY <1>1, <1>2 DEF GoodCopy, Blank, NewSecret, Secrets
<1>6. \A c \in fresh : NewCA(c, now')
  BY <1>1
<1>7. Types /\ CallSound /\ CAsDistinct /\ SecretsTrue
  BY DEF Base
<1>8. CAsDistinct' /\ SecretsTrue'
  BY <1>1, <1>3, <1>4, <1>5, <1>6, <1>7, TruthKept
<1> QED
  BY <1>1, <1>8, SyncFinite DEF Base

\* Without a new CA.
LEMMA OldWriteBase ==
    ASSUME Base, SyncFrame, bundle' = bundle,
           secret' \in SecretsType, sync' \in Call, synced' \in BOOLEAN, CallSound',
           NEW x \in Secrets, \A y \in Secrets \ {x} : secret'[y] = secret[y],
           secret'[x] = secret[x] \/ GoodCopy(x, secret'[x]),
           sync'.pc = "recreate" => sync'.who = x /\ GoodCopy(x, sync'.read),
           Known' \subseteq Known
    PROVE  Base'
<1> DEFINE fresh == {}
<1>1. /\ Known' \subseteq Known \cup fresh
      /\ \A c \in fresh : NewCA(c, now)
      /\ \A c, e \in fresh : c = e
  OBVIOUS
<1> HIDE DEF fresh
<1> QED
  BY <1>1, WriteBase

-----------------------------------------------------------------------------
\* ensureCertConfig keeps the certificate.
LEMMA ensureCertConfigWrites ==
    ASSUME Base, ensureCertConfig
    PROVE  \/ Fail /\ secret' = secret /\ secret[sync.who] # sync.read
           \/ /\ secret[sync.who] = sync.read
              /\ secret' \in SecretsType
              /\ \A y \in Secrets \ {sync.who} : secret'[y] = secret[y]
              /\ secret'[sync.who] = configured(secret[sync.who], sync.want[sync.who])
              /\ secret'[sync.who].live = secret[sync.who].live
              /\ secret'[sync.who].cfg = sync.want[sync.who]
              /\ Same(secret'[sync.who], secret[sync.who], now)
              /\ sync' = [sync EXCEPT !.pc = "ensure", !.read = Unset]
              /\ synced' = synced
<1> DEFINE x == sync.who
           r == configured(secret[x], sync.want[x])
<1>1. x \in Secrets /\ sync.want \in Definitions /\ secret[x] \in SecretOf(x)
  <2>1. x \in Secrets
    BY DEF Base, Types, Call
  <2> QED
    BY <2>1, CallHasListers DEF ensureCertConfig, At, Base, Types, SecretsType
<1>2. /\ r \in SecretOf(x) /\ r.cfg = sync.want[x] /\ r.live = secret[x].live
      /\ r.cert = secret[x].cert /\ r.notBefore = secret[x].notBefore /\ r.tls = secret[x].tls
      /\ r.notAfter = IF secret[x].notAfter = Unset THEN Unset ELSE now - 1
  BY <1>1, ConfiguredSecret DEF Base
<1>3. CASE secret[x] # sync.read
  BY <1>3 DEF ensureCertConfig
<1>4. CASE secret[x] = sync.read
  <2>1. /\ secret' = Put(secret, x, r) /\ synced' = synced
        /\ sync' = [sync EXCEPT !.pc = "ensure", !.read = Unset]
    BY <1>4 DEF ensureCertConfig, Put
  <2>2. now \in Int /\ Unset \notin Int
    BY CertAssumption DEF Base, Types
  <2>3. Same(r, secret[x], now)
    <3>1. now - 1 < now /\ now - 1 # Unset
      BY <2>2
    <3> HIDE DEF r
    <3> QED
      BY <3>1, <1>2 DEF Same
  <2> HIDE DEF r
  <2>4. secret' \in SecretsType /\ secret'[x] = r /\ \A y \in Secrets \ {x} : secret'[y] = secret[y]
    BY <2>1, <1>1, <1>2, SecretWrite DEF Base, Types
  <2> QED
    BY <1>4, <1>2, <2>1, <2>3, <2>4 DEF r
<1> QED
  BY <1>3, <1>4

LEMMA ensureCertConfigBase ==
    ASSUME Base, ensureCertConfig, UNCHANGED serverVars
    PROVE  Base'
<1>1. SyncFrame /\ bundle' = bundle /\ At("config")
  BY DEF ensureCertConfig, SyncFrame, certRest, certViews, serverVars
<1>2. /\ listers = TRUE /\ sync.want \in Definitions /\ sync \in Call /\ sync.who \in Secrets
      /\ synced \in BOOLEAN
  BY <1>1, CallHasListers DEF At, Base, Types, Call
<1>3. CASE Fail /\ secret' = secret
  BY <1>1, <1>3, EndBase DEF Fail
<1>4. CASE /\ secret' \in SecretsType
           /\ \A y \in Secrets \ {sync.who} : secret'[y] = secret[y]
           /\ Same(secret'[sync.who], secret[sync.who], now)
           /\ sync' = [sync EXCEPT !.pc = "ensure", !.read = Unset]
           /\ synced' = synced
  <2>1. /\ sync' \in Call /\ sync'.pc = "ensure" /\ sync'.who = sync.who /\ sync'.ca = sync.ca
        /\ sync'.certs = sync.certs /\ sync'.want = sync.want
    BY <1>2, <1>4 DEF Call
  <2>2. CallSound'
    <3>1. now' = now /\ sync.pc = "config" /\ listers' = TRUE
      BY <1>1, <1>2 DEF SyncFrame, At
    <3> QED
      BY <2>1, <1>2, <3>1 DEF CallSound, At, Base
  <2>3. GoodCopy(sync.who, secret'[sync.who])
    BY <1>4 DEF GoodCopy, Copies
  <2>4. secret'["signer"].cert = secret["signer"].cert
    BY <1>4 DEF Same, Secrets
  <2>5. Known' \subseteq Known
    BY <1>1, <2>1, <2>4 DEF Known, Signers, Some, SyncFrame, CertsIn
  <2> QED
    BY <1>1, <1>2, <1>4, <2>1, <2>2, <2>3, <2>5, OldWriteBase
<1> QED
  BY <1>3, <1>4, ensureCertConfigWrites

-----------------------------------------------------------------------------
\* A new CA.
SignerNow == secretView["signer"]
SignerCfg == sync.want["signer"]
NewId == CHOOSE i \in CAs \ (UsedCAs \cup Held) : TRUE
NextCA == [id |-> NewId, notBefore |-> now, notAfter |-> now + SignerCfg.Lifetime]

LEMMA NextCAIsNew ==
    ASSUME ManyCAs, Base, At("ensure"), sync.who = "signer"
    PROVE  /\ NextCA \in CA
           /\ NewCA(NextCA, now)
           /\ SignerCfg = sync.want.signer /\ SignerCfg.Lifetime \in Nat /\ SignerCfg.Refresh \in Int
<1>1. CAs \ (UsedCAs \cup Held) # {}
  BY PoolLasts DEF Base
<1>2. NewId \in CAs \ (UsedCAs \cup Held)
  BY <1>1 DEF NewId
<1>3. sync.want \in Definitions
  BY CallHasListers DEF At
<1>4. SignerCfg = sync.want.signer /\ SignerCfg.Lifetime \in Nat /\ SignerCfg.Refresh \in Int
  BY <1>3, DefinitionParts DEF SignerCfg
<1>5. now \in 0 .. MaxTime /\ now + SignerCfg.Lifetime \in Nat
  BY <1>4 DEF Base, Types
<1>6. NextCA \in CA
  BY <1>2, <1>5 DEF NextCA, CA
<1>7. /\ NextCA.id = NewId /\ NextCA.notBefore = now
      /\ NextCA.notAfter = now + sync.want.signer.Lifetime
  BY <1>4 DEF NextCA
<1>8. sync.ca = Unset /\ sync.certs = {}
  BY DEF Base, CallSound, At
<1>9. ASSUME NEW e \in Known
      PROVE  e.id \in UsedCAs \cup Held
  BY <1>8 DEF Known, Signers, Some, CertsIn, UsedCAs, Held
<1>10. ASSUME NEW s \in Copies("target"), s.cert # Unset
       PROVE  s.cert.issuer \in UsedCAs
  BY <1>10 DEF Copies, At, UsedCAs
<1> QED
  BY <1>2, <1>3, <1>4, <1>6, <1>7, <1>9, <1>10 DEF NewCA

\* A signer that Sync leaves as it is.
LEMMA KeptSigner ==
    ASSUME Base, NEW refresh \in Int, ~ needNewSigningCertKeyPair(SignerNow, refresh)
    PROVE  /\ SignerNow.cert \in CA /\ SignerNow.cert # Unset
           /\ SignerNow.notAfter = SignerNow.cert.notAfter
           /\ SignerNow.notBefore = SignerNow.cert.notBefore
           /\ now <= SignerNow.cert.notAfter
           /\ now <= SignerNow.cert.notBefore + refresh
<1>1. SignerNow \in SecretOf("signer") /\ SignerNow \in Copies("signer") /\ now \in Nat
  BY DEF SignerNow, Base, Types, SecretsType, Secrets, Copies
<1>2. SignerNow.notAfter # Unset /\ ~ (now > SignerNow.notAfter)
      /\ ~ (now > SignerNow.notBefore + refresh)
  BY DEF needNewSigningCertKeyPair, Expiring
<1>3. Annotated(SignerNow)
  BY <1>1 DEF Base, SecretsTrue, Secrets
<1>4. SignerNow.notAfter \in Int
  BY <1>1, <1>2, SecretFields DEF Secrets
<1>5. SignerNow.cert # Unset /\ SignerNow.notAfter = SignerNow.cert.notAfter
  BY <1>1, <1>2, <1>3, <1>4 DEF Annotated
<1>6. SignerNow.cert \in CA
  BY <1>1, <1>5, SecretFields DEF Secrets
<1>7. SignerNow.notBefore = SignerNow.cert.notBefore
  BY <1>1, <1>5 DEF Base, SecretsTrue
<1>8. SignerNow.cert.notBefore \in Nat /\ SignerNow.cert.notAfter \in Nat
  BY <1>6 DEF CA
<1> QED
  BY <1>1, <1>2, <1>5, <1>6, <1>7, <1>8

\* After the signer comes the bundle.
LEMMA SignerEnsured ==
    ASSUME Base, sync.who = "signer", At("ensure"), NEW ca \in CA
    PROVE  /\ Ensured(ca) \in Call /\ Ensured(ca).pc = "bundle" /\ Ensured(ca).who = "signer"
           /\ Ensured(ca).ca = ca /\ Ensured(ca).certs = {} /\ Ensured(ca).want = sync.want
  BY DEF Ensured, Done, Base, Types, Call, CallSound, At

LEMMA ApplyRecreates ==
    ASSUME Base, NEW ca \in CA, NEW r \in SecretOf(sync.who)
    PROVE  LET c == Recreating(ca, r) IN
           /\ c \in Call /\ c.pc = "recreate" /\ c.who = sync.who /\ c.ca = ca
           /\ c.certs = sync.certs /\ c.want = sync.want /\ c.read = r
<1>1. sync \in Call /\ r \in SecretOf("signer") \cup SecretOf("target")
  BY DEF Base, Types, Call, Secrets
<1> QED
  BY <1>1 DEF Recreating, Call

\* A call that has got hold of its CA.
LEMMA SignerCallSound ==
    ASSUME Base, SyncFrame, At("ensure"), sync.who = "signer",
           sync'.pc \in {"bundle", "recreate"}, sync'.who = "signer", sync'.certs = {},
           sync'.want = sync.want, sync'.ca \in CA, sync'.ca # Unset, now <= sync'.ca.notAfter,
           now = sync'.ca.notBefore \/ now <= sync'.ca.notBefore + sync.want.signer.Refresh,
           sync'.pc = "recreate" =>
              /\ sync'.read \in SecretOf("signer") /\ sync'.read.live /\ sync'.read.tls
              /\ sync'.read.cert = sync'.ca
    PROVE  CallSound'
<1>1. listers = TRUE /\ sync.want \in Definitions
  BY CallHasListers DEF At
<1>2. now' = now /\ listers' = TRUE
  BY <1>1 DEF SyncFrame
<1> QED
  BY <1>1, <1>2 DEF CallSound, At

\* The secret with the new CA.
NextSigner == Issued(SignerNow, NextCA, SignerCfg.Lifetime)

LEMMA NextSignerIsNew ==
    ASSUME ManyCAs, Base, At("ensure"), sync.who = "signer"
    PROVE  /\ NextSigner \in SecretOf("signer") /\ NextSigner.live /\ NextSigner.tls
           /\ NextSigner.cfg = SignerNow.cfg /\ NextSigner.cert = NextCA
           /\ NextSigner.notBefore = now /\ NextSigner.notAfter = NextCA.notAfter
           /\ NextCA # Unset /\ NextCA.notBefore = now /\ now <= NextCA.notAfter
           /\ \A r : Like(r, NextSigner) => GoodCopy("signer", r)
<1>1. SignerNow \in SecretOf("signer") /\ "signer" \in Secrets /\ now \in Nat
  BY DEF SignerNow, Base, Types, SecretsType, Secrets
<1>2. NextCA \in CA /\ SignerCfg.Lifetime \in Nat
  BY NextCAIsNew
<1>3. NextCA \in IF "signer" = "signer" THEN CA ELSE Cert
  BY <1>2
<1>4. /\ NextSigner \in SecretOf("signer") /\ NextSigner.live /\ NextSigner.tls
      /\ NextSigner.cfg = SignerNow.cfg /\ NextSigner.cert = NextCA
      /\ NextSigner.notBefore = now /\ NextSigner.notAfter = now + SignerCfg.Lifetime
  BY <1>1, <1>2, <1>3, IssuedSecret DEF NextSigner, Base
<1>5. NextCA.notAfter = now + SignerCfg.Lifetime /\ NextCA.notBefore = now
  BY DEF NextCA
<1>6. NextCA # Unset
  BY <1>2, UnsetAssumption
<1>7. now <= NextCA.notAfter
  BY <1>1, <1>2, <1>5
<1>8. \A r : Like(r, NextSigner) => GoodCopy("signer", r)
  BY <1>4, <1>5, <1>6 DEF Like, GoodCopy, NewSecret
<1> QED
  BY <1>4, <1>5, <1>6, <1>7, <1>8

LEMMA SignerSteps ==
    ASSUME Base, EnsureSigningCertKeyPair(Held), UNCHANGED serverVars
    PROVE  /\ SyncFrame /\ bundle' = bundle /\ At("ensure") /\ sync.who = "signer"
           /\ IF needNewSigningCertKeyPair(SignerNow, SignerCfg.Refresh)
              THEN ApplySecret("signer", NextSigner, NextCA)
              ELSE sync' = Ensured(SignerNow.cert) /\ UNCHANGED <<secret, synced>>
<1>1. sync.who = "signer"
  BY DEF EnsureSigningCertKeyPair, Done, Base, Types, Call, Secrets
<1> QED
  BY <1>1 DEF EnsureSigningCertKeyPair, SyncFrame, certRest, certViews, serverVars,
              NextSigner, NextCA, SignerNow, SignerCfg, NewId

LEMMA EnsureSigningBase ==
    ASSUME ManyCAs, Base, EnsureSigningCertKeyPair(Held), UNCHANGED serverVars
    PROVE  Base'
<1>1. SyncFrame /\ bundle' = bundle /\ At("ensure") /\ sync.who = "signer"
  BY SignerSteps
<1>2. /\ NextCA \in CA /\ NewCA(NextCA, now) /\ SignerCfg = sync.want.signer
      /\ SignerCfg.Refresh \in Int
  BY <1>1, NextCAIsNew
<1>3. /\ NextSigner \in SecretOf("signer") /\ NextSigner.live /\ NextSigner.tls
      /\ NextSigner.cert = NextCA
      /\ NextCA # Unset /\ NextCA.notBefore = now /\ now <= NextCA.notAfter
      /\ \A r : Like(r, NextSigner) => GoodCopy("signer", r)
  BY <1>1, NextSignerIsNew
<1>4. "signer" \in Secrets /\ synced \in BOOLEAN /\ secret \in SecretsType
  BY DEF Secrets, Base, Types
<1>5. sync.ca = Unset /\ sync.certs = {}
  BY <1>1 DEF Base, CallSound, At
<1>6. CASE needNewSigningCertKeyPair(SignerNow, SignerCfg.Refresh)
  <2> DEFINE fresh == {NextCA}
  <2>1. (\A c \in fresh : NewCA(c, now)) /\ (\A c, e \in fresh : c = e) /\ NextCA \in fresh
    BY <1>2
  <2> HIDE DEF fresh
  <2>2. ApplySecret("signer", NextSigner, NextCA)
    BY <1>6, SignerSteps
  <2>3. CASE Fail /\ secret' = secret
    BY <2>3, <1>1, EndBase DEF Fail
  <2>4. CASE /\ sync' = Ensured(NextCA) /\ synced' = synced
             /\ secret' \in SecretsType
             /\ \A y \in Secrets \ {"signer"} : secret'[y] = secret[y]
             /\ Like(secret'["signer"], NextSigner)
    <3>1. /\ sync' \in Call /\ sync'.pc = "bundle" /\ sync'.who = "signer"
          /\ sync'.ca = NextCA /\ sync'.certs = {} /\ sync'.want = sync.want
      BY <2>4, <1>1, <1>2, SignerEnsured
    <3>2. CallSound'
      BY <3>1, <1>1, <1>2, <1>3, SignerCallSound
    <3>3. secret'["signer"].cert = NextCA
      BY <2>4, <1>3 DEF Like
    <3>4. Known' \subseteq Known \cup fresh
      BY <2>1, <3>1, <3>3, <1>1, <1>3 DEF Known, Signers, Some, CertsIn, SyncFrame
    <3>5. GoodCopy("signer", secret'["signer"])
      BY <2>4, <1>3
    <3> QED
      BY <1>1, <1>4, <2>1, <2>4, <3>1, <3>2, <3>4, <3>5, WriteBase
  <2>5. CASE /\ synced' = synced /\ secret' \in SecretsType
             /\ \A y \in Secrets \ {"signer"} : secret'[y] = secret[y]
             /\ Blank(secret'["signer"])
             /\ \E r \in SecretOf("signer") : Like(r, NextSigner) /\ sync' = Recreating(NextCA, r)
    <3>1. PICK r \in SecretOf("signer") : Like(r, NextSigner) /\ sync' = Recreating(NextCA, r)
      BY <2>5
    <3>2. /\ sync' \in Call /\ sync'.pc = "recreate" /\ sync'.who = "signer"
          /\ sync'.ca = NextCA /\ sync'.certs = {} /\ sync'.want = sync.want /\ sync'.read = r
      BY <3>1, <1>1, <1>2, <1>5, ApplyRecreates
    <3>3. r.live /\ r.tls /\ r.cert = NextCA
      BY <3>1, <1>3 DEF Like
    <3>4. CallSound'
      BY <3>2, <3>3, <1>1, <1>2, <1>3, SignerCallSound
    <3>5. Known' \subseteq Known \cup fresh
      BY <2>1, <2>5, <3>2, <1>1, <1>3 DEF Known, Signers, Some, CertsIn, SyncFrame, Blank
    <3>6. GoodCopy("signer", secret'["signer"]) /\ GoodCopy("signer", sync'.read)
      BY <2>5, <3>1, <3>2, <1>3 DEF GoodCopy
    <3> QED
      BY <1>1, <1>4, <2>1, <2>5, <3>2, <3>4, <3>5, <3>6, WriteBase
  <2>6. Types
    BY DEF Base
  <2> QED
    BY <2>2, <2>3, <2>4, <2>5, <2>6, <1>3, <1>4, Applied
<1>7. CASE ~ needNewSigningCertKeyPair(SignerNow, SignerCfg.Refresh)
  <2>1. sync' = Ensured(SignerNow.cert) /\ secret' = secret /\ synced' = synced
    BY <1>7, SignerSteps
  <2>2. /\ SignerNow.cert \in CA /\ SignerNow.cert # Unset /\ now <= SignerNow.cert.notAfter
        /\ now <= SignerNow.cert.notBefore + SignerCfg.Refresh
    BY <1>2, <1>7, KeptSigner
  <2>3. /\ sync' \in Call /\ sync'.pc = "bundle" /\ sync'.who = "signer"
        /\ sync'.ca = SignerNow.cert /\ sync'.certs = {} /\ sync'.want = sync.want
    BY <2>1, <2>2, <1>1, SignerEnsured
  <2>4. CallSound'
    BY <2>2, <2>3, <1>1, <1>2, SignerCallSound
  <2>5. Known' \subseteq Known
    BY <2>1, <2>2, <2>3, <1>1 DEF Known, Signers, Some, CertsIn, SyncFrame, SignerNow
  <2> QED
    BY <1>1, <1>4, <2>1, <2>3, <2>4, <2>5, OldWriteBase
<1> QED
  BY <1>6, <1>7

-----------------------------------------------------------------------------
\* The second half of a change of type.
LEMMA RecreateWrites ==
    ASSUME Base, Recreate, UNCHANGED serverVars
    PROVE  /\ SyncFrame /\ bundle' = bundle /\ At("recreate") /\ sync.who \in Secrets
           /\ sync.ca \in CA /\ sync.ca # Unset
           /\ \/ Fail /\ secret' = secret
              \/ /\ secret' \in SecretsType /\ synced' = synced
                 /\ \A y \in Secrets \ {sync.who} : secret'[y] = secret[y]
                 /\ Like(secret'[sync.who], sync.read)
                 /\ sync' = Ensured(sync.ca)
<1> DEFINE x == sync.who
           r == [sync.read EXCEPT !.uid = 1 - secret[x].uid]
<1>1. SyncFrame /\ bundle' = bundle /\ At("recreate")
  BY DEF Recreate, SyncFrame, certRest, certViews, serverVars
<1>2. x \in Secrets /\ sync.ca \in CA /\ sync.ca # Unset /\ sync.read \in SecretOf(x)
  BY <1>1 DEF Base, Types, Call, CallSound, At
<1>3. secret[x].uid \in {0, 1}
  BY <1>2, SecretFields DEF Base, Types, SecretsType
<1>4. r \in SecretOf(x) /\ Like(r, sync.read)
  <2>1. 1 - secret[x].uid \in {0, 1}
    BY <1>3
  <2> QED
    BY <1>2, <2>1 DEF Like, SecretOf
<1>5. \/ Fail /\ secret' = secret
      \/ secret' = Put(secret, x, r) /\ sync' = Ensured(sync.ca) /\ synced' = synced
  BY DEF Recreate, Put
<1> HIDE DEF r
<1>6. secret' = Put(secret, x, r) =>
         /\ secret' \in SecretsType /\ secret'[x] = r
         /\ \A y \in Secrets \ {x} : secret'[y] = secret[y]
  BY <1>2, <1>4, SecretWrite DEF Base, Types
<1> QED
  BY <1>1, <1>2, <1>4, <1>5, <1>6

LEMMA RecreateBase ==
    ASSUME Base, Recreate, UNCHANGED serverVars
    PROVE  Base'
<1>1. /\ SyncFrame /\ bundle' = bundle /\ At("recreate") /\ sync.who \in Secrets
      /\ sync.ca \in CA /\ sync.ca # Unset
  BY RecreateWrites
<1>2. listers = TRUE /\ sync.want \in Definitions /\ sync \in Call /\ synced \in BOOLEAN
  BY <1>1, CallHasListers DEF At, Base, Types
<1>3. CASE Fail /\ secret' = secret
  BY <1>1, <1>3, EndBase DEF Fail
<1>4. CASE /\ secret' \in SecretsType /\ synced' = synced
           /\ \A y \in Secrets \ {sync.who} : secret'[y] = secret[y]
           /\ Like(secret'[sync.who], sync.read)
           /\ sync' = Ensured(sync.ca)
  <2>1. GoodCopy(sync.who, secret'[sync.who])
    BY <1>1, <1>4 DEF GoodCopy, Copies, Like, Same
  <2>2. CASE sync.who = "signer"
    <3>1. /\ sync' \in Call /\ sync'.pc = "bundle" /\ sync'.who = "signer"
          /\ sync'.ca = sync.ca /\ sync'.certs = sync.certs /\ sync'.want = sync.want
      BY <1>1, <1>2, <1>4, <2>2 DEF Ensured, Done, Call
    <3>2. CallSound'
      <4>1. now' = now /\ listers' = TRUE /\ sync.pc = "recreate"
        BY <1>1, <1>2 DEF SyncFrame, At
      <4> QED
        BY <3>1, <4>1, <1>2, <2>2 DEF CallSound, At, Base
    <3>3. secret'["signer"].cert = sync.ca
      BY <1>1, <1>4, <2>2 DEF Like, Base, CallSound
    <3>4. Known' \subseteq Known
      BY <3>1, <3>3, <1>1 DEF Known, Signers, Some, CertsIn, SyncFrame
    <3> QED
      BY <1>1, <1>2, <1>4, <2>1, <3>1, <3>2, <3>4, OldWriteBase
  <2>3. CASE sync.who = "target"
    <3>1. sync' = Idle /\ sync' \in Call /\ sync'.pc = "idle" /\ sync'.ca = Unset /\ sync'.certs = {}
      BY <1>4, <2>3, IdleCall DEF Ensured, Done
    <3>2. CallSound'
      BY <3>1, <1>1, <1>2, IdleSound DEF SyncFrame
    <3>3. secret'["signer"].cert = secret["signer"].cert
      BY <1>4, <2>3 DEF Secrets
    <3>4. Known' \subseteq Known
      BY <3>1, <3>3, <1>1 DEF Known, Signers, Some, CertsIn, SyncFrame
    <3> QED
      BY <1>1, <1>2, <1>4, <2>1, <3>1, <3>2, <3>4, OldWriteBase
  <2> QED
    BY <1>1, <2>2, <2>3 DEF Secrets
<1> QED
  BY <1>3, <1>4, RecreateWrites

-----------------------------------------------------------------------------
\* The bundle.
NextBundle == manageCABundle(CertsIn(bundleView), sync.ca)

LEMMA BundleSteps ==
    ASSUME Base, ensureCertBundle, UNCHANGED serverVars
    PROVE  /\ SyncFrame /\ secret' = secret /\ At("bundle")
           /\ NextBundle = {c \in CertsIn(bundleView) \cup {sync.ca} : now <= c.notAfter}
           /\ sync.ca \in CA /\ sync.ca # Unset /\ now <= sync.ca.notAfter
           /\ NextBundle \subseteq CA
           /\ \/ Fail /\ bundle' = bundle
              \/ /\ bundle' = IF bundleView = Unset \/ NextBundle # CertsIn(bundleView)
                              THEN NextBundle ELSE bundle
                 /\ bundle = Unset /\ bundleView # Unset => NextBundle = CertsIn(bundleView)
                 /\ sync' = [sync EXCEPT !.pc = "target", !.certs = NextBundle]
                 /\ sync' \in Call /\ sync'.pc = "target" /\ sync'.certs = NextBundle
                 /\ sync'.who = sync.who /\ sync'.ca = sync.ca /\ sync'.want = sync.want
                 /\ synced' = synced
<1>1. SyncFrame /\ secret' = secret /\ At("bundle")
  BY DEF ensureCertBundle, SyncFrame, certRest, certViews, serverVars
<1>2. sync.ca \in CA /\ sync.ca # Unset /\ now <= sync.ca.notAfter
  BY <1>1 DEF Base, Types, Call, CallSound, At
<1>3. NextBundle = {c \in CertsIn(bundleView) \cup {sync.ca} : now <= c.notAfter}
  BY DEF NextBundle, manageCABundle
<1>4. NextBundle \subseteq CA
  BY <1>2, <1>3 DEF Base, Types, CertsIn
<1>5. \/ Fail /\ bundle' = bundle
      \/ /\ bundle' = IF bundleView = Unset \/ NextBundle # CertsIn(bundleView)
                      THEN NextBundle ELSE bundle
         /\ bundle = Unset /\ bundleView # Unset => NextBundle = CertsIn(bundleView)
         /\ sync' = [sync EXCEPT !.pc = "target", !.certs = NextBundle]
         /\ synced' = synced
  BY DEF ensureCertBundle, NextBundle, CertsIn
<1>6. sync' = [sync EXCEPT !.pc = "target", !.certs = NextBundle] =>
         /\ sync' \in Call /\ sync'.pc = "target" /\ sync'.certs = NextBundle
         /\ sync'.who = sync.who /\ sync'.ca = sync.ca /\ sync'.want = sync.want
  BY <1>4 DEF Base, Types, Call
<1> QED
  BY <1>1, <1>2, <1>3, <1>4, <1>5, <1>6

LEMMA ensureCertBundleBase ==
    ASSUME Base, ensureCertBundle, UNCHANGED serverVars
    PROVE  Base'
<1>1. /\ SyncFrame /\ secret' = secret /\ At("bundle")
      /\ NextBundle = {c \in CertsIn(bundleView) \cup {sync.ca} : now <= c.notAfter}
      /\ sync.ca \in CA /\ sync.ca # Unset /\ now <= sync.ca.notAfter
      /\ NextBundle \subseteq CA
  BY BundleSteps
<1>2. listers = TRUE /\ sync.want \in Definitions /\ synced \in BOOLEAN /\ secret \in SecretsType
  BY <1>1, CallHasListers DEF At, Base, Types
<1>3. CASE Fail /\ bundle' = bundle
  BY <1>1, <1>3, EndBase DEF Fail
<1>4. CASE /\ bundle' \in {NextBundle, bundle}
           /\ sync' \in Call /\ sync'.pc = "target" /\ sync'.certs = NextBundle
           /\ sync'.who = sync.who /\ sync'.ca = sync.ca /\ sync'.want = sync.want
           /\ synced' = synced
  <2>1. Types' /\ now <= now' /\ now' = now
    BY <1>1, <1>2, <1>4, SyncTypes DEF Base, Types, SyncFrame
  <2>2. CallSound'
    <3>1. sync.ca \in NextBundle
      BY <1>1
    <3>2. listers' = TRUE /\ sync.pc = "bundle"
      BY <1>1, <1>2 DEF SyncFrame, At
    <3> QED
      BY <1>2, <1>4, <2>1, <3>1, <3>2 DEF CallSound, At, Base
  <2>3. NextBundle \subseteq Known
    BY <1>1 DEF Known, Signers, Some
  <2>4. Known' \subseteq Known
    <3>1. CertsIn(bundle)' \subseteq CertsIn(bundle) \cup NextBundle
      BY <1>4 DEF CertsIn
    <3> QED
      BY <3>1, <2>3, <1>1, <1>4 DEF Known, Signers, Some, CertsIn, SyncFrame
  <2>5. \A x \in Secrets : \A s \in Copies(x)' : Blank(s) \/ s \in Copies(x)
    BY <1>1, <1>4 DEF Copies, At, SyncFrame
  <2>6. FiniteIds'
    <3>1. IsFiniteSet(Ids(bundleView) \cup {sync.ca.id})
      BY FS_AddElement DEF Base, FiniteIds
    <3>2. {c.id : c \in NextBundle} \subseteq Ids(bundleView) \cup {sync.ca.id}
      BY <1>1 DEF Ids
    <3>3. IsFiniteSet({c.id : c \in NextBundle})
      BY <3>1, <3>2, FS_Subset
    <3>4. IsFiniteSet({})
      BY FS_EmptySet
    <3>5. Ids(bundle)' \in {Ids(bundle), {}, {c.id : c \in NextBundle}}
      BY <1>4 DEF Ids, CertsIn
    <3>6. Ids(bundleView)' = Ids(bundleView) /\ HookIds' = HookIds
      BY <1>1 DEF Ids, CertsIn, HookIds, SyncFrame
    <3> QED
      BY <3>3, <3>4, <3>5, <3>6 DEF Base, FiniteIds
  <2> QED
    BY <2>1, <2>2, <2>4, <2>5, <2>6, NothingNew DEF Base
<1> QED
  BY <1>3, <1>4, BundleSteps

-----------------------------------------------------------------------------
\* A new certificate for the server.
TargetNow == secretView["target"]
TargetCfg == sync.want["target"]
TargetLife == IF sync.ca.notAfter - now < TargetCfg.Lifetime
              THEN sync.ca.notAfter - now ELSE TargetCfg.Lifetime
NextCert == [issuer |-> sync.ca.id, notAfter |-> now + TargetLife]
NextTarget == Issued(TargetNow, NextCert, TargetLife)

LEMMA NextTargetIsNew ==
    ASSUME Base, At("ensure"), sync.who = "target"
    PROVE  /\ NextTarget \in SecretOf("target") /\ NextTarget.live /\ NextTarget.tls
           /\ NextTarget.cfg = TargetNow.cfg /\ NextTarget.cert = NextCert
           /\ NextTarget.notBefore = now /\ NextTarget.notAfter = NextCert.notAfter
           /\ NextCert # Unset /\ NextCert.issuer = sync.ca.id /\ now <= NextCert.notAfter
           /\ sync.ca \in CA /\ sync.ca # Unset /\ sync.ca \in sync.certs
           /\ TargetCfg = sync.want.target /\ TargetCfg.Refresh \in Int
           /\ \A r : Like(r, NextTarget) => GoodCopy("target", r)
<1>1. TargetNow \in SecretOf("target") /\ "target" \in Secrets /\ now \in 0 .. MaxTime
  BY DEF TargetNow, Base, Types, SecretsType, Secrets
<1>2. /\ sync.ca \in CA /\ sync.ca # Unset /\ now <= sync.ca.notAfter /\ sync.ca \in sync.certs
      /\ now = sync.ca.notBefore \/ now <= sync.ca.notBefore + sync.want.signer.Refresh
  BY DEF Base, Types, Call, CallSound, At
<1>3. sync.want \in Definitions
  BY CallHasListers DEF At
<1>4. TargetCfg = sync.want.target /\ TargetCfg.Refresh \in Int /\ TargetCfg.Lifetime \in Nat
  BY <1>3, DefinitionParts DEF TargetCfg
<1>5. sync.ca.notAfter \in Nat /\ sync.ca.id \in CAs /\ sync.ca.notBefore \in Nat
  BY <1>2 DEF CA
<1>6. /\ TargetLife \in Nat /\ now + TargetLife \in Nat /\ now + TargetLife <= sync.ca.notAfter
      /\ now + TargetLife = sync.ca.notAfter \/ TargetLife = TargetCfg.Lifetime
      /\ now <= now + TargetLife
  BY <1>1, <1>2, <1>4, <1>5 DEF TargetLife
<1>7. NextCert \in Cert /\ NextCert.issuer = sync.ca.id /\ NextCert.notAfter = now + TargetLife
  BY <1>5, <1>6 DEF NextCert, Cert
<1>8. NextCert \in IF "target" = "signer" THEN CA ELSE Cert
  BY <1>7
<1>9. /\ NextTarget \in SecretOf("target") /\ NextTarget.live /\ NextTarget.tls
      /\ NextTarget.cfg = TargetNow.cfg /\ NextTarget.cert = NextCert
      /\ NextTarget.notBefore = now /\ NextTarget.notAfter = now + TargetLife
  <2>1. Types /\ TargetLife \in Int
    BY <1>6 DEF Base
  <2> QED
    BY <2>1, <1>1, <1>8, IssuedSecret DEF NextTarget
<1>10. NextCert # Unset
  BY <1>7, UnsetAssumption
<1>11. ASSUME NEW r, Like(r, NextTarget)
       PROVE  GoodCopy("target", r)
  <2>1. /\ r.tls /\ r.cert = NextCert /\ r.notBefore = now /\ r.notAfter = NextCert.notAfter
    BY <1>11, <1>7, <1>9 DEF Like
  <2>2. sync.ca.notBefore <= now
    <3>1. sync.ca \in Known
      BY <1>2 DEF Known, Signers, Some
    <3> QED
      BY <3>1 DEF Base, CAsDistinct
  <2>3. Issues(sync.ca, r)
    <3>1. \/ now = sync.ca.notBefore
          \/ \E d \in Definitions : now <= sync.ca.notBefore + d.signer.Refresh
      BY <1>2, <1>3
    <3>2. \/ NextCert.notAfter = sync.ca.notAfter
          \/ \E d \in Definitions : NextCert.notAfter = now + d.target.Lifetime
      BY <1>3, <1>4, <1>6, <1>7
    <3>3. now <= NextCert.notAfter /\ NextCert.notAfter <= sync.ca.notAfter
      BY <1>6, <1>7
    <3> QED
      BY <2>1, <2>2, <3>1, <3>2, <3>3 DEF Issues
  <2>4. sync.ca \in Known /\ sync.ca.id = r.cert.issuer
    BY <1>2, <1>7, <2>1 DEF Known, Signers, Some
  <2> QED
    BY <2>1, <2>3, <2>4, <1>10 DEF GoodCopy, NewSecret
<1> QED
  BY <1>2, <1>4, <1>6, <1>7, <1>9, <1>10, <1>11

LEMMA TargetSteps ==
    ASSUME Base, EnsureTargetCertKeyPair, UNCHANGED serverVars
    PROVE  /\ SyncFrame /\ bundle' = bundle /\ At("ensure") /\ sync.who = "target"
           /\ IF needNewTargetCertKeyPair(TargetNow, TargetCfg.Refresh, sync.ca, sync.certs)
              THEN ApplySecret("target", NextTarget, sync.ca)
              ELSE sync' = Idle /\ UNCHANGED <<secret, synced>>
  BY DEF EnsureTargetCertKeyPair, Done, SyncFrame, certRest, certViews, serverVars,
         NextTarget, NextCert, TargetLife, TargetCfg, TargetNow

LEMMA EnsureTargetBase ==
    ASSUME Base, EnsureTargetCertKeyPair, UNCHANGED serverVars
    PROVE  Base'
<1>1. SyncFrame /\ bundle' = bundle /\ At("ensure") /\ sync.who = "target"
  BY TargetSteps
<1>2. /\ NextTarget \in SecretOf("target") /\ NextTarget.live /\ NextTarget.tls
      /\ sync.ca \in CA /\ sync.ca # Unset
      /\ \A r : Like(r, NextTarget) => GoodCopy("target", r)
  BY <1>1, NextTargetIsNew
<1>3. /\ "target" \in Secrets /\ synced \in BOOLEAN /\ secret \in SecretsType
      /\ listers = TRUE /\ sync.want \in Definitions
  BY <1>1, CallHasListers DEF Secrets, Base, Types, At
<1>4. ASSUME Fail \/ (sync' = Idle /\ synced' = synced), secret' = secret
      PROVE  Base'
  BY <1>4, <1>1, <1>3, EndBase DEF Fail
<1>5. ASSUME \A y \in Secrets \ {"target"} : secret'[y] = secret[y],
             sync'.ca \in {Unset, sync.ca}, sync'.certs \subseteq sync.certs
      PROVE  Known' \subseteq Known
  <2>1. secret'["signer"] = secret["signer"]
    BY <1>5 DEF Secrets
  <2> QED
    BY <1>1, <1>5, <2>1 DEF Known, Signers, Some, CertsIn, SyncFrame
<1>6. CASE /\ sync' = Ensured(sync.ca) /\ synced' = synced
           /\ secret' \in SecretsType
           /\ \A y \in Secrets \ {"target"} : secret'[y] = secret[y]
           /\ Like(secret'["target"], NextTarget)
  <2>1. sync' = Idle /\ sync' \in Call /\ sync'.pc = "idle" /\ sync'.ca = Unset /\ sync'.certs = {}
    BY <1>1, <1>6, IdleCall DEF Ensured, Done
  <2>2. CallSound'
    BY <2>1, <1>1, <1>3, IdleSound DEF SyncFrame
  <2>3. Known' \subseteq Known
    BY <1>5, <1>6, <2>1
  <2>4. GoodCopy("target", secret'["target"])
    BY <1>2, <1>6
  <2> QED
    BY <1>1, <1>3, <1>6, <2>1, <2>2, <2>3, <2>4, OldWriteBase
<1>7. CASE /\ synced' = synced /\ secret' \in SecretsType
           /\ \A y \in Secrets \ {"target"} : secret'[y] = secret[y]
           /\ Blank(secret'["target"])
           /\ \E r \in SecretOf("target") : Like(r, NextTarget) /\ sync' = Recreating(sync.ca, r)
  <2>1. PICK r \in SecretOf("target") : Like(r, NextTarget) /\ sync' = Recreating(sync.ca, r)
    BY <1>7
  <2>2. /\ sync' \in Call /\ sync'.pc = "recreate" /\ sync'.who = "target" /\ sync'.ca = sync.ca
        /\ sync'.certs = sync.certs /\ sync'.want = sync.want /\ sync'.read = r
    BY <2>1, <1>1, <1>2, ApplyRecreates
  <2>3. r.live /\ r.tls
    BY <2>1, <1>2 DEF Like
  <2>4. CallSound'
    <3>1. now' = now /\ listers' = TRUE
      BY <1>1, <1>3 DEF SyncFrame
    <3> QED
      BY <2>2, <2>3, <3>1, <1>1, <1>3 DEF CallSound, At, Base
  <2>5. Known' \subseteq Known
    BY <1>5, <1>7, <2>2
  <2>6. GoodCopy("target", secret'["target"]) /\ GoodCopy("target", sync'.read)
    BY <1>2, <1>7, <2>1, <2>2 DEF GoodCopy
  <2> QED
    BY <1>1, <1>3, <1>7, <2>2, <2>4, <2>5, <2>6, OldWriteBase
<1>8. CASE needNewTargetCertKeyPair(TargetNow, TargetCfg.Refresh, sync.ca, sync.certs)
  <2>1. ApplySecret("target", NextTarget, sync.ca) /\ Types
    BY <1>8, TargetSteps DEF Base
  <2> QED
    BY <2>1, <1>2, <1>3, <1>4, <1>6, <1>7, Applied
<1> QED
  BY <1>4, <1>8, TargetSteps

-----------------------------------------------------------------------------
LEMMA InitBase == Init => Base
<1> SUFFICES ASSUME Init
             PROVE  Base
  OBVIOUS
<1>1. /\ now = 0 /\ certConfig = InitialCerts /\ secret = [x \in Secrets |-> NoSecret(0)]
      /\ bundle = Unset /\ secretView = secret /\ bundleView = Unset /\ listers = FALSE
      /\ sync = Idle /\ synced = FALSE /\ disturbed = 0
      /\ server = "down" /\ served = Unset /\ hook = Unset
  BY DEF Init, CertInit
<1>2. \A x \in Secrets : secret[x] = NoSecret(0) /\ secret[x] \in SecretOf(x) /\ Blank(secret[x])
  BY <1>1, BlankSecrets
<1>3. Types
  <2>1. secret \in SecretsType
    BY <1>1, <1>2 DEF SecretsType, Secrets
  <2> QED
    <3>1. MaxTime \in Nat /\ InitialCerts \in CertConfigs
      BY CertAssumption
    <3>2. now \in 0 .. MaxTime /\ disturbed \in 0 .. now
      BY <1>1, <3>1
    <3> QED
      BY <1>1, <2>1, <3>1, <3>2, IdleCall DEF Types
<1>4. FiniteIds
  BY <1>1, FS_EmptySet DEF FiniteIds, Ids, CertsIn, HookIds
<1>5. CallSound
  BY <1>1 DEF CallSound, At, Idle
<1>6. Known = {}
  BY <1>1, <1>2, IdleCall DEF Known, Signers, Some, CertsIn, Blank, Secrets
<1>7. \A x \in Secrets : \A s \in Copies(x) : Blank(s)
  BY <1>1, <1>2, IdleCall DEF Copies, At
<1> QED
  BY <1>3, <1>4, <1>5, <1>6, <1>7 DEF Base, CAsDistinct, SecretsTrue, Annotated, Blank, Secrets

LEMMA StutterBase == Base /\ UNCHANGED vars => Base'
<1> SUFFICES ASSUME Base, UNCHANGED vars
             PROVE  Base'
  OBVIOUS
<1>1. ServerMove
  BY DEF ServerMove, vars, certVars, serverVars, Base, Types
<1> QED
  BY <1>1, ServerBase

LEMMA NextBase ==
    ASSUME ManyCAs
    PROVE  Base /\ [Next]_vars => Base'
<1> SUFFICES ASSUME Base, [Next]_vars
             PROVE  Base'
  OBVIOUS
<1>0. Types
  BY DEF Base
<1>1. CASE \/ StartServer \/ StartTLS \/ DeliverServed \/ ServeHTTP
           \/ LockNamespace \/ UnlockNamespace
           \/ ServerCrash \/ KubeVirtRemoved \/ KubeVirtInstalled
  BY <1>0, <1>1, ServerMoves, ServerBase
<1>2. CASE PassTime
  BY <1>2, TickBase
<1>3. CASE CertStep
  <2>1. UNCHANGED serverVars /\ CertNext(Held)
    BY <1>3 DEF CertStep
  <2>2. CASE Start \/ DeliverSecrets \/ DeliverBundle
    BY <2>1, <2>2, ViewMoves, ViewBase
  <2>3. CASE ChangeCertConfig \/ OperatorCrash \/ DeleteCertObject \/ ReconcileCreate
    BY <2>1, <2>3, ObjectMoves, ObjectBase
  <2>4. CASE SyncStep(Held)
    BY <2>1, <2>4, ensureSignerBase, ensureCertConfigBase, EnsureSigningBase,
       ensureCertBundleBase, ensureTargetBase, EnsureTargetBase, RecreateBase DEF SyncStep
  <2> QED
    BY <2>1, <2>2, <2>3, <2>4 DEF CertNext
<1>4. CASE UNCHANGED vars
  BY <1>4, StutterBase
<1> QED
  BY <1>1, <1>2, <1>3, <1>4 DEF Next

\* Every certificate is one that a CA of the pool issued, and an endless pool
\* never runs out: whatever Sync's copies, crashes, deletions and configurations.
THEOREM ServerTypeCorrect ==
    ASSUME ManyCAs
    PROVE  Spec => []TypeOK
<1>1. Init => Base
  BY InitBase
<1>2. Base /\ [Next]_vars => Base'
  BY NextBase
<1>3. Base => TypeOK
  BY PoolLasts, TypeParts DEF Base
<1> QED
  BY <1>1, <1>2, <1>3, PTL DEF Spec
=============================================================================
