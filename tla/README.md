# TLA+ models of the Managed Tenant Quota controller

MTQ lets a live migration through that a tenant's ResourceQuota would block.  A
`VirtualMachineMigrationResourceQuota` (VMMRQ) in the namespace names additional
resources.  When virt-controller reports that the quota rejected a migration's
target pod, the MTQ controller locks the namespace, records the blocking quotas
in the VMMRQ's status, raises them, and puts everything back once the target pod
exists.  This project models that protocol and what it stands on - the processes
of the controller, the lock server with its certificates, and the operator that
deploys them - checks the models with TLC on small instances, and proves the
central invariants with TLAPS for all instances.

Words used below: the *ledger* is
`vmmrq.status.originalBlockingResourceQuotas`; a *loan* is a quota whose
`spec.hard` differs from what the tenant set; the *lock* is the namespace's
`ValidatingWebhookConfiguration`.

## The system

| Component | Source | State | Operations |
|---|---|---|---|
| VMMRQ controller | `pkg/mtq-controller/vmmrq-controller` | work queue, workers' local variables, informer caches | handlers `addVmmrq`, `updateVmmrq`, `updateMigration`, `deleteMigration`; `enqueueAll` every 30 s; `execute(key)` by three workers |
| NamespaceLockMap | `pkg/mtq-controller/namespace-lock-utils` | one mutex per namespace | `Lock`, `Unlock` |
| NamespaceCache | same | Unknown / Locked / Unlocked per namespace | `MarkLockState...`, `GetLockState` |
| Namespace lock | `pkg/validating-webhook-lock` | the webhook in the API server | `LockNamespace`, `UnlockNamespace`, `NamespaceLocked` |
| Lock server | `pkg/mtq-lock-server`, `cmd/mtq-lock-server` | its certificate, the namespace of KubeVirt | `ServeHTTP`, `Validate`: verdict on pods, quotas and VMMRQs while locked; TLS from the secret |
| Application | `pkg/mtq-controller/application.go` | leadership, the start of informers and workers | `Execute`, `Run`, `onStartedLeading`; losing the lease ends the process |
| Certificates | `pkg/mtq-operator/certrotation.go` | signer and target secret, bundle ConfigMap, their listers | `Start`, `Sync` with `ensureSigner`, `ensureCertBundle`, `ensureTarget` |
| Operator | `pkg/mtq-operator` | the MTQ objects, the ConfigMap that says which of them is active | `Reconcile` of the lifecycle SDK and the hooks the repository gives it |
| Resource builders | `pkg/mtq-operator/resources` | none | objects, roles, Deployments and their order |

The controller shares nothing with the others but the API server.  It reads
VMMRQs with a fresh List and everything else from informer caches; it writes the
VMMRQ's status, quotas and the webhook.  virt-controller creates target pods and
sets the rejected condition; Kubernetes' quota controller copies `spec.hard` to
`status.hard` and counts usage, and the quota admission reads only the status.
The tenant may change quotas, pods, migrations and VMMRQs at any time, unless the
webhook refuses.

What is hard: one round of `execute` makes up to six API calls whose order is the
whole safety argument; each can fail, conflict or take effect with a lost reply,
and the process can die between any two.  The quota informer may lag, and the
code changes the objects of its cache before it sends them.  The mutex orders
only workers of one process and keeps neither the tenant nor virt-controller out.
`PROJECT.json` lists these hazards line by line.

What makes each part correct:

* controller: no quota is raised without a durable record of its original; it is
  written only under the lock and only to recorded values; without the lock every
  quota is the tenant's; every lock is released and every blocked migration goes on;
* lock and lock server: under the lock only the controller changes quotas and
  VMMRQs, and only virt-controller creates (target) pods; the controller
  recognises its own lock;
* NamespaceCache and NamespaceLockMap: what the cache shows is true whenever
  `execute` reads it, as long as no reply of the webhook's Create or Delete and no
  write of the map is lost; one worker of one process is in a namespace;
* application: one leader; every migration is served again after a change of
  leadership, unless the namespace's lock is out of the controller's control;
* certificates: whatever certificate is served, a bundle that was current a
  moment ago verifies it, so a lock does not cut the controller off;
* operator: one MTQ object is active; when it stays alone it becomes deployed
  completely, and the programs it deploys may make the calls they make.

## Modules

* `ResourceQuotas` - the arithmetic: which quotas block a target pod
  (`getCurrBlockingRQInNS`), what the ledger becomes (`getAllBlockingRQsInNS`),
  what is restored (`getRQListToRestore`), what a raised quota is
  (`addResourcesToRQ`).  A resource list is a function to quantities with
  `Unnamed` for a name it does not have.  `CheckRequest` is the vendored
  admission code for one unscoped quota, with the pod evaluator's `Constraints`: a
  quota of cpu or memory (`validationSet`) refuses a pod whose containers do not
  specify it, and this error does not make the quota a blocking one.  All
  containers are taken to specify the same resources; the pods of the runs
  specify theirs.  The `LimitedResource` the controller
  passes to it has no effect, because the request is built with a resource of
  another API group and the filter by group drops it.
* `NamespaceLock` - the webhook's rules and the lock server's verdict
  (`Admitted`), and `NamespaceLocked` with the order of arguments and the verbs
  the code really has.
* `Cluster` - the API server's objects, the informer caches and the external
  actors: virt-controller, quota controller, tenant.  These are modelled from how
  `src/` uses them.  `rqWatch` holds the versions of a quota the informer has not
  received; an Update is accepted only when it is empty, which is what
  resourceVersions ensure.  `tenant` is a history variable with the hard each
  tenant last set.
* `VmmrqController` - the controller itself, its specification and properties.
* `QuotaLoan` - the abstract specification: what the controller promises a tenant,
  with the lock, the books and the quotas and nothing else.
* `VmmrqLoan` - `VmmrqController` with the refinement mapping: the books are the
  ledgers of all VMMRQs together, the lock is the webhook, a deleted quota is `Gone`.
* `ControllerApp` - the processes: leases in ticks, `onStartedLeading`, `Run`, the
  workers, and what workers share in memory, races on the map of NamespaceCache
  included.  Of `execute` it keeps the lock of the namespace, the look at the cache
  and the change of the webhook, which may also take effect and be answered with
  an error.
* `CertRotation` - `Sync` of the certificate manager, call by call, with listers
  that may be behind.  The rotators of library-go are vendored and modelled from
  there.
* `LockServer` - the lock server's process, the TLS handshake, the webhook with the
  bundle it was created with; it extends `CertRotation` and `NamespaceLock` and so
  composes the two.
* `LockTrust` - `LockServer` with the inductive invariant about its certificates.
* `Resources` - what the builders describe: objects in their order, rules of the
  roles, replicas, ports; and which calls the two programs make with these rules.
* `Operator` - `Reconcile` with the hooks, over the objects of `Resources`.
* `MCVmmrqController`, `MCControllerApp`, `MCLockServer`, `MCOperator` - the
  constants for TLC.
* `VmmrqControllerProofs`, `VmmrqLoanProofs`, `QuotaLoanProofs`,
  `ControllerAppProofs`, `OperatorProofs`, `LockServerProofs`, `LockTrustProofs` -
  theorems and proofs.

`VmmrqController` cuts `execute` where another actor can get in between, that is
around every API call and every read of a cache:

| Action | Code in `execute` | Then |
|---|---|---|
| `Get` | queue Get and the read of the migration from the cache | `list` |
| `ListVmmrqs` | mutex, List, exactly one VMMRQ | `sync` or `evaluate` |
| `SyncAdditional` | first UpdateStatus, whose result is discarded | `evaluate` |
| `Evaluate` | VMI lookup, `isBlockedMigration`, parallel limits, blocking quotas | `collect` |
| `Collect` | new ledger from the quota cache, list to restore | `checklock` |
| `CheckLock` | NamespaceCache, else `NamespaceLocked` | `lock` or `restore` |
| `LockNamespace` | Create of the webhook, mark of the cache | `restore` |
| `RestoreRQ` | one round of `restoreOriginalRQs` | `restore` |
| `RecordStatus` | `shouldUpdateVmmrq` and second UpdateStatus | `raise` |
| `RaiseRQ` | one round of `addResourcesToRQs` | `raise` |
| `Finish` | Delete of the webhook, mark of the cache, return | `idle` |

Every early return is `Return(w, state)`, which also unlocks the mutex and
requeues the key as `Execute` does.  A worker's copy of the VMMRQ is *fresh* until
anybody writes the object; UpdateStatus is refused otherwise.  After
`SyncAdditional` the worker's own copy is stale too, so the second UpdateStatus of
that round is refused and the round repeated, as in the code.  The lists in the
status come out of Go maps, so with two entries `shouldUpdateVmmrq` may see a new
order and write an unchanged ledger: a nondeterministic answer.
`Restart` is the death of the process and the start of the next leader with fresh
caches; requests still on their way at that moment are taken to be lost or to
have arrived before it.

In `ControllerApp` a thread is a pair of a process and a key, as no two workers
of a process have the same key.  An access to the cache is two steps, its begin and
its end; accesses of two threads of a process that overlap, one of them a write,
are a data race, after which a read may miss its entry, a write may be lost, or
the Go runtime ends the process (`Missed`, `Mark`, `Throw`).  A call that creates
or deletes the webhook may take effect although its reply is lost: `execute` returns
the error before it marks the cache, and the key comes back (the last alternative
of `SetLock`).  The history variable `lost` names the entries that missed the last
change of the webhook in one of these two ways.  A new leader gets no events for
the migrations that exist already, since their informer has no AddFunc; `addVmmrq`
finds the rejected ones of namespaces with a VMMRQ, so `Run` starts with any part
of the work, and `enqueueAll` brings all of it.  That the timer also adds the keys
that a worker has is left to `Update`: a key added while it is processed is
processed once more.  The steps of the
leader elector follow client-go: a candidate counts how long it has seen the lease
unchanged, a leader how long it has failed to renew it; `Tick` makes both go on
together, and waits for a leader that has to exit.

| `ControllerApp` | Code |
|---|---|
| `Start`, `Acquire`, `OnStoppedLeading` | `Execute`, `Run` and `setupLeaderElector` of the application |
| `onStartedLeading`, `Run` | the callback of the elector, and `VmmrqController.Run`, whose error is only logged |
| `enqueueAll`, `missed` | the timer: migrations a ledger names, and rejected ones |
| `Update` | `updateMigration`, `deleteMigration` and `enqueueMigration` |
| `Get`, `Lock` | queue, `getLock` and `Lock` of NamespaceLockMap |
| `SetLock` | the switch on `GetLockState`, and `LockNamespace` or `UnlockNamespace` with each outcome |
| `Mark` | `MarkLockStateLocked`, `MarkLockStateUnlocked` |
| `Crash`, `Replace`, `CutOff`, `Throw` | the end of a process or of its connection |

| `CertRotation`, `LockServer` | Code |
|---|---|
| `ensureSigner`, `ensureCertConfig`, `EnsureSigningCertKeyPair` | `ensureSigner`: the secret, its annotations, a new CA |
| `ensureCertBundle` | the bundle: the current CA and those that have not expired |
| `ensureTarget`, `EnsureTargetCertKeyPair`, `Recreate` | the server's certificate; a secret of the wrong type is deleted and created |
| `StartServer`, `StartTLS`, `DeliverServed` | `main` of the lock server and its certificate watcher |
| `ServeHTTP` | the first request of a process looks KubeVirt's namespace up |

In `Operator` a call of `Reconcile` goes through program counters, one for each
write: `preCreate` claims the ConfigMap, `checkSanity` compares the claim with the
CR, `ReconcileUpdate` is the loop over the objects, `sync` the certificates,
`CheckDegraded` the phase.  Whether the loop's write of an object succeeds follows
from the operator's own rules: a role can be created only by an account that
has all its rules, and a binding only after its role.

Operators whose comment begins with "Mutant of" are wrong variants of the
definition they stand before.  No specification uses them; they serve to test
that a property fails when the code is wrong in that way.

## Runs

The instances of the controller use one resource, a quota of two that two pods
fill, and a VMMRQ that lends one more pod, so the target pod is rejected at
first and fits exactly with the loan. Fault kinds and tenant operations are
switched on per run and their number is bounded by `MaxFaults` and `MaxOps`: one
fault is enough to break any single step, and the runs put it at every step.
`MaxHard` caps quantities where a quota could be raised without end; `MaxRqLag`
bounds undelivered quota events, and one is enough for a stale cache and a
conflict. With `MaxRqLag = 0` the quota cache is up to date, which takes the
known leak (below) out of the way of the other properties. `CHECK_DEADLOCK` is
off in these: when all migrations are over and the queue is empty the system
rests.

| Run | Instance | Shows |
|---|---|---|
| `Faults` | 2 migrations, 2 workers, one migration per node, one fault or crash | `TypeOK`; `LoanRecorded`: a raised quota is always in a ledger with the tenant's value; `QuotaIntact`: without the lock every quota is the tenant's |
| `TwoQuotas` | 2 quotas, 2 VMMRQ names, one fault between two writes (status, lock, unlock or quota) or crash, two tenant operations | `LoanIndInv`, the inductive invariant behind `LoanRecorded` and `QuotaIntact`; `QuotaWritesCovered`: the controller writes a quota only under the lock, to the recorded value or that plus the loan; `ImplementsLoan`: every step is one of `QuotaLoan` |
| `Lag` | lagging quota informer, 2 VMMRQ names, one fault or crash, one tenant operation | `LedgerUnderLock`: a non-empty ledger implies the lock; `IndInv`, the inductive invariant of the proofs; `QuotaWritesCovered` |
| `LiveTwo` | 2 rejected migrations, one worker | `LockReleased`, `MigrationReleased` |
| `LiveRecovers` | 1 migration, 2 workers, one transient fault, deletion of the migration or VMI | `LockReleased`, `MigrationReleased` |
| `Process` | 2 replicas, 2 workers, 2 migrations in one namespace or in two, two troubles (crash, outage, lost reply and so on) | `OneLeader`, `NamespaceExclusive`; `CacheTruthful`: the cache is true unless the last change of the webhook went past it; `Served`: every migration is served again and again unless its namespace's lock is wedged |
| `Trust` | 13 ticks with two rotations, one crash, deletion or change of configuration, one `Sync` from old copies | `YoungLockTrusted`: rotation never cuts the controller off from a lock it has just taken; `TrustIndInv`, its inductive invariant; `LockUsableAgain`; `CertConfigApplied` |
| `Operator` | 2 MTQ objects, one deletion, one crash, failing call, lagging cache or tampered object | `OneActive`: at most one MTQ object is deployed; `ClaimIndInv`, its inductive invariant; `InstallCompletes`: one that stays alone is, with all objects and permissions |

Why these bounds are enough for what the properties tell apart:

* `Process`: two replicas are a leader and one that takes over; the lease is
  respected for two ticks and a leader gives up after one, the smallest numbers of
  which one is the shorter, as in the code (15 s and 10 s).  With two troubles the
  second leader can lose the lease as well, and a lost reply can be combined with
  a crash, an outage or a race.  The two namespaces share no mutex, so
  their workers race on the map; in one namespace they compete for the mutex.
  Deadlock is checked.
* `Trust`: the configuration makes signer and target reach their refresh times at
  the same tick, so the target has to wait for the new signer; 13 ticks go past
  that.  Both configurations satisfy `Spaced` (below), as an ASSUME of
  `MCLockServer` checks; the other one leaves the CA to the code's defaults.  Troubles come at the start, in the middle and around the rotation
  (`TroubleTimes`).  Six CAs are more than are ever in use at once (`TypeOK` checks
  it), so that identities can be used again.  A lock lives for one tick at most
  (`MaxLockAge`), the time `YoungLockTrusted` speaks of.
* `Operator`: two MTQ objects are one and its successor or rival.  The informers
  that may be behind are those on which the decision between two rests.  The order
  of the loop is one of those a Go map may give; a crash in the loop is after three
  objects.  The object that is edited is a Deployment, the one that is deleted a
  binding, the write that fails that of a role: these are the objects others
  depend on.

Four runs show where the code does not do what is said of it; TLC finds the
property violated.

* `LeakedLoan` (`QuotaIntact`): `restoreOriginalRQs` assigns to the cached object
  before the Update.  If the Update is refused - the quota controller has just
  written the status - the retry believes the cache, clears the ledger and
  unlocks; the loan stays for good, and the next migration raises the quota again
  from there.  Any other error of that Update has the same effect, so `rq` is
  among the faults of `Lag` only.
* `RestartLocked` (`LockReleased`): a new process asks `NamespaceLocked`, which
  swaps two namespaces when it compares the webhook and then may not update it.
  `Served` of `Process` therefore leaves out the migrations of a namespace whose
  lock the leader inherits (`Wedged`).
* `LostUnlock` (`LedgerUnderLock`): a Delete of the webhook whose reply is lost
  leaves NamespaceCache at Locked; the next loan is taken without a lock.  If no
  loan follows, each further Delete finds nothing, and the key is retried at once
  and for ever.  So `CacheTruthful` excepts an entry that missed the last change of
  the webhook, and `Served` the migrations of its namespace (`Wedged`), as long as
  the process lives; a restart ends it, as the cache starts empty and the
  namespace is not locked.
* `OrphanSecret` (`Reinstalled`): a certificate secret deleted after the loop over
  the objects is created again by `Sync` without an owner.  It survives the MTQ
  object, and the next installation stops at `CheckForOrphans`.

Three more windows are known and have no run.  The lock ends when `spec.hard` is
restored, the loan only when the quota controller has synced `status.hard`, so a
tenant's pod may use it in between (`vmmrq-controller.go:401`).  The ledger is read
from the cache before the lock is taken, so a change the tenant makes in between is
later overwritten with the recorded value (`:449`).  A second VMMRQ created between
List and lock stops every later round, and the lock forbids its deletion (`:281`).
The instances of `QuotaIntact` and `ImplementsLoan` have no tenant that changes
quotas for the second reason; with one, they fail.

A Create of the webhook whose reply is lost blocks the namespace in the same way
as a restart does: the controller meets its own webhook and fails on it.  The
fault `lockLost` is in the safety runs and not in `LiveTwo` and `LiveRecovers`;
in `Process` the namespace is then `Wedged`.

`LiveTwo` stays below the limits of parallel migrations: with one migration per
node its two have to take turns, and liveness over 188,072 states is more than
the run's time allows.  What happens at the limit is in the safety run `Faults`
only.

### Fairness

`Fairness` assumes that what is running goes on: workers, timers, informers, quota
controller and virt-controller (weak fairness of each group).  Strong fairness is
assumed of two steps only: the queue hands out a waiting key, because client-go's
queue is first in first out, and a worker gets the mutex it waits for, because
Go's `sync.Mutex` does not starve a waiter.  Nothing is assumed of the tenant, of
faults or of crashes.

`ControllerApp`: time, elections, the start of the controller and the timer of
`enqueueAll` go on and outages end (weak fairness); for each key the queue and the mutex are strongly fair as
above.  `LockServer`: `Sync` is repeated at least every minute, informers deliver,
a process that ended is started again (weak fairness).  `Operator`: its worker and
the informers go on (weak fairness); a CR in the queue gets its turn, and lagging
informers, the garbage collector and the Deployment controller, which anything else
may interrupt again and again, get theirs in the end (strong fairness).

## Proofs

`VmmrqControllerProofs` holds, for every set of resources, quotas, migrations,
VMMRQs and workers, every bound and every combination of faults and tenant
operations:

* `TypeCorrect`: `Spec => []TypeOK`.  Not inductive by itself: the two loops index
  the ledger, so the proof carries along that a loop visits only recorded quotas
  (`VisitsRecorded`).
* `WorkerMemory`: `Spec => []IndInv`, assuming `NoLostUnlock`.
* `LedgersUnderLock`: `Spec => []LedgerUnderLock`, from it.
* `QuotaWritesAreCovered`: `Spec => QuotaWritesCovered`, from it.

`LedgerUnderLock` is not inductive: whether the unlock in `Finish` is safe depends
on what the worker read many steps ago.  `IndInv` says why it still is.  A worker
past List is alone (`nsLock = {w}`); no other live VMMRQ has a ledger; and the
ledger it remembers - the listed one until its UpdateStatus, its own after that -
is the one in the API server (`HolderKnows`).  From the first loop on, a non-empty
new ledger is covered by the webhook (`HolderPlans`).  NamespaceCache never shows a
lock that is not there (`CacheTruthful`), so skipping `LockNamespace` is safe.  The
tenant cannot disturb this: a VMMRQ created meanwhile has no ledger, and deleting
one needs the lock to be absent, when no VMMRQ has one.  The proof has a lemma per
action.  Its one assumption, `NoLostUnlock`, is exactly the fault of the run
`LostUnlock`; conflicts, other lost replies, crashes and a lagging informer are
all allowed.  The other assumptions are the ASSUMEs of the modules: types of the
constants, a finite set of migrations, a non-empty set of workers, and a key and a
marker that are different from real ones.

`ControllerAppProofs` holds for any number of replicas, workers, migrations and
namespaces, any bound on troubles and any `RenewDeadline < LeaseDuration`, the one
assumption that matters (`AppAssumption`):

* `AppTypeCorrect`: `Spec => []TypeOK`.
* `LeadersAlone`: `Spec => []OneLeader`.  By `LeaseInv`: a process that leads is the
  one named in the lease, and no candidate has watched the lease stand still for
  longer than its holder has failed to renew it.  A candidate takes over after
  `LeaseDuration`; the leader has then exited (`NoLeaderWhenExpired`).
* `NamespacesExclusive`: `Spec => []NamespaceExclusive`.  By `MutexInv`: a busy
  worker's process is working and the worker's mutex is the one in the map.  So two
  workers for a namespace have the same mutex if they are of one process, and
  they are, since two working processes would both lead.
* `CachesTruthful`: `Spec => []CacheTruthful`.  By `MarkInv`: an entry that is known
  belongs to a working process and is true, or a worker is about to mark it, or the
  reply to the last change of the webhook or its mark has been lost.  Only one
  process works, so no other changes the webhook behind the cache.

`VmmrqLoanProofs` has what the controller promises the tenant, for every set of
quotas, migrations, VMMRQs and workers:

* `LedgersHoldTheTruth`: `Spec => []LoanIndInv`.
* `LoansAreRecorded`: `Spec => []LoanRecorded`, from it.
* `QuotasIntact`: `Spec => []QuotaIntact`, from it and `LedgersUnderLock`.
* `ControllerImplementsLoan`: `Spec => ImplementsLoan`, the refinement of
  `QuotaLoan`, from the same invariants.

They assume `Reliable`, which takes out what the code does not survive and nothing
else: a lost reply of the unlock (run `LostUnlock`), a lagging quota informer or a
quota update that fails without taking effect, either of which leaves the value in
the cache and not in the API server (run `LeakedLoan`), and a tenant that changes a
quota between the read of the cache and the lock (`vmmrq-controller.go:449`).  Crashes,
quota updates with a lost reply, failing or lost calls of every other kind,
deleted quotas, pods, migrations, VMIs and VMMRQs are all there, without a bound.

Why `LoanRecorded` is not inductive: `Finish` and the second UpdateStatus drop ledger
entries because of what the first loop did several steps ago, and `Collect` makes
new entries of what the cache shows.  `LoanIndInv` adds that the cache is current,
that every ledger, also the one a worker is about to write, has the tenant's values
(`Honest`), and that an entry the worker drops is of a quota which the loop has given
back or still has to visit (`PlanHonest`).  `IndInv` supplies the rest: the worker's
copy of the ledger is the one in the API server.  For the refinement, a step of the
controller is the abstract lock, unlock, booking, lending or giving back, or a
stutter (`StepKinds` and the lemmas `Refines...`); that the ledger of another VMMRQ
cannot interfere is `IndInv` again.

`QuotaLoanProofs` has `LoansHonest`, about the abstract specification alone: in every
behaviour of `QuotaLoan` a quota that is not the tenant's is locked and booked with
the tenant's value.  The inductive invariant `LoanInv` adds that the books have
nothing but the tenant's values.

`OperatorProofs` holds for any CRs, orders of the loop, troubles and lags:

* `OperatorTypeCorrect`: `Spec => []TypeOK`.
* `ClaimKept`: `Spec => []ClaimIndInv`.
* `AtMostOneActive`: `Spec => []OneActive`, since two deployed CRs would own the
  same ConfigMap.

`OneActive` is not inductive: `checkSanity` believes a cache.  `ClaimIndInv` says that
a CR which is deployed, or which the call under way has taken past
`createOperatorConfig` or `checkSanity`, owns the claim in the API server; and that
the cached claim may be old but not wrong about a CR that exists (`ClaimLasts`): the
garbage collector takes a claim only when its owner is gone, and the UID of an owner
does not come back (`OnceCreated`).  No object of the loop is the claim
(`ClaimApart`), so the loop, `Sync` and tampering leave it alone.

`LockServerProofs` and `LockTrustProofs` are about the certificates, for any number of
ticks, CAs, locks, crashes, deletions, changes of the configuration and calls of
`Sync` that begin with old copies:

* `ServerTypeCorrect`: `Spec => []TypeOK`, assuming `ManyCAs`.
* `CertificatesInOrder`: `Spec => []TrustIndInv`, assuming `ManyCAs` and `Spaced`.
* `YoungLocksTrusted`: `Spec => []YoungLockTrusted`, assuming the same.

`ManyCAs` says that there is always another key pair (and that `Unset` is no bundle):
in the code each CA has a new key, whereas TLC has to make do with six.  That the
pool does not run out is then a matter of what is in use being finite (`FiniteIds`).
`ServerTypeCorrect` needs nothing of the durations; it carries along what `Base`
lists: CAs are told apart by their ids (`CAsDistinct`), annotations and certificates
agree (`SecretsTrue`), and the CA in the hands of a call of `Sync` is one it may use
(`CallSound`).

`Spaced` relates the durations of all configurations that may be set: a target that has
to wait for its signer is past its refresh time by a tenth of it at most, and that has to
be before 80% of its lifetime; a signer past its refresh time still has to outlive
that.  The code's defaults satisfy it (48 h and 24 h for the signer, 24 h and 12 h for the
target); it is a condition on `spec.certConfig`, which nothing validates.  Without it
the promise is not kept: a certificate near its expiry is renewed at once, by a CA
nobody may know yet.

`YoungLockTrusted` is not inductive: that the bundle in an old webhook verifies today's
certificate depends on when its issuer came into the bundle, and on decisions of
`Sync` some ticks ago.  `TrustIndInv` records them.  `SyncedTrue`: what a successful `Sync` has
not written it has found in order, so that time passes only when everything is.
`CalmTrue`, for the time since the last trouble: caches and cluster differ only in what
this tick has brought, the bundle holds every CA of before this tick that is still valid,
and the server's certificate is of one of them that is `Seasoned`, since
`EnsureTargetCertKeyPair` waits and `Spaced` excludes the paths on which it does not.
`HookTrue`: a webhook's bundle has every CA that was in the bundle before it and still
is valid.  A seasoned issuer is older than a young lock, so it is in its bundle.

Only model-checked is liveness, which needs fairness and is out of TLAPS's reach:
`LockReleased`, `MigrationReleased`, `Served`, `LockUsableAgain`, `CertConfigApplied`,
`InstallCompletes`; and the four violations, which are counterexamples.  Every
invariant and action property of the passing runs is stated by a theorem.

## Not modelled

* LimitRange defaults and the rendering of the target pod: `PodUsage` is a constant.
* Scoped quotas, quotas created or re-created later, several namespaces.
* Lag of the VMMRQ and VMI informers, and intermediate versions of migrations and
  pods that an informer would deliver one by one.
* Events, logs, metrics, and the text of messages.
* The rate limiter's delays: a delayed key comes back at some time.
* The comparison of the CA bundle in `isOurValidatingWebhookConfiguration`; the
  swapped namespaces make the comparison fail in any case.
* A process that is paused past its lease and goes on without noticing: the model
  lets the clocks of all processes advance at one rate.
* KubeVirt reinstalled in another namespace while the lock server runs, which keeps
  the first one it saw.  A `renewBefore` that is not below its duration is in no run;
  of the theorems only `ServerTypeCorrect` speaks of it.
* Upgrades from another version, labels, images, probes, node placement, the
  operator's CSV and the metrics objects.
* Generated code and build, manifest and test tools: see the components in
  `PROJECT.json`.

## Plan

1. (done) `ResourceQuotas`, `NamespaceLock`, `Cluster`, `VmmrqController` with their
   runs and theorems.
2. (done) `ControllerApp` with its theorems; `CertRotation` and `LockServer`;
   `Resources` and `Operator`; `QuotaLoan` and the refinement.
3. (done) Theorems: `LoanRecorded`, `QuotaIntact` and `Spec => ImplementsLoan`;
   `OneActive`; `YoungLockTrusted`.
4. LimitRange arithmetic (`getLimitRangeWithMaxDefaults`, `addLimitRangeDefault`)
   against a reference definition over all small inputs.
