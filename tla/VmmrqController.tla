--------------------------- MODULE VmmrqController ---------------------------
(***************************************************************************)
(* The VMMRQ controller of one tenant namespace: its informer handlers,    *)
(* its work queue, its workers and the steps of execute(), one action per  *)
(* call that other actors can interleave with.                             *)
(*                                                                         *)
(* The queue is client-go's: dirty holds the keys that wait for a worker,  *)
(* a key that is being processed may be dirty again and is handed out when *)
(* its worker is done.  waiting holds the keys of AddAfter and             *)
(* AddRateLimited.  A worker's local variables are the record loc[w].      *)
(***************************************************************************)
EXTENDS Cluster

CONSTANTS
    Workers,                           \* threadiness goroutines of runWorker
    Fake,                              \* the key "<namespace>/fake"
    Node,                              \* [Migrations -> nodes], the VMI's node
    ParallelMigrationsPerCluster,      \* limits of KubeVirt's configuration
    ParallelOutboundMigrationsPerNode

ASSUME ControllerAssumption ==
    /\ Fake \notin Migrations
    /\ Workers # {}
    /\ DOMAIN Node = Migrations
    /\ ParallelMigrationsPerCluster \in Nat
    /\ ParallelOutboundMigrationsPerNode \in Nat

Keys == Migrations \cup {Fake}

VARIABLES
    pc,      \* where every worker is in execute()
    key,     \* the key every worker processes
    loc,     \* the local variables of every worker
    nsLock,  \* the workers that hold nsLockMap's mutex of the namespace
    dirty,   \* keys to be processed
    waiting, \* keys to be added after a delay
    nsCache  \* NamespaceCache's entry of the namespace

ctlVars == <<pc, key, loc, nsLock, dirty, waiting, nsCache>>
vars == <<clusterVars, ctlVars>>

\* The points of execute() at which a worker may be interrupted.
Points == {"idle", "list", "sync", "evaluate", "collect", "checklock", "lock",
           "restore", "raise"}

LockStates == {"unknown", "locked", "unlocked"}

EnqueueStates == {"Forget", "BackOff", "Immediate", "AddAfterFiveSeconds"}

\* migrationObj, the VMMRQ's name, vmmrq.Status, prevVmmrq.Status, whether the
\* copy has the current resourceVersion, nsLocked, the quotas the current loop
\* has not visited, and finalEnqueueState.
Locals == [snap : MigrationStates, vm : VMMRQs, st : Status, prev : Status,
           fresh : BOOLEAN, nsLocked : BOOLEAN, todo : SUBSET RQs,
           fin : EnqueueStates]

NoLocals == [snap |-> "absent", vm |-> DefaultVMMRQ, st |-> EmptyStatus,
             prev |-> EmptyStatus, fresh |-> FALSE, nsLocked |-> FALSE,
             todo |-> {}, fin |-> "Forget"]

-----------------------------------------------------------------------------
\* Keys the informer handlers add.

RejectedMigrations(cache) == {m \in Migrations : cache[m] = "rejected"}

\* addVmmrq and updateVmmrq: the rejected migrations, or the fake key.
vmmrqKeys(cache) ==
    IF RejectedMigrations(cache) = {} THEN {Fake} ELSE RejectedMigrations(cache)

LiveVMMRQs == {v \in VMMRQs : vmmrq[v].live}

ledgerKeys(v) ==
    LET blocked == {m \in Migrations : vmmrq[v].status.m2b[m] # {}}
    IN  IF recorded(vmmrq[v].status.orig) = {} THEN {}
        ELSE IF blocked = {} THEN {Fake} ELSE blocked

enqueueAllKeys(cache) ==
    RejectedMigrations(cache) \cup (UNION {ledgerKeys(v) : v \in LiveVMMRQs})

\* Run registers the handlers, which replay the caches, and starts enqueueAll.
startKeys(cache) ==
    enqueueAllKeys(cache) \cup (IF LiveVMMRQs = {} THEN {} ELSE vmmrqKeys(cache))

Init ==
    /\ ClusterInit
    /\ pc = [w \in Workers |-> "idle"]
    /\ key = [w \in Workers |-> Fake]
    /\ loc = [w \in Workers |-> NoLocals]
    /\ nsLock = {}
    /\ dirty = startKeys(mig)
    /\ waiting = {}
    /\ nsCache = "unknown"

-----------------------------------------------------------------------------
\* The worker loop.

processing == {key[w] : w \in {u \in Workers : pc[u] # "idle"}}

\* The worker goes on to point p with the local variables l.
Goto(w, p, l) ==
    /\ pc' = [pc EXCEPT ![w] = p]
    /\ loc' = [loc EXCEPT ![w] = l]
    /\ UNCHANGED <<key, dirty, waiting>>

\* execute returns: its deferred Unlock, the switch on the enqueue state, Done.
Return(w, enqueueState) ==
    /\ pc' = [pc EXCEPT ![w] = "idle"]
    /\ key' = [key EXCEPT ![w] = Fake]
    /\ loc' = [loc EXCEPT ![w] = NoLocals]
    /\ nsLock' = nsLock \ {w}
    /\ dirty' = IF enqueueState = "Immediate" THEN dirty \cup {key[w]} ELSE dirty
    /\ waiting' = IF enqueueState \in {"BackOff", "AddAfterFiveSeconds"}
                  THEN waiting \cup {key[w]}
                  ELSE waiting

\* Get, and the read of the migration that execute does before it locks.
Get(w, k) ==
    /\ pc[w] = "idle"
    /\ k \in dirty \ processing
    /\ pc' = [pc EXCEPT ![w] = "list"]
    /\ key' = [key EXCEPT ![w] = k]
    /\ loc' = [loc EXCEPT ![w].snap = IF k = Fake THEN "absent" ELSE migCache[k]]
    /\ dirty' = dirty \ {k}
    /\ UNCHANGED <<clusterVars, nsLock, waiting, nsCache>>

-----------------------------------------------------------------------------
\* The steps of execute().

\* nsLockMap.Lock, List, and the copy of the spec into the status.
ListVmmrqs(w) ==
    /\ pc[w] = "list"
    /\ nsLock = {}
    /\ \/ /\ Fault("list")
          /\ Return(w, "BackOff")
          /\ UNCHANGED <<apiVars, infVars, ops, nsCache>>
       \/ /\ Cardinality(LiveVMMRQs) # 1
          /\ Return(w, "Forget")
          /\ UNCHANGED <<clusterVars, nsCache>>
       \/ \E v \in VMMRQs :
            LET listed == vmmrq[v].status
                st == [listed EXCEPT !.add = vmmrq[v].spec]
            IN  /\ LiveVMMRQs = {v}
                /\ Goto(w, IF st = listed THEN "evaluate" ELSE "sync",
                        [loc[w] EXCEPT !.vm = v, !.st = st, !.prev = st,
                                       !.fresh = TRUE])
                /\ nsLock' = nsLock \cup {w}
                /\ UNCHANGED <<clusterVars, nsCache>>

\* A write of the VMMRQ makes every copy of it stale.
staleLocals(v) ==
    [u \in Workers |-> IF loc[u].vm = v
                       THEN [loc[u] EXCEPT !.fresh = FALSE]
                       ELSE loc[u]]

\* UpdateStatus succeeds: the object exists and the copy is current.
StatusAccepted(w) == loc[w].fresh /\ vmmrq[loc[w].vm].live

WriteStatus(w) ==
    /\ StatusAccepted(w)
    /\ vmmrq' = [vmmrq EXCEPT ![loc[w].vm].status = loc[w].st]
    /\ UNCHANGED <<rq, webhook, mig, pods, vmis, tpods, tenant, infVars, ops>>

\* Mutant of StatusRefused: the error is ignored and execute goes on.
StatusErrorIgnored(w) ==
    /\ Goto(w, "raise", [loc[w] EXCEPT !.todo = recorded(loc[w].st.orig)])
    /\ UNCHANGED nsLock
    /\ \/ Fault("status") /\ UNCHANGED <<apiVars, infVars, ops>>
       \/ ~ StatusAccepted(w) /\ UNCHANGED clusterVars

\* UpdateStatus fails: a transient error, a conflict, or the object is gone.
StatusRefused(w) ==
    /\ Return(w, "Immediate")
    /\ \/ Fault("status") /\ UNCHANGED <<apiVars, infVars, ops>>
       \/ ~ StatusAccepted(w) /\ UNCHANGED clusterVars

\* The reply to an UpdateStatus that took effect is lost.
StatusReplyLost(w) ==
    /\ Fault("statusLost")
    /\ WriteStatus(w)
    /\ Return(w, "Immediate")

\* The new object is discarded, so the copy that execute keeps is now stale.
SyncAdditional(w) ==
    /\ pc[w] = "sync"
    /\ \/ /\ WriteStatus(w)
          /\ pc' = [pc EXCEPT ![w] = "evaluate"]
          /\ loc' = staleLocals(loc[w].vm)
          /\ UNCHANGED <<key, nsLock, dirty, waiting, faults>>
       \/ StatusRefused(w)
       \/ StatusReplyLost(w)
    /\ UNCHANGED nsCache

isBlockedMigration(w) == loc[w].snap = "rejected" /\ key[w] \notin podCache

findRunningMigrations ==
    {m \in Migrations :
        \/ migCache[m] = "running"
        \/ migCache[m] \in {"pending", "rejected"} /\ m \in vmis /\ m \in podCache}

outboundMigrationsOnNode(node) ==
    {m \in findRunningMigrations \cap vmis : Node[m] = node}

reachedMaxParallelMigration(node) ==
    \/ Cardinality(findRunningMigrations) >= ParallelMigrationsPerCluster
    \/ Cardinality(outboundMigrationsOnNode(node))
         >= ParallelOutboundMigrationsPerNode

\* Mutant of setBlocking: an empty S leaves the entry in the map.
setBlockingNoDelete(st, m, S) ==
    [st EXCEPT !.m2b = [n \in Migrations |-> IF n = m /\ S # {} THEN S ELSE @[n]]]

\* MigrationsToBlockingResourceQuotas[key] := S, or delete it for the empty S.
setBlocking(st, m, S) ==
    [st EXCEPT !.m2b = [n \in Migrations |-> IF n = m THEN S ELSE @[n]]]

\* The quotas that keep the migration's target pod out, and what comes next.
Evaluate(w) ==
    LET m == key[w]
        l == loc[w]
        Conclude(S, fin) ==
            /\ Goto(w, "collect",
                    [l EXCEPT !.st = setBlocking(l.st, m, S), !.fin = fin])
            /\ UNCHANGED <<clusterVars, nsLock>>
        gone == l.snap # "absent" /\ m \notin vmis
        toEvaluate == /\ ~ gone
                      /\ isBlockedMigration(w)
                      /\ ~ reachedMaxParallelMigration(Node[m])
    IN  /\ pc[w] = "evaluate"
        /\ \/ gone /\ Return(w, "BackOff") /\ UNCHANGED clusterVars
           \/ ~ gone /\ ~ isBlockedMigration(w) /\ Conclude({}, "Forget")
           \/ /\ ~ gone /\ isBlockedMigration(w)
              /\ reachedMaxParallelMigration(Node[m])
              /\ Conclude({}, "AddAfterFiveSeconds")
           \/ /\ toEvaluate /\ Fault("render")
              /\ Return(w, "Immediate")
              /\ UNCHANGED <<apiVars, infVars, ops>>
           \/ /\ toEvaluate
              /\ Conclude(getCurrBlockingRQInNS(rqCache, l.st.orig, l.st.add,
                                                PodUsage),
                          "Immediate")
        /\ UNCHANGED nsCache

Collect(w) ==
    LET orig == getAllBlockingRQsInNS(rqCache, loc[w].st.m2b, loc[w].st.orig)
    IN  /\ pc[w] = "collect"
        /\ Goto(w, "checklock",
                [loc[w] EXCEPT !.st.orig = orig,
                     !.todo = getRQListToRestore(orig, loc[w].prev.orig)])
        /\ UNCHANGED <<clusterVars, nsLock, nsCache>>

\* The switch on GetLockState; the result of NamespaceLocked is not cached.
CheckLock(w) ==
    LET Known(nsLocked) ==
            /\ Goto(w, IF shouldLockNS(loc[w].st.orig) /\ ~ nsLocked
                       THEN "lock" ELSE "restore",
                    [loc[w] EXCEPT !.nsLocked = nsLocked])
            /\ UNCHANGED <<clusterVars, nsLock>>
    IN  /\ pc[w] = "checklock"
        /\ \/ nsCache # "unknown" /\ Known(nsCache = "locked")
           \/ /\ nsCache = "unknown"
              /\ NamespaceLocked(webhook) # "error"
              /\ Known(NamespaceLocked(webhook) = "locked")
           \/ /\ nsCache = "unknown"
              /\ NamespaceLocked(webhook) = "error"
              /\ Return(w, "Immediate")
              /\ UNCHANGED clusterVars
           \/ /\ nsCache = "unknown"
              /\ Fault("webhookGet")
              /\ Return(w, "Immediate")
              /\ UNCHANGED <<apiVars, infVars, ops>>
        /\ UNCHANGED nsCache

SetWebhook(exists) ==
    /\ webhook = ~ exists
    /\ webhook' = exists
    /\ UNCHANGED <<rq, vmmrq, mig, pods, vmis, tpods, tenant, infVars, ops>>

\* Mutant of both marks: nsCache is left as it is.
MarkForgotten == UNCHANGED nsCache

MarkLockStateLocked == nsCache' = "locked"
MarkLockStateUnlocked == nsCache' = "unlocked"

\* webhooklock.LockNamespace
LockNamespace(w) ==
    /\ pc[w] = "lock"
    /\ \/ /\ SetWebhook(TRUE)
          /\ MarkLockStateLocked
          /\ Goto(w, "restore", loc[w])
          /\ UNCHANGED <<nsLock, faults>>
       \/ webhook /\ Return(w, "Immediate") /\ UNCHANGED <<clusterVars, nsCache>>
       \/ /\ Fault("lock")
          /\ Return(w, "Immediate")
          /\ UNCHANGED <<apiVars, infVars, ops, nsCache>>
       \/ /\ Fault("lockLost")
          /\ SetWebhook(TRUE)
          /\ Return(w, "Immediate")
          /\ UNCHANGED nsCache

-----------------------------------------------------------------------------
\* The two loops over quotas.  Both assign to the object of the informer's
\* cache before they send it.

MutateCache(r, hard) == rqCache' = [rqCache EXCEPT ![r].hard = hard]

\* The Update is accepted when the cached object has the current version.
SendRQ(r, hard) ==
    /\ rqWatch[r] = <<>>
    /\ rq' = [rq EXCEPT ![r].hard = hard]
    /\ rqWatch' = IF MaxRqLag = 0 \/ rq' = rq THEN rqWatch
                  ELSE [rqWatch EXCEPT ![r] = Append(@, rq'[r])]
    /\ UNCHANGED <<vmmrq, webhook, mig, pods, vmis, tpods, tenant,
                   migCache, podCache, ops>>

Visited(w, r) == Goto(w, pc[w], [loc[w] EXCEPT !.todo = @ \ {r}])

UpdateRQ(w, r, hard) ==
    /\ MutateCache(r, hard)
    /\ \/ SendRQ(r, hard) /\ Visited(w, r) /\ UNCHANGED <<nsLock, faults>>
       \/ Fault("rqLost") /\ SendRQ(r, hard) /\ Return(w, "Immediate")
       \/ /\ \/ Fault("rq")
             \/ rqWatch[r] # <<>> /\ UNCHANGED faults
          /\ Return(w, "Immediate")
          /\ UNCHANGED <<apiVars, rqWatch, migCache, podCache, ops>>

\* One round of restoreOriginalRQs.
RestoreRQ(w, r) ==
    LET hard == loc[w].prev.orig[r]
        skip == ~ rqCache[r].live \/ rqCache[r].hard = hard
    IN  /\ pc[w] = "restore"
        /\ r \in loc[w].todo
        /\ \/ skip /\ Visited(w, r) /\ UNCHANGED <<clusterVars, nsLock>>
           \/ ~ skip /\ UpdateRQ(w, r, hard)
        /\ UNCHANGED nsCache

\* The lists come out of Go maps, so two entries may be in a new order.
shouldUpdateVmmrq(st, prev) ==
    {st.orig # prev.orig \/ st.m2b # prev.m2b}
        \cup (IF Cardinality(flatStringToStringMapNoDups(st.m2b)) > 1
              THEN {TRUE} ELSE {})

RecordStatus(w) ==
    LET answers == shouldUpdateVmmrq(loc[w].st, loc[w].prev)
        todo == recorded(loc[w].st.orig)
    IN  /\ pc[w] = "restore"
        /\ loc[w].todo = {}
        /\ \/ /\ FALSE \in answers
              /\ Goto(w, "raise", [loc[w] EXCEPT !.todo = todo])
              /\ UNCHANGED <<clusterVars, nsLock>>
           \/ /\ TRUE \in answers
              /\ WriteStatus(w)
              /\ pc' = [pc EXCEPT ![w] = "raise"]
              /\ loc' = [staleLocals(loc[w].vm) EXCEPT ![w].todo = todo]
              /\ UNCHANGED <<key, nsLock, dirty, waiting, faults>>
           \/ TRUE \in answers /\ StatusRefused(w)
           \/ TRUE \in answers /\ StatusReplyLost(w)
        /\ UNCHANGED nsCache

\* One round of addResourcesToRQs.
RaiseRQ(w, r) ==
    LET hard == loc[w].st.orig[r]
        raised == addResourcesToRQ(hard, loc[w].st.add)
        skip == ~ rqCache[r].live \/ rqCache[r].hard # hard
    IN  /\ pc[w] = "raise"
        /\ r \in loc[w].todo
        /\ \/ skip /\ Visited(w, r) /\ UNCHANGED <<clusterVars, nsLock>>
           \/ /\ ~ skip /\ \A x \in Resources : raised[x] <= MaxHard
              /\ UpdateRQ(w, r, raised)
        /\ UNCHANGED nsCache

\* webhooklock.UnlockNamespace when nothing is lent any more, and the return.
Finish(w) ==
    LET unlock == ~ shouldLockNS(loc[w].st.orig) /\ loc[w].nsLocked
    IN  /\ pc[w] = "raise"
        /\ loc[w].todo = {}
        /\ \/ ~ unlock /\ Return(w, loc[w].fin) /\ UNCHANGED <<clusterVars, nsCache>>
           \/ /\ unlock /\ SetWebhook(FALSE)
              /\ MarkLockStateUnlocked
              /\ Return(w, loc[w].fin)
              /\ UNCHANGED faults
           \/ /\ unlock /\ ~ webhook
              /\ Return(w, "Immediate")
              /\ UNCHANGED <<clusterVars, nsCache>>
           \/ /\ unlock /\ Fault("unlock")
              /\ Return(w, "Immediate")
              /\ UNCHANGED <<apiVars, infVars, ops, nsCache>>
           \/ /\ unlock /\ Fault("unlockLost")
              /\ SetWebhook(FALSE)
              /\ Return(w, "Immediate")
              /\ UNCHANGED nsCache

Execute(w) ==
    \/ ListVmmrqs(w) \/ SyncAdditional(w) \/ Evaluate(w) \/ Collect(w)
    \/ CheckLock(w) \/ LockNamespace(w) \/ RecordStatus(w) \/ Finish(w)
    \/ \E r \in RQs : RestoreRQ(w, r) \/ RaiseRQ(w, r)

-----------------------------------------------------------------------------
\* Events.

Enqueue(S) ==
    /\ dirty' = dirty \cup S
    /\ UNCHANGED <<pc, key, nsLock, waiting, nsCache>>

\* updateMigration and deleteMigration
SyncMigration(m) ==
    /\ migCache[m] # mig[m]
    /\ migCache' = [migCache EXCEPT ![m] = mig[m]]
    /\ Enqueue({m})
    /\ UNCHANGED <<apiVars, rqWatch, rqCache, podCache, ops, faults, loc>>

ChangeVmmrq(v, object) ==
    /\ vmmrq' = [vmmrq EXCEPT ![v] = object]
    /\ loc' = staleLocals(v)
    /\ UNCHANGED <<rq, webhook, mig, pods, vmis, tpods, tenant, infVars, faults>>

\* A new spec and updateVmmrq; the webhook does not cover this request.
EditVmmrq(v, add) ==
    /\ TenantOp("editVmmrq")
    /\ Admitted(webhook, Request("VirtualMachineMigrationResourceQuota",
                                 "UPDATE", "tenant", {}))
    /\ vmmrq[v].live
    /\ vmmrq[v].spec # add
    /\ ChangeVmmrq(v, [vmmrq[v] EXCEPT !.spec = add])
    /\ Enqueue(vmmrqKeys(migCache))

\* A new VMMRQ and addVmmrq.
CreateVmmrq(v) ==
    /\ TenantOp("createVmmrq")
    /\ Admitted(webhook, Request("VirtualMachineMigrationResourceQuota",
                                 "CREATE", "tenant", {}))
    /\ ~ vmmrq[v].live
    /\ ChangeVmmrq(v, NewVMMRQ(InitialAdd))
    /\ Enqueue(vmmrqKeys(migCache))

\* There is no handler for the deletion of a VMMRQ.
DeleteVmmrq(v) ==
    /\ TenantOp("deleteVmmrq")
    /\ Admitted(webhook, Request("VirtualMachineMigrationResourceQuota",
                                 "DELETE", "tenant", {}))
    /\ vmmrq[v].live
    /\ ChangeVmmrq(v, NoVMMRQ)
    /\ Enqueue({})

\* Every thirty seconds.
EnqueueAll ==
    /\ ~ enqueueAllKeys(migCache) \subseteq dirty
    /\ Enqueue(enqueueAllKeys(migCache))
    /\ UNCHANGED <<clusterVars, loc>>

WaitElapsed(k) ==
    /\ k \in waiting
    /\ waiting' = waiting \ {k}
    /\ dirty' = dirty \cup {k}
    /\ UNCHANGED <<clusterVars, pc, key, loc, nsLock, nsCache>>

\* The process dies (leader election lost, or any crash) and another one
\* becomes the leader, lists everything and starts its workers.
Restart ==
    /\ Fault("crash")
    /\ pc' = [w \in Workers |-> "idle"]
    /\ key' = [w \in Workers |-> Fake]
    /\ loc' = [w \in Workers |-> NoLocals]
    /\ nsLock' = {}
    /\ nsCache' = "unknown"
    /\ rqWatch' = [r \in RQs |-> <<>>]
    /\ rqCache' = rq
    /\ migCache' = mig
    /\ podCache' = pods
    /\ waiting' = {}
    /\ dirty' = startKeys(mig)
    /\ UNCHANGED <<apiVars, ops>>

Next ==
    \/ ClusterNext /\ UNCHANGED ctlVars
    \/ \E w \in Workers, k \in Keys : Get(w, k)
    \/ \E w \in Workers : Execute(w)
    \/ \E m \in Migrations : SyncMigration(m)
    \/ \E v \in VMMRQs, add \in TenantAdds : EditVmmrq(v, add)
    \/ \E v \in VMMRQs : CreateVmmrq(v) \/ DeleteVmmrq(v)
    \/ EnqueueAll
    \/ \E k \in Keys : WaitElapsed(k)
    \/ Restart

Spec == Init /\ [][Next]_vars

-----------------------------------------------------------------------------
\* Safety.

WorkerTypeOK ==
    /\ pc \in [Workers -> Points]
    /\ key \in [Workers -> Keys]
    /\ loc \in [Workers -> Locals]
    /\ nsLock \subseteq Workers
    /\ dirty \subseteq Keys
    /\ waiting \subseteq Keys

\* Every variable has its type.
TypeOK ==
    /\ ApiTypeOK
    /\ InformerTypeOK
    /\ ops \in Nat
    /\ faults \in Nat
    /\ WorkerTypeOK
    /\ nsCache \in LockStates

\* The list OriginalBlockingResourceQuotas of a VMMRQ in the API server.
ledger(v) == vmmrq[v].status.orig

\* As long as a VMMRQ records an original quota, that is from UpdateStatus
\* before the raise until UpdateStatus after the restore, the namespace is
\* locked, whichever worker, crash or failed call comes in between.
LedgerUnderLock ==
    \A v \in LiveVMMRQs : recorded(ledger(v)) # {} => webhook

\* A quota that differs from what the tenant set is recorded in a VMMRQ with
\* the tenant's value: whatever the process loses, a later execute() can still
\* give the loan back.
LoanRecorded ==
    \A r \in LiveRQs :
        rq[r].hard # tenant[r] =>
            \E v \in LiveVMMRQs :
                r \in recorded(ledger(v)) /\ ledger(v)[r] = tenant[r]

\* execute() unlocks the namespace only after restoreOriginalRQs: without the
\* webhook every quota is as the tenant set it.
QuotaIntact ==
    ~ webhook => \A r \in LiveRQs : rq[r].hard = tenant[r]

\* A new spec.hard that no tenant set comes while the namespace is locked and
\* is one a live VMMRQ vouches for: what it records or that with the additional
\* resources on top of it.
WriteCovered(r) ==
    /\ rq'[r].live
    /\ rq'[r].hard # rq[r].hard
    /\ ops' = ops
    => /\ webhook
       /\ \E v \in LiveVMMRQs :
             /\ r \in recorded(ledger(v))
             /\ rq'[r].hard \in
                  {ledger(v)[r],
                   addResourcesToRQ(ledger(v)[r], vmmrq[v].status.add)}

\* restoreOriginalRQs and addResourcesToRQs write a quota only while the
\* namespace is locked and only to a value a live VMMRQ vouches for.
QuotaWritesCovered == [][\A r \in RQs : WriteCovered(r)]_vars

-----------------------------------------------------------------------------
\* Why LedgerUnderLock and QuotaWritesCovered hold: what a worker past List
\* knows although it holds only the mutex of its own process.

\* The ledger the API server holds, as the worker remembers it: the listed one
\* until its UpdateStatus, its own one after it.
remembered(w) == IF pc[w] = "raise" THEN loc[w].st.orig ELSE loc[w].prev.orig

\* The worker has the namespace for itself, its VMMRQ is the only one with a
\* ledger, and that ledger is the one it remembers.
HolderKnows(w) ==
    LET v == loc[w].vm
    IN  /\ nsLock = {w}
        /\ \A u \in LiveVMMRQs :
              recorded(ledger(u)) # {} => u = v /\ ledger(u) = remembered(w)
        /\ recorded(remembered(w)) # {} =>
              /\ vmmrq[v].live
              /\ ledger(v) = remembered(w)
              /\ pc[w] # "sync" => vmmrq[v].status.add = loc[w].st.add

\* The worker's new ledger: the VMMRQ's when List left it alone, and covered
\* by the lock from the first loop on.
HolderPlans(w) ==
    /\ pc[w] = "sync" => loc[w].st.orig = loc[w].prev.orig
    /\ pc[w] \in {"restore", "raise"} /\ shouldLockNS(loc[w].st.orig) => webhook

\* The quotas a loop still has to visit are recorded in the ledger it is about.
VisitsRecorded(w) ==
    pc[w] \in {"checklock", "lock", "restore", "raise"} =>
        loc[w].todo \subseteq recorded(remembered(w))

CacheTruthful == nsCache = "locked" => webhook

\* The inductive invariant behind both properties: between the steps of
\* execute(), a worker's remembered ledger is the one in the API server, its
\* plan is covered by the lock, and NamespaceCache never shows a lock that is
\* not there.
IndInv ==
    /\ LedgerUnderLock
    /\ CacheTruthful
    /\ \A w \in Workers :
          /\ VisitsRecorded(w)
          /\ pc[w] \notin {"idle", "list"} => HolderKnows(w) /\ HolderPlans(w)

-----------------------------------------------------------------------------
\* Why LoanRecorded and QuotaIntact hold while the quota informer does not lag,
\* no Update of a quota fails after the cached object was changed, and the
\* tenant leaves the quotas as they are.

CacheCurrent == rqCache = rq /\ \A r \in RQs : rqWatch[r] = <<>>

\* What is recorded of the quotas that still exist is what the tenant set.
Honest(orig) == \A r \in LiveRQs \cap recorded(orig) : orig[r] = tenant[r]

\* The worker's new ledger is honest, is the listed one until Collect, and what
\* it drops from that one the first loop has given back or still has to visit.
PlanHonest(w) ==
    LET st == loc[w].st
        prev == loc[w].prev
    IN  /\ Honest(st.orig)
        /\ pc[w] \in {"sync", "evaluate", "collect"} => st.orig = prev.orig
        /\ pc[w] \in {"checklock", "lock", "restore"} =>
              \A r \in LiveRQs :
                  r \in recorded(prev.orig) \ (recorded(st.orig) \cup loc[w].todo)
                  => rq[r].hard = tenant[r]

\* The inductive invariant behind both properties: every ledger, in the API
\* server or in a worker, has the tenant's values, and a loan stays recorded
\* until restoreOriginalRQs has given it back.
LoanIndInv ==
    /\ CacheCurrent
    /\ LoanRecorded
    /\ \A v \in LiveVMMRQs : Honest(ledger(v))
    /\ \A w \in Workers : pc[w] \notin {"idle", "list"} => PlanHonest(w)

-----------------------------------------------------------------------------
\* Liveness.

\* A queued key is handed out in turn and a Go mutex does not starve, hence
\* strong fairness for Get and ListVmmrqs.  Everything else only has to go on:
\* the workers, the timers, the informers, the quota controller and
\* virt-controller.  Nothing is assumed of the tenant and of faults.
Fairness ==
    /\ \A k \in Keys : SF_vars(\E w \in Workers : Get(w, k))
    /\ \A w \in Workers : SF_vars(ListVmmrqs(w)) /\ WF_vars(Execute(w))
    /\ WF_vars(EnqueueAll \/ \E k \in Keys : WaitElapsed(k))
    /\ WF_vars(\E m \in Migrations : SyncMigration(m))
    /\ WF_vars(/\ UNCHANGED ctlVars
               /\ \/ \E r \in RQs : DeliverRQ(r)
                  \/ \E m \in Migrations : DeliverPod(m))
    /\ WF_vars(UNCHANGED ctlVars /\ \E r \in RQs : QuotaSync(r))
    /\ WF_vars(UNCHANGED ctlVars /\ \E m \in Migrations : Virt(m))

FairSpec == Spec /\ Fairness

\* execute() unlocks every namespace it has locked.
LockReleased == webhook ~> ~ webhook

\* A migration the quota rejected gets its target pod and goes on, unless it
\* is deleted.
MigrationReleased ==
    \A m \in Migrations : mig[m] = "rejected" ~> mig[m] # "rejected"
=============================================================================
