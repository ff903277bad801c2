----------------------- MODULE VmmrqControllerProofs -----------------------
(***************************************************************************)
(* Proofs about the VMMRQ controller, for every set of quotas, migrations, *)
(* VMMRQs and workers and every bound.                                     *)
(***************************************************************************)
EXTENDS VmmrqController, FiniteSetTheorems, TLAPS

-----------------------------------------------------------------------------
\* The operators on resource lists.

\* Raising a quota yields a resource list.
LEMMA AddType ==
    ASSUME NEW hard \in ResourceList, NEW add \in ResourceList
    PROVE  addResourcesToRQ(hard, add) \in ResourceList
  BY DEF addResourcesToRQ, ResourceList, names, Unnamed

\* Charging pods to a usage yields a resource list.
LEMMA UsageType ==
    ASSUME NEW used \in ResourceList, NEW n \in Nat
    PROVE  addUsage(used, n) \in ResourceList
<1>1. PodUsage \in ResourceList
  BY ClusterAssumption
<1>2. \A a \in Nat : n * a \in Nat
  OBVIOUS
<1> QED
  BY <1>1, <1>2 DEF addUsage, ResourceList, names, Unnamed

\* The usage the quota controller counts is a resource list.
LEMMA ActualUsedType ==
    ASSUME ApiTypeOK
    PROVE  ActualUsed \in ResourceList
<1> DEFINE S == {m \in pods : mig[m] # "final"}
<1>1. Cardinality(S) \in Nat
  <2>1. S \subseteq Migrations /\ IsFiniteSet(Migrations)
    BY ClusterAssumption DEF ApiTypeOK
  <2> QED
    BY <2>1, FS_Subset, FS_CardinalityType
<1>2. tpods + Cardinality(S) \in Nat
  BY <1>1 DEF ApiTypeOK
<1>3. BaseUsed \in ResourceList
  BY ClusterAssumption
<1> QED
  BY <1>2, <1>3, UsageType DEF ActualUsed

\* The ledger that Collect computes is a ledger.
LEMMA CollectType ==
    ASSUME NEW cache \in [RQs -> RQObject], NEW m2b \in BlockingMap,
           NEW orig \in Ledger
    PROVE  getAllBlockingRQsInNS(cache, m2b, orig) \in Ledger
  BY DEF getAllBlockingRQsInNS, Ledger, RQObject, recorded

\* A new entry for one migration leaves a status a status.
LEMMA BlockingType ==
    ASSUME NEW st \in Status, NEW m, NEW S \in SUBSET RQs
    PROVE  setBlocking(st, m, S) \in Status
  BY DEF setBlocking, Status, BlockingMap

\* The empty list, ledger, status and locals have their types.
LEMMA EmptyTypes ==
    /\ EmptyList \in ResourceList
    /\ EmptyLedger \in Ledger
    /\ EmptyStatus \in Status
    /\ NoVMMRQ \in VMMRQObject
    /\ NoRQ \in RQObject
    /\ DefaultVMMRQ \in VMMRQs
    /\ NoLocals \in Locals
<1>1. EmptyList \in ResourceList
  BY DEF EmptyList, ResourceList, Unnamed
<1>2. EmptyLedger \in Ledger
  BY DEF EmptyLedger, Ledger
<1>3. EmptyStatus \in Status
  BY <1>1, <1>2 DEF EmptyStatus, Status, BlockingMap
<1>4. NoVMMRQ \in VMMRQObject
  BY <1>1, <1>3 DEF NoVMMRQ, VMMRQObject
<1>5. NoRQ \in RQObject
  BY <1>1 DEF NoRQ, RQObject
<1>6. DefaultVMMRQ \in VMMRQs
  BY ClusterAssumption DEF DefaultVMMRQ
<1>7. NoLocals \in Locals
  BY <1>3, <1>6 DEF NoLocals, Locals, MigrationStates, EnqueueStates
<1> QED
  BY <1>1, <1>2, <1>3, <1>4, <1>5, <1>6, <1>7
-----------------------------------------------------------------------------
\* The building blocks of the actions.

\* New versions of quotas keep the types of the quotas and of their informer.
LEMMA PublishType ==
    ASSUME ApiTypeOK, InformerTypeOK, NEW new \in [RQs -> RQObject], Publish(new)
    PROVE  /\ rq' \in [RQs -> RQObject]
           /\ rqCache' \in [RQs -> RQObject]
           /\ rqWatch' \in [RQs -> Seq(RQObject)]
<1>1. rq' \in [RQs -> RQObject]
  BY DEF Publish
<1>2. rqCache' \in [RQs -> RQObject]
  BY DEF Publish, InformerTypeOK
<1>3. \A r \in RQs : Append(rqWatch[r], new[r]) \in Seq(RQObject)
  BY DEF InformerTypeOK
<1>4. rqWatch' \in [RQs -> Seq(RQObject)]
  BY <1>3 DEF Publish, InformerTypeOK
<1> QED
  BY <1>1, <1>2, <1>4

\* Charging a pod publishes quotas.
LEMMA ChargeType ==
    ASSUME ApiTypeOK, InformerTypeOK, ChargePod
    PROVE  /\ rq' \in [RQs -> RQObject]
           /\ rqCache' \in [RQs -> RQObject]
           /\ rqWatch' \in [RQs -> Seq(RQObject)]
<1> DEFINE new == [r \in RQs |-> IF rq[r].live
                                 THEN [rq[r] EXCEPT !.used = addUsage(@, 1)]
                                 ELSE rq[r]]
<1>1. \A r \in RQs : addUsage(rq[r].used, 1) \in ResourceList
  BY UsageType DEF ApiTypeOK, RQObject
<1>2. new \in [RQs -> RQObject]
  BY <1>1 DEF ApiTypeOK, RQObject
<1>3. Publish(new)
  BY DEF ChargePod
<1> QED
  BY <1>2, <1>3, PublishType

\* A worker that goes on keeps the types of the workers' variables.
LEMMA GotoType ==
    ASSUME WorkerTypeOK, NEW w \in Workers, NEW p \in Points, NEW l \in Locals,
           Goto(w, p, l), nsLock' \in SUBSET Workers
    PROVE  WorkerTypeOK'
  BY DEF WorkerTypeOK, Goto

\* So does a worker that returns.
LEMMA ReturnType ==
    ASSUME WorkerTypeOK, NEW w \in Workers, NEW e, Return(w, e)
    PROVE  WorkerTypeOK'
<1>1. Fake \in Keys /\ "idle" \in Points
  BY DEF Keys, Points
<1> QED
  BY <1>1, EmptyTypes DEF WorkerTypeOK, Return

\* Stale copies are copies.
LEMMA StaleType ==
    ASSUME WorkerTypeOK, NEW v
    PROVE  staleLocals(v) \in [Workers -> Locals]
  BY DEF WorkerTypeOK, staleLocals, Locals

-----------------------------------------------------------------------------
\* Type correctness.

\* Every handler adds keys.
LEMMA KeyTypes ==
    ASSUME NEW cache
    PROVE  /\ vmmrqKeys(cache) \subseteq Keys
           /\ enqueueAllKeys(cache) \subseteq Keys
           /\ startKeys(cache) \subseteq Keys
<1>1. RejectedMigrations(cache) \subseteq Keys
  BY DEF RejectedMigrations, Keys
<1>2. vmmrqKeys(cache) \subseteq Keys
  BY <1>1 DEF vmmrqKeys, Keys
<1>3. \A v : ledgerKeys(v) \subseteq Keys
  BY DEF ledgerKeys, Keys
<1>4. enqueueAllKeys(cache) \subseteq Keys
  BY <1>1, <1>3 DEF enqueueAllKeys
<1> QED
  BY <1>2, <1>4 DEF startKeys

\* The first state is well typed.
LEMMA TypeInit == Init => TypeOK
<1> SUFFICES ASSUME Init PROVE TypeOK
  OBVIOUS
<1>1. \A r \in RQs : InitialRQ(r) \in RQObject
  BY ClusterAssumption DEF InitialRQ, RQObject
<1>2. NewVMMRQ(InitialAdd) \in VMMRQObject
  BY ClusterAssumption, EmptyTypes DEF NewVMMRQ, VMMRQObject
<1>3. ApiTypeOK
  BY <1>1, <1>2, EmptyTypes, ClusterAssumption
  DEF Init, ClusterInit, ApiTypeOK, MigrationStates
<1>4. InformerTypeOK
  BY <1>1, <1>3 DEF Init, ClusterInit, InformerTypeOK, ApiTypeOK
<1>5. startKeys(mig) \subseteq Keys
  BY KeyTypes
<1>6. WorkerTypeOK
  BY <1>5, EmptyTypes DEF Init, WorkerTypeOK, Points, Keys
<1> QED
  BY <1>3, <1>4, <1>6, ClusterAssumption
  DEF Init, ClusterInit, TypeOK, LockStates

\* The other actors.
LEMMA TypeCluster ==
    ASSUME TypeOK, ClusterNext, UNCHANGED ctlVars
    PROVE  TypeOK'
<1> USE DEF TypeOK
<1>1. WorkerTypeOK' /\ nsCache' \in LockStates
  BY DEF ctlVars, WorkerTypeOK
<1>2. ASSUME NEW r \in RQs, QuotaSync(r) PROVE TypeOK'
  <2>1. [rq EXCEPT ![r].statusHard = rq[r].hard, ![r].used = ActualUsed]
          \in [RQs -> RQObject]
    BY ActualUsedType DEF ApiTypeOK, RQObject
  <2> QED
    BY <1>1, <1>2, <2>1, PublishType DEF QuotaSync, ApiTypeOK, InformerTypeOK
<1>3. ASSUME NEW r \in RQs, TenantDeleteRQ(r) PROVE TypeOK'
  <2>1. [rq EXCEPT ![r] = NoRQ] \in [RQs -> RQObject]
    BY EmptyTypes DEF ApiTypeOK
  <2>2. ops' \in Nat
    BY <1>3 DEF TenantDeleteRQ, TenantOp
  <2>3. Publish([rq EXCEPT ![r] = NoRQ])
    BY <1>3 DEF TenantDeleteRQ
  <2>4. /\ rq' \in [RQs -> RQObject]
        /\ rqCache' \in [RQs -> RQObject]
        /\ rqWatch' \in [RQs -> Seq(RQObject)]
    BY <2>1, <2>3, PublishType
  <2> QED
    BY <1>1, <1>3, <2>2, <2>4 DEF TenantDeleteRQ, ApiTypeOK, InformerTypeOK
<1>4. ASSUME NEW r \in RQs, DeliverRQ(r) PROVE TypeOK'
  <2>1. Head(rqWatch[r]) \in RQObject /\ Tail(rqWatch[r]) \in Seq(RQObject)
    BY <1>4 DEF DeliverRQ, InformerTypeOK
  <2> QED
    BY <1>1, <1>4, <2>1 DEF DeliverRQ, ApiTypeOK, InformerTypeOK, apiVars
<1>5. ASSUME NEW r \in RQs, NEW h \in TenantHards, TenantUpdateRQ(r, h)
      PROVE  TypeOK'
  <2>1. h \in ResourceList
    BY ClusterAssumption
  <2>2. [rq EXCEPT ![r].hard = h] \in [RQs -> RQObject]
    BY <2>1 DEF ApiTypeOK, RQObject
  <2>3. ops' \in Nat
    BY <1>5 DEF TenantUpdateRQ, TenantOp
  <2>4. Publish([rq EXCEPT ![r].hard = h])
    BY <1>5 DEF TenantUpdateRQ
  <2>5. /\ rq' \in [RQs -> RQObject]
        /\ rqCache' \in [RQs -> RQObject]
        /\ rqWatch' \in [RQs -> Seq(RQObject)]
    BY <2>2, <2>4, PublishType
  <2> QED
    BY <1>1, <1>5, <2>1, <2>3, <2>5 DEF TenantUpdateRQ, ApiTypeOK, InformerTypeOK
<1>6. CASE TenantCreatePod
  BY <1>1, <1>6, ChargeType DEF TenantCreatePod, TenantOp, ApiTypeOK, InformerTypeOK
<1>7. ASSUME NEW m \in Migrations, VirtCreateTargetPod(m) PROVE TypeOK'
  BY <1>1, <1>7, ChargeType DEF VirtCreateTargetPod, ApiTypeOK, InformerTypeOK
<1>8. ASSUME NEW m \in Migrations,
             \/ VirtMarkRejected(m) \/ VirtStart(m) \/ VirtFinish(m)
             \/ VirtDropMigration(m)
      PROVE  TypeOK'
  BY <1>1, <1>8 DEF VirtMarkRejected, VirtStart, VirtFinish, VirtDropMigration,
                    infVars, ApiTypeOK, InformerTypeOK, MigrationStates
<1>9. ASSUME NEW m \in Migrations, DeleteMigration(m) \/ DeleteVMI(m)
      PROVE  TypeOK'
  BY <1>1, <1>9 DEF DeleteMigration, DeleteVMI, TenantOp, infVars,
                    ApiTypeOK, InformerTypeOK, MigrationStates
<1>10. ASSUME NEW m \in Migrations, DeliverPod(m) PROVE TypeOK'
  BY <1>1, <1>10 DEF DeliverPod, apiVars, ApiTypeOK, InformerTypeOK
<1> QED
  BY <1>2, <1>3, <1>4, <1>5, <1>6, <1>7, <1>8, <1>9, <1>10
  DEF ClusterNext, Virt

\* A step that leaves the cluster alone, but for the budget of faults.
LEMMA FrameType ==
    ASSUME TypeOK, UNCHANGED <<apiVars, infVars, ops>>,
           UNCHANGED faults \/ (\E kind : Fault(kind))
    PROVE  ApiTypeOK' /\ InformerTypeOK' /\ ops' \in Nat /\ faults' \in Nat
<1>1. ApiTypeOK' /\ InformerTypeOK' /\ ops' \in Nat
  BY DEF TypeOK, ApiTypeOK, InformerTypeOK, apiVars, infVars
<1>2. faults' \in Nat
  BY DEF TypeOK, Fault
<1> QED
  BY <1>1, <1>2

\* A successful UpdateStatus.
LEMMA WriteStatusType ==
    ASSUME TypeOK, NEW w \in Workers, WriteStatus(w),
           UNCHANGED faults \/ (\E kind : Fault(kind))
    PROVE  ApiTypeOK' /\ InformerTypeOK' /\ ops' \in Nat /\ faults' \in Nat
<1>1. loc[w].vm \in VMMRQs /\ loc[w].st \in Status
  BY DEF TypeOK, WorkerTypeOK, Locals
<1>2. vmmrq' \in [VMMRQs -> VMMRQObject]
  BY <1>1 DEF WriteStatus, TypeOK, ApiTypeOK, VMMRQObject
<1>3. ApiTypeOK' /\ InformerTypeOK' /\ ops' \in Nat
  BY <1>2 DEF WriteStatus, TypeOK, ApiTypeOK, InformerTypeOK, infVars
<1>4. faults' \in Nat
  BY DEF TypeOK, Fault
<1> QED
  BY <1>3, <1>4

\* A change of the webhook.
LEMMA SetWebhookType ==
    ASSUME TypeOK, NEW e \in BOOLEAN, SetWebhook(e),
           UNCHANGED faults \/ (\E kind : Fault(kind))
    PROVE  ApiTypeOK' /\ InformerTypeOK' /\ ops' \in Nat /\ faults' \in Nat
<1>1. ApiTypeOK' /\ InformerTypeOK' /\ ops' \in Nat
  BY DEF SetWebhook, TypeOK, ApiTypeOK, InformerTypeOK, infVars
<1>2. faults' \in Nat
  BY DEF TypeOK, Fault
<1> QED
  BY <1>1, <1>2

\* List keeps the types.
LEMMA TypeListVmmrqs ==
    ASSUME TypeOK, NEW w \in Workers, ListVmmrqs(w)
    PROVE  TypeOK'
<1>1. CASE Fault("list") /\ Return(w, "BackOff") /\ UNCHANGED <<apiVars, infVars, ops, nsCache>>
  BY <1>1, FrameType, ReturnType DEF TypeOK
<1>2. CASE Return(w, "Forget") /\ UNCHANGED <<clusterVars, nsCache>>
  BY <1>2, FrameType, ReturnType DEF TypeOK, clusterVars
<1>3. ASSUME NEW v \in VMMRQs, NEW p \in Points,
             Goto(w, p, [loc[w] EXCEPT !.vm = v,
                                       !.st = [vmmrq[v].status EXCEPT !.add = vmmrq[v].spec],
                                       !.prev = [vmmrq[v].status EXCEPT !.add = vmmrq[v].spec],
                                       !.fresh = TRUE]),
             nsLock' = nsLock \cup {w}, UNCHANGED <<clusterVars, nsCache>>
      PROVE  TypeOK'
  <2> DEFINE st == [vmmrq[v].status EXCEPT !.add = vmmrq[v].spec]
             l == [loc[w] EXCEPT !.vm = v, !.st = st, !.prev = st, !.fresh = TRUE]
  <2>1. st \in Status
    BY DEF TypeOK, ApiTypeOK, VMMRQObject, Status
  <2>2. l \in Locals
    BY <2>1 DEF TypeOK, WorkerTypeOK, Locals
  <2>3. WorkerTypeOK'
    BY <1>3, <2>2, GotoType DEF TypeOK, WorkerTypeOK
  <2> QED
    BY <1>3, <2>3, FrameType DEF TypeOK, clusterVars
<1>4. "sync" \in Points /\ "evaluate" \in Points
  BY DEF Points
<1> QED
  BY <1>1, <1>2, <1>3, <1>4 DEF ListVmmrqs

\* A refused UpdateStatus keeps the types.
LEMMA TypeStatusRefused ==
    ASSUME TypeOK, NEW w \in Workers, UNCHANGED nsCache,
           StatusRefused(w) \/ StatusReplyLost(w)
    PROVE  TypeOK'
<1>1. CASE StatusRefused(w)
  BY <1>1, FrameType, ReturnType DEF StatusRefused, TypeOK, clusterVars
<1>2. CASE StatusReplyLost(w)
  BY <1>2, WriteStatusType, ReturnType DEF StatusReplyLost, TypeOK
<1> QED
  BY <1>1, <1>2

\* The copy of the spec into the status keeps the types.
LEMMA TypeSyncAdditional ==
    ASSUME TypeOK, NEW w \in Workers, SyncAdditional(w)
    PROVE  TypeOK'
<1>1. CASE /\ WriteStatus(w)
           /\ pc' = [pc EXCEPT ![w] = "evaluate"]
           /\ loc' = staleLocals(loc[w].vm)
           /\ UNCHANGED <<key, nsLock, dirty, waiting, faults>>
  <2>1. WorkerTypeOK'
    BY <1>1, StaleType DEF TypeOK, WorkerTypeOK, Points
  <2> QED
    BY <1>1, <2>1, WriteStatusType DEF TypeOK, SyncAdditional
<1>2. CASE StatusRefused(w) \/ StatusReplyLost(w)
  BY <1>2, TypeStatusRefused DEF SyncAdditional
<1> QED
  BY <1>1, <1>2 DEF SyncAdditional

\* The search for blocking quotas keeps the types.
LEMMA TypeEvaluate ==
    ASSUME TypeOK, NEW w \in Workers, Evaluate(w)
    PROVE  TypeOK'
<1>1. ASSUME Return(w, "BackOff") \/ Return(w, "Immediate"),
             UNCHANGED <<apiVars, infVars, ops>>,
             UNCHANGED faults \/ (\E kind : Fault(kind))
      PROVE  TypeOK'
  BY <1>1, FrameType, ReturnType DEF TypeOK, Evaluate
<1>2. ASSUME NEW S \in SUBSET RQs, NEW fin \in EnqueueStates,
             Goto(w, "collect",
                  [loc[w] EXCEPT !.st = setBlocking(loc[w].st, key[w], S),
                                 !.fin = fin]),
             UNCHANGED <<clusterVars, nsLock>>
      PROVE  TypeOK'
  <2> DEFINE l == [loc[w] EXCEPT !.st = setBlocking(loc[w].st, key[w], S), !.fin = fin]
  <2>1. setBlocking(loc[w].st, key[w], S) \in Status
    BY BlockingType DEF TypeOK, WorkerTypeOK, Locals
  <2>2. l \in Locals
    BY <2>1 DEF TypeOK, WorkerTypeOK, Locals
  <2>3. WorkerTypeOK'
    BY <1>2, <2>2, GotoType DEF TypeOK, WorkerTypeOK, Points
  <2> QED
    BY <1>2, <2>3, FrameType DEF TypeOK, clusterVars, Evaluate
<1>3. getCurrBlockingRQInNS(rqCache, loc[w].st.orig, loc[w].st.add, PodUsage) \in SUBSET RQs
  BY DEF getCurrBlockingRQInNS
<1>4. {} \in SUBSET RQs /\ {"Forget", "Immediate", "AddAfterFiveSeconds"} \subseteq EnqueueStates
  BY DEF EnqueueStates
<1> QED
  BY <1>1, <1>2, <1>3, <1>4 DEF Evaluate, clusterVars

\* The new ledger keeps the types.
LEMMA TypeCollect ==
    ASSUME TypeOK, NEW w \in Workers, Collect(w)
    PROVE  TypeOK'
<1> DEFINE orig == getAllBlockingRQsInNS(rqCache, loc[w].st.m2b, loc[w].st.orig)
           l == [loc[w] EXCEPT !.st.orig = orig,
                     !.todo = getRQListToRestore(orig, loc[w].prev.orig)]
<1>1. orig \in Ledger
  BY CollectType DEF TypeOK, WorkerTypeOK, InformerTypeOK, Locals, Status
<1>2. getRQListToRestore(orig, loc[w].prev.orig) \subseteq RQs
  BY DEF getRQListToRestore, recorded
<1> HIDE DEF orig
<1>3. l \in Locals
  BY <1>1, <1>2 DEF TypeOK, WorkerTypeOK, Locals, Status
<1>4. Goto(w, "checklock", l) /\ UNCHANGED <<clusterVars, nsLock, nsCache>>
  BY DEF Collect, orig
<1>5. WorkerTypeOK'
  BY <1>3, <1>4, GotoType DEF TypeOK, WorkerTypeOK, Points
<1> QED
  BY <1>4, <1>5, FrameType DEF TypeOK, clusterVars

\* The look at the lock state keeps the types.
LEMMA TypeCheckLock ==
    ASSUME TypeOK, NEW w \in Workers, CheckLock(w)
    PROVE  TypeOK'
<1>1. ASSUME Return(w, "Immediate"), UNCHANGED <<apiVars, infVars, ops>>,
             UNCHANGED faults \/ (\E kind : Fault(kind))
      PROVE  TypeOK'
  BY <1>1, FrameType, ReturnType DEF TypeOK, CheckLock
<1>2. ASSUME NEW b \in BOOLEAN, NEW p \in Points,
             Goto(w, p, [loc[w] EXCEPT !.nsLocked = b]),
             UNCHANGED <<clusterVars, nsLock>>
      PROVE  TypeOK'
  <2>1. [loc[w] EXCEPT !.nsLocked = b] \in Locals
    BY DEF TypeOK, WorkerTypeOK, Locals
  <2>2. WorkerTypeOK'
    BY <1>2, <2>1, GotoType DEF TypeOK, WorkerTypeOK
  <2> QED
    BY <1>2, <2>2, FrameType DEF TypeOK, clusterVars, CheckLock
<1>3. {"lock", "restore"} \subseteq Points
  BY DEF Points
<1> QED
  BY <1>1, <1>2, <1>3 DEF CheckLock, clusterVars

\* LockNamespace keeps the types.
LEMMA TypeLockNamespace ==
    ASSUME TypeOK, NEW w \in Workers, LockNamespace(w)
    PROVE  TypeOK'
<1>1. ASSUME Return(w, "Immediate"), UNCHANGED <<apiVars, infVars, ops, nsCache>>,
             UNCHANGED faults \/ (\E kind : Fault(kind))
      PROVE  TypeOK'
  BY <1>1, FrameType, ReturnType DEF TypeOK
<1>2. ASSUME SetWebhook(TRUE), Return(w, "Immediate"), Fault("lockLost"),
             UNCHANGED nsCache
      PROVE  TypeOK'
  BY <1>2, SetWebhookType, ReturnType DEF TypeOK
<1>3. ASSUME SetWebhook(TRUE), nsCache' = "locked", Goto(w, "restore", loc[w]),
             UNCHANGED <<nsLock, faults>>
      PROVE  TypeOK'
  <2>1. WorkerTypeOK'
    BY <1>3, GotoType DEF TypeOK, WorkerTypeOK, Points
  <2> QED
    BY <1>3, <2>1, SetWebhookType DEF TypeOK, LockStates
<1> QED
  BY <1>1, <1>2, <1>3 DEF LockNamespace, MarkLockStateLocked, clusterVars

\* One round of a loop over quotas.
LEMMA TypeUpdateRQ ==
    ASSUME TypeOK, NEW w \in Workers, NEW r \in RQs, NEW hard \in ResourceList,
           UpdateRQ(w, r, hard), UNCHANGED nsCache
    PROVE  TypeOK'
<1>1. rqCache' \in [RQs -> RQObject]
  BY DEF UpdateRQ, MutateCache, TypeOK, InformerTypeOK, RQObject
<1>2. ASSUME SendRQ(r, hard), UNCHANGED faults \/ (\E kind : Fault(kind))
      PROVE  ApiTypeOK' /\ InformerTypeOK' /\ ops' \in Nat /\ faults' \in Nat
  <2>1. rq' \in [RQs -> RQObject]
    BY <1>2 DEF SendRQ, TypeOK, ApiTypeOK, RQObject
  <2>2. Append(rqWatch[r], rq'[r]) \in Seq(RQObject)
    BY <2>1 DEF TypeOK, InformerTypeOK
  <2>3. rqWatch' \in [RQs -> Seq(RQObject)]
    BY <1>2, <2>2 DEF SendRQ, TypeOK, InformerTypeOK
  <2>4. faults' \in Nat
    BY <1>2 DEF TypeOK, Fault
  <2> QED
    BY <1>1, <1>2, <2>1, <2>3, <2>4 DEF SendRQ, TypeOK, ApiTypeOK, InformerTypeOK
<1>3. CASE SendRQ(r, hard) /\ Visited(w, r) /\ UNCHANGED <<nsLock, faults>>
  <2>1. [loc[w] EXCEPT !.todo = @ \ {r}] \in Locals /\ pc[w] \in Points
    BY DEF TypeOK, WorkerTypeOK, Locals
  <2>2. WorkerTypeOK'
    BY <1>3, <2>1, GotoType DEF TypeOK, WorkerTypeOK, Visited
  <2> QED
    BY <1>2, <1>3, <2>2 DEF TypeOK
<1>4. CASE Fault("rqLost") /\ SendRQ(r, hard) /\ Return(w, "Immediate")
  BY <1>2, <1>4, ReturnType DEF TypeOK
<1>5. CASE /\ Fault("rq") \/ UNCHANGED faults
           /\ Return(w, "Immediate")
           /\ UNCHANGED <<apiVars, rqWatch, migCache, podCache, ops>>
  <2>1. faults' \in Nat
    BY <1>5 DEF TypeOK, Fault
  <2>2. ApiTypeOK' /\ InformerTypeOK'
    BY <1>1, <1>5 DEF TypeOK, ApiTypeOK, InformerTypeOK, apiVars
  <2> QED
    BY <1>5, <2>1, <2>2, ReturnType DEF TypeOK
<1> QED
  BY <1>3, <1>4, <1>5 DEF UpdateRQ

\* A round that skips its quota keeps the types.
LEMMA TypeVisited ==
    ASSUME TypeOK, NEW w \in Workers, NEW r \in RQs, Visited(w, r),
           UNCHANGED <<clusterVars, nsLock, nsCache>>
    PROVE  TypeOK'
<1>1. [loc[w] EXCEPT !.todo = @ \ {r}] \in Locals /\ pc[w] \in Points
  BY DEF TypeOK, WorkerTypeOK, Locals
<1>2. WorkerTypeOK'
  BY <1>1, GotoType DEF TypeOK, WorkerTypeOK, Visited
<1> QED
  BY <1>2, FrameType DEF TypeOK, clusterVars

\* A round of restoreOriginalRQs keeps the types: it visits recorded quotas.
LEMMA TypeRestoreRQ ==
    ASSUME TypeOK, NEW w \in Workers, NEW r \in RQs, RestoreRQ(w, r),
           VisitsRecorded(w)
    PROVE  TypeOK'
<1>1. r \in recorded(loc[w].prev.orig)
  BY DEF RestoreRQ, VisitsRecorded, remembered
<1>2. loc[w].prev.orig[r] \in ResourceList
  BY <1>1 DEF recorded, TypeOK, WorkerTypeOK, Locals, Status, Ledger
<1> QED
  BY <1>2, TypeUpdateRQ, TypeVisited DEF RestoreRQ

\* A round of addResourcesToRQs keeps the types: it visits recorded quotas.
LEMMA TypeRaiseRQ ==
    ASSUME TypeOK, NEW w \in Workers, NEW r \in RQs, RaiseRQ(w, r),
           VisitsRecorded(w)
    PROVE  TypeOK'
<1>1. r \in recorded(loc[w].st.orig)
  BY DEF RaiseRQ, VisitsRecorded, remembered
<1>2. loc[w].st.orig[r] \in ResourceList /\ loc[w].st.add \in ResourceList
  BY <1>1 DEF recorded, TypeOK, WorkerTypeOK, Locals, Status, Ledger
<1>3. addResourcesToRQ(loc[w].st.orig[r], loc[w].st.add) \in ResourceList
  BY <1>2, AddType
<1> QED
  BY <1>3, TypeUpdateRQ, TypeVisited DEF RaiseRQ

\* UpdateStatus before the raise keeps the types.
LEMMA TypeRecordStatus ==
    ASSUME TypeOK, NEW w \in Workers, RecordStatus(w)
    PROVE  TypeOK'
<1> DEFINE todo == recorded(loc[w].st.orig)
<1>1. todo \subseteq RQs /\ "raise" \in Points
  BY DEF recorded, Points
<1>2. [loc[w] EXCEPT !.todo = todo] \in Locals
  BY <1>1 DEF TypeOK, WorkerTypeOK, Locals
<1>3. CASE /\ Goto(w, "raise", [loc[w] EXCEPT !.todo = todo])
           /\ UNCHANGED <<clusterVars, nsLock>>
  <2>1. WorkerTypeOK'
    BY <1>1, <1>2, <1>3, GotoType DEF TypeOK, WorkerTypeOK
  <2> QED
    BY <1>3, <2>1, FrameType DEF TypeOK, clusterVars, RecordStatus
<1>4. CASE /\ WriteStatus(w)
           /\ pc' = [pc EXCEPT ![w] = "raise"]
           /\ loc' = [staleLocals(loc[w].vm) EXCEPT ![w].todo = todo]
           /\ UNCHANGED <<key, nsLock, dirty, waiting, faults>>
  <2>1. staleLocals(loc[w].vm) \in [Workers -> Locals]
    BY StaleType DEF TypeOK
  <2>2. loc' \in [Workers -> Locals]
    BY <1>1, <1>4, <2>1 DEF Locals
  <2>3. WorkerTypeOK'
    BY <1>1, <1>4, <2>2 DEF TypeOK, WorkerTypeOK
  <2> QED
    BY <1>4, <2>3, WriteStatusType DEF TypeOK, RecordStatus
<1>5. CASE StatusRefused(w) \/ StatusReplyLost(w)
  BY <1>5, TypeStatusRefused DEF RecordStatus
<1> QED
  BY <1>3, <1>4, <1>5 DEF RecordStatus

\* The unlock and the return keep the types.
LEMMA TypeFinish ==
    ASSUME TypeOK, NEW w \in Workers, Finish(w)
    PROVE  TypeOK'
<1>1. ASSUME NEW e, Return(w, e), UNCHANGED <<apiVars, infVars, ops, nsCache>>,
             UNCHANGED faults \/ (\E kind : Fault(kind))
      PROVE  TypeOK'
  BY <1>1, FrameType, ReturnType DEF TypeOK
<1>2. ASSUME NEW e, SetWebhook(FALSE), Return(w, e),
             nsCache' = "unlocked" \/ UNCHANGED nsCache,
             UNCHANGED faults \/ (\E kind : Fault(kind))
      PROVE  TypeOK'
  BY <1>2, SetWebhookType, ReturnType DEF TypeOK, LockStates
<1> QED
  BY <1>1, <1>2 DEF Finish, MarkLockStateUnlocked, clusterVars

\* Get keeps the types.
LEMMA TypeGet ==
    ASSUME TypeOK, NEW w \in Workers, NEW k \in Keys, Get(w, k)
    PROVE  TypeOK'
<1>1. (IF k = Fake THEN "absent" ELSE migCache[k]) \in MigrationStates
  BY DEF TypeOK, InformerTypeOK, Keys, MigrationStates
<1>2. loc' \in [Workers -> Locals]
  BY <1>1 DEF Get, TypeOK, WorkerTypeOK, Locals
<1>3. WorkerTypeOK'
  BY <1>2 DEF Get, TypeOK, WorkerTypeOK, Points
<1> QED
  BY <1>3, FrameType DEF Get, TypeOK, clusterVars

\* The handlers, the timers and the restart.
LEMMA TypeEvents ==
    ASSUME TypeOK,
           \/ \E m \in Migrations : SyncMigration(m)
           \/ \E v \in VMMRQs, add \in TenantAdds : EditVmmrq(v, add)
           \/ \E v \in VMMRQs : CreateVmmrq(v) \/ DeleteVmmrq(v)
           \/ EnqueueAll
           \/ \E k \in Keys : WaitElapsed(k)
           \/ Restart
    PROVE  TypeOK'
<1>1. ASSUME NEW m \in Migrations, SyncMigration(m) PROVE TypeOK'
  BY <1>1 DEF SyncMigration, Enqueue, TypeOK, ApiTypeOK, InformerTypeOK,
              WorkerTypeOK, apiVars, Keys
<1>2. ASSUME NEW v \in VMMRQs, NEW object \in VMMRQObject, NEW S \in SUBSET Keys,
             ChangeVmmrq(v, object), Enqueue(S), \E kind : TenantOp(kind)
      PROVE  TypeOK'
  <2>1. ops' \in Nat
    BY <1>2 DEF TypeOK, TenantOp
  <2>2. ApiTypeOK' /\ InformerTypeOK' /\ faults' \in Nat
    BY <1>2 DEF ChangeVmmrq, TypeOK, ApiTypeOK, InformerTypeOK, infVars
  <2>3. WorkerTypeOK' /\ nsCache' \in LockStates
    BY <1>2, StaleType DEF ChangeVmmrq, Enqueue, TypeOK, WorkerTypeOK
  <2> QED
    BY <2>1, <2>2, <2>3 DEF TypeOK
<1>3. ASSUME NEW v \in VMMRQs, NEW add \in TenantAdds, EditVmmrq(v, add)
      PROVE  TypeOK'
  <2>1. [vmmrq[v] EXCEPT !.spec = add] \in VMMRQObject
    BY ClusterAssumption DEF TypeOK, ApiTypeOK, VMMRQObject
  <2> QED
    BY <1>2, <1>3, <2>1, KeyTypes DEF EditVmmrq
<1>4. ASSUME NEW v \in VMMRQs, CreateVmmrq(v) PROVE TypeOK'
  <2>1. NewVMMRQ(InitialAdd) \in VMMRQObject
    BY ClusterAssumption, EmptyTypes DEF NewVMMRQ, VMMRQObject
  <2> QED
    BY <1>2, <1>4, <2>1, KeyTypes DEF CreateVmmrq
<1>5. ASSUME NEW v \in VMMRQs, DeleteVmmrq(v) PROVE TypeOK'
  BY <1>2, <1>5, EmptyTypes DEF DeleteVmmrq
<1>6. CASE EnqueueAll
  <2>1. WorkerTypeOK'
    BY <1>6, KeyTypes DEF EnqueueAll, Enqueue, TypeOK, WorkerTypeOK
  <2> QED
    BY <1>6, <2>1, FrameType DEF EnqueueAll, Enqueue, TypeOK, clusterVars
<1>7. ASSUME NEW k \in Keys, WaitElapsed(k) PROVE TypeOK'
  <2>1. WorkerTypeOK'
    BY <1>7 DEF WaitElapsed, TypeOK, WorkerTypeOK
  <2> QED
    BY <1>7, <2>1, FrameType DEF WaitElapsed, TypeOK, clusterVars
<1>8. CASE Restart
  <2>1. faults' \in Nat
    BY <1>8 DEF Restart, TypeOK, Fault
  <2>2. ApiTypeOK' /\ InformerTypeOK' /\ ops' \in Nat
    BY <1>8 DEF Restart, TypeOK, ApiTypeOK, InformerTypeOK, apiVars
  <2>3. WorkerTypeOK' /\ nsCache' \in LockStates
    BY <1>8, KeyTypes, EmptyTypes
    DEF Restart, TypeOK, WorkerTypeOK, Points, Keys, LockStates
  <2> QED
    BY <2>1, <2>2, <2>3 DEF TypeOK
<1> QED
  BY <1>1, <1>3, <1>4, <1>5, <1>6, <1>7, <1>8

-----------------------------------------------------------------------------
\* The loops visit recorded quotas only; the types of the values that
\* RestoreRQ and RaiseRQ write depend on it.

Visits == \A w \in Workers : VisitsRecorded(w)

\* A worker that goes on keeps the quotas to visit recorded.
LEMMA VisitsGoto ==
    ASSUME WorkerTypeOK, Visits, NEW w \in Workers, NEW p \in Points, NEW l \in Locals,
           pc' = [pc EXCEPT ![w] = p], loc' = [loc EXCEPT ![w] = l],
           p \in {"checklock", "lock", "restore", "raise"} =>
               l.todo \subseteq recorded(IF p = "raise" THEN l.st.orig ELSE l.prev.orig)
    PROVE  Visits'
<1> SUFFICES ASSUME NEW u \in Workers PROVE VisitsRecorded(u)'
  BY DEF Visits
<1>1. CASE u = w
  BY <1>1 DEF VisitsRecorded, remembered, WorkerTypeOK
<1>2. CASE u # w
  BY <1>2 DEF Visits, VisitsRecorded, remembered, WorkerTypeOK
<1> QED
  BY <1>1, <1>2

\* A worker that returns has no quotas to visit.
LEMMA VisitsReturn ==
    ASSUME WorkerTypeOK, Visits, NEW w \in Workers, NEW e, Return(w, e)
    PROVE  Visits'
  BY VisitsGoto, EmptyTypes DEF Return, Points

\* A write of a VMMRQ changes nothing that the loops use.
LEMMA VisitsStale ==
    ASSUME WorkerTypeOK, Visits, NEW v, loc' = staleLocals(v), UNCHANGED pc
    PROVE  Visits'
<1> SUFFICES ASSUME NEW u \in Workers PROVE VisitsRecorded(u)'
  BY DEF Visits
<1>1. /\ loc'[u].todo = loc[u].todo
      /\ loc'[u].st = loc[u].st
      /\ loc'[u].prev = loc[u].prev
  BY DEF staleLocals, WorkerTypeOK, Locals
<1> QED
  BY <1>1 DEF Visits, VisitsRecorded, remembered

\* No step of execute() puts an unrecorded quota on a loop's list.
LEMMA VisitsExecute ==
    ASSUME TypeOK, TypeOK', Visits, NEW w \in Workers, Execute(w)
    PROVE  Visits'
<1>0. WorkerTypeOK
  BY DEF TypeOK
<1>1. ASSUME NEW e, Return(w, e) PROVE Visits'
  BY <1>0, <1>1, VisitsReturn
<1>2. CASE ListVmmrqs(w)
  <2>1. ASSUME NEW p \in {"evaluate", "sync"}, NEW l, Goto(w, p, l) PROVE Visits'
    <3>1. l \in Locals
      BY <1>0, <2>1 DEF Goto, TypeOK, WorkerTypeOK
    <3> QED
      BY <1>0, <2>1, <3>1, VisitsGoto DEF Goto, Points
  <2> QED
    BY <1>1, <1>2, <2>1 DEF ListVmmrqs
<1>3. CASE SyncAdditional(w)
  <2>1. CASE pc' = [pc EXCEPT ![w] = "evaluate"] /\ loc' = staleLocals(loc[w].vm)
    <3> SUFFICES ASSUME NEW u \in Workers PROVE VisitsRecorded(u)'
      BY DEF Visits
    <3>1. /\ loc'[u].todo = loc[u].todo
          /\ loc'[u].st = loc[u].st
          /\ loc'[u].prev = loc[u].prev
      BY <1>0, <2>1 DEF staleLocals, WorkerTypeOK, Locals
    <3> QED
      BY <1>0, <2>1, <3>1 DEF Visits, VisitsRecorded, remembered, WorkerTypeOK
  <2> QED
    BY <1>1, <1>3, <2>1 DEF SyncAdditional, StatusRefused, StatusReplyLost
<1>4. CASE Evaluate(w)
  <2>1. ASSUME NEW l, Goto(w, "collect", l) PROVE Visits'
    <3>1. l \in Locals
      BY <1>0, <2>1 DEF Goto, TypeOK, WorkerTypeOK
    <3> QED
      BY <1>0, <2>1, <3>1, VisitsGoto DEF Goto, Points
  <2> QED
    BY <1>1, <1>4, <2>1 DEF Evaluate
<1>5. CASE Collect(w)
  <2> DEFINE orig == getAllBlockingRQsInNS(rqCache, loc[w].st.m2b, loc[w].st.orig)
             l == [loc[w] EXCEPT !.st.orig = orig,
                       !.todo = getRQListToRestore(orig, loc[w].prev.orig)]
  <2>1. pc' = [pc EXCEPT ![w] = "checklock"] /\ loc' = [loc EXCEPT ![w] = l]
    BY <1>5 DEF Collect, Goto
  <2>2. l \in Locals
    BY <1>0, <2>1 DEF TypeOK, WorkerTypeOK
  <2>3. l.todo \subseteq recorded(l.prev.orig)
    BY <1>0 DEF WorkerTypeOK, Locals, getRQListToRestore
  <2> QED
    BY <1>0, <2>1, <2>2, <2>3, VisitsGoto DEF Points
<1>6. CASE CheckLock(w)
  <2>1. ASSUME NEW b \in BOOLEAN, NEW p \in {"lock", "restore"}, pc[w] = "checklock",
               Goto(w, p, [loc[w] EXCEPT !.nsLocked = b])
        PROVE  Visits'
    <3> DEFINE l == [loc[w] EXCEPT !.nsLocked = b]
    <3>1. l \in Locals /\ l.todo = loc[w].todo /\ l.prev = loc[w].prev
      BY <1>0 DEF WorkerTypeOK, Locals
    <3>2. loc[w].todo \subseteq recorded(loc[w].prev.orig)
      BY <2>1 DEF Visits, VisitsRecorded, remembered
    <3> QED
      BY <1>0, <2>1, <3>1, <3>2, VisitsGoto DEF Goto, Points
  <2> QED
    BY <1>1, <1>6, <2>1 DEF CheckLock
<1>7. CASE LockNamespace(w)
  <2>1. CASE pc[w] = "lock" /\ Goto(w, "restore", loc[w])
    <3>1. loc[w] \in Locals /\ loc[w].todo \subseteq recorded(loc[w].prev.orig)
      BY <1>0, <2>1 DEF Visits, VisitsRecorded, remembered, WorkerTypeOK
    <3> QED
      BY <1>0, <2>1, <3>1, VisitsGoto DEF Goto, Points
  <2> QED
    BY <1>1, <1>7, <2>1 DEF LockNamespace, MarkLockStateLocked
<1>8. ASSUME NEW r \in RQs, RestoreRQ(w, r) \/ RaiseRQ(w, r) PROVE Visits'
  <2>1. CASE Visited(w, r)
    <3> DEFINE l == [loc[w] EXCEPT !.todo = @ \ {r}]
    <3>1. /\ l \in Locals /\ pc[w] \in Points
          /\ l.todo = loc[w].todo \ {r} /\ l.st = loc[w].st /\ l.prev = loc[w].prev
      BY <1>0 DEF WorkerTypeOK, Locals
    <3>2. pc[w] \in {"restore", "raise"}
      BY <1>8 DEF RestoreRQ, RaiseRQ
    <3>3. l.todo \subseteq recorded(IF pc[w] = "raise" THEN l.st.orig ELSE l.prev.orig)
      BY <3>1, <3>2 DEF Visits, VisitsRecorded, remembered
    <3> QED
      BY <1>0, <2>1, <3>1, <3>3, VisitsGoto DEF Visited, Goto
  <2> QED
    BY <1>1, <1>8, <2>1 DEF RestoreRQ, RaiseRQ, UpdateRQ
<1>9. CASE RecordStatus(w)
  <2> DEFINE todo == recorded(loc[w].st.orig)
             l == [loc[w] EXCEPT !.todo = todo]
  <2>1. l.todo = todo /\ l.st = loc[w].st
    BY <1>0 DEF WorkerTypeOK, Locals
  <2>2. CASE Goto(w, "raise", l)
    <3>1. l \in Locals
      BY <1>0, <2>2 DEF Goto, TypeOK, WorkerTypeOK
    <3> QED
      BY <1>0, <2>1, <2>2, <3>1, VisitsGoto DEF Goto, Points
  <2>3. CASE /\ pc' = [pc EXCEPT ![w] = "raise"]
             /\ loc' = [staleLocals(loc[w].vm) EXCEPT ![w].todo = todo]
    <3> SUFFICES ASSUME NEW u \in Workers PROVE VisitsRecorded(u)'
      BY DEF Visits
    <3>1. /\ loc'[u].todo = IF u = w THEN todo ELSE loc[u].todo
          /\ loc'[u].st = loc[u].st
          /\ loc'[u].prev = loc[u].prev
      BY <1>0, <2>3 DEF staleLocals, WorkerTypeOK, Locals
    <3> QED
      BY <1>0, <2>3, <3>1 DEF Visits, VisitsRecorded, remembered, WorkerTypeOK
  <2> QED
    BY <1>1, <1>9, <2>2, <2>3 DEF RecordStatus, StatusRefused, StatusReplyLost
<1>10. CASE Finish(w)
  BY <1>1, <1>10 DEF Finish, MarkLockStateUnlocked
<1> QED
  BY <1>2, <1>3, <1>4, <1>5, <1>6, <1>7, <1>8, <1>9, <1>10 DEF Execute

\* Every step keeps the types and the lists of the loops.
LEMMA TypeNext ==
    ASSUME TypeOK, Visits, [Next]_vars
    PROVE  TypeOK' /\ Visits'
<1>1. CASE UNCHANGED vars
  BY <1>1 DEF vars, clusterVars, ctlVars, apiVars, infVars, TypeOK, ApiTypeOK,
              InformerTypeOK, WorkerTypeOK, Visits, VisitsRecorded, remembered
<1>2. CASE ClusterNext /\ UNCHANGED ctlVars
  <2>1. TypeOK'
    BY <1>2, TypeCluster
  <2> QED
    BY <1>2, <2>1 DEF ctlVars, Visits, VisitsRecorded, remembered
<1>3. ASSUME NEW w \in Workers, NEW k \in Keys, Get(w, k)
      PROVE  TypeOK' /\ Visits'
  <2>1. TypeOK'
    BY <1>3, TypeGet
  <2> DEFINE l == [loc[w] EXCEPT !.snap = IF k = Fake THEN "absent" ELSE migCache[k]]
  <2>2. /\ pc' = [pc EXCEPT ![w] = "list"]
        /\ loc' = [loc EXCEPT ![w] = l]
    BY <1>3 DEF Get
  <2>3. l \in Locals
    BY <2>1, <2>2 DEF TypeOK, WorkerTypeOK
  <2> HIDE DEF l
  <2> QED
    BY <2>1, <2>2, <2>3, VisitsGoto DEF TypeOK, Points
<1>4. ASSUME NEW w \in Workers, Execute(w)
      PROVE  TypeOK' /\ Visits'
  <2>1. TypeOK'
    BY <1>4, TypeListVmmrqs, TypeSyncAdditional, TypeEvaluate, TypeCollect,
       TypeCheckLock, TypeLockNamespace, TypeRestoreRQ, TypeRecordStatus,
       TypeRaiseRQ, TypeFinish DEF Execute, Visits
  <2> QED
    BY <1>4, <2>1, VisitsExecute
<1>5. CASE \/ \E m \in Migrations : SyncMigration(m)
           \/ \E v \in VMMRQs, add \in TenantAdds : EditVmmrq(v, add)
           \/ \E v \in VMMRQs : CreateVmmrq(v) \/ DeleteVmmrq(v)
           \/ EnqueueAll
           \/ \E k \in Keys : WaitElapsed(k)
           \/ Restart
  <2>1. TypeOK'
    BY <1>5, TypeEvents
  <2>2. CASE UNCHANGED <<pc, loc>>
    BY <2>1, <2>2 DEF Visits, VisitsRecorded, remembered
  <2>3. ASSUME NEW v, UNCHANGED pc, loc' = staleLocals(v)
        PROVE  Visits'
    BY <2>3, VisitsStale DEF TypeOK
  <2>4. CASE Restart
    BY <2>1, <2>4 DEF Restart, Visits, VisitsRecorded
  <2> QED
    BY <1>5, <2>1, <2>2, <2>3, <2>4
    DEF SyncMigration, EditVmmrq, CreateVmmrq, DeleteVmmrq, EnqueueAll,
        WaitElapsed, ChangeVmmrq, Enqueue
<1> QED
  BY <1>1, <1>2, <1>3, <1>4, <1>5 DEF Next

\* Types and the lists of the loops, together inductive.
LEMMA TypeAndVisits == Spec => [](TypeOK /\ Visits)
<1>1. Init => TypeOK /\ Visits
  <2>1. Init => Visits
    BY DEF Init, Visits, VisitsRecorded
  <2> QED
    BY <2>1, TypeInit
<1>2. TypeOK /\ Visits /\ [Next]_vars => TypeOK' /\ Visits'
  BY TypeNext
<1> QED
  BY <1>1, <1>2, PTL DEF Spec

\* Every variable of the controller and of its surroundings keeps its type,
\* whatever is interleaved: what restoreOriginalRQs and addResourcesToRQs send
\* to the API server is always a resource list, never a missing ledger entry.
THEOREM TypeCorrect == Spec => []TypeOK
  BY TypeAndVisits, PTL

-----------------------------------------------------------------------------
\* The inductive invariant.

\* The only fault it does not survive: an Unlock that took effect although
\* its reply was lost leaves NamespaceCache at "locked".
NoLostUnlock == "unlockLost" \notin Faults

Holders == \A w \in Workers :
    pc[w] \notin {"idle", "list"} => HolderKnows(w) /\ HolderPlans(w)

\* The inductive invariant by its parts.
LEMMA IndInvParts ==
    IndInv <=> LedgerUnderLock /\ CacheTruthful /\ Visits /\ Holders
  BY DEF IndInv, Visits, Holders

\* The inductive invariant holds at first.
LEMMA IndInvInit == Init => IndInv
<1> SUFFICES ASSUME Init PROVE IndInv
  OBVIOUS
<1>1. \A v \in VMMRQs : vmmrq[v].status = EmptyStatus
  BY DEF Init, ClusterInit, NewVMMRQ, NoVMMRQ
<1>2. LedgerUnderLock
  BY <1>1 DEF LedgerUnderLock, LiveVMMRQs, ledger, recorded, EmptyStatus, EmptyLedger
<1>3. CacheTruthful /\ Visits /\ Holders
  BY DEF Init, CacheTruthful, Visits, VisitsRecorded, Holders
<1> QED
  BY <1>2, <1>3, IndInvParts

\* At most one worker is between List and its return.
LEMMA HolderAlone ==
    ASSUME Holders, NEW w \in Workers, pc[w] \notin {"idle", "list"},
           NEW u \in Workers, u # w
    PROVE  pc[u] \in {"idle", "list"}
  BY DEF Holders, HolderKnows

\* A step of the holder has to establish only what the holder knows and plans.
LEMMA HolderStep ==
    ASSUME WorkerTypeOK, Holders, NEW w \in Workers, pc[w] \notin {"idle", "list"},
           NEW p, pc' = [pc EXCEPT ![w] = p],
           p \notin {"idle", "list"} => HolderKnows(w)' /\ HolderPlans(w)'
    PROVE  Holders'
<1> SUFFICES ASSUME NEW u \in Workers, pc'[u] \notin {"idle", "list"}
             PROVE  HolderKnows(u)' /\ HolderPlans(u)'
  BY DEF Holders
<1>1. u = w
  BY HolderAlone DEF WorkerTypeOK
<1> QED
  BY <1>1 DEF WorkerTypeOK

\* After the return nobody is past List.
LEMMA HolderReturn ==
    ASSUME WorkerTypeOK, Holders, NEW w \in Workers, pc[w] \notin {"idle", "list"},
           NEW e, Return(w, e)
    PROVE  Holders'
  BY HolderStep DEF Return

\* A tenant cannot delete the VMMRQ of a locked namespace.
LEMMA DeleteRefused ==
    ASSUME ApiTypeOK,
           Admitted(webhook, Request("VirtualMachineMigrationResourceQuota",
                                     "DELETE", "tenant", {}))
    PROVE  ~ webhook
  BY DEF Admitted, Request, matchesRules, Validate, validateRQCtlModification

\* NamespaceLocked answers "locked" only for a webhook that exists.
LEMMA NamespaceLockedTruthful ==
    ASSUME ApiTypeOK, NamespaceLocked(webhook) = "locked"
    PROVE  webhook
  BY DEF NamespaceLocked

\* Steps that touch neither VMMRQs nor the lock nor the workers.
LEMMA IndInvFrame ==
    ASSUME IndInv, UNCHANGED <<vmmrq, webhook, nsCache, pc, loc, nsLock>>
    PROVE  IndInv'
  BY DEF IndInv, LedgerUnderLock, CacheTruthful, LiveVMMRQs, ledger, VisitsRecorded,
         HolderKnows, HolderPlans, remembered

\* The surroundings touch neither VMMRQs nor the webhook.
LEMMA ClusterKeeps ==
    ASSUME ClusterNext
    PROVE  UNCHANGED <<vmmrq, webhook>>
  BY DEF ClusterNext, QuotaSync, TenantDeleteRQ, DeliverRQ, TenantUpdateRQ,
         TenantCreatePod, Virt, VirtCreateTargetPod, VirtMarkRejected, VirtStart,
         VirtFinish, VirtDropMigration, DeleteMigration, DeleteVMI, DeliverPod, apiVars

\* Nothing a worker does without touching VMMRQs and the webhook disturbs the
\* first two parts.
LEMMA LedgerFrame ==
    ASSUME LedgerUnderLock, CacheTruthful, UNCHANGED <<vmmrq, webhook, nsCache>>
    PROVE  LedgerUnderLock' /\ CacheTruthful'
  BY DEF LedgerUnderLock, CacheTruthful, LiveVMMRQs, ledger

\* The holder goes on and remembers the same ledger of the same VMMRQ.
LEMMA KnowsFrame ==
    ASSUME WorkerTypeOK, NEW w \in Workers, HolderKnows(w),
           UNCHANGED <<vmmrq, nsLock>>,
           pc[w] # "raise", pc[w] # "sync", pc'[w] # "raise",
           loc'[w].vm = loc[w].vm, loc'[w].prev = loc[w].prev,
           loc'[w].st.add = loc[w].st.add
    PROVE  HolderKnows(w)'
  BY DEF HolderKnows, remembered, LiveVMMRQs, ledger

\* UpdateStatus with a ledger that the lock covers.
LEMMA LedgerWrite ==
    ASSUME TypeOK, LedgerUnderLock, NEW w \in Workers, WriteStatus(w),
           recorded(loc[w].st.orig) # {} => webhook
    PROVE  /\ LedgerUnderLock'
           /\ vmmrq'[loc[w].vm].live
           /\ vmmrq'[loc[w].vm].status = loc[w].st
           /\ \A u \in VMMRQs \ {loc[w].vm} : vmmrq'[u] = vmmrq[u]
<1> DEFINE v == loc[w].vm
<1>1. v \in VMMRQs /\ vmmrq[v] \in VMMRQObject
  BY DEF TypeOK, ApiTypeOK, WorkerTypeOK, Locals
<1>2. /\ vmmrq'[v].live /\ vmmrq'[v].status = loc[w].st
      /\ \A u \in VMMRQs \ {v} : vmmrq'[u] = vmmrq[u]
      /\ webhook' = webhook
  BY <1>1 DEF WriteStatus, StatusAccepted, TypeOK, ApiTypeOK, VMMRQObject
<1>3. LedgerUnderLock'
  BY <1>1, <1>2 DEF LedgerUnderLock, LiveVMMRQs, ledger
<1> QED
  BY <1>2, <1>3

\* List preserves the inductive invariant: the worker remembers what it read.
LEMMA IndInvListVmmrqs ==
    ASSUME TypeOK, TypeOK', IndInv, Visits', NEW w \in Workers, ListVmmrqs(w)
    PROVE  IndInv'
<1>1. UNCHANGED <<vmmrq, webhook, nsCache>>
  BY DEF ListVmmrqs, clusterVars, apiVars
<1>2. LedgerUnderLock' /\ CacheTruthful'
  BY <1>1, LedgerFrame DEF IndInv
<1>3. \A u \in Workers : pc[u] \in {"idle", "list"}
  BY DEF ListVmmrqs, IndInv, HolderKnows
<1>4. CASE pc' = [pc EXCEPT ![w] = "idle"]
  <2>1. Holders'
    BY <1>3, <1>4 DEF Holders, TypeOK, WorkerTypeOK
  <2> QED
    BY <1>2, <2>1 DEF IndInv, Holders, Visits
<1>5. ASSUME NEW v \in VMMRQs, LiveVMMRQs = {v}, nsLock' = nsLock \cup {w},
             NEW st, st = [vmmrq[v].status EXCEPT !.add = vmmrq[v].spec],
             Goto(w, IF st = vmmrq[v].status THEN "evaluate" ELSE "sync",
                  [loc[w] EXCEPT !.vm = v, !.st = st, !.prev = st, !.fresh = TRUE])
      PROVE  IndInv'
  <2>1. /\ loc'[w].vm = v /\ loc'[w].st = st /\ loc'[w].prev = st
        /\ pc'[w] = IF st = vmmrq[v].status THEN "evaluate" ELSE "sync"
    BY <1>5 DEF Goto, TypeOK, WorkerTypeOK, Locals
  <2>2. st.orig = ledger(v) /\ (st = vmmrq[v].status => vmmrq[v].status.add = st.add)
    BY <1>5 DEF ledger, TypeOK, ApiTypeOK, VMMRQObject, Status
  <2>3. nsLock' = {w}
    BY <1>5 DEF ListVmmrqs
  <2>4. HolderKnows(w)'
    BY <1>1, <1>5, <2>1, <2>2, <2>3 DEF HolderKnows, remembered, LiveVMMRQs, ledger
  <2>5. HolderPlans(w)'
    BY <2>1 DEF HolderPlans
  <2>6. Holders'
    BY <1>3, <1>5, <2>4, <2>5 DEF Holders, Goto, TypeOK, WorkerTypeOK
  <2> QED
    BY <1>2, <2>6 DEF IndInv, Holders, Visits
<1> QED
  BY <1>4, <1>5 DEF ListVmmrqs, Return

\* The first UpdateStatus preserves the inductive invariant.
LEMMA IndInvSyncAdditional ==
    ASSUME TypeOK, TypeOK', IndInv, Visits', NEW w \in Workers, SyncAdditional(w)
    PROVE  IndInv'
<1> DEFINE v == loc[w].vm
<1>1. /\ pc[w] = "sync" /\ HolderKnows(w) /\ HolderPlans(w)
      /\ WorkerTypeOK /\ Holders /\ LedgerUnderLock /\ CacheTruthful
      /\ UNCHANGED nsCache
  BY IndInvParts DEF SyncAdditional, IndInv, TypeOK
<1>2. loc[w].st.orig = loc[w].prev.orig /\ remembered(w) = loc[w].prev.orig
  BY <1>1 DEF HolderPlans, remembered
<1>3. recorded(loc[w].st.orig) # {} => webhook
  BY <1>1, <1>2 DEF HolderKnows, LedgerUnderLock, LiveVMMRQs, TypeOK, WorkerTypeOK, Locals
<1>4. CASE /\ WriteStatus(w)
           /\ pc' = [pc EXCEPT ![w] = "evaluate"]
           /\ loc' = staleLocals(v)
           /\ UNCHANGED nsLock
  <2>1. /\ LedgerUnderLock' /\ vmmrq'[v].live /\ vmmrq'[v].status = loc[w].st
        /\ \A u \in VMMRQs \ {v} : vmmrq'[u] = vmmrq[u]
    BY <1>1, <1>3, <1>4, LedgerWrite
  <2>2. /\ loc'[w].vm = v /\ loc'[w].st = loc[w].st /\ loc'[w].prev = loc[w].prev
        /\ pc'[w] = "evaluate"
    BY <1>1, <1>4 DEF staleLocals, WorkerTypeOK, Locals
  <2>3. HolderKnows(w)'
    BY <1>1, <1>2, <1>4, <2>1, <2>2 DEF HolderKnows, remembered, LiveVMMRQs, ledger
  <2>4. HolderPlans(w)'
    BY <2>2 DEF HolderPlans
  <2>5. Holders'
    BY <1>1, <1>4, <2>3, <2>4, HolderStep
  <2>6. CacheTruthful'
    BY <1>1, <1>4 DEF CacheTruthful, WriteStatus
  <2> QED
    BY <2>1, <2>5, <2>6 DEF IndInv, Holders, Visits
<1>5. CASE StatusRefused(w)
  <2>1. Holders' /\ UNCHANGED <<vmmrq, webhook>>
    BY <1>1, <1>5, HolderReturn DEF StatusRefused, clusterVars, apiVars
  <2> QED
    BY <1>1, <2>1, LedgerFrame DEF IndInv, Holders, Visits
<1>6. CASE StatusReplyLost(w)
  <2>1. Holders' /\ LedgerUnderLock'
    BY <1>1, <1>3, <1>6, HolderReturn, LedgerWrite DEF StatusReplyLost
  <2>2. CacheTruthful'
    BY <1>1, <1>6 DEF CacheTruthful, StatusReplyLost, WriteStatus
  <2> QED
    BY <2>1, <2>2 DEF IndInv, Holders, Visits
<1> QED
  BY <1>4, <1>5, <1>6 DEF SyncAdditional

\* The holder returns and has left VMMRQs and the webhook alone.
LEMMA QuietReturn ==
    ASSUME TypeOK, IndInv, Visits', NEW w \in Workers, pc[w] \notin {"idle", "list"},
           NEW e, Return(w, e), UNCHANGED <<vmmrq, webhook, nsCache>>
    PROVE  IndInv'
<1>1. Holders'
  BY IndInvParts, HolderReturn DEF TypeOK
<1> QED
  BY <1>1, LedgerFrame DEF IndInv, Holders, Visits

\* The holder goes on between two loops and changes its plan at most.
LEMMA QuietGoto ==
    ASSUME TypeOK, IndInv, Visits', NEW w \in Workers,
           pc[w] \notin {"idle", "list", "sync", "raise"},
           NEW p, p \notin {"idle", "list", "sync", "raise"}, NEW l, Goto(w, p, l),
           UNCHANGED <<vmmrq, webhook, nsCache, nsLock>>,
           l.vm = loc[w].vm, l.prev = loc[w].prev, l.st.add = loc[w].st.add,
           p = "restore" /\ shouldLockNS(l.st.orig) => webhook
    PROVE  IndInv'
<1>1. /\ WorkerTypeOK /\ Holders /\ LedgerUnderLock /\ CacheTruthful
      /\ HolderKnows(w)
  BY IndInvParts DEF TypeOK, Holders
<1>2. loc'[w] = l /\ pc'[w] = p /\ pc' = [pc EXCEPT ![w] = p]
  BY <1>1 DEF Goto, WorkerTypeOK
<1>3. HolderKnows(w)'
  BY <1>1, <1>2, KnowsFrame
<1>4. HolderPlans(w)'
  BY <1>2 DEF HolderPlans
<1>5. Holders'
  BY <1>1, <1>2, <1>3, <1>4, HolderStep
<1> QED
  BY <1>1, <1>5, LedgerFrame DEF IndInv, Holders, Visits

\* A round of one of the two loops.
LEMMA QuietVisit ==
    ASSUME TypeOK, IndInv, Visits', NEW w \in Workers, pc[w] \in {"restore", "raise"},
           NEW r, Visited(w, r), UNCHANGED <<vmmrq, webhook, nsCache, nsLock>>
    PROVE  IndInv'
<1>1. /\ WorkerTypeOK /\ Holders /\ LedgerUnderLock /\ CacheTruthful
      /\ HolderKnows(w) /\ HolderPlans(w)
  BY IndInvParts DEF TypeOK, Holders
<1>2. /\ pc'[w] = pc[w] /\ pc' = [pc EXCEPT ![w] = pc[w]]
      /\ loc'[w].vm = loc[w].vm /\ loc'[w].prev = loc[w].prev /\ loc'[w].st = loc[w].st
  BY <1>1 DEF Visited, Goto, WorkerTypeOK, Locals
<1>3. HolderKnows(w)'
  BY <1>1, <1>2 DEF HolderKnows, remembered, LiveVMMRQs, ledger
<1>4. HolderPlans(w)'
  BY <1>1, <1>2 DEF HolderPlans
<1>5. Holders'
  BY <1>1, <1>2, <1>3, <1>4, HolderStep
<1> QED
  BY <1>1, <1>5, LedgerFrame DEF IndInv, Holders, Visits

\* Evaluate preserves the inductive invariant.
LEMMA IndInvEvaluate ==
    ASSUME TypeOK, IndInv, Visits', NEW w \in Workers, Evaluate(w)
    PROVE  IndInv'
<1>1. pc[w] = "evaluate" /\ UNCHANGED <<vmmrq, webhook, nsCache>>
  BY DEF Evaluate, clusterVars, apiVars
<1>2. ASSUME NEW e, Return(w, e) PROVE IndInv'
  BY <1>1, <1>2, QuietReturn
<1>3. ASSUME NEW S, NEW fin, UNCHANGED nsLock,
             Goto(w, "collect", [loc[w] EXCEPT !.st = setBlocking(loc[w].st, key[w], S),
                                               !.fin = fin])
      PROVE  IndInv'
  <2> DEFINE l == [loc[w] EXCEPT !.st = setBlocking(loc[w].st, key[w], S), !.fin = fin]
  <2>1. l.vm = loc[w].vm /\ l.prev = loc[w].prev /\ l.st.add = loc[w].st.add
    BY DEF TypeOK, WorkerTypeOK, Locals, Status, setBlocking
  <2>2. Goto(w, "collect", l)
    BY <1>3
  <2> HIDE DEF l
  <2> QED
    BY <1>1, <1>3, <2>1, <2>2, QuietGoto
<1> QED
  BY <1>2, <1>3 DEF Evaluate

\* Collect preserves the inductive invariant.
LEMMA IndInvCollect ==
    ASSUME TypeOK, IndInv, Visits', NEW w \in Workers, Collect(w)
    PROVE  IndInv'
<1> DEFINE orig == getAllBlockingRQsInNS(rqCache, loc[w].st.m2b, loc[w].st.orig)
           l == [loc[w] EXCEPT !.st.orig = orig,
                     !.todo = getRQListToRestore(orig, loc[w].prev.orig)]
<1>1. l.vm = loc[w].vm /\ l.prev = loc[w].prev /\ l.st.add = loc[w].st.add
  BY DEF TypeOK, WorkerTypeOK, Locals, Status
<1>2. /\ pc[w] = "collect" /\ Goto(w, "checklock", l)
      /\ UNCHANGED <<vmmrq, webhook, nsCache, nsLock>>
  BY DEF Collect, clusterVars, apiVars
<1> HIDE DEF l
<1> QED
  BY <1>1, <1>2, QuietGoto

\* CheckLock preserves the inductive invariant: it skips LockNamespace for a
\* ledger that needs the lock only when the webhook exists.
LEMMA IndInvCheckLock ==
    ASSUME TypeOK, IndInv, Visits', NEW w \in Workers, CheckLock(w)
    PROVE  IndInv'
<1>1. pc[w] = "checklock" /\ UNCHANGED <<vmmrq, webhook, nsCache>>
  BY DEF CheckLock, clusterVars, apiVars
<1>2. ASSUME NEW e, Return(w, e) PROVE IndInv'
  BY <1>1, <1>2, QuietReturn
<1>3. ASSUME NEW locked, locked => webhook, UNCHANGED nsLock,
             Goto(w, IF shouldLockNS(loc[w].st.orig) /\ ~ locked
                     THEN "lock" ELSE "restore",
                  [loc[w] EXCEPT !.nsLocked = locked])
      PROVE  IndInv'
  <2> DEFINE l == [loc[w] EXCEPT !.nsLocked = locked]
             p == IF shouldLockNS(loc[w].st.orig) /\ ~ locked
                  THEN "lock" ELSE "restore"
  <2>1. l.vm = loc[w].vm /\ l.prev = loc[w].prev /\ l.st = loc[w].st
    BY DEF TypeOK, WorkerTypeOK, Locals
  <2>2. Goto(w, p, l)
    BY <1>3
  <2>3. p = "restore" /\ shouldLockNS(l.st.orig) => webhook
    BY <1>3, <2>1
  <2>4. p \notin {"idle", "list", "sync", "raise"}
    OBVIOUS
  <2> HIDE DEF l, p
  <2> QED
    BY <1>1, <1>3, <2>1, <2>2, <2>3, <2>4, QuietGoto
<1>4. nsCache = "locked" => webhook
  BY DEF IndInv, CacheTruthful
<1>5. NamespaceLocked(webhook) = "locked" => webhook
  BY NamespaceLockedTruthful DEF TypeOK
<1> QED
  BY <1>2, <1>3, <1>4, <1>5 DEF CheckLock

\* LockNamespace preserves the inductive invariant.
LEMMA IndInvLockNamespace ==
    ASSUME TypeOK, IndInv, Visits', NEW w \in Workers, LockNamespace(w)
    PROVE  IndInv'
<1>1. /\ pc[w] = "lock" /\ WorkerTypeOK /\ Holders /\ LedgerUnderLock
      /\ CacheTruthful /\ HolderKnows(w)
  BY IndInvParts DEF LockNamespace, MarkLockStateLocked, TypeOK, Holders
<1>2. ASSUME NEW e, Return(w, e), UNCHANGED <<vmmrq, webhook, nsCache>>
      PROVE  IndInv'
  BY <1>1, <1>2, QuietReturn
<1>3. ASSUME SetWebhook(TRUE)
      PROVE  webhook' /\ UNCHANGED vmmrq /\ LedgerUnderLock' /\ CacheTruthful'
  BY <1>3 DEF SetWebhook, LedgerUnderLock, CacheTruthful
<1>4. CASE SetWebhook(TRUE) /\ Goto(w, "restore", loc[w]) /\ UNCHANGED nsLock
  <2>1. loc'[w] = loc[w] /\ pc'[w] = "restore" /\ pc' = [pc EXCEPT ![w] = "restore"]
    BY <1>1, <1>4 DEF Goto, WorkerTypeOK
  <2>2. HolderKnows(w)' /\ HolderPlans(w)'
    BY <1>1, <1>3, <1>4, <2>1, KnowsFrame DEF HolderPlans
  <2>3. Holders'
    BY <1>1, <2>1, <2>2, HolderStep
  <2> QED
    BY <1>3, <1>4, <2>3 DEF IndInv, Holders, Visits
<1>5. CASE SetWebhook(TRUE) /\ Return(w, "Immediate")
  BY <1>1, <1>3, <1>5, HolderReturn DEF IndInv, Holders, Visits
<1> QED
  BY <1>2, <1>4, <1>5 DEF LockNamespace, MarkLockStateLocked, clusterVars, apiVars

\* The rounds of the two loops preserve the inductive invariant.
LEMMA IndInvLoops ==
    ASSUME TypeOK, IndInv, Visits', NEW w \in Workers, NEW r \in RQs,
           RestoreRQ(w, r) \/ RaiseRQ(w, r)
    PROVE  IndInv'
<1>1. pc[w] \in {"restore", "raise"} /\ UNCHANGED nsCache
  BY DEF RestoreRQ, RaiseRQ
<1>2. ASSUME Visited(w, r), UNCHANGED <<vmmrq, webhook, nsLock>> PROVE IndInv'
  BY <1>1, <1>2, QuietVisit
<1>3. ASSUME Return(w, "Immediate"), UNCHANGED <<vmmrq, webhook>> PROVE IndInv'
  BY <1>1, <1>3, QuietReturn
<1>4. ASSUME NEW hard, UpdateRQ(w, r, hard) PROVE IndInv'
  BY <1>2, <1>3, <1>4 DEF UpdateRQ, SendRQ, apiVars
<1> QED
  BY <1>2, <1>4 DEF RestoreRQ, RaiseRQ, clusterVars, apiVars

\* RecordStatus preserves the inductive invariant: what it writes is covered by
\* the lock, and afterwards the worker remembers what it wrote.
LEMMA IndInvRecordStatus ==
    ASSUME TypeOK, TypeOK', IndInv, Visits', NEW w \in Workers, RecordStatus(w)
    PROVE  IndInv'
<1> DEFINE v == loc[w].vm
<1>1. /\ pc[w] = "restore" /\ HolderKnows(w) /\ HolderPlans(w)
      /\ WorkerTypeOK /\ Holders /\ LedgerUnderLock /\ CacheTruthful
      /\ UNCHANGED nsCache
  BY IndInvParts DEF RecordStatus, IndInv, TypeOK
<1>2. recorded(loc[w].st.orig) # {} => webhook
  BY <1>1 DEF HolderPlans, shouldLockNS
<1>3. remembered(w) = loc[w].prev.orig
  BY <1>1 DEF remembered
<1>4. CASE /\ FALSE \in shouldUpdateVmmrq(loc[w].st, loc[w].prev)
           /\ Goto(w, "raise", [loc[w] EXCEPT !.todo = recorded(loc[w].st.orig)])
           /\ UNCHANGED <<clusterVars, nsLock>>
  <2>1. UNCHANGED <<vmmrq, webhook, nsLock>>
    BY <1>4 DEF clusterVars, apiVars
  <2>2. /\ pc'[w] = "raise" /\ pc' = [pc EXCEPT ![w] = "raise"]
        /\ loc'[w].vm = v /\ loc'[w].st = loc[w].st
    BY <1>1, <1>4 DEF Goto, WorkerTypeOK, Locals
  <2>3. loc[w].st.orig = loc[w].prev.orig
    BY <1>4 DEF shouldUpdateVmmrq
  <2>4. HolderKnows(w)'
    BY <1>1, <1>3, <2>1, <2>2, <2>3 DEF HolderKnows, remembered, LiveVMMRQs, ledger
  <2>5. HolderPlans(w)'
    BY <1>1, <2>1, <2>2 DEF HolderPlans
  <2>6. Holders'
    BY <1>1, <2>2, <2>4, <2>5, HolderStep
  <2> QED
    BY <1>1, <2>1, <2>6, LedgerFrame DEF IndInv, Holders, Visits
<1>5. CASE /\ WriteStatus(w)
           /\ pc' = [pc EXCEPT ![w] = "raise"]
           /\ loc' = [staleLocals(v) EXCEPT ![w].todo = recorded(loc[w].st.orig)]
           /\ UNCHANGED nsLock
  <2>1. /\ LedgerUnderLock' /\ vmmrq'[v].live /\ vmmrq'[v].status = loc[w].st
        /\ \A u \in VMMRQs \ {v} : vmmrq'[u] = vmmrq[u]
    BY <1>1, <1>2, <1>5, LedgerWrite
  <2>2. /\ pc'[w] = "raise"
        /\ loc'[w].vm = v /\ loc'[w].st = loc[w].st
    BY <1>1, <1>5 DEF staleLocals, WorkerTypeOK, Locals
  <2>3. HolderKnows(w)'
    BY <1>1, <1>5, <2>1, <2>2 DEF HolderKnows, remembered, LiveVMMRQs, ledger
  <2>4. webhook' = webhook
    BY <1>5 DEF WriteStatus
  <2>5. HolderPlans(w)'
    BY <1>1, <2>2, <2>4 DEF HolderPlans
  <2>6. Holders'
    BY <1>1, <1>5, <2>3, <2>5, HolderStep
  <2>7. CacheTruthful'
    BY <1>1, <2>4 DEF CacheTruthful
  <2> QED
    BY <2>1, <2>6, <2>7 DEF IndInv, Holders, Visits
<1>6. CASE StatusRefused(w)
  <2>1. Return(w, "Immediate") /\ UNCHANGED <<vmmrq, webhook>>
    BY <1>6 DEF StatusRefused, clusterVars, apiVars
  <2> QED
    BY <1>1, <2>1, QuietReturn
<1>7. CASE StatusReplyLost(w)
  <2>1. Holders' /\ LedgerUnderLock'
    BY <1>1, <1>2, <1>7, HolderReturn, LedgerWrite DEF StatusReplyLost
  <2>2. CacheTruthful'
    BY <1>1, <1>7 DEF CacheTruthful, StatusReplyLost, WriteStatus
  <2> QED
    BY <2>1, <2>2 DEF IndInv, Holders, Visits
<1> QED
  BY <1>4, <1>5, <1>6, <1>7 DEF RecordStatus

\* Finish preserves the inductive invariant: it unlocks only when the ledger it
\* remembers, and so every ledger, is empty.
LEMMA IndInvFinish ==
    ASSUME NoLostUnlock, TypeOK, IndInv, Visits', NEW w \in Workers, Finish(w)
    PROVE  IndInv'
<1>1. /\ pc[w] = "raise" /\ WorkerTypeOK /\ Holders /\ LedgerUnderLock
      /\ CacheTruthful /\ HolderKnows(w)
  BY IndInvParts DEF Finish, MarkLockStateUnlocked, TypeOK, Holders
<1>2. ASSUME NEW e, Return(w, e), UNCHANGED <<vmmrq, webhook, nsCache>>
      PROVE  IndInv'
  BY <1>1, <1>2, QuietReturn
<1>3. ASSUME NEW e, Return(w, e), SetWebhook(FALSE), nsCache' = "unlocked",
             ~ shouldLockNS(loc[w].st.orig)
      PROVE  IndInv'
  <2>1. \A u \in LiveVMMRQs : recorded(ledger(u)) = {}
    BY <1>1, <1>3 DEF HolderKnows, remembered, shouldLockNS
  <2>2. LedgerUnderLock'
    BY <1>3, <2>1 DEF SetWebhook, LedgerUnderLock, LiveVMMRQs, ledger
  <2>3. CacheTruthful'
    BY <1>3 DEF CacheTruthful
  <2> QED
    BY <1>1, <1>3, <2>2, <2>3, HolderReturn DEF IndInv, Holders, Visits
<1>4. ~ Fault("unlockLost")
  BY DEF Fault, NoLostUnlock
<1> QED
  BY <1>2, <1>3, <1>4 DEF Finish, MarkLockStateUnlocked, clusterVars, apiVars

\* Get preserves the inductive invariant.
LEMMA IndInvGet ==
    ASSUME TypeOK, IndInv, Visits', NEW w \in Workers, NEW k \in Keys, Get(w, k)
    PROVE  IndInv'
<1>1. /\ pc[w] = "idle" /\ pc' = [pc EXCEPT ![w] = "list"] /\ WorkerTypeOK /\ Holders
      /\ UNCHANGED <<vmmrq, webhook, nsCache, nsLock>>
      /\ \A u \in Workers \ {w} : loc'[u] = loc[u]
  BY IndInvParts DEF Get, TypeOK, WorkerTypeOK, clusterVars, apiVars
<1>2. Holders'
  <2> SUFFICES ASSUME NEW u \in Workers, pc'[u] \notin {"idle", "list"}
               PROVE  HolderKnows(u)' /\ HolderPlans(u)'
    BY DEF Holders
  <2>1. u # w /\ pc'[u] = pc[u] /\ loc'[u] = loc[u]
    BY <1>1 DEF WorkerTypeOK
  <2>2. HolderKnows(u) /\ HolderPlans(u)
    BY <1>1, <2>1 DEF Holders
  <2> QED
    BY <1>1, <2>1, <2>2 DEF HolderKnows, HolderPlans, remembered, LiveVMMRQs, ledger
<1> QED
  BY <1>1, <1>2, LedgerFrame DEF IndInv, Holders, Visits

\* A tenant's change of a VMMRQ preserves the inductive invariant when it
\* touches no ledger, or when no VMMRQ has one.
LEMMA IndInvChangeVmmrq ==
    ASSUME TypeOK, TypeOK', IndInv, Visits', NEW v \in VMMRQs, NEW object,
           ChangeVmmrq(v, object), UNCHANGED <<pc, nsLock, nsCache>>,
           \/ object.live = vmmrq[v].live /\ object.status = vmmrq[v].status
           \/ /\ recorded(object.status.orig) = {}
              /\ ~ vmmrq[v].live \/ ~ webhook
    PROVE  IndInv'
<1>1. /\ LedgerUnderLock /\ CacheTruthful /\ Holders /\ WorkerTypeOK
      /\ vmmrq'[v] = object /\ \A u \in VMMRQs \ {v} : vmmrq'[u] = vmmrq[u]
      /\ webhook' = webhook
  BY IndInvParts DEF TypeOK, ApiTypeOK, ChangeVmmrq
<1>2. \A u \in Workers : /\ loc'[u].vm = loc[u].vm /\ loc'[u].st = loc[u].st
                          /\ loc'[u].prev = loc[u].prev /\ loc[u].vm \in VMMRQs
  BY <1>1 DEF ChangeVmmrq, staleLocals, WorkerTypeOK, Locals
<1>3. LedgerUnderLock' /\ CacheTruthful'
  BY <1>1 DEF LedgerUnderLock, CacheTruthful, LiveVMMRQs, ledger
<1>4. Holders'
  <2> SUFFICES ASSUME NEW w \in Workers, pc[w] \notin {"idle", "list"}
               PROVE  HolderKnows(w)' /\ HolderPlans(w)'
    BY DEF Holders
  <2>1. HolderKnows(w) /\ HolderPlans(w)
    BY <1>1 DEF Holders
  <2>2. HolderPlans(w)'
    BY <1>1, <1>2, <2>1 DEF HolderPlans
  <2>3. remembered(w)' = remembered(w)
    BY <1>2 DEF remembered
  <2>4. CASE object.live = vmmrq[v].live /\ object.status = vmmrq[v].status
    BY <1>1, <1>2, <2>1, <2>2, <2>3, <2>4 DEF HolderKnows, LiveVMMRQs, ledger
  <2>5. CASE recorded(object.status.orig) = {} /\ ~ vmmrq[v].live
    BY <1>1, <1>2, <2>1, <2>2, <2>3, <2>5 DEF HolderKnows, LiveVMMRQs, ledger
  <2>6. CASE recorded(object.status.orig) = {} /\ ~ webhook
    <3>1. \A u \in LiveVMMRQs : recorded(ledger(u)) = {}
      BY <1>1, <2>6 DEF LedgerUnderLock
    <3>2. recorded(remembered(w)) = {}
      BY <1>2, <2>1, <3>1 DEF HolderKnows, LiveVMMRQs
    <3> QED
      BY <1>1, <1>2, <2>1, <2>2, <2>3, <2>6, <3>1, <3>2
         DEF HolderKnows, LiveVMMRQs, ledger
  <2> QED
    BY <2>4, <2>5, <2>6
<1> QED
  BY <1>3, <1>4 DEF IndInv, Holders, Visits

\* The tenant's operations on VMMRQs preserve the inductive invariant.
LEMMA IndInvVmmrqEvents ==
    ASSUME TypeOK, TypeOK', IndInv, Visits', NEW v \in VMMRQs,
           \/ \E add \in TenantAdds : EditVmmrq(v, add)
           \/ CreateVmmrq(v)
           \/ DeleteVmmrq(v)
    PROVE  IndInv'
<1>1. CASE \E add \in TenantAdds : EditVmmrq(v, add)
  <2>1. PICK add \in TenantAdds : EditVmmrq(v, add)
    BY <1>1
  <2> DEFINE object == [vmmrq[v] EXCEPT !.spec = add]
  <2>2. ChangeVmmrq(v, object) /\ UNCHANGED <<pc, nsLock, nsCache>>
    BY <2>1 DEF EditVmmrq, Enqueue
  <2>3. object.live = vmmrq[v].live /\ object.status = vmmrq[v].status
    BY DEF TypeOK, ApiTypeOK, VMMRQObject
  <2> HIDE DEF object
  <2> QED
    BY <2>2, <2>3, IndInvChangeVmmrq
<1>2. recorded(EmptyStatus.orig) = {}
  BY DEF EmptyStatus, EmptyLedger, recorded
<1>3. CASE CreateVmmrq(v)
  <2>1. /\ ChangeVmmrq(v, NewVMMRQ(InitialAdd)) /\ UNCHANGED <<pc, nsLock, nsCache>>
        /\ ~ vmmrq[v].live
    BY <1>3 DEF CreateVmmrq, Enqueue
  <2>2. recorded(NewVMMRQ(InitialAdd).status.orig) = {}
    BY <1>2 DEF NewVMMRQ
  <2> QED
    BY <2>1, <2>2, IndInvChangeVmmrq
<1>4. CASE DeleteVmmrq(v)
  <2>1. /\ ChangeVmmrq(v, NoVMMRQ) /\ UNCHANGED <<pc, nsLock, nsCache>>
        /\ Admitted(webhook, Request("VirtualMachineMigrationResourceQuota",
                                     "DELETE", "tenant", {}))
    BY <1>4 DEF DeleteVmmrq, Enqueue
  <2>2. ~ webhook
    BY <2>1, DeleteRefused DEF TypeOK
  <2>3. recorded(NoVMMRQ.status.orig) = {}
    BY <1>2 DEF NoVMMRQ
  <2> QED
    BY <2>1, <2>2, <2>3, IndInvChangeVmmrq
<1> QED
  BY <1>1, <1>3, <1>4

\* A restart preserves the inductive invariant: nobody remembers anything.
LEMMA IndInvRestart ==
    ASSUME IndInv, Visits', Restart
    PROVE  IndInv'
<1>1. Holders' /\ CacheTruthful'
  BY DEF Restart, Holders, CacheTruthful
<1>2. LedgerUnderLock'
  BY DEF Restart, apiVars, IndInv, LedgerUnderLock, LiveVMMRQs, ledger
<1> QED
  BY <1>1, <1>2 DEF IndInv, Holders, Visits

\* Every step preserves the inductive invariant.
LEMMA IndInvNext ==
    ASSUME NoLostUnlock, TypeOK, TypeOK', IndInv, Visits', [Next]_vars
    PROVE  IndInv'
<1>1. CASE UNCHANGED vars
  BY <1>1, IndInvFrame DEF vars, clusterVars, apiVars, ctlVars
<1>2. CASE ClusterNext /\ UNCHANGED ctlVars
  BY <1>2, ClusterKeeps, IndInvFrame DEF ctlVars
<1>3. CASE \E w \in Workers, k \in Keys : Get(w, k)
  BY <1>3, IndInvGet
<1>4. ASSUME NEW w \in Workers, Execute(w) PROVE IndInv'
  BY <1>4, IndInvListVmmrqs, IndInvSyncAdditional, IndInvEvaluate, IndInvCollect,
     IndInvCheckLock, IndInvLockNamespace, IndInvRecordStatus, IndInvFinish,
     IndInvLoops DEF Execute
<1>5. CASE \E m \in Migrations : SyncMigration(m)
  BY <1>5, IndInvFrame DEF SyncMigration, Enqueue, apiVars
<1>6. CASE \E v \in VMMRQs : \/ \E add \in TenantAdds : EditVmmrq(v, add)
                             \/ CreateVmmrq(v) \/ DeleteVmmrq(v)
  BY <1>6, IndInvVmmrqEvents
<1>7. CASE EnqueueAll \/ \E k \in Keys : WaitElapsed(k)
  BY <1>7, IndInvFrame DEF EnqueueAll, WaitElapsed, Enqueue, clusterVars, apiVars
<1>8. CASE Restart
  BY <1>8, IndInvRestart
<1> QED
  BY <1>1, <1>2, <1>3, <1>4, <1>5, <1>6, <1>7, <1>8 DEF Next

\* What a worker past List remembers of the VMMRQ's ledger is what the API
\* server holds, and its plan is covered by the lock, although the mutex it
\* holds keeps nobody outside its process away.
THEOREM WorkerMemory ==
    ASSUME NoLostUnlock
    PROVE  Spec => []IndInv
<1>1. Init => IndInv
  BY IndInvInit
<1>2. TypeOK /\ TypeOK' /\ Visits' /\ IndInv /\ [Next]_vars => IndInv'
  BY IndInvNext
<1>3. Spec => [](TypeOK /\ Visits)
  BY TypeAndVisits
<1> QED
  BY <1>1, <1>2, <1>3, PTL DEF Spec

\* As long as a VMMRQ records an original quota, the namespace is locked.
THEOREM LedgersUnderLock ==
    ASSUME NoLostUnlock
    PROVE  Spec => []LedgerUnderLock
<1>1. IndInv => LedgerUnderLock
  BY DEF IndInv
<1> QED
  BY <1>1, WorkerMemory, PTL

\* The surroundings change no spec.hard without a tenant's operation.
LEMMA ClusterWrites ==
    ASSUME TypeOK, ClusterNext, ops' = ops, NEW r \in RQs
    PROVE  rq'[r].hard = rq[r].hard
<1>1. ASSUME NEW kind, TenantOp(kind) PROVE FALSE
  <2>1. ops \in Nat /\ ops' = ops - 1
    BY <1>1 DEF TenantOp, TypeOK
  <2> QED
    BY <2>1
<1>2. ASSUME NEW s \in RQs, QuotaSync(s) PROVE rq'[r].hard = rq[r].hard
  BY <1>2 DEF QuotaSync, Publish, TypeOK, ApiTypeOK, RQObject
<1>3. ASSUME ChargePod PROVE rq'[r].hard = rq[r].hard
  BY <1>3 DEF ChargePod, Publish, TypeOK, ApiTypeOK, RQObject
<1>4. ASSUME NEW m \in Migrations, Virt(m) PROVE rq'[r].hard = rq[r].hard
  BY <1>3, <1>4 DEF Virt, VirtCreateTargetPod, VirtMarkRejected, VirtStart, VirtFinish,
                    VirtDropMigration
<1>5. ASSUME NEW s \in RQs, DeliverRQ(s) PROVE rq' = rq
  BY <1>5 DEF DeliverRQ, apiVars
<1>6. ASSUME NEW m \in Migrations, DeliverPod(m) PROVE rq' = rq
  BY <1>6 DEF DeliverPod, apiVars
<1> QED
  BY <1>1, <1>2, <1>4, <1>5, <1>6
     DEF ClusterNext, TenantDeleteRQ, TenantUpdateRQ, TenantCreatePod, DeleteMigration,
         DeleteVMI

\* The Update of a round of one of the two loops is covered by the ledger the
\* worker remembers.
LEMMA LoopWrites ==
    ASSUME TypeOK, IndInv, NEW w \in Workers, NEW s \in RQs,
           RestoreRQ(w, s) \/ RaiseRQ(w, s), NEW r \in RQs, rq'[r].hard # rq[r].hard
    PROVE  WriteCovered(r)
<1> DEFINE v == loc[w].vm
           h == remembered(w)[s]
<1>1. PICK hard : /\ rq' = [rq EXCEPT ![s].hard = hard]
                  /\ s \in loc[w].todo
                  /\ \/ pc[w] = "restore" /\ hard = loc[w].prev.orig[s]
                     \/ /\ pc[w] = "raise"
                        /\ hard = addResourcesToRQ(loc[w].st.orig[s], loc[w].st.add)
  BY DEF RestoreRQ, RaiseRQ, UpdateRQ, SendRQ, clusterVars, apiVars
<1>2. r = s /\ rq'[r].hard = hard
  BY <1>1 DEF TypeOK, ApiTypeOK, RQObject
<1>3. HolderKnows(w) /\ VisitsRecorded(w) /\ LedgerUnderLock
  BY <1>1 DEF IndInv
<1>4. s \in recorded(remembered(w))
  BY <1>1, <1>3 DEF VisitsRecorded
<1>5. v \in LiveVMMRQs /\ ledger(v) = remembered(w) /\ vmmrq[v].status.add = loc[w].st.add
  BY <1>1, <1>3, <1>4 DEF HolderKnows, LiveVMMRQs, TypeOK, WorkerTypeOK, Locals
<1>6. webhook
  BY <1>3, <1>4, <1>5 DEF LedgerUnderLock
<1>7. hard \in {ledger(v)[s], addResourcesToRQ(ledger(v)[s], vmmrq[v].status.add)}
  BY <1>1, <1>5 DEF remembered
<1> QED
  BY <1>2, <1>4, <1>5, <1>6, <1>7 DEF WriteCovered

\* The other steps of the controller leave the quotas alone.
LEMMA OtherWrites ==
    ASSUME [Next]_vars
    PROVE  \/ UNCHANGED rq
           \/ ClusterNext
           \/ \E w \in Workers, s \in RQs : RestoreRQ(w, s) \/ RaiseRQ(w, s)
<1>1. ASSUME NEW w \in Workers, Execute(w),
             ~ \E s \in RQs : RestoreRQ(w, s) \/ RaiseRQ(w, s)
      PROVE  UNCHANGED rq
  <2>1. ListVmmrqs(w) \/ Evaluate(w) \/ Collect(w) \/ CheckLock(w) => UNCHANGED rq
    BY DEF ListVmmrqs, Evaluate, Collect, CheckLock, clusterVars, apiVars
  <2>2. SyncAdditional(w) \/ RecordStatus(w) => UNCHANGED rq
    BY DEF SyncAdditional, RecordStatus, StatusRefused, StatusReplyLost, WriteStatus,
           clusterVars, apiVars
  <2>3. LockNamespace(w) \/ Finish(w) => UNCHANGED rq
    BY DEF LockNamespace, MarkLockStateLocked, Finish, MarkLockStateUnlocked, SetWebhook, clusterVars, apiVars
  <2> QED
    BY <1>1, <2>1, <2>2, <2>3 DEF Execute
<1>2. ASSUME NEW v \in VMMRQs,
             \/ \E add \in TenantAdds : EditVmmrq(v, add)
             \/ CreateVmmrq(v)
             \/ DeleteVmmrq(v)
      PROVE  UNCHANGED rq
  BY <1>2 DEF EditVmmrq, CreateVmmrq, DeleteVmmrq, ChangeVmmrq
<1>3. \/ UNCHANGED vars \/ EnqueueAll \/ Restart
      \/ \E w \in Workers, k \in Keys : Get(w, k)
      \/ \E m \in Migrations : SyncMigration(m)
      \/ \E k \in Keys : WaitElapsed(k)
      => UNCHANGED rq
  BY DEF vars, EnqueueAll, Restart, Get, SyncMigration, WaitElapsed, clusterVars, apiVars
<1> QED
  BY <1>1, <1>2, <1>3 DEF Next

\* Whatever crashes, conflicts and tenants do in between, the controller writes
\* a quota only under the lock, and only back to the recorded value or to the
\* recorded value with the additional resources.
THEOREM QuotaWritesAreCovered ==
    ASSUME NoLostUnlock
    PROVE  Spec => QuotaWritesCovered
<1>1. TypeOK /\ IndInv /\ [Next]_vars => [\A r \in RQs : WriteCovered(r)]_vars
  <2> SUFFICES ASSUME TypeOK, IndInv, [Next]_vars, NEW r \in RQs PROVE WriteCovered(r)
    OBVIOUS
  <2>1. CASE rq'[r].hard = rq[r].hard \/ ops' # ops
    BY <2>1 DEF WriteCovered
  <2>2. CASE rq'[r].hard # rq[r].hard /\ ops' = ops
    BY <2>2, OtherWrites, ClusterWrites, LoopWrites
  <2> QED
    BY <2>1, <2>2
<1> QED
  BY <1>1, WorkerMemory, TypeCorrect, PTL DEF Spec, QuotaWritesCovered
=============================================================================
