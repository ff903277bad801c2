------------------------------- MODULE Cluster -------------------------------
(***************************************************************************)
(* The surroundings of the VMMRQ controller in one tenant namespace: the   *)
(* objects the API server holds, the controller's informer caches of them, *)
(* and the external actors that change them: virt-controller, the          *)
(* Kubernetes quota controller and the tenant.                             *)
(*                                                                         *)
(* A migration is "pending", "rejected" (phase Pending with the condition  *)
(* RejectedByResourceQuota), "running" (any phase of IsRunning), "final"   *)
(* or "absent".  Every migration has its own VMI of the same name.         *)
(***************************************************************************)
EXTENDS ResourceQuotas, NamespaceLock, Sequences

CONSTANTS
    VMMRQs,      \* names a VirtualMachineMigrationResourceQuota may have
    InitialHard, \* [RQs -> ResourceList], what the tenant's quotas allow
    BaseUsed,    \* ResourceList, usage of the pods that are always there
    PodUsage,    \* ResourceList, what the quota charges for one more pod
    InitialMig,  \* [Migrations -> {"pending", "rejected"}], at first
    InitialAdd,  \* ResourceList, spec.additionalMigrationResources at first
    TenantHards, \* ResourceLists the tenant may set on a quota
    TenantAdds,  \* ResourceLists the VMMRQ's spec may be changed to
    TenantOps,   \* which kinds of tenant operations happen
    Faults,      \* which kinds of faults happen
    MaxOps,      \* bound on the number of tenant operations
    MaxFaults,   \* bound on the number of faults
    MaxHard,     \* bound on the quantities a quota is raised to; reached only
                 \* where the same quota is raised again and again
    MaxRqLag     \* bound on undelivered watch events of one quota; with 0 the
                 \* quota informer is never behind the API server

MigrationStates == {"absent", "pending", "rejected", "running", "final"}

ASSUME ClusterAssumption ==
    /\ InitialMig \in [Migrations -> {"pending", "rejected"}]
    /\ InitialHard \in [RQs -> ResourceList]
    /\ {BaseUsed, PodUsage, InitialAdd} \subseteq ResourceList
    /\ TenantHards \subseteq ResourceList
    /\ TenantAdds \subseteq ResourceList
    /\ names(PodUsage) \subseteq names(BaseUsed)
    /\ {MaxOps, MaxFaults, MaxHard, MaxRqLag} \subseteq Nat
    /\ VMMRQs # {}
    /\ IsFiniteSet(Migrations)

VARIABLES
    rq,       \* ResourceQuota objects in the API server
    vmmrq,    \* VMMRQ objects in the API server
    webhook,  \* does the namespace's ValidatingWebhookConfiguration exist
    mig,      \* state of every migration
    pods,     \* migrations whose target pod exists
    vmis,     \* migrations whose VMI exists
    tpods,    \* number of pods the tenant created
    tenant,   \* spec.hard of every quota as the tenant last set it
    rqWatch,  \* versions of every quota the informer has not received yet
    rqCache,  \* the informer's objects of the quotas, which the code mutates
    migCache, \* the informer's view of mig
    podCache, \* the informer's view of pods
    ops,      \* tenant operations left
    faults    \* faults left

apiVars == <<rq, vmmrq, webhook, mig, pods, vmis, tpods, tenant>>
infVars == <<rqWatch, rqCache, migCache, podCache>>
clusterVars == <<apiVars, infVars, ops, faults>>

Status == [add : ResourceList, m2b : BlockingMap, orig : Ledger]

EmptyStatus == [add |-> EmptyList, m2b |-> [m \in Migrations |-> {}],
                orig |-> EmptyLedger]

VMMRQObject == [live : BOOLEAN, spec : ResourceList, status : Status]

NoVMMRQ == [live |-> FALSE, spec |-> EmptyList, status |-> EmptyStatus]

NewVMMRQ(spec) == [live |-> TRUE, spec |-> spec, status |-> EmptyStatus]

DefaultVMMRQ == CHOOSE v \in VMMRQs : TRUE

InitialRQ(r) == [live |-> TRUE, hard |-> InitialHard[r],
                 statusHard |-> InitialHard[r], used |-> BaseUsed]

NoRQ == [live |-> FALSE, hard |-> EmptyList,
         statusHard |-> EmptyList, used |-> EmptyList]

\* One VMMRQ exists, nothing is lent, and every migration waits for its pod.
ClusterInit ==
    /\ rq = [r \in RQs |-> InitialRQ(r)]
    /\ vmmrq = [v \in VMMRQs |->
                  IF v = DefaultVMMRQ THEN NewVMMRQ(InitialAdd) ELSE NoVMMRQ]
    /\ webhook = FALSE
    /\ mig = InitialMig
    /\ pods = {}
    /\ vmis = Migrations
    /\ tpods = 0
    /\ tenant = InitialHard
    /\ rqWatch = [r \in RQs |-> <<>>]
    /\ rqCache = [r \in RQs |-> InitialRQ(r)]
    /\ migCache = mig
    /\ podCache = {}
    /\ ops = MaxOps
    /\ faults = MaxFaults

-----------------------------------------------------------------------------
\* The API server and its watches.

Fault(kind) == kind \in Faults /\ faults > 0 /\ faults' = faults - 1

TenantOp(kind) == kind \in TenantOps /\ ops > 0 /\ ops' = ops - 1

\* New versions of the quotas: to the watch, or at once to the cache when the
\* informer does not lag.
Publish(new) ==
    LET changed == {r \in RQs : new[r] # rq[r]}
    IN  /\ rq' = new
        /\ IF MaxRqLag = 0
           THEN /\ rqCache' = [r \in RQs |-> IF r \in changed THEN new[r]
                                             ELSE rqCache[r]]
                /\ UNCHANGED rqWatch
           ELSE /\ rqWatch' = [r \in RQs |-> IF r \in changed
                                             THEN Append(rqWatch[r], new[r])
                                             ELSE rqWatch[r]]
                /\ UNCHANGED rqCache

\* The bound on the lag: an external writer waits while the watch is full.
WatchHasRoom(S) == MaxRqLag = 0 \/ \A r \in S : Len(rqWatch[r]) < MaxRqLag

LiveRQs == {r \in RQs : rq[r].live}

addUsage(used, n) ==
    [x \in Resources |->
        IF x \in names(used) \cap names(PodUsage)
        THEN used[x] + n * PodUsage[x] ELSE used[x]]

\* The quota admission plugin lets a pod of PodUsage in.
QuotaAdmits ==
    \A r \in LiveRQs : CheckRequest(rq[r].statusHard, rq[r].used, PodUsage) = "ok"

ChargePod ==
    Publish([r \in RQs |-> IF rq[r].live
                           THEN [rq[r] EXCEPT !.used = addUsage(@, 1)]
                           ELSE rq[r]])

\* Pods beyond the ones that are always there: the tenant's, and the target
\* pods of unfinished migrations (a finished one has given up one of its two).
ActualUsed ==
    addUsage(BaseUsed,
             tpods + Cardinality({m \in pods : mig[m] # "final"}))

\* The quota controller brings the status of a quota up to date.
QuotaSync(r) ==
    /\ rq[r].live
    /\ \/ rq[r].statusHard # rq[r].hard
       \/ rq[r].used # ActualUsed
    /\ WatchHasRoom({r})
    /\ Publish([rq EXCEPT ![r].statusHard = rq[r].hard, ![r].used = ActualUsed])
    /\ UNCHANGED <<vmmrq, webhook, mig, pods, vmis, tpods, tenant,
                   migCache, podCache, ops, faults>>

-----------------------------------------------------------------------------
\* virt-controller.

TargetPodRequest ==
    Request("Pod", "CREATE", "kubevirt-controller", {"kubevirt.io/migrationJobUID"})

WantsTargetPod(m) == mig[m] \in {"pending", "rejected"} /\ m \notin pods /\ m \in vmis

VirtCreateTargetPod(m) ==
    /\ WantsTargetPod(m)
    /\ Admitted(webhook, TargetPodRequest)
    /\ QuotaAdmits
    /\ WatchHasRoom(RQs)
    /\ pods' = pods \cup {m}
    /\ ChargePod
    /\ UNCHANGED <<vmmrq, webhook, mig, vmis, tpods, tenant,
                   migCache, podCache, ops, faults>>

VirtMarkRejected(m) ==
    /\ WantsTargetPod(m)
    /\ mig[m] = "pending"
    /\ ~ QuotaAdmits
    /\ mig' = [mig EXCEPT ![m] = "rejected"]
    /\ UNCHANGED <<rq, vmmrq, webhook, pods, vmis, tpods, tenant, infVars, ops, faults>>

VirtStart(m) ==
    /\ m \in vmis
    /\ mig[m] \in {"pending", "rejected"}
    /\ m \in pods
    /\ mig' = [mig EXCEPT ![m] = "running"]
    /\ UNCHANGED <<rq, vmmrq, webhook, pods, vmis, tpods, tenant, infVars, ops, faults>>

VirtFinish(m) ==
    /\ m \in vmis
    /\ mig[m] = "running"
    /\ mig' = [mig EXCEPT ![m] = "final"]
    /\ UNCHANGED <<rq, vmmrq, webhook, pods, vmis, tpods, tenant, infVars, ops, faults>>

\* The migration of a VMI that is gone is removed.
VirtDropMigration(m) ==
    /\ mig[m] # "absent"
    /\ m \notin vmis
    /\ mig' = [mig EXCEPT ![m] = "absent"]
    /\ UNCHANGED <<rq, vmmrq, webhook, pods, vmis, tpods, tenant, infVars, ops, faults>>

Virt(m) ==
    \/ VirtCreateTargetPod(m) \/ VirtMarkRejected(m)
    \/ VirtStart(m) \/ VirtFinish(m) \/ VirtDropMigration(m)

-----------------------------------------------------------------------------
\* The tenant's operations that do not reach the controller's queue.

TenantUpdateRQ(r, h) ==
    /\ TenantOp("updateRQ")
    /\ Admitted(webhook, Request("ResourceQuota", "UPDATE", "tenant", {}))
    /\ rq[r].live
    /\ rq[r].hard # h
    /\ WatchHasRoom({r})
    /\ Publish([rq EXCEPT ![r].hard = h])
    /\ tenant' = [tenant EXCEPT ![r] = h]
    /\ UNCHANGED <<vmmrq, webhook, mig, pods, vmis, tpods,
                   migCache, podCache, faults>>

\* The webhook does not cover the deletion of a quota.
TenantDeleteRQ(r) ==
    /\ TenantOp("deleteRQ")
    /\ Admitted(webhook, Request("ResourceQuota", "DELETE", "tenant", {}))
    /\ rq[r].live
    /\ WatchHasRoom({r})
    /\ Publish([rq EXCEPT ![r] = NoRQ])
    /\ UNCHANGED <<vmmrq, webhook, mig, pods, vmis, tpods, tenant,
                   migCache, podCache, faults>>

TenantCreatePod ==
    /\ TenantOp("createPod")
    /\ Admitted(webhook, Request("Pod", "CREATE", "tenant", {}))
    /\ QuotaAdmits
    /\ WatchHasRoom(RQs)
    /\ tpods' = tpods + 1
    /\ ChargePod
    /\ UNCHANGED <<vmmrq, webhook, mig, pods, vmis, tenant,
                   migCache, podCache, faults>>

\* Deleting the migration also deletes its target pod.
DeleteMigration(m) ==
    /\ TenantOp("deleteMigration")
    /\ mig[m] # "absent"
    /\ mig' = [mig EXCEPT ![m] = "absent"]
    /\ pods' = pods \ {m}
    /\ UNCHANGED <<rq, vmmrq, webhook, vmis, tpods, tenant, infVars, faults>>

\* Deleting the VMI ends the target pod too; the migration object outlives it.
DeleteVMI(m) ==
    /\ TenantOp("deleteVMI")
    /\ m \in vmis
    /\ vmis' = vmis \ {m}
    /\ pods' = pods \ {m}
    /\ UNCHANGED <<rq, vmmrq, webhook, mig, tpods, tenant, infVars, faults>>

-----------------------------------------------------------------------------
\* Informers whose events have no handler in the controller.

DeliverRQ(r) ==
    /\ rqWatch[r] # <<>>
    /\ rqCache' = [rqCache EXCEPT ![r] = Head(rqWatch[r])]
    /\ rqWatch' = [rqWatch EXCEPT ![r] = Tail(@)]
    /\ UNCHANGED <<apiVars, migCache, podCache, ops, faults>>

DeliverPod(m) ==
    /\ (m \in pods) # (m \in podCache)
    /\ podCache' = IF m \in pods THEN podCache \cup {m} ELSE podCache \ {m}
    /\ UNCHANGED <<apiVars, rqWatch, rqCache, migCache, ops, faults>>

ClusterNext ==
    \/ \E r \in RQs : QuotaSync(r) \/ TenantDeleteRQ(r) \/ DeliverRQ(r)
    \/ \E r \in RQs, h \in TenantHards : TenantUpdateRQ(r, h)
    \/ TenantCreatePod
    \/ \E m \in Migrations :
          \/ Virt(m) \/ DeleteMigration(m) \/ DeleteVMI(m) \/ DeliverPod(m)

-----------------------------------------------------------------------------
\* The types of the objects and of the caches.

ApiTypeOK ==
    /\ rq \in [RQs -> RQObject]
    /\ vmmrq \in [VMMRQs -> VMMRQObject]
    /\ webhook \in BOOLEAN
    /\ mig \in [Migrations -> MigrationStates]
    /\ pods \subseteq Migrations
    /\ vmis \subseteq Migrations
    /\ tpods \in Nat
    /\ tenant \in [RQs -> ResourceList]

InformerTypeOK ==
    /\ rqWatch \in [RQs -> Seq(RQObject)]
    /\ rqCache \in [RQs -> RQObject]
    /\ migCache \in [Migrations -> MigrationStates]
    /\ podCache \subseteq Migrations
=============================================================================
