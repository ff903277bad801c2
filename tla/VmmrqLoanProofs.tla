--------------------------- MODULE VmmrqLoanProofs ---------------------------
(***************************************************************************)
(* The VMMRQ controller lends and gives back: no loan is forgotten, and    *)
(* every step is one of QuotaLoan.                                         *)
(***************************************************************************)
EXTENDS VmmrqLoan, VmmrqControllerProofs

\* Where the loans are safe.  Each conjunct leaves out one way to lose a loan
\* that the code does not defend against: an Unlock whose reply is lost, a
\* quota informer behind the API server, an Update that fails after the cached
\* object was changed, a tenant's update between Collect and LockNamespace.
Reliable ==
    /\ NoLostUnlock
    /\ MaxRqLag = 0
    /\ "rq" \notin Faults
    /\ "updateRQ" \notin TenantOps

\* No quota appears, no spec.hard changes.
QuotasKept ==
    /\ tenant' = tenant
    /\ \A r \in LiveRQs' : r \in LiveRQs /\ rq'[r].hard = rq[r].hard

LedgersHonest == \A v \in LiveVMMRQs : Honest(ledger(v))

Plans == \A w \in Workers : pc[w] \notin {"idle", "list"} => PlanHonest(w)

-----------------------------------------------------------------------------
\* Steps that leave every spec.hard alone.

\* A new version of a quota reaches a cache that does not lag at once.
LEMMA PublishCurrent ==
    ASSUME MaxRqLag = 0, TypeOK, CacheCurrent, NEW new \in [RQs -> RQObject], Publish(new)
    PROVE  rq' = new /\ CacheCurrent'
<1>1. rq' = new /\ rqWatch' = rqWatch
  BY DEF Publish
<1>2. rqCache' = [r \in RQs |-> IF new[r] # rq[r] THEN new[r] ELSE rq[r]]
  BY DEF Publish, CacheCurrent
<1>3. rqCache' = new
  BY <1>2
<1> QED
  BY <1>1, <1>3 DEF CacheCurrent

\* So do the new usages when a pod is charged.
LEMMA ChargeKeeps ==
    ASSUME MaxRqLag = 0, TypeOK, CacheCurrent, ChargePod
    PROVE  /\ CacheCurrent'
           /\ \A r \in RQs : rq'[r].live = rq[r].live /\ rq'[r].hard = rq[r].hard
<1> DEFINE new == [r \in RQs |-> IF rq[r].live
                                 THEN [rq[r] EXCEPT !.used = addUsage(@, 1)]
                                 ELSE rq[r]]
<1>1. \A r \in RQs : addUsage(rq[r].used, 1) \in ResourceList
  BY UsageType DEF TypeOK, ApiTypeOK, RQObject
<1>2. new \in [RQs -> RQObject]
  BY <1>1 DEF TypeOK, ApiTypeOK, RQObject
<1>3. \A r \in RQs : new[r].live = rq[r].live /\ new[r].hard = rq[r].hard
  BY DEF TypeOK, ApiTypeOK, RQObject
<1>4. Publish(new)
  BY DEF ChargePod
<1> HIDE DEF new
<1> QED
  BY <1>2, <1>3, <1>4, PublishCurrent

\* The quota controller changes the status of a quota only.
LEMMA SyncKeeps ==
    ASSUME MaxRqLag = 0, TypeOK, CacheCurrent, NEW s \in RQs, QuotaSync(s)
    PROVE  /\ CacheCurrent'
           /\ \A r \in RQs : rq'[r].live = rq[r].live /\ rq'[r].hard = rq[r].hard
<1> DEFINE new == [rq EXCEPT ![s].statusHard = rq[s].hard, ![s].used = ActualUsed]
<1>1. ActualUsed \in ResourceList
  BY ActualUsedType DEF TypeOK
<1>2. new \in [RQs -> RQObject]
  BY <1>1 DEF TypeOK, ApiTypeOK, RQObject
<1>3. \A r \in RQs : new[r].live = rq[r].live /\ new[r].hard = rq[r].hard
  BY DEF TypeOK, ApiTypeOK, RQObject
<1>4. Publish(new)
  BY DEF QuotaSync
<1> HIDE DEF new
<1> QED
  BY <1>2, <1>3, <1>4, PublishCurrent

\* A quota the tenant deletes is gone; the others are as they were.
LEMMA DeleteKeeps ==
    ASSUME MaxRqLag = 0, TypeOK, CacheCurrent, NEW s \in RQs, TenantDeleteRQ(s)
    PROVE  /\ CacheCurrent'
           /\ ~ rq'[s].live
           /\ \A r \in RQs \ {s} : rq'[r] = rq[r]
<1> DEFINE new == [rq EXCEPT ![s] = NoRQ]
<1>1. NoRQ \in RQObject
  BY EmptyTypes DEF NoRQ, RQObject
<1>2. new \in [RQs -> RQObject]
  BY <1>1 DEF TypeOK, ApiTypeOK
<1>3. ~ new[s].live /\ \A r \in RQs \ {s} : new[r] = rq[r]
  BY DEF TypeOK, ApiTypeOK, NoRQ
<1>4. Publish(new)
  BY DEF TenantDeleteRQ
<1> HIDE DEF new
<1> QED
  BY <1>2, <1>3, <1>4, PublishCurrent

\* What the surroundings do to the quotas: at most one of them disappears.
LEMMA ClusterQuotas ==
    ASSUME Reliable, TypeOK, CacheCurrent, ClusterNext
    PROVE  /\ CacheCurrent'
           /\ tenant' = tenant
           /\ \/ \A r \in RQs : rq'[r].live = rq[r].live /\ rq'[r].hard = rq[r].hard
              \/ \E s \in RQs : ~ rq'[s].live /\ \A r \in RQs \ {s} : rq'[r] = rq[r]
<1>0. MaxRqLag = 0
  BY DEF Reliable
<1>1. CASE \E s \in RQs : QuotaSync(s)
  BY <1>0, <1>1, SyncKeeps DEF QuotaSync
<1>2. CASE \E s \in RQs : TenantDeleteRQ(s)
  BY <1>0, <1>2, DeleteKeeps DEF TenantDeleteRQ
<1>3. ~ \E s \in RQs : DeliverRQ(s)
  BY DEF DeliverRQ, CacheCurrent
<1>4. ~ \E s \in RQs, h \in TenantHards : TenantUpdateRQ(s, h)
  BY DEF TenantUpdateRQ, TenantOp, Reliable
<1>5. ASSUME ChargePod, UNCHANGED tenant
      PROVE  /\ CacheCurrent' /\ tenant' = tenant
             /\ \A r \in RQs : rq'[r].live = rq[r].live /\ rq'[r].hard = rq[r].hard
  BY <1>0, <1>5, ChargeKeeps
<1>6. CASE TenantCreatePod
  BY <1>5, <1>6 DEF TenantCreatePod
<1>7. ASSUME UNCHANGED <<rq, tenant, rqWatch, rqCache>>
      PROVE  /\ CacheCurrent' /\ tenant' = tenant
             /\ \A r \in RQs : rq'[r].live = rq[r].live /\ rq'[r].hard = rq[r].hard
  BY <1>7 DEF CacheCurrent
<1>8. ASSUME NEW m \in Migrations,
             Virt(m) \/ DeleteMigration(m) \/ DeleteVMI(m) \/ DeliverPod(m)
      PROVE  \/ ChargePod /\ UNCHANGED tenant
             \/ UNCHANGED <<rq, tenant, rqWatch, rqCache>>
  BY <1>8 DEF Virt, VirtCreateTargetPod, VirtMarkRejected, VirtStart, VirtFinish,
              VirtDropMigration, DeleteMigration, DeleteVMI, DeliverPod, apiVars, infVars
<1> QED
  BY <1>1, <1>2, <1>3, <1>4, <1>5, <1>6, <1>7, <1>8 DEF ClusterNext

-----------------------------------------------------------------------------
\* The inductive invariant.

\* The inductive invariant by its parts.
LEMMA LoanParts ==
    LoanIndInv <=> CacheCurrent /\ LoanRecorded /\ LedgersHonest /\ Plans
  BY DEF LoanIndInv, LedgersHonest, Plans

\* The inductive invariant holds at first.
LEMMA LoanIndInvInit == Init => LoanIndInv
<1> SUFFICES ASSUME Init PROVE LoanIndInv
  OBVIOUS
<1>1. \A v \in VMMRQs : vmmrq[v].status = EmptyStatus
  BY DEF Init, ClusterInit, NewVMMRQ, NoVMMRQ
<1>2. LedgersHonest
  BY <1>1 DEF LedgersHonest, Honest, LiveVMMRQs, ledger, recorded, EmptyStatus,
              EmptyLedger
<1>3. CacheCurrent /\ LoanRecorded
  BY DEF Init, ClusterInit, CacheCurrent, LoanRecorded, InitialRQ, LiveRQs
<1>4. Plans
  BY DEF Init, Plans
<1> QED
  BY <1>2, <1>3, <1>4, LoanParts

\* Ledgers stay honest while the quotas are kept.
LEMMA HonestKept ==
    ASSUME QuotasKept, NEW orig, Honest(orig)
    PROVE  /\ Honest(orig)'
           /\ \A r \in LiveRQs' : r \in recorded(orig) => orig[r] = tenant'[r]
  BY DEF QuotasKept, Honest, LiveRQs, recorded

\* What the API server holds stays recorded while quotas and VMMRQs are kept.
LEMMA CoreFrame ==
    ASSUME LoanRecorded, LedgersHonest, QuotasKept, UNCHANGED vmmrq
    PROVE  LoanRecorded' /\ LedgersHonest'
<1>1. LiveVMMRQs' = LiveVMMRQs /\ \A v : ledger(v)' = ledger(v)
  BY DEF LiveVMMRQs, ledger
<1>2. LoanRecorded'
  BY <1>1 DEF LoanRecorded, QuotasKept
<1>3. LedgersHonest'
  BY <1>1 DEF LedgersHonest, Honest, QuotasKept
<1> QED
  BY <1>2, <1>3

\* Steps that leave the quotas and the caches of them alone keep them.
LEMMA QuotasFrame ==
    ASSUME CacheCurrent, UNCHANGED <<rq, tenant, rqWatch, rqCache>>
    PROVE  QuotasKept /\ CacheCurrent'
  BY DEF QuotasKept, CacheCurrent, LiveRQs

\* A worker whose plan does not change stays honest.
LEMMA PlanFrame ==
    ASSUME QuotasKept, NEW w \in Workers, PlanHonest(w),
           pc'[w] = pc[w], loc'[w].st = loc[w].st, loc'[w].prev = loc[w].prev,
           loc'[w].todo = loc[w].todo
    PROVE  PlanHonest(w)'
  BY DEF PlanHonest, QuotasKept, Honest

\* A step of the holder has to establish only that its own plan is honest.
LEMMA PlanStep ==
    ASSUME WorkerTypeOK, Holders, NEW w \in Workers, pc[w] \notin {"idle", "list"},
           NEW p, pc' = [pc EXCEPT ![w] = p],
           p \notin {"idle", "list"} => PlanHonest(w)'
    PROVE  Plans'
<1> SUFFICES ASSUME NEW u \in Workers, pc'[u] \notin {"idle", "list"}
             PROVE  PlanHonest(u)'
  BY DEF Plans
<1>1. u = w
  BY HolderAlone DEF WorkerTypeOK
<1> QED
  BY <1>1 DEF WorkerTypeOK

\* The holder returns.
LEMMA LoanReturn ==
    ASSUME WorkerTypeOK, Holders, NEW w \in Workers, pc[w] \notin {"idle", "list"},
           NEW e, Return(w, e), LoanIndInv, QuotasKept, CacheCurrent', UNCHANGED vmmrq
    PROVE  LoanIndInv'
<1>1. Plans'
  BY PlanStep DEF Return
<1>2. LoanRecorded' /\ LedgersHonest'
  BY LoanParts, CoreFrame
<1> QED
  BY <1>1, <1>2 DEF LoanIndInv, Plans, LedgersHonest

\* The holder goes on.
LEMMA LoanGoto ==
    ASSUME WorkerTypeOK, Holders, NEW w \in Workers, pc[w] \notin {"idle", "list"},
           NEW p, NEW l, Goto(w, p, l), LoanIndInv, QuotasKept, CacheCurrent',
           UNCHANGED vmmrq, PlanHonest(w)'
    PROVE  LoanIndInv'
<1>1. Plans'
  BY PlanStep DEF Goto
<1>2. LoanRecorded' /\ LedgersHonest'
  BY LoanParts, CoreFrame
<1> QED
  BY <1>1, <1>2 DEF LoanIndInv, Plans, LedgersHonest

\* What the holder remembers is honest: it is in the API server.
LEMMA RememberedHonest ==
    ASSUME TypeOK, LedgersHonest, NEW w \in Workers, HolderKnows(w)
    PROVE  Honest(remembered(w))
<1>1. CASE recorded(remembered(w)) = {}
  BY <1>1 DEF Honest
<1>2. CASE recorded(remembered(w)) # {}
  <2>1. loc[w].vm \in LiveVMMRQs /\ ledger(loc[w].vm) = remembered(w)
    BY <1>2 DEF HolderKnows, LiveVMMRQs, TypeOK, WorkerTypeOK, Locals
  <2> QED
    BY <2>1 DEF LedgersHonest
<1> QED
  BY <1>1, <1>2

\* What the holder remembers has every loan.
LEMMA RememberedLoans ==
    ASSUME LoanRecorded, NEW w \in Workers, HolderKnows(w), NEW r \in LiveRQs,
           rq[r].hard # tenant[r]
    PROVE  r \in recorded(remembered(w))
<1>1. PICK v \in LiveVMMRQs : r \in recorded(ledger(v))
  BY DEF LoanRecorded
<1> QED
  BY <1>1 DEF HolderKnows

\* UpdateStatus with an honest ledger that drops no quota that is still lent.
LEMMA LoanWrite ==
    ASSUME TypeOK, LoanIndInv, NEW w \in Workers, WriteStatus(w), HolderKnows(w),
           Honest(loc[w].st.orig),
           \A r \in LiveRQs : r \in recorded(remembered(w)) \ recorded(loc[w].st.orig)
                              => rq[r].hard = tenant[r]
    PROVE  QuotasKept /\ CacheCurrent' /\ LoanRecorded' /\ LedgersHonest'
<1>0. PICK v \in VMMRQs : v = loc[w].vm
  BY DEF TypeOK, WorkerTypeOK, Locals
<1>1. vmmrq[v] \in VMMRQObject
  BY DEF TypeOK, ApiTypeOK
<1>2. /\ vmmrq'[v].live /\ vmmrq'[v].status = loc[w].st
      /\ \A u \in VMMRQs \ {v} : vmmrq'[u] = vmmrq[u]
      /\ vmmrq[v].live
      /\ UNCHANGED <<rq, tenant, rqWatch, rqCache>>
  BY <1>0, <1>1 DEF WriteStatus, StatusAccepted, TypeOK, ApiTypeOK, VMMRQObject, infVars
<1>3. QuotasKept /\ CacheCurrent'
  BY <1>2, LoanParts, QuotasFrame
<1>4. /\ LiveVMMRQs' = LiveVMMRQs /\ v \in LiveVMMRQs
      /\ ledger(v)' = loc[w].st.orig
      /\ \A u \in LiveVMMRQs \ {v} : ledger(u)' = ledger(u)
  BY <1>2 DEF LiveVMMRQs, ledger
<1>5. LedgersHonest'
  BY <1>2, <1>4, LoanParts DEF LedgersHonest, Honest, LiveRQs
<1>6. LoanRecorded'
  <2> SUFFICES ASSUME NEW r \in LiveRQs, rq[r].hard # tenant[r]
               PROVE  r \in recorded(loc[w].st.orig) /\ loc[w].st.orig[r] = tenant[r]
    BY <1>2, <1>4 DEF LoanRecorded, LiveRQs
  <2>1. r \in recorded(remembered(w))
    BY LoanParts, RememberedLoans
  <2>2. r \in recorded(loc[w].st.orig)
    BY <2>1
  <2> QED
    BY <2>2 DEF Honest
<1> QED
  BY <1>3, <1>5, <1>6

\* List preserves the inductive invariant: the plan starts as the listed ledger.
LEMMA LoanListVmmrqs ==
    ASSUME TypeOK, IndInv, LoanIndInv, NEW w \in Workers, ListVmmrqs(w)
    PROVE  LoanIndInv'
<1>1. UNCHANGED <<rq, tenant, rqWatch, rqCache, vmmrq>>
  BY DEF ListVmmrqs, clusterVars, apiVars, infVars
<1>2. QuotasKept /\ CacheCurrent' /\ LoanRecorded' /\ LedgersHonest'
  BY <1>1, LoanParts, QuotasFrame, CoreFrame
<1>3. \A u \in Workers : pc[u] \in {"idle", "list"}
  BY DEF ListVmmrqs, IndInv, HolderKnows
<1>4. CASE pc' = [pc EXCEPT ![w] = "idle"]
  <2>1. Plans'
    BY <1>3, <1>4 DEF Plans, TypeOK, WorkerTypeOK
  <2> QED
    BY <1>2, <2>1 DEF LoanIndInv, Plans, LedgersHonest
<1>5. ASSUME NEW v \in VMMRQs, LiveVMMRQs = {v},
             NEW st, st = [vmmrq[v].status EXCEPT !.add = vmmrq[v].spec],
             Goto(w, IF st = vmmrq[v].status THEN "evaluate" ELSE "sync",
                  [loc[w] EXCEPT !.vm = v, !.st = st, !.prev = st, !.fresh = TRUE])
      PROVE  LoanIndInv'
  <2>1. /\ loc'[w].st = st /\ loc'[w].prev = st
        /\ pc'[w] \in {"evaluate", "sync"}
        /\ \A u \in Workers \ {w} : pc'[u] = pc[u]
    BY <1>5 DEF Goto, TypeOK, WorkerTypeOK, Locals
  <2>2. st.orig = ledger(v)
    BY <1>5 DEF ledger, TypeOK, ApiTypeOK, VMMRQObject, Status
  <2>3. Honest(st.orig)'
    BY <1>1, <1>5, <2>2, LoanParts DEF LedgersHonest, Honest, LiveRQs
  <2>4. PlanHonest(w)'
    BY <2>1, <2>3 DEF PlanHonest, Honest
  <2>5. Plans'
    BY <1>3, <2>1, <2>4 DEF Plans
  <2> QED
    BY <1>2, <2>5 DEF LoanIndInv, Plans, LedgersHonest
<1> QED
  BY <1>4, <1>5 DEF ListVmmrqs, Return

\* A step of the holder that leaves quotas and VMMRQs alone: it returns, or it
\* goes on with the plan it has.
LEMMA LoanQuiet ==
    ASSUME TypeOK, IndInv, LoanIndInv, NEW w \in Workers,
           pc[w] \notin {"idle", "list"},
           UNCHANGED <<rq, tenant, rqWatch, rqCache, vmmrq>>,
           \/ \E e : Return(w, e)
           \/ \E p, l : Goto(w, p, l) /\ PlanHonest(w)'
    PROVE  LoanIndInv'
<1>1. WorkerTypeOK /\ Holders /\ QuotasKept /\ CacheCurrent'
  BY IndInvParts, LoanParts, QuotasFrame DEF TypeOK
<1> QED
  BY <1>1, LoanReturn, LoanGoto

\* UpdateStatus is refused, or takes effect without the worker knowing.
LEMMA LoanStatusErrors ==
    ASSUME TypeOK, IndInv, LoanIndInv, NEW w \in Workers,
           pc[w] \notin {"idle", "list"},
           \/ StatusRefused(w)
           \/ /\ StatusReplyLost(w)
              /\ QuotasKept /\ CacheCurrent' /\ LoanRecorded' /\ LedgersHonest'
    PROVE  LoanIndInv'
<1>1. CASE StatusRefused(w)
  <2>1. Return(w, "Immediate") /\ UNCHANGED <<rq, tenant, rqWatch, rqCache, vmmrq>>
    BY <1>1 DEF StatusRefused, clusterVars, apiVars, infVars
  <2> QED
    BY <2>1, LoanQuiet
<1>2. CASE StatusReplyLost(w) /\ CacheCurrent' /\ LoanRecorded' /\ LedgersHonest'
  <2>1. Plans'
    BY <1>2, IndInvParts, PlanStep DEF StatusReplyLost, Return, TypeOK
  <2> QED
    BY <1>2, <2>1 DEF LoanIndInv, Plans, LedgersHonest
<1> QED
  BY <1>1, <1>2

\* The first UpdateStatus preserves the inductive invariant: the ledger it
\* writes is the listed one.
LEMMA LoanSyncAdditional ==
    ASSUME TypeOK, IndInv, LoanIndInv, NEW w \in Workers, SyncAdditional(w)
    PROVE  LoanIndInv'
<1>1. pc[w] = "sync" /\ WorkerTypeOK /\ Holders /\ HolderKnows(w) /\ PlanHonest(w)
  BY IndInvParts, LoanParts DEF SyncAdditional, TypeOK, Holders, Plans
<1>2. Honest(loc[w].st.orig) /\ remembered(w) = loc[w].st.orig
  BY <1>1 DEF PlanHonest, remembered
<1>3. WriteStatus(w) => QuotasKept /\ CacheCurrent' /\ LoanRecorded' /\ LedgersHonest'
  BY <1>1, <1>2, LoanWrite
<1>4. CASE /\ WriteStatus(w)
           /\ pc' = [pc EXCEPT ![w] = "evaluate"]
           /\ loc' = staleLocals(loc[w].vm)
  <2>1. /\ loc'[w].st = loc[w].st /\ loc'[w].prev = loc[w].prev
        /\ pc'[w] = "evaluate"
    BY <1>1, <1>4 DEF staleLocals, WorkerTypeOK, Locals
  <2>2. PlanHonest(w)'
    BY <1>1, <1>3, <1>4, <2>1 DEF PlanHonest, QuotasKept, Honest
  <2>3. Plans'
    BY <1>1, <1>4, <2>2, PlanStep
  <2> QED
    BY <1>3, <1>4, <2>3 DEF LoanIndInv, Plans, LedgersHonest
<1>5. CASE StatusRefused(w) \/ StatusReplyLost(w)
  BY <1>1, <1>3, <1>5, LoanStatusErrors DEF StatusReplyLost
<1> QED
  BY <1>4, <1>5 DEF SyncAdditional

\* Evaluate preserves the inductive invariant: it leaves the ledger alone.
LEMMA LoanEvaluate ==
    ASSUME TypeOK, IndInv, LoanIndInv, NEW w \in Workers, Evaluate(w)
    PROVE  LoanIndInv'
<1>1. pc[w] = "evaluate" /\ UNCHANGED <<rq, tenant, rqWatch, rqCache, vmmrq>>
  BY DEF Evaluate, clusterVars, apiVars, infVars
<1>2. ASSUME NEW e, Return(w, e) PROVE LoanIndInv'
  BY <1>1, <1>2, LoanQuiet
<1>3. ASSUME NEW S, NEW fin,
             Goto(w, "collect", [loc[w] EXCEPT !.st = setBlocking(loc[w].st, key[w], S),
                                               !.fin = fin])
      PROVE  LoanIndInv'
  <2>1. /\ loc'[w].prev = loc[w].prev /\ loc'[w].st.orig = loc[w].st.orig
        /\ pc'[w] = "collect"
    BY <1>3 DEF Goto, TypeOK, WorkerTypeOK, Locals, Status, setBlocking
  <2>2. PlanHonest(w)
    BY <1>1, LoanParts DEF Plans
  <2>3. PlanHonest(w)'
    BY <1>1, <2>1, <2>2 DEF PlanHonest, Honest, LiveRQs
  <2> QED
    BY <1>1, <1>3, <2>3, LoanQuiet
<1> QED
  BY <1>2, <1>3 DEF Evaluate

\* Collect preserves the inductive invariant: a quota it newly records is not
\* lent, so the cache shows what the tenant set, and every quota it drops is on
\* the list of the first loop.
LEMMA LoanCollect ==
    ASSUME TypeOK, IndInv, LoanIndInv, NEW w \in Workers, Collect(w)
    PROVE  LoanIndInv'
<1> DEFINE orig == getAllBlockingRQsInNS(rqCache, loc[w].st.m2b, loc[w].st.orig)
<1>1. /\ pc[w] = "collect" /\ HolderKnows(w) /\ PlanHonest(w)
      /\ UNCHANGED <<rq, tenant, rqWatch, rqCache, vmmrq>>
  BY IndInvParts, LoanParts DEF Collect, Holders, Plans, clusterVars, apiVars, infVars
<1>2. /\ loc'[w].prev = loc[w].prev /\ loc'[w].st.orig = orig
      /\ loc'[w].todo = getRQListToRestore(orig, loc[w].prev.orig)
      /\ pc'[w] = "checklock"
  BY DEF Collect, Goto, TypeOK, WorkerTypeOK, Locals, Status
<1>3. remembered(w) = loc[w].st.orig
  BY <1>1 DEF remembered, PlanHonest
<1>4. ASSUME NEW r \in LiveRQs, r \in recorded(orig) PROVE orig[r] = tenant[r]
  <2>1. r \in RQs /\ orig[r] # NotRecorded
    BY <1>4 DEF recorded
  <2>2. CASE r \in recorded(loc[w].st.orig)
    BY <1>1, <2>1, <2>2 DEF getAllBlockingRQsInNS, PlanHonest, Honest
  <2>3. CASE r \notin recorded(loc[w].st.orig)
    <3>1. orig[r] = rqCache[r].hard
      BY <2>1, <2>3 DEF getAllBlockingRQsInNS
    <3>2. rq[r].hard = tenant[r]
      BY <1>1, <1>3, <2>3, LoanParts, RememberedLoans
    <3> QED
      BY <3>1, <3>2 DEF LoanIndInv, CacheCurrent
  <2> QED
    BY <2>2, <2>3
<1> HIDE DEF orig
<1>5. Honest(orig)
  BY <1>4 DEF Honest
<1>6. PlanHonest(w)'
  BY <1>1, <1>2, <1>5 DEF PlanHonest, Honest, LiveRQs, getRQListToRestore
<1> QED
  BY <1>1, <1>6, LoanQuiet DEF Collect

\* CheckLock and LockNamespace preserve the inductive invariant: the plan stays.
LEMMA LoanLocking ==
    ASSUME TypeOK, IndInv, LoanIndInv, NEW w \in Workers,
           CheckLock(w) \/ LockNamespace(w)
    PROVE  LoanIndInv'
<1>1. /\ pc[w] \in {"checklock", "lock"} /\ PlanHonest(w)
      /\ UNCHANGED <<rq, tenant, rqWatch, rqCache, vmmrq>>
  BY LoanParts DEF CheckLock, LockNamespace, MarkLockStateLocked, SetWebhook, Plans,
                   clusterVars, apiVars, infVars
<1>2. ASSUME NEW e, Return(w, e) PROVE LoanIndInv'
  BY <1>1, <1>2, LoanQuiet
<1>3. ASSUME NEW p, p \in {"lock", "restore"}, NEW l, Goto(w, p, l),
             l.st = loc[w].st, l.prev = loc[w].prev, l.todo = loc[w].todo
      PROVE  LoanIndInv'
  <2>1. loc'[w] = l /\ pc'[w] = p
    BY <1>3 DEF Goto, TypeOK, WorkerTypeOK
  <2>2. PlanHonest(w)'
    BY <1>1, <1>3, <2>1 DEF PlanHonest, Honest, LiveRQs
  <2> QED
    BY <1>1, <1>3, <2>2, LoanQuiet
<1>4. ASSUME NEW locked, NEW p, p \in {"lock", "restore"},
             Goto(w, p, [loc[w] EXCEPT !.nsLocked = locked])
      PROVE  LoanIndInv'
  <2> DEFINE l == [loc[w] EXCEPT !.nsLocked = locked]
  <2>1. l.st = loc[w].st /\ l.prev = loc[w].prev /\ l.todo = loc[w].todo
    BY DEF TypeOK, WorkerTypeOK, Locals
  <2>2. Goto(w, p, l)
    BY <1>4
  <2> HIDE DEF l
  <2> QED
    BY <1>3, <1>4, <2>1, <2>2
<1>5. CASE CheckLock(w)
  BY <1>2, <1>4, <1>5 DEF CheckLock
<1>6. CASE LockNamespace(w)
  BY <1>2, <1>3, <1>6 DEF LockNamespace, MarkLockStateLocked
<1> QED
  BY <1>5, <1>6

\* One round of one of the two loops: the quota it visits has a recorded value,
\* which is the tenant's, and afterwards the first loop has given the loan back
\* and the second has taken it from that value.
LEMMA LoopOutcome ==
    ASSUME Reliable, TypeOK, IndInv, LoanIndInv, NEW w \in Workers, NEW s \in RQs,
           RestoreRQ(w, s) \/ RaiseRQ(w, s)
    PROVE  /\ pc[w] \in {"restore", "raise"}
           /\ UNCHANGED <<vmmrq, webhook, tenant>>
           /\ CacheCurrent'
           /\ s \in recorded(remembered(w))
           /\ s \in LiveRQs => remembered(w)[s] = tenant[s]
           /\ \/ /\ UNCHANGED rq
                 /\ Visited(w, s)
                 /\ pc[w] = "restore" /\ s \in LiveRQs => rq[s].hard = tenant[s]
              \/ /\ s \in LiveRQs
                 /\ \E hard : /\ rq' = [rq EXCEPT ![s].hard = hard]
                              /\ \/ pc[w] = "restore" /\ hard = tenant[s]
                                 \/ pc[w] = "raise" /\ rq[s].hard = tenant[s]
                 /\ Visited(w, s) \/ Return(w, "Immediate")
<1> DEFINE restore == pc[w] = "restore" /\ RestoreRQ(w, s)
           raise == pc[w] = "raise" /\ RaiseRQ(w, s)
<1>1. restore \/ raise
  BY DEF RestoreRQ, RaiseRQ
<1>2. s \in loc[w].todo
  BY DEF RestoreRQ, RaiseRQ
<1>3. HolderKnows(w) /\ VisitsRecorded(w) /\ CacheCurrent /\ LedgersHonest
  BY <1>1, LoanParts DEF IndInv
<1>4. s \in recorded(remembered(w))
  BY <1>1, <1>2, <1>3 DEF VisitsRecorded
<1>5. s \in LiveRQs => remembered(w)[s] = tenant[s]
  BY <1>3, <1>4, RememberedHonest DEF Honest
<1>6. remembered(w) = IF restore THEN loc[w].prev.orig ELSE loc[w].st.orig
  BY <1>1 DEF remembered
<1>7. rqCache = rq /\ \A r \in RQs : rqWatch[r] = <<>>
  BY <1>3 DEF CacheCurrent
<1>8. CASE Visited(w, s) /\ UNCHANGED clusterVars
           /\ (restore => ~ rqCache[s].live \/ rqCache[s].hard = loc[w].prev.orig[s])
  <2>1. UNCHANGED <<vmmrq, webhook, tenant, rq, rqCache, rqWatch>>
    BY <1>8 DEF clusterVars, apiVars, infVars
  <2>2. CacheCurrent'
    BY <1>7, <2>1 DEF CacheCurrent
  <2>3. restore /\ s \in LiveRQs => rq[s].hard = tenant[s]
    BY <1>5, <1>6, <1>7, <1>8 DEF LiveRQs
  <2> QED
    BY <1>1, <1>4, <1>5, <1>8, <2>1, <2>2, <2>3
<1>9. ASSUME NEW hard, UpdateRQ(w, s, hard), rqCache[s].live,
             \/ restore /\ hard = loc[w].prev.orig[s]
             \/ raise /\ rqCache[s].hard = loc[w].st.orig[s]
      PROVE  /\ UNCHANGED <<vmmrq, webhook, tenant>> /\ CacheCurrent' /\ s \in LiveRQs
             /\ rq' = [rq EXCEPT ![s].hard = hard]
             /\ \/ pc[w] = "restore" /\ hard = tenant[s]
                \/ pc[w] = "raise" /\ rq[s].hard = tenant[s]
             /\ Visited(w, s) \/ Return(w, "Immediate")
  <2>1. s \in LiveRQs
    BY <1>7, <1>9 DEF LiveRQs
  <2>2. ~ Fault("rq") /\ MaxRqLag = 0
    BY DEF Fault, Reliable
  <2>3. SendRQ(s, hard) /\ (Visited(w, s) \/ Return(w, "Immediate"))
    BY <1>7, <1>9, <2>2 DEF UpdateRQ
  <2>4. /\ UNCHANGED <<vmmrq, webhook, tenant, rqWatch>>
        /\ rq' = [rq EXCEPT ![s].hard = hard]
    BY <2>2, <2>3 DEF SendRQ
  <2>5. rqCache' = rq'
    BY <1>7, <1>9, <2>4 DEF UpdateRQ, MutateCache
  <2>6. CacheCurrent'
    BY <1>7, <2>4, <2>5 DEF CacheCurrent
  <2>7. restore => ~ raise
    OBVIOUS
  <2> QED
    BY <1>5, <1>6, <1>7, <1>9, <2>1, <2>3, <2>4, <2>6, <2>7
<1>10. CASE restore
  <2>1. \/ /\ ~ rqCache[s].live \/ rqCache[s].hard = loc[w].prev.orig[s]
           /\ Visited(w, s) /\ UNCHANGED clusterVars
        \/ rqCache[s].live /\ UpdateRQ(w, s, loc[w].prev.orig[s])
    BY <1>10 DEF RestoreRQ
  <2> QED
    BY <1>4, <1>5, <1>8, <1>9, <1>10, <2>1
<1>11. CASE raise
  <2>1. \/ Visited(w, s) /\ UNCHANGED clusterVars
        \/ /\ rqCache[s].live /\ rqCache[s].hard = loc[w].st.orig[s]
           /\ \E hard : UpdateRQ(w, s, hard)
    BY <1>11 DEF RaiseRQ
  <2> QED
    BY <1>4, <1>5, <1>8, <1>9, <1>11, <2>1
<1> QED
  BY <1>1, <1>10, <1>11

\* The rounds of the two loops preserve the inductive invariant.
LEMMA LoanLoops ==
    ASSUME Reliable, TypeOK, IndInv, LoanIndInv, NEW w \in Workers, NEW s \in RQs,
           RestoreRQ(w, s) \/ RaiseRQ(w, s)
    PROVE  LoanIndInv'
<1> DEFINE v == loc[w].vm
<1>1. /\ pc[w] \in {"restore", "raise"}
      /\ UNCHANGED <<vmmrq, webhook, tenant>> /\ CacheCurrent'
      /\ s \in recorded(remembered(w))
      /\ s \in LiveRQs => remembered(w)[s] = tenant[s]
      /\ Visited(w, s) \/ Return(w, "Immediate")
  BY LoopOutcome
<1>2. /\ LiveRQs' = LiveRQs
      /\ \A r \in RQs \ {s} : rq'[r].hard = rq[r].hard
      /\ pc[w] = "restore" /\ s \in LiveRQs => rq'[s].hard = tenant[s]
  <2>1. CASE UNCHANGED rq /\ (pc[w] = "restore" /\ s \in LiveRQs => rq[s].hard = tenant[s])
    BY <2>1 DEF LiveRQs
  <2>2. ASSUME NEW hard, rq' = [rq EXCEPT ![s].hard = hard],
               pc[w] = "restore" => hard = tenant[s]
        PROVE  /\ LiveRQs' = LiveRQs
               /\ \A r \in RQs \ {s} : rq'[r].hard = rq[r].hard
               /\ pc[w] = "restore" /\ s \in LiveRQs => rq'[s].hard = tenant[s]
    <3>1. /\ rq'[s].live = rq[s].live /\ rq'[s].hard = hard
          /\ \A r \in RQs \ {s} : rq'[r] = rq[r]
      BY <2>2 DEF TypeOK, ApiTypeOK, RQObject
    <3> QED
      BY <2>2, <3>1 DEF LiveRQs
  <2> QED
    BY <2>1, <2>2, LoopOutcome
<1>3. /\ WorkerTypeOK /\ Holders /\ HolderKnows(w) /\ PlanHonest(w)
      /\ LoanRecorded /\ LedgersHonest
  BY <1>1, IndInvParts, LoanParts DEF TypeOK, Holders, Plans
<1>4. LiveVMMRQs' = LiveVMMRQs /\ \A u : vmmrq'[u] = vmmrq[u]
  BY <1>1 DEF LiveVMMRQs
<1>5. LoanRecorded'
  <2>1. v \in LiveVMMRQs /\ vmmrq[v].status.orig = remembered(w)
    BY <1>1, <1>3 DEF HolderKnows, LiveVMMRQs, ledger, WorkerTypeOK, Locals
  <2> QED
    BY <1>1, <1>2, <1>3, <1>4, <2>1 DEF LoanRecorded, ledger, LiveRQs
<1>6. LedgersHonest'
  BY <1>1, <1>2, <1>3, <1>4 DEF LedgersHonest, Honest, ledger
<1>7. Plans'
  <2>1. CASE Return(w, "Immediate")
    BY <1>1, <1>3, <2>1, PlanStep DEF Return
  <2>2. CASE Visited(w, s)
    <3>1. /\ pc'[w] = pc[w] /\ loc'[w].st = loc[w].st /\ loc'[w].prev = loc[w].prev
          /\ loc'[w].todo = loc[w].todo \ {s}
          /\ pc' = [pc EXCEPT ![w] = pc[w]]
      BY <1>3, <2>2 DEF Visited, Goto, WorkerTypeOK, Locals
    <3>2. PlanHonest(w)'
      BY <1>1, <1>2, <1>3, <3>1 DEF PlanHonest, Honest, LiveRQs
    <3> QED
      BY <1>1, <1>3, <3>1, <3>2, PlanStep
  <2> QED
    BY <1>1, <2>1, <2>2
<1> QED
  BY <1>1, <1>5, <1>6, <1>7 DEF LoanIndInv, Plans, LedgersHonest

\* RecordStatus preserves the inductive invariant: the first loop has visited
\* every quota that the new ledger drops.
LEMMA LoanRecordStatus ==
    ASSUME TypeOK, IndInv, LoanIndInv, NEW w \in Workers, RecordStatus(w)
    PROVE  LoanIndInv'
<1>1. /\ pc[w] = "restore" /\ loc[w].todo = {}
      /\ WorkerTypeOK /\ Holders /\ HolderKnows(w) /\ PlanHonest(w)
  BY IndInvParts, LoanParts DEF RecordStatus, TypeOK, Holders, Plans
<1>2. /\ Honest(loc[w].st.orig) /\ remembered(w) = loc[w].prev.orig
      /\ \A r \in LiveRQs : r \in recorded(remembered(w)) \ recorded(loc[w].st.orig)
                            => rq[r].hard = tenant[r]
  BY <1>1 DEF PlanHonest, remembered
<1>3. WriteStatus(w) => QuotasKept /\ CacheCurrent' /\ LoanRecorded' /\ LedgersHonest'
  BY <1>1, <1>2, LoanWrite
<1>4. CASE /\ Goto(w, "raise", [loc[w] EXCEPT !.todo = recorded(loc[w].st.orig)])
           /\ UNCHANGED clusterVars
  <2>1. UNCHANGED <<rq, tenant, rqWatch, rqCache, vmmrq>>
    BY <1>4 DEF clusterVars, apiVars, infVars
  <2>2. pc'[w] = "raise" /\ loc'[w].st = loc[w].st
    BY <1>1, <1>4 DEF Goto, WorkerTypeOK, Locals
  <2>3. PlanHonest(w)'
    BY <1>2, <2>1, <2>2 DEF PlanHonest, Honest, LiveRQs
  <2> QED
    BY <1>1, <1>4, <2>1, <2>3, LoanQuiet
<1>5. CASE /\ WriteStatus(w)
           /\ pc' = [pc EXCEPT ![w] = "raise"]
           /\ loc' = [staleLocals(loc[w].vm) EXCEPT ![w].todo = recorded(loc[w].st.orig)]
  <2>1. pc'[w] = "raise" /\ loc'[w].st = loc[w].st
    BY <1>1, <1>5 DEF staleLocals, WorkerTypeOK, Locals
  <2>2. PlanHonest(w)'
    BY <1>2, <1>3, <1>5, <2>1 DEF PlanHonest, QuotasKept, Honest
  <2>3. Plans'
    BY <1>1, <1>5, <2>2, PlanStep
  <2> QED
    BY <1>3, <1>5, <2>3 DEF LoanIndInv, Plans, LedgersHonest
<1>6. CASE StatusRefused(w) \/ StatusReplyLost(w)
  BY <1>1, <1>3, <1>6, LoanStatusErrors DEF StatusReplyLost
<1> QED
  BY <1>4, <1>5, <1>6 DEF RecordStatus

\* Finish preserves the inductive invariant.
LEMMA LoanFinish ==
    ASSUME TypeOK, IndInv, LoanIndInv, NEW w \in Workers, Finish(w)
    PROVE  LoanIndInv'
<1>1. /\ pc[w] = "raise" /\ UNCHANGED <<rq, tenant, rqWatch, rqCache, vmmrq>>
      /\ \E e : Return(w, e)
  BY DEF Finish, MarkLockStateUnlocked, SetWebhook, clusterVars, apiVars, infVars
<1> QED
  BY <1>1, LoanQuiet

\* Steps that change neither a VMMRQ nor the plan of a worker past List.
LEMMA LoanFrame ==
    ASSUME LoanIndInv, QuotasKept, CacheCurrent', UNCHANGED vmmrq,
           \A w \in Workers : pc'[w] \notin {"idle", "list"} =>
               pc'[w] = pc[w] /\ loc'[w] = loc[w]
    PROVE  LoanIndInv'
<1>1. LoanRecorded' /\ LedgersHonest'
  BY LoanParts, CoreFrame
<1>2. Plans'
  BY LoanParts, PlanFrame DEF Plans
<1> QED
  BY <1>1, <1>2 DEF LoanIndInv, Plans, LedgersHonest

\* The surroundings preserve the inductive invariant.
LEMMA LoanCluster ==
    ASSUME Reliable, TypeOK, LoanIndInv, ClusterNext, UNCHANGED ctlVars
    PROVE  LoanIndInv'
<1>1. CacheCurrent' /\ QuotasKept
  BY LoanParts, ClusterQuotas DEF QuotasKept, LiveRQs
<1>2. UNCHANGED <<vmmrq, pc, loc>>
  BY ClusterKeeps DEF ctlVars
<1> QED
  BY <1>1, <1>2, LoanFrame

\* The tenant's operations on VMMRQs preserve the inductive invariant: a spec
\* is no ledger, a new VMMRQ has none, and the lock keeps the one that has.
LEMMA LoanVmmrqEvents ==
    ASSUME TypeOK, IndInv, LoanIndInv, NEW v \in VMMRQs,
           \/ \E add \in TenantAdds : EditVmmrq(v, add)
           \/ CreateVmmrq(v)
           \/ DeleteVmmrq(v)
    PROVE  LoanIndInv'
<1>1. PICK object : ChangeVmmrq(v, object) /\ UNCHANGED pc
  BY DEF EditVmmrq, CreateVmmrq, DeleteVmmrq, Enqueue
<1>2. /\ UNCHANGED <<rq, tenant, rqWatch, rqCache, webhook>>
      /\ vmmrq'[v] = object /\ \A u \in VMMRQs \ {v} : vmmrq'[u] = vmmrq[u]
      /\ \A w \in Workers : /\ loc'[w].st = loc[w].st /\ loc'[w].prev = loc[w].prev
                            /\ loc'[w].todo = loc[w].todo
  BY <1>1 DEF ChangeVmmrq, staleLocals, infVars, TypeOK, ApiTypeOK, WorkerTypeOK, Locals
<1>3. QuotasKept /\ CacheCurrent'
  BY <1>2, LoanParts, QuotasFrame
<1>4. Plans'
  BY <1>1, <1>2, <1>3, LoanParts, PlanFrame DEF Plans
<1>5. recorded(EmptyStatus.orig) = {}
  BY DEF EmptyStatus, EmptyLedger, recorded
<1>6. \/ vmmrq'[v].live = vmmrq[v].live /\ vmmrq'[v].status = vmmrq[v].status
      \/ ~ vmmrq[v].live /\ recorded(vmmrq'[v].status.orig) = {}
      \/ ~ webhook /\ ~ vmmrq'[v].live
  <2>1. CASE \E add \in TenantAdds : EditVmmrq(v, add)
    BY <2>1 DEF EditVmmrq, ChangeVmmrq, TypeOK, ApiTypeOK, VMMRQObject
  <2>2. CASE CreateVmmrq(v)
    <3>1. vmmrq'[v] = NewVMMRQ(InitialAdd) /\ ~ vmmrq[v].live
      BY <2>2 DEF CreateVmmrq, ChangeVmmrq, TypeOK, ApiTypeOK
    <3>2. NewVMMRQ(InitialAdd).status = EmptyStatus
      BY DEF NewVMMRQ
    <3> QED
      BY <1>5, <3>1, <3>2
  <2>3. CASE DeleteVmmrq(v)
    <3>1. vmmrq'[v] = NoVMMRQ
      BY <2>3 DEF DeleteVmmrq, ChangeVmmrq, TypeOK, ApiTypeOK
    <3>2. ~ webhook
      BY <2>3, DeleteRefused DEF DeleteVmmrq, TypeOK
    <3>3. NoVMMRQ.live = FALSE
      BY DEF NoVMMRQ
    <3> QED
      BY <3>1, <3>2, <3>3
  <2> QED
    BY <2>1, <2>2, <2>3
<1>7. ~ webhook => \A u \in LiveVMMRQs : recorded(ledger(u)) = {}
  BY DEF IndInv, LedgerUnderLock
<1>8. LoanRecorded'
  <2>1. LoanRecorded
    BY LoanParts
  <2> QED
    BY <1>2, <1>6, <1>7, <2>1 DEF LoanRecorded, LiveVMMRQs, LiveRQs, ledger
<1>9. LedgersHonest'
  <2>1. LedgersHonest
    BY LoanParts
  <2> QED
    BY <1>2, <1>6, <2>1 DEF LedgersHonest, Honest, LiveVMMRQs, LiveRQs, ledger
<1> QED
  BY <1>3, <1>4, <1>8, <1>9 DEF LoanIndInv, Plans, LedgersHonest

\* Every step preserves the inductive invariant.
LEMMA LoanIndInvNext ==
    ASSUME Reliable, TypeOK, IndInv, LoanIndInv, [Next]_vars
    PROVE  LoanIndInv'
<1>1. ASSUME UNCHANGED <<rq, tenant, rqWatch, rqCache, vmmrq>>,
             \A w \in Workers : pc'[w] \notin {"idle", "list"} =>
                 pc'[w] = pc[w] /\ loc'[w] = loc[w]
      PROVE  LoanIndInv'
  BY <1>1, LoanParts, QuotasFrame, LoanFrame
<1>2. CASE UNCHANGED vars
  BY <1>1, <1>2 DEF vars, clusterVars, apiVars, infVars, ctlVars
<1>3. CASE ClusterNext /\ UNCHANGED ctlVars
  BY <1>3, LoanCluster
<1>4. CASE \E w \in Workers, k \in Keys : Get(w, k)
  <2>1. PICK w \in Workers, k \in Keys : Get(w, k)
    BY <1>4
  <2>2. /\ UNCHANGED <<rq, tenant, rqWatch, rqCache, vmmrq>> /\ pc'[w] = "list"
        /\ \A u \in Workers \ {w} : pc'[u] = pc[u] /\ loc'[u] = loc[u]
    BY <2>1 DEF Get, TypeOK, WorkerTypeOK, clusterVars, apiVars, infVars
  <2> QED
    BY <1>1, <2>2
<1>5. ASSUME NEW w \in Workers, Execute(w) PROVE LoanIndInv'
  BY <1>5, LoanListVmmrqs, LoanSyncAdditional, LoanEvaluate, LoanCollect,
     LoanLocking, LoanRecordStatus, LoanFinish, LoanLoops DEF Execute
<1>6. CASE \E m \in Migrations : SyncMigration(m)
  BY <1>1, <1>6 DEF SyncMigration, Enqueue, apiVars
<1>7. CASE \E v \in VMMRQs : \/ \E add \in TenantAdds : EditVmmrq(v, add)
                             \/ CreateVmmrq(v) \/ DeleteVmmrq(v)
  BY <1>7, LoanVmmrqEvents
<1>8. CASE EnqueueAll \/ \E k \in Keys : WaitElapsed(k)
  BY <1>1, <1>8 DEF EnqueueAll, WaitElapsed, Enqueue, clusterVars, apiVars, infVars
<1>9. CASE Restart
  <2>1. /\ UNCHANGED <<rq, tenant, vmmrq>>
        /\ rqCache' = rq /\ rqWatch' = [r \in RQs |-> <<>>]
        /\ \A w \in Workers : pc'[w] = "idle"
    BY <1>9 DEF Restart, apiVars
  <2>2. QuotasKept /\ CacheCurrent'
    BY <2>1 DEF QuotasKept, CacheCurrent, LiveRQs
  <2> QED
    BY <2>1, <2>2, LoanFrame
<1> QED
  BY <1>2, <1>3, <1>4, <1>5, <1>6, <1>7, <1>8, <1>9 DEF Next

\* Every ledger, in the API server or in a worker, has the tenant's values,
\* whatever fails, crashes and is retried between List and the return, and no
\* loan leaves the ledgers before restoreOriginalRQs has given it back.
THEOREM LedgersHoldTheTruth ==
    ASSUME Reliable
    PROVE  Spec => []LoanIndInv
<1>1. Init => LoanIndInv
  BY LoanIndInvInit
<1>2. TypeOK /\ IndInv /\ LoanIndInv /\ [Next]_vars => LoanIndInv'
  BY LoanIndInvNext
<1>3. Spec => []TypeOK /\ []IndInv
  BY TypeCorrect, WorkerMemory DEF Reliable
<1> QED
  BY <1>1, <1>2, <1>3, PTL DEF Spec

\* A quota that is not as the tenant set it is recorded with the tenant's value
\* in a VMMRQ: UpdateStatus comes before the raise and after the restore.
THEOREM LoansAreRecorded ==
    ASSUME Reliable
    PROVE  Spec => []LoanRecorded
<1>1. LoanIndInv => LoanRecorded
  BY DEF LoanIndInv
<1> QED
  BY <1>1, LedgersHoldTheTruth, PTL

\* In a namespace without the webhook every quota is as the tenant set it:
\* UnlockNamespace comes after the last loan is given back.
THEOREM QuotasIntact ==
    ASSUME Reliable
    PROVE  Spec => []QuotaIntact
<1>1. LoanIndInv /\ IndInv => QuotaIntact
  BY DEF LoanIndInv, IndInv, LoanRecorded, LedgerUnderLock, QuotaIntact
<1>2. Spec => []IndInv
  BY WorkerMemory DEF Reliable
<1> QED
  BY <1>1, <1>2, LedgersHoldTheTruth, PTL

-----------------------------------------------------------------------------
\* The refinement.

\* What the ledgers together say about the quotas.
BooksHonest ==
    /\ Books \in [RQs -> ResourceList \cup {NotRecorded}]
    /\ \A r \in LiveRQs : Books[r] \in {NotRecorded, tenant[r]}
    /\ \A r \in LiveRQs : rq[r].hard # tenant[r] => Books[r] # NotRecorded
    /\ ~ webhook => \A r \in RQs : Books[r] = NotRecorded

\* A quota is booked when a VMMRQ records it.
LEMMA BookEntry ==
    ASSUME TypeOK, NEW r \in RQs
    PROVE  \/ Bookers(r) = {} /\ Books[r] = NotRecorded
           \/ /\ Books[r] \in ResourceList
              /\ \E v \in LiveVMMRQs : r \in recorded(ledger(v)) /\ Books[r] = ledger(v)[r]
<1>1. CASE Bookers(r) = {}
  BY <1>1 DEF Books
<1>2. CASE Bookers(r) # {}
  <2> DEFINE v == CHOOSE v \in Bookers(r) : TRUE
  <2>1. v \in Bookers(r)
    BY <1>2
  <2>2. Books[r] = ledger(v)[r]
    BY <1>2 DEF Books
  <2> HIDE DEF v
  <2>3. v \in LiveVMMRQs /\ r \in recorded(ledger(v))
    BY <2>1 DEF Bookers
  <2>4. ledger(v) \in Ledger
    BY <2>3 DEF ledger, LiveVMMRQs, TypeOK, ApiTypeOK, VMMRQObject, Status
  <2>5. ledger(v)[r] \in ResourceList
    BY <2>3, <2>4 DEF Ledger, recorded
  <2> QED
    BY <2>2, <2>3, <2>5
<1> QED
  BY <1>1, <1>2

\* The books are honest.
LEMMA BooksAreHonest == TypeOK /\ IndInv /\ LoanIndInv => BooksHonest
<1> SUFFICES ASSUME TypeOK, IndInv, LoanIndInv PROVE BooksHonest
  OBVIOUS
<1>1. Books \in [RQs -> ResourceList \cup {NotRecorded}]
  <2>1. \A r \in RQs : Books[r] \in ResourceList \cup {NotRecorded}
    BY BookEntry
  <2>2. Books = [r \in RQs |-> Books[r]]
    BY DEF Books
  <2> QED
    BY <2>1, <2>2
<1>2. ASSUME NEW r \in LiveRQs, Books[r] # NotRecorded PROVE Books[r] = tenant[r]
  <2>1. r \in RQs
    BY DEF LiveRQs
  <2>2. PICK v \in LiveVMMRQs : r \in recorded(ledger(v)) /\ Books[r] = ledger(v)[r]
    BY <1>2, <2>1, BookEntry
  <2> QED
    BY <2>2 DEF LoanIndInv, Honest
<1>3. ASSUME NEW r \in LiveRQs, rq[r].hard # tenant[r] PROVE Books[r] # NotRecorded
  <2>1. r \in RQs
    BY DEF LiveRQs
  <2>2. PICK v \in LiveVMMRQs : r \in recorded(ledger(v))
    BY <1>3 DEF LoanIndInv, LoanRecorded
  <2>3. Bookers(r) # {}
    BY <2>2 DEF Bookers
  <2> QED
    BY <2>1, <2>3, BookEntry, NotRecordedAssumption
<1>4. ASSUME ~ webhook, NEW r \in RQs PROVE Books[r] = NotRecorded
  BY <1>4, BookEntry DEF IndInv, LedgerUnderLock
<1> QED
  BY <1>1, <1>2, <1>3, <1>4 DEF BooksHonest

\* The same one step later.
LEMMA BooksStayHonest == (TypeOK /\ IndInv /\ LoanIndInv)' => BooksHonest'
  BY BooksAreHonest, PTL

\* The books change only with a VMMRQ.
LEMMA BooksFrame ==
    ASSUME UNCHANGED vmmrq
    PROVE  Books' = Books
  BY DEF Books, Bookers, LiveVMMRQs, ledger

\* A step changes the webhook, or VMMRQs, or quotas.
LEMMA StepKinds ==
    ASSUME [Next]_vars
    PROVE  \/ UNCHANGED <<rq, tenant, vmmrq>>
           \/ UNCHANGED <<rq, tenant, webhook>>
           \/ ClusterNext
           \/ \E w \in Workers, s \in RQs : RestoreRQ(w, s) \/ RaiseRQ(w, s)
<1>1. ASSUME NEW w \in Workers, Execute(w),
             ~ \E s \in RQs : RestoreRQ(w, s) \/ RaiseRQ(w, s)
      PROVE  \/ UNCHANGED <<rq, tenant, vmmrq>>
             \/ UNCHANGED <<rq, tenant, webhook>>
  <2>1. ListVmmrqs(w) \/ Evaluate(w) \/ Collect(w) \/ CheckLock(w)
        => UNCHANGED <<rq, tenant, vmmrq>>
    BY DEF ListVmmrqs, Evaluate, Collect, CheckLock, clusterVars, apiVars
  <2>2. SyncAdditional(w) \/ RecordStatus(w) => UNCHANGED <<rq, tenant, webhook>>
    BY DEF SyncAdditional, RecordStatus, StatusRefused, StatusReplyLost, WriteStatus,
           clusterVars, apiVars
  <2>3. LockNamespace(w) \/ Finish(w) => UNCHANGED <<rq, tenant, vmmrq>>
    BY DEF LockNamespace, MarkLockStateLocked, Finish, MarkLockStateUnlocked, SetWebhook,
           clusterVars, apiVars
  <2> QED
    BY <1>1, <2>1, <2>2, <2>3 DEF Execute
<1>2. ASSUME NEW v \in VMMRQs,
             \/ \E add \in TenantAdds : EditVmmrq(v, add)
             \/ CreateVmmrq(v)
             \/ DeleteVmmrq(v)
      PROVE  UNCHANGED <<rq, tenant, webhook>>
  BY <1>2 DEF EditVmmrq, CreateVmmrq, DeleteVmmrq, ChangeVmmrq
<1>3. \/ UNCHANGED vars \/ EnqueueAll \/ Restart
      \/ \E w \in Workers, k \in Keys : Get(w, k)
      \/ \E m \in Migrations : SyncMigration(m)
      \/ \E k \in Keys : WaitElapsed(k)
      => UNCHANGED <<rq, tenant, vmmrq>>
  BY DEF vars, EnqueueAll, Restart, Get, SyncMigration, WaitElapsed, clusterVars, apiVars
<1> QED
  BY <1>1, <1>2, <1>3 DEF Next

\* The initial states are initial states of QuotaLoan.
LEMMA RefinesInit == Init => Loan!Init
<1> SUFFICES ASSUME Init PROVE Loan!Init
  OBVIOUS
<1>1. tenant = InitialHard /\ InitialHard \in [RQs -> ResourceList] /\ ~ webhook
  BY ClusterAssumption DEF Init, ClusterInit
<1>2. Hard = tenant
  <2>1. Hard = [r \in RQs |-> InitialHard[r]]
    BY DEF Hard, Init, ClusterInit, InitialRQ
  <2> QED
    BY <1>1, <2>1
<1>3. \A r \in RQs : Bookers(r) = {}
  <2>1. \A v \in VMMRQs : vmmrq[v].status = EmptyStatus
    BY DEF Init, ClusterInit, NewVMMRQ, NoVMMRQ
  <2> QED
    BY <2>1 DEF Bookers, LiveVMMRQs, ledger, recorded, EmptyStatus, EmptyLedger
<1>4. Books = [r \in RQs |-> NotRecorded]
  BY <1>3 DEF Books
<1>5. webhook = FALSE
  BY DEF Init, ClusterInit
<1> QED
  BY <1>1, <1>2, <1>4, <1>5 DEF Loan!Init

\* LockNamespace and UnlockNamespace are Lock and Unlock.
LEMMA RefinesLocking ==
    ASSUME TypeOK, TypeOK', BooksHonest', UNCHANGED <<rq, tenant, vmmrq>>
    PROVE  [Loan!Next]_Loan!loanVars
<1>1. Hard' = Hard /\ Books' = Books
  BY BooksFrame DEF Hard
<1>2. webhook \in BOOLEAN /\ webhook' \in BOOLEAN
  BY DEF TypeOK, ApiTypeOK
<1>3. CASE webhook' = webhook
  BY <1>1, <1>3 DEF Loan!loanVars
<1>4. CASE ~ webhook /\ webhook' = TRUE
  BY <1>1, <1>4 DEF Loan!Next, Loan!Lock
<1>5. CASE webhook /\ webhook' = FALSE
  BY <1>1, <1>5 DEF Loan!Next, Loan!Unlock, BooksHonest
<1> QED
  BY <1>2, <1>3, <1>4, <1>5

\* A step that changes VMMRQs only is Book or changes no entry.
LEMMA RefinesBooking ==
    ASSUME TypeOK, BooksHonest, BooksHonest', UNCHANGED <<rq, tenant, webhook>>
    PROVE  [Loan!Next]_Loan!loanVars
<1>1. Hard' = Hard /\ LiveRQs' = LiveRQs
  BY DEF Hard, LiveRQs
<1>2. CASE Books' = Books
  BY <1>1, <1>2 DEF Loan!loanVars
<1>3. CASE Books' # Books
  <2>1. webhook
    <3>1. PICK r \in RQs : Books'[r] # Books[r]
      BY <1>3 DEF BooksHonest
    <3> QED
      BY <3>1 DEF BooksHonest
  <2>2. ASSUME NEW r \in RQs, Books'[r] # Books[r], Hard[r] # Gone
        PROVE  {Books[r], Books'[r]} = {NotRecorded, Hard[r]}
    <3>1. r \in LiveRQs /\ Hard[r] = rq[r].hard
      BY <2>2 DEF Hard, LiveRQs
    <3>2. /\ Books[r] \in {NotRecorded, tenant[r]}
          /\ Books'[r] \in {NotRecorded, tenant[r]}
      BY <1>1, <3>1 DEF BooksHonest
    <3>3. Books[r] = NotRecorded \/ Books'[r] = NotRecorded
      BY <2>2, <3>2
    <3>4. rq[r].hard = tenant[r]
      BY <1>1, <3>1, <3>3 DEF BooksHonest
    <3> QED
      BY <2>2, <3>1, <3>2, <3>3, <3>4
  <2> QED
    BY <1>1, <2>1, <2>2 DEF BooksHonest, Loan!Next, Loan!Book
<1> QED
  BY <1>2, <1>3

\* Of what the surroundings do QuotaLoan sees the deletion of a quota.
LEMMA RefinesCluster ==
    ASSUME Reliable, TypeOK, CacheCurrent, ClusterNext
    PROVE  [Loan!Next]_Loan!loanVars
<1>1. tenant' = tenant /\ webhook' = webhook /\ Books' = Books
  BY ClusterQuotas, ClusterKeeps, BooksFrame
<1>2. CASE \A r \in RQs : rq'[r].live = rq[r].live /\ rq'[r].hard = rq[r].hard
  <2>1. Hard' = Hard
    BY <1>2 DEF Hard
  <2> QED
    BY <1>1, <2>1 DEF Loan!loanVars
<1>3. ASSUME NEW s \in RQs, ~ rq'[s].live, \A r \in RQs \ {s} : rq'[r] = rq[r]
      PROVE  [Loan!Next]_Loan!loanVars
  <2>1. Hard' = [Hard EXCEPT ![s] = Gone]
    BY <1>3 DEF Hard
  <2> QED
    BY <1>1, <1>3, <2>1 DEF Loan!Next, Loan!TenantDelete
<1> QED
  BY <1>2, <1>3, ClusterQuotas

\* The rounds of the two loops are Return and Lend.
LEMMA RefinesLoops ==
    ASSUME Reliable, TypeOK, TypeOK', IndInv, LoanIndInv, BooksHonest,
           NEW w \in Workers, NEW s \in RQs, RestoreRQ(w, s) \/ RaiseRQ(w, s)
    PROVE  [Loan!Next]_Loan!loanVars
<1>1. tenant' = tenant /\ webhook' = webhook /\ Books' = Books
  BY LoopOutcome, BooksFrame
<1>2. CASE UNCHANGED rq
  <2>1. Hard' = Hard
    BY <1>2 DEF Hard
  <2> QED
    BY <1>1, <2>1 DEF Loan!loanVars
<1>3. ASSUME NEW hard, s \in LiveRQs, rq' = [rq EXCEPT ![s].hard = hard],
             \/ pc[w] = "restore" /\ hard = tenant[s]
             \/ pc[w] = "raise" /\ rq[s].hard = tenant[s]
      PROVE  [Loan!Next]_Loan!loanVars
  <2>1. Books[s] = tenant[s] /\ tenant[s] \in ResourceList
    <3>1. /\ loc[w].vm \in LiveVMMRQs /\ ledger(loc[w].vm) = remembered(w)
          /\ s \in recorded(remembered(w))
      <4>1. pc[w] \in {"restore", "raise"} /\ s \in recorded(remembered(w))
        BY LoopOutcome
      <4>2. HolderKnows(w)
        BY <4>1, IndInvParts DEF Holders
      <4> QED
        BY <4>1, <4>2 DEF HolderKnows, LiveVMMRQs, TypeOK, WorkerTypeOK, Locals
    <3>2. Bookers(s) # {}
      BY <3>1 DEF Bookers
    <3>3. Books[s] # NotRecorded
      BY <3>2, BookEntry, NotRecordedAssumption
    <3> QED
      BY <1>3, <3>3 DEF BooksHonest, TypeOK, ApiTypeOK
  <2>2. webhook
    BY <2>1, NotRecordedAssumption DEF BooksHonest
  <2>3. /\ rq'[s].live /\ rq'[s].hard = hard /\ hard \in ResourceList
        /\ rq[s].live /\ \A r \in RQs \ {s} : rq'[r] = rq[r]
    BY <1>3 DEF TypeOK, ApiTypeOK, RQObject, LiveRQs
  <2>4. Hard' = [Hard EXCEPT ![s] = hard] /\ Hard[s] = rq[s].hard /\ Hard'[s] = hard
    BY <2>3 DEF Hard
  <2>5. CASE pc[w] = "restore" /\ hard = tenant[s]
    <3>1. Hard[s] # Gone /\ Books[s] # NotRecorded
      BY <2>1, <2>3, <2>4, NotRecordedAssumption, GoneAssumption
         DEF TypeOK, ApiTypeOK, RQObject
    <3> QED
      BY <1>1, <2>1, <2>2, <2>4, <2>5, <3>1 DEF Loan!Next, Loan!Return
  <2>6. CASE pc[w] = "raise" /\ rq[s].hard = tenant[s]
    BY <1>1, <2>1, <2>2, <2>3, <2>4, <2>6 DEF Loan!Next, Loan!Lend
  <2> QED
    BY <1>3, <2>5, <2>6
<1> QED
  BY <1>2, <1>3, LoopOutcome

\* The controller does what QuotaLoan promises: every loan is booked before it
\* is taken, given back before its entry goes, and the namespace is locked for
\* as long as there are entries.
THEOREM ControllerImplementsLoan ==
    ASSUME Reliable
    PROVE  Spec => ImplementsLoan
<1>1. Init => Loan!Init
  BY RefinesInit
<1>2. /\ TypeOK /\ IndInv /\ LoanIndInv /\ (TypeOK /\ IndInv /\ LoanIndInv)'
      /\ [Next]_vars
      => [Loan!Next]_Loan!loanVars
  <2> SUFFICES ASSUME TypeOK, IndInv, LoanIndInv, (TypeOK /\ IndInv /\ LoanIndInv)',
                      [Next]_vars
               PROVE  [Loan!Next]_Loan!loanVars
    OBVIOUS
  <2>1. BooksHonest /\ BooksHonest' /\ CacheCurrent /\ TypeOK'
    BY BooksAreHonest, BooksStayHonest, LoanParts
  <2> QED
    BY <2>1, StepKinds, RefinesLocking, RefinesBooking, RefinesCluster, RefinesLoops
<1>3. Spec => []TypeOK /\ []IndInv
  BY TypeCorrect, WorkerMemory DEF Reliable
<1> QED
  BY <1>1, <1>2, <1>3, LedgersHoldTheTruth, PTL DEF Spec, ImplementsLoan, Loan!Spec
=============================================================================
