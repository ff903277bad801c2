------------------------- MODULE ControllerAppProofs -------------------------
(***************************************************************************)
(* For any number of replicas, workers, namespaces and migrations, any     *)
(* bound on crashes and outages and any durations of which the renew       *)
(* deadline is the shorter: one leader, one worker in a namespace, and a   *)
(* cache that tells the truth.                                             *)
(***************************************************************************)
EXTENDS ControllerApp, TLAPS

\* Why OneLeader holds.  A process leads only while its name is in the lease, and
\* nobody has watched the lease stand still for longer than the leader itself
\* has failed to renew it.
LeaseInv ==
    /\ \A p \in Replicas : Leads(p) => holder = p
    /\ \A p, q \in Replicas : Leads(p) /\ q \in seen => observed[q] <= renewed[p]
    /\ \A q \in Replicas : q \notin seen => observed[q] = 0

\* Why NamespaceExclusive holds.  A worker that is busy belongs to a process that
\* leads, and its mutex is the one in the map.
MutexInv ==
    /\ \A t \in Threads :
        thread[t].pc # "idle" =>
            /\ stage[Process(t)] = "working"
            /\ M[Process(t)][Ns(t)] # 0
            /\ thread[t].ref = M[Process(t)][Ns(t)]
    /\ NamespaceExclusive

\* Why CacheTruthful holds: the webhook changes only in the hands of a worker
\* that goes on to mark the cache, unless the reply or the mark gets lost, and
\* caches die with their process.
MarkInv ==
    \A p \in Replicas, n \in Namespaces :
        cache[p][n] # "unknown" =>
            /\ stage[p] = "working"
            /\ \/ <<p, n>> \in lost
               \/ \E t \in ThreadsOf(p) : thread[t].pc = "marking" /\ Ns(t) = n
               \/ (cache[p][n] = "locked") = (n \in webhook)

-----------------------------------------------------------------------------
\* The kinds of steps.

\* The end of a process, whatever the reason, and what it does to the lease.
Ended(p) ==
    /\ Exit(p)
    /\ holder' = holder \/ (holder = p /\ holder' = "gone")
    /\ UNCHANGED <<cut, kubevirts, apiVars>>
    /\ troubles' \in {troubles, troubles - 1}
    /\ troubles' # troubles => troubles > 0

\* Whatever ends a process is one of the kinds that Ended describes
\* (OnStoppedLeading, Crash, Replace and Throw).
LEMMA EndSteps ==
    ASSUME NEW p \in Replicas, troubles \in Nat,
           OnStoppedLeading(p) \/ Crash(p) \/ Replace(p)
    PROVE  Ended(p)
<1>1. CASE OnStoppedLeading(p)
    BY <1>1 DEF OnStoppedLeading, Ended
<1>2. CASE Crash(p)
    BY <1>2 DEF Crash, Ended, Trouble
<1>3. CASE Replace(p)
    BY <1>3 DEF Replace, Ended, Trouble
<1> QED
    BY <1>1, <1>2, <1>3

\* The same for the runtime that notices a race in one of a process's threads.
LEMMA ThrowEnds ==
    ASSUME NEW t \in Threads, Throw(t), troubles \in Nat
    PROVE  Process(t) \in Replicas /\ Ended(Process(t))
<1>1. Process(t) \in Replicas
    BY DEF Threads, Process
<1>2. Ended(Process(t))
    BY DEF Throw, Ended, Trouble
<1> QED
    BY <1>1, <1>2

-----------------------------------------------------------------------------
\* Types.

LEMMA TypeInit == Init => TypeOK
BY AppAssumption DEF Init, TypeOK, Threads, Idle, NoMutexes, NewNamespaceCache,
   Stages, Points, LockStates

\* Exit resets what the process has in memory (Exit).
LEMMA TypeEnded ==
    ASSUME TypeOK, NEW p \in Replicas, Ended(p)
    PROVE  TypeOK'
<1> USE DEF TypeOK, Ended, Exit
<1>1. stage' \in [Replicas -> Stages]
    BY DEF Stages
<1>2. /\ holder' \in Replicas \cup {None, "gone"}
      /\ seen' \cup cut' \subseteq Replicas
    OBVIOUS
<1>3. /\ observed' \in [Replicas -> 0..LeaseDuration]
      /\ renewed' \in [Replicas -> 0..RenewDeadline]
    BY AppAssumption
<1>4. /\ queue' \in [Replicas -> SUBSET Keys]
      /\ M' \in [Replicas -> [Namespaces -> Nat]]
    BY DEF NoMutexes
<1>5. cache' \in [Replicas -> [Namespaces -> LockStates]]
    BY DEF NewNamespaceCache, LockStates
<1>6. thread' \in [Threads -> [pc : Points, ref : Nat, raced : BOOLEAN]]
    BY DEF Idle, Points
<1>7. /\ lost' \subseteq Replicas \X Namespaces
      /\ troubles' \in 0..MaxTroubles
    BY AppAssumption
<1>8. /\ kubevirts' \in 0..1
      /\ namespace' \in [Keys -> Namespaces]
      /\ unserved' \subseteq Keys
      /\ webhook' \subseteq Namespaces
    BY DEF apiVars
<1> QED
    BY <1>1, <1>2, <1>3, <1>4, <1>5, <1>6, <1>7, <1>8

\* The election and the start of the controller (Start, Observe, Acquire,
\* onStartedLeading, Run).
LEMMA TypeElect ==
    ASSUME TypeOK, NEW p \in Replicas,
           Start(p) \/ Observe(p) \/ Acquire(p) \/ onStartedLeading(p) \/ Run(p)
    PROVE  TypeOK'
<1> USE DEF TypeOK, Stages, leaseVars, memVars, apiVars
<1>1. CASE Start(p)
    BY <1>1 DEF Start
<1>2. CASE Observe(p)
    BY <1>2 DEF Observe
<1>3. CASE Acquire(p)
    BY <1>3, AppAssumption DEF Acquire
<1>4. CASE onStartedLeading(p)
    BY <1>4 DEF onStartedLeading
<1>5. CASE Run(p)
    BY <1>5 DEF Run
<1> QED
    BY <1>1, <1>2, <1>3, <1>4, <1>5

\* Time: the renew deadline is never exceeded (Tick).
LEMMA TypeTick ==
    ASSUME TypeOK, Tick
    PROVE  TypeOK'
<1> USE DEF TypeOK, Tick, leaseVars, memVars, apiVars
<1>1. renewed' \in [Replicas -> 0..RenewDeadline]
  <2>1. \A p \in Replicas :
            (IF Leads(p) /\ ~ Renews(p) THEN renewed[p] + 1 ELSE 0) \in 0..RenewDeadline
      BY AppAssumption
  <2> QED
      BY <2>1
<1>2. observed' \in [Replicas -> 0..LeaseDuration]
  <2> DEFINE kept == \E p \in Replicas : Renews(p)
  <2>1. \A p \in Replicas :
            (IF kept \/ p \notin seen THEN 0
             ELSE IF observed[p] < LeaseDuration THEN observed[p] + 1
             ELSE observed[p]) \in 0..LeaseDuration
      BY AppAssumption
  <2> HIDE DEF kept
  <2>2. observed' = [p \in Replicas |->
                       IF kept \/ p \notin seen THEN 0
                       ELSE IF observed[p] < LeaseDuration THEN observed[p] + 1
                       ELSE observed[p]]
      BY DEF kept
  <2> QED
      BY <2>1, <2>2
<1>3. seen' \subseteq Replicas
    OBVIOUS
<1> QED
    BY <1>1, <1>2, <1>3

\* The rest of the cluster and the timer (Reconnect, CutOff,
\* ChangeKubeVirts, Update, enqueueAll).
LEMMA TypeOutside ==
    ASSUME TypeOK,
           \/ \E p \in Replicas : Reconnect(p) \/ CutOff(p) \/ enqueueAll(p)
           \/ ChangeKubeVirts
           \/ \E k \in Keys : Update(k)
    PROVE  TypeOK'
<1> USE DEF TypeOK, leaseVars, memVars, apiVars
<1>1. ASSUME NEW p \in Replicas, Reconnect(p)
      PROVE  TypeOK'
    BY <1>1 DEF Reconnect
<1>2. ASSUME NEW p \in Replicas, CutOff(p)
      PROVE  TypeOK'
    BY <1>2, AppAssumption DEF CutOff, Trouble
<1>3. CASE ChangeKubeVirts
    BY <1>3, AppAssumption DEF ChangeKubeVirts, Trouble
<1>4. ASSUME NEW k \in Keys, Update(k)
      PROVE  TypeOK'
    BY <1>4 DEF Update
<1>5. ASSUME NEW p \in Replicas, enqueueAll(p)
      PROVE  TypeOK'
    BY <1>5 DEF enqueueAll, missed
<1> QED
    BY <1>1, <1>2, <1>3, <1>4, <1>5

\* A thread has a process and a key, and the key a namespace.
LEMMA ThreadParts ==
    ASSUME TypeOK, NEW t \in Threads
    PROVE  Process(t) \in Replicas /\ Key(t) \in Keys /\ Ns(t) \in Namespaces
BY DEF Threads, Process, Key, Ns, TypeOK

\* EndAccess and Return keep the types of threads and of the queue.
LEMMA TypeReturn ==
    ASSUME TypeOK, NEW t \in Threads, NEW failed \in BOOLEAN, Return(t, failed)
    PROVE  /\ thread' \in [Threads -> [pc : Points, ref : Nat, raced : BOOLEAN]]
           /\ queue' \in [Replicas -> SUBSET Keys]
           /\ unserved' \subseteq Keys
<1>1. thread' \in [Threads -> [pc : Points, ref : Nat, raced : BOOLEAN]]
    BY DEF TypeOK, Return, EndAccess, Idle, Points
<1>2. queue' \in [Replicas -> SUBSET Keys] /\ unserved' \subseteq Keys
    BY ThreadParts DEF TypeOK, Return
<1> QED
    BY <1>1, <1>2

\* The webhook, when the worker t changes it.
Flipped(t) == IF Ns(t) \in webhook THEN webhook \ {Ns(t)} ELSE webhook \cup {Ns(t)}

\* SetLock leaves the webhook alone, or changes it and goes on to mark the cache,
\* or changes it and loses the reply.
LEMMA SetLockOutcomes ==
    ASSUME NEW t \in Threads, SetLock(t)
    PROVE  \/ /\ Return(t, TRUE) \/ Return(t, FALSE)
              /\ UNCHANGED <<webhook, lost>>
           \/ /\ webhook' = Flipped(t)
              /\ EndAccess(t, [thread[t] EXCEPT !.pc = "marking", !.raced = FALSE])
              /\ UNCHANGED <<queue, unserved, lost>>
           \/ /\ webhook' = Flipped(t)
              /\ Return(t, TRUE)
              /\ lost' = lost \cup {<<Process(t), Ns(t)>>}
BY DEF SetLock, Flipped

\* The workers (Get, Lock, SetLock, Mark).
LEMMA TypeWorker ==
    ASSUME TypeOK, NEW t \in Threads, Get(t) \/ Lock(t) \/ SetLock(t) \/ Mark(t)
    PROVE  TypeOK'
<1>0. Process(t) \in Replicas /\ Key(t) \in Keys /\ Ns(t) \in Namespaces
    BY ThreadParts
<1>1. CASE Get(t)
  <2>1. getLock(Process(t), Ns(t)) \in Nat
      BY <1>0 DEF getLock, TypeOK
  <2>2. M' \in [Replicas -> [Namespaces -> Nat]]
      BY <1>0, <1>1, <2>1 DEF Get, TypeOK
  <2>3. thread' \in [Threads -> [pc : Points, ref : Nat, raced : BOOLEAN]]
      BY <1>1, <2>1 DEF Get, TypeOK, Points
  <2>4. queue' \in [Replicas -> SUBSET Keys]
      BY <1>0, <1>1 DEF Get, TypeOK
  <2> QED
      BY <1>1, <2>2, <2>3, <2>4 DEF Get, TypeOK, outside, leaseVars, apiVars
<1>2. CASE Lock(t)
  <2>1. thread' \in [Threads -> [pc : Points, ref : Nat, raced : BOOLEAN]]
      BY <1>2 DEF Lock, TypeOK, Points
  <2> QED
      BY <1>2, <2>1 DEF Lock, TypeOK, outside, leaseVars, apiVars
<1>3. CASE SetLock(t)
  <2>0. Flipped(t) \subseteq Namespaces
      BY <1>0 DEF Flipped, TypeOK
  <2>1. /\ thread' \in [Threads -> [pc : Points, ref : Nat, raced : BOOLEAN]]
        /\ queue' \in [Replicas -> SUBSET Keys]
        /\ unserved' \subseteq Keys
        /\ webhook' \subseteq Namespaces
        /\ lost' \subseteq Replicas \X Namespaces
    <3>1. CASE /\ Return(t, TRUE) \/ Return(t, FALSE)
               /\ UNCHANGED <<webhook, lost>>
        BY <3>1, TypeReturn DEF TypeOK
    <3>2. CASE /\ webhook' = Flipped(t)
               /\ EndAccess(t, [thread[t] EXCEPT !.pc = "marking", !.raced = FALSE])
               /\ UNCHANGED <<queue, unserved, lost>>
        BY <2>0, <3>2 DEF TypeOK, EndAccess, Points
    <3>3. CASE /\ webhook' = Flipped(t)
               /\ Return(t, TRUE)
               /\ lost' = lost \cup {<<Process(t), Ns(t)>>}
      <4>1. <<Process(t), Ns(t)>> \in Replicas \X Namespaces
          BY <1>0
      <4> QED
          BY <2>0, <3>3, <4>1, TypeReturn DEF TypeOK
    <3> QED
        BY <1>3, <3>1, <3>2, <3>3, SetLockOutcomes
  <2>2. troubles' \in 0..MaxTroubles
    <3>1. troubles \in 0..MaxTroubles
        BY DEF TypeOK
    <3>2. PICK state \in {cache[Process(t)][Ns(t)]} \cup Missed(t) :
            LET left == IF state = cache[Process(t)][Ns(t)] THEN troubles
                        ELSE troubles - 1
            IN  troubles' = left \/ (left > 0 /\ troubles' = left - 1)
        BY <1>3 DEF SetLock
    <3>3. state # cache[Process(t)][Ns(t)] => troubles > 0
        BY <3>2 DEF Missed
    <3> QED
        BY <3>1, <3>2, <3>3, AppAssumption
  <2> QED
      BY <1>3, <2>1, <2>2 DEF SetLock, TypeOK, outside, leaseVars
<1>4. CASE Mark(t)
  <2>1. /\ thread' \in [Threads -> [pc : Points, ref : Nat, raced : BOOLEAN]]
        /\ queue' \in [Replicas -> SUBSET Keys]
        /\ unserved' \subseteq Keys
      BY <1>4, TypeReturn DEF Mark
  <2>2. cache' \in [Replicas -> [Namespaces -> LockStates]]
    <3>1. MarkLockState(Ns(t)) \in LockStates
        BY DEF MarkLockState, LockStates
    <3> DEFINE n == Ns(t)
               v == MarkLockState(n)
    <3>2. \/ cache' = cache
          \/ cache' = [cache EXCEPT ![Process(t)][n] = v]
        BY <1>4 DEF Mark
    <3>3. n \in Namespaces /\ v \in LockStates
        BY <1>0, <3>1
    <3>4. cache \in [Replicas -> [Namespaces -> LockStates]]
        BY DEF TypeOK
    <3> HIDE DEF n, v
    <3>5. CASE cache' = [cache EXCEPT ![Process(t)][n] = v]
        BY <1>0, <3>3, <3>4, <3>5
    <3> QED
        BY <3>2, <3>4, <3>5
  <2>3. lost' \subseteq Replicas \X Namespaces
    <3>1. <<Process(t), Ns(t)>> \in Replicas \X Namespaces
        BY <1>0
    <3>2. lost' \subseteq lost \cup {<<Process(t), Ns(t)>>}
        BY <1>4 DEF Mark
    <3> QED
        BY <3>1, <3>2 DEF TypeOK
  <2> QED
      BY <1>4, <2>1, <2>2, <2>3 DEF Mark, TypeOK, outside, leaseVars
<1> QED
    BY <1>1, <1>2, <1>3, <1>4

\* A step of Next is one of the kinds above.
LEMMA Kinds ==
    ASSUME TypeOK, Next
    PROVE  \/ \E p \in Replicas : Ended(p)
           \/ \E p \in Replicas :
                Start(p) \/ Observe(p) \/ Acquire(p) \/ onStartedLeading(p) \/ Run(p)
           \/ Tick
           \/ \/ \E p \in Replicas : Reconnect(p) \/ CutOff(p) \/ enqueueAll(p)
              \/ ChangeKubeVirts
              \/ \E k \in Keys : Update(k)
           \/ \E t \in Threads : Get(t) \/ Lock(t) \/ SetLock(t) \/ Mark(t)
<1>0. troubles \in Nat
    BY AppAssumption DEF TypeOK
<1>1. ASSUME NEW p \in Replicas, OnStoppedLeading(p) \/ Crash(p) \/ Replace(p)
      PROVE  \E q \in Replicas : Ended(q)
    BY <1>0, <1>1, EndSteps
<1>2. ASSUME NEW t \in Threads, Throw(t)
      PROVE  \E q \in Replicas : Ended(q)
    BY <1>0, <1>2, ThrowEnds
<1> QED
    BY <1>1, <1>2 DEF Next, Elect, Step

\* Types are preserved.
LEMMA TypeStep == TypeOK /\ [Next]_vars => TypeOK'
<1> SUFFICES ASSUME TypeOK, [Next]_vars
             PROVE  TypeOK'
    OBVIOUS
<1>1. CASE Next
    BY <1>1, Kinds, TypeEnded, TypeElect, TypeTick, TypeOutside, TypeWorker
<1>2. CASE UNCHANGED vars
    BY <1>2 DEF vars, TypeOK, leaseVars, memVars, apiVars
<1> QED
    BY <1>1, <1>2

\* Every variable of the controller's processes keeps its type; in particular a
\* leader is never later than RenewDeadline with its lease (setupLeaderElector).
THEOREM AppTypeCorrect == Spec => []TypeOK
<1>1. Init => TypeOK
    BY TypeInit
<1>2. TypeOK /\ [Next]_vars => TypeOK'
    BY TypeStep
<1> QED
    BY <1>1, <1>2, PTL DEF Spec

-----------------------------------------------------------------------------
\* The lease.

LEMMA LeaseInit == Init => LeaseInv
BY DEF Init, LeaseInv, Leads

\* Nobody can take the lease from a leader: the one that would has watched it for
\* LeaseDuration, the leader has failed for RenewDeadline at most.
LEMMA NoLeaderWhenExpired ==
    ASSUME TypeOK, LeaseInv, NEW p \in Replicas, stage[p] = "candidate", Expired(p)
    PROVE  \A q \in Replicas : ~ Leads(q)
<1> SUFFICES ASSUME NEW q \in Replicas, Leads(q)
             PROVE  FALSE
    OBVIOUS
<1>1. holder = q
    BY DEF LeaseInv
<1>2. q # p
    BY DEF Leads
<1>3. observed[p] >= LeaseDuration
    BY <1>1, <1>2, AppAssumption DEF Expired
<1>4. observed[p] <= renewed[q]
    BY DEF LeaseInv, Expired
<1>5. /\ observed[p] \in Nat
      /\ renewed[q] \in Nat
      /\ renewed[q] <= RenewDeadline
    BY AppAssumption DEF TypeOK
<1> QED
    BY <1>3, <1>4, <1>5, AppAssumption

\* The lease invariant is preserved.
LEMMA LeaseStep == TypeOK /\ LeaseInv /\ [Next]_vars => LeaseInv'
<1> SUFFICES ASSUME TypeOK, LeaseInv, [Next]_vars
             PROVE  LeaseInv'
    OBVIOUS
<1>0. UNCHANGED <<stage, holder, seen, observed, renewed>> => LeaseInv'
    BY DEF LeaseInv, Leads
<1>1. ASSUME NEW p \in Replicas, Ended(p)
      PROVE  LeaseInv'
  <2>1. /\ \A q \in Replicas : Leads(q)' <=> q # p /\ Leads(q)
        /\ \A q \in Replicas : q # p => renewed'[q] = renewed[q] /\ observed'[q] = observed[q]
        /\ seen' = seen \ {p}
        /\ observed'[p] = 0
      BY <1>1 DEF Ended, Exit, Leads, TypeOK
  <2> QED
      BY <1>1, <2>1 DEF LeaseInv, Ended
<1>2. ASSUME NEW p \in Replicas, Start(p)
      PROVE  LeaseInv'
  <2>1. \A q \in Replicas : Leads(q)' <=> Leads(q)
      BY <1>2 DEF Start, Leads, TypeOK
  <2> QED
      BY <1>2, <2>1 DEF LeaseInv, Start, leaseVars
<1>3. ASSUME NEW p \in Replicas, Observe(p)
      PROVE  LeaseInv'
  <2>1. \A q \in Replicas : renewed[q] >= 0 /\ renewed[q] \in Int
      BY AppAssumption DEF TypeOK
  <2>2. \A q \in Replicas : Leads(q)' <=> Leads(q)
      BY <1>3 DEF Observe, Leads
  <2> QED
      BY <1>3, <2>1, <2>2 DEF LeaseInv, Observe
<1>4. ASSUME NEW p \in Replicas, Acquire(p)
      PROVE  LeaseInv'
  <2>1. \A q \in Replicas : ~ Leads(q)
      BY <1>4, NoLeaderWhenExpired DEF Acquire
  <2>2. \A q \in Replicas : Leads(q)' => q = p
      BY <1>4, <2>1 DEF Acquire, Leads, TypeOK
  <2> QED
      BY <1>4, <2>2 DEF LeaseInv, Acquire
<1>5. ASSUME NEW p \in Replicas, onStartedLeading(p) \/ Run(p)
      PROVE  LeaseInv'
  <2>1. \A q \in Replicas : Leads(q)' <=> Leads(q)
      BY <1>5 DEF onStartedLeading, Run, Leads, TypeOK
  <2> QED
      BY <1>5, <2>1 DEF LeaseInv, onStartedLeading, Run, leaseVars
<1>6. CASE Tick
  <2> DEFINE kept == \E p \in Replicas : Renews(p)
  <2>1. \A q \in Replicas : Leads(q)' <=> Leads(q)
      BY <1>6 DEF Tick, Leads
  <2>2. CASE kept
      BY <1>6, <2>1, <2>2 DEF LeaseInv, Tick
  <2>3. CASE ~ kept
    <3>1. /\ seen' = seen
          /\ \A p \in Replicas : Leads(p) => renewed'[p] = renewed[p] + 1
          /\ \A p \in Replicas : p \notin seen => observed'[p] = 0
          /\ \A p \in Replicas : observed'[p] \in {0, observed[p], observed[p] + 1}
        BY <1>6, <2>3 DEF Tick
    <3>2. \A p \in Replicas : observed[p] \in Nat /\ renewed[p] \in Nat
        BY AppAssumption DEF TypeOK
    <3>3. holder' = holder
        BY <1>6 DEF Tick
    <3> HIDE DEF kept
    <3> QED
        BY <2>1, <3>1, <3>2, <3>3 DEF LeaseInv
  <2> QED
      BY <2>2, <2>3
<1>7. CASE \/ \E p \in Replicas : Reconnect(p) \/ CutOff(p) \/ enqueueAll(p)
           \/ ChangeKubeVirts
           \/ \E k \in Keys : Update(k)
    BY <1>0, <1>7 DEF Reconnect, CutOff, enqueueAll, ChangeKubeVirts, Update, leaseVars
<1>8. CASE \E t \in Threads : Get(t) \/ Lock(t) \/ SetLock(t) \/ Mark(t)
    BY <1>0, <1>8 DEF Get, Lock, SetLock, Mark, outside, leaseVars
<1>9. CASE UNCHANGED vars
    BY <1>0, <1>9 DEF vars, leaseVars
<1> QED
    BY <1>1, <1>2, <1>3, <1>4, <1>5, <1>6, <1>7, <1>8, <1>9, Kinds

\* Whatever crashes, outages and delays there are, two replicas never lead at the
\* same time (setupLeaderElector and the Fatal of OnStoppedLeading).
THEOREM LeadersAlone == Spec => []OneLeader
<1>1. Init => TypeOK /\ LeaseInv
    BY TypeInit, LeaseInit
<1>2. TypeOK /\ LeaseInv /\ [Next]_vars => (TypeOK /\ LeaseInv)'
    BY TypeStep, LeaseStep
<1>3. LeaseInv => OneLeader
    BY DEF LeaseInv, OneLeader, leaderProbe, Leads
<1> QED
    BY <1>1, <1>2, <1>3, PTL DEF Spec
-----------------------------------------------------------------------------
\* The mutexes.

\* A busy worker and the mutex it has got from the map.
HasMutex(t) ==
    /\ stage[Process(t)] = "working"
    /\ M[Process(t)][Ns(t)] # 0
    /\ thread[t].ref = M[Process(t)][Ns(t)]

LEMMA MutexInit == Init => MutexInv
BY DEF Init, MutexInv, NamespaceExclusive, Inside, Idle

\* Threads other than t go on as they are when an access of t ends, but for the
\* note that they were raced.
LEMMA EndAccessOthers ==
    ASSUME TypeOK, NEW t \in Threads, NEW new, EndAccess(t, new)
    PROVE  /\ thread'[t] = new
           /\ \A u \in Threads : u # t => /\ thread'[u].pc = thread[u].pc
                                          /\ thread'[u].ref = thread[u].ref
BY DEF EndAccess, TypeOK

\* SetLock and Mark leave a thread idle or with the mutex it has.
LEMMA AccessEnds ==
    ASSUME TypeOK, NEW t \in Threads, SetLock(t) \/ Mark(t)
    PROVE  /\ \/ thread'[t].pc = "idle"
              \/ /\ thread[t].pc = "reading"
                 /\ thread'[t].pc = "marking"
                 /\ thread'[t].ref = thread[t].ref
           /\ \A u \in Threads : u # t => /\ thread'[u].pc = thread[u].pc
                                          /\ thread'[u].ref = thread[u].ref
           /\ UNCHANGED <<stage, M, namespace>>
<1> DEFINE new == [thread[t] EXCEPT !.pc = "marking", !.raced = FALSE]
<1>1. thread[t] \in [pc : Points, ref : Nat, raced : BOOLEAN]
    BY DEF TypeOK
<1>2. /\ EndAccess(t, Idle) \/ (EndAccess(t, new) /\ thread[t].pc = "reading")
      /\ UNCHANGED <<stage, M, namespace>>
    BY SetLockOutcomes DEF SetLock, Mark, Return, At, outside
<1>3. Idle.pc = "idle" /\ new.pc = "marking" /\ new.ref = thread[t].ref
    BY <1>1 DEF Idle
<1> HIDE DEF new
<1>4. CASE EndAccess(t, Idle)
    BY <1>2, <1>3, <1>4, EndAccessOthers
<1>5. CASE EndAccess(t, new) /\ thread[t].pc = "reading"
    BY <1>2, <1>3, <1>5, EndAccessOthers
<1> QED
    BY <1>2, <1>4, <1>5

\* Two workers inside for the same namespace are of one process: both processes
\* would lead.
LEMMA InsideAlone ==
    ASSUME LeaseInv, NEW t \in Threads, NEW u \in Threads,
           stage[Process(t)] = "working", stage[Process(u)] = "working"
    PROVE  Process(t) = Process(u)
<1>1. Process(t) \in Replicas /\ Process(u) \in Replicas
    BY DEF Threads, Process
<1> QED
    BY <1>1 DEF LeaseInv, Leads

\* The mutex invariant is preserved.
LEMMA MutexStep ==
    TypeOK /\ LeaseInv /\ MutexInv /\ [Next]_vars => MutexInv'
<1> SUFFICES ASSUME TypeOK, LeaseInv, MutexInv, [Next]_vars
             PROVE  MutexInv'
    OBVIOUS
<1> DEFINE Kept ==
        \A t \in Threads : thread'[t].pc # "idle" =>
            /\ thread'[t].pc = thread[t].pc
            /\ HasMutex(t)'
<1>a. \A t \in Threads : thread[t].pc # "idle" => HasMutex(t)
    BY DEF MutexInv, HasMutex
<1>b. (\A t \in Threads : thread'[t].pc # "idle" => HasMutex(t)')
            /\ NamespaceExclusive' => MutexInv'
    BY DEF MutexInv, HasMutex
<1>0. UNCHANGED namespace /\ Kept => MutexInv'
  <2> SUFFICES ASSUME UNCHANGED namespace, Kept
               PROVE  MutexInv'
      OBVIOUS
  <2>1. \A t \in Threads : Inside(t)' => Inside(t)
      BY DEF Inside
  <2>2. \A t \in Threads : Ns(t)' = Ns(t)
      BY DEF Ns
  <2>3. NamespaceExclusive'
      BY <2>1, <2>2 DEF MutexInv, NamespaceExclusive
  <2> QED
      BY <1>b, <2>3
<1>1. ASSUME NEW p \in Replicas, Ended(p)
      PROVE  MutexInv'
  <2>1. UNCHANGED namespace
      BY <1>1 DEF Ended, apiVars
  <2>2. ASSUME NEW t \in Threads, thread'[t].pc # "idle"
        PROVE  thread'[t].pc = thread[t].pc /\ HasMutex(t)'
    <3>1. Process(t) # p /\ thread'[t] = thread[t]
        BY <1>1, <2>2 DEF Ended, Exit, Idle
    <3>2. Process(t) \in Replicas
        BY ThreadParts
    <3>3. stage'[Process(t)] = stage[Process(t)] /\ M'[Process(t)] = M[Process(t)]
        BY <1>1, <3>1, <3>2 DEF Ended, Exit, TypeOK
    <3> QED
        BY <1>a, <2>1, <2>2, <3>1, <3>3 DEF HasMutex, Ns
  <2> QED
      BY <1>0, <2>1, <2>2
<1>2. ASSUME NEW p \in Replicas,
             Start(p) \/ Observe(p) \/ Acquire(p) \/ onStartedLeading(p) \/ Run(p)
      PROVE  MutexInv'
  <2>1. UNCHANGED <<namespace, thread, M>>
      BY <1>2 DEF Start, Observe, Acquire, onStartedLeading, Run, apiVars, memVars
  <2>2. \A q \in Replicas : stage[q] = "working" => stage'[q] = "working"
      BY <1>2 DEF Start, Observe, Acquire, onStartedLeading, Run, TypeOK
  <2>3. ASSUME NEW t \in Threads, thread'[t].pc # "idle"
        PROVE  thread'[t].pc = thread[t].pc /\ HasMutex(t)'
      BY <1>a, <2>1, <2>2, <2>3, ThreadParts DEF HasMutex, Ns
  <2> QED
      BY <1>0, <2>1, <2>3
<1>3. CASE UNCHANGED <<stage, namespace, thread, M>>
    BY <1>0, <1>3, <1>a DEF HasMutex, Ns
<1>4. CASE Tick
    BY <1>3, <1>4 DEF Tick, memVars, apiVars
<1>5. CASE \/ \E p \in Replicas : Reconnect(p) \/ CutOff(p) \/ enqueueAll(p)
           \/ ChangeKubeVirts
           \/ \E k \in Keys : Update(k)
    BY <1>3, <1>5 DEF Reconnect, CutOff, enqueueAll, ChangeKubeVirts, Update,
           memVars, apiVars
<1>6. ASSUME NEW t \in Threads, Get(t)
      PROVE  MutexInv'
  <2> DEFINE p == Process(t)
             n == Ns(t)
             m == getLock(p, n)
  <2>1. p \in Replicas /\ n \in Namespaces
      BY ThreadParts
  <2>2. m \in Nat /\ m # 0 /\ (M[p][n] # 0 => m = M[p][n])
      BY <2>1 DEF getLock, TypeOK
  <2>3. /\ UNCHANGED <<stage, namespace>>
        /\ stage[p] = "working"
        /\ M' = [M EXCEPT ![p][n] = m]
        /\ thread' = [thread EXCEPT ![t].pc = "lock", ![t].ref = m]
      BY <1>6 DEF Get, At, outside, apiVars
  <2>4. \A u \in Threads : u # t => thread'[u] = thread[u]
      BY <2>3 DEF TypeOK
  <2>5. thread'[t].pc = "lock" /\ thread'[t].ref = m
      BY <2>3 DEF TypeOK
  <2>6. \A q \in Replicas, x \in Namespaces :
            M'[q][x] = IF q = p /\ x = n THEN m ELSE M[q][x]
    <3> HIDE DEF p, n, m
    <3>1. M \in [Replicas -> [Namespaces -> Nat]]
        BY DEF TypeOK
    <3> QED
        BY <2>1, <2>3, <3>1
  <2>7. ASSUME NEW u \in Threads, thread'[u].pc # "idle"
        PROVE  HasMutex(u)'
    <3>1. Process(u) \in Replicas /\ Ns(u) \in Namespaces /\ Ns(u)' = Ns(u)
        BY <2>3, ThreadParts DEF Ns
    <3>2. CASE u = t
        BY <2>2, <2>3, <2>5, <2>6, <3>1, <3>2 DEF HasMutex
    <3>3. CASE u # t
      <4>1. thread'[u] = thread[u] /\ HasMutex(u)
          BY <1>a, <2>4, <2>7, <3>3
      <4>2. M'[Process(u)][Ns(u)] = M[Process(u)][Ns(u)]
          BY <2>2, <2>6, <3>1, <4>1 DEF HasMutex
      <4> QED
          BY <2>3, <3>1, <4>1, <4>2 DEF HasMutex
    <3> QED
        BY <3>2, <3>3
  <2>8. \A u \in Threads : Inside(u)' => Inside(u) /\ u # t
      BY <2>4, <2>5 DEF Inside
  <2>9. NamespaceExclusive'
      BY <2>3, <2>8 DEF MutexInv, NamespaceExclusive, Ns
  <2> QED
      BY <1>b, <2>7, <2>9
<1>7. ASSUME NEW t \in Threads, Lock(t)
      PROVE  MutexInv'
  <2>1. /\ UNCHANGED <<stage, namespace, M>>
        /\ thread[t].pc = "lock"
        /\ thread' = [thread EXCEPT ![t].pc = "reading"]
      BY <1>7 DEF Lock, At, outside, apiVars
  <2>2. /\ \A u \in Threads : thread'[u].ref = thread[u].ref
        /\ \A u \in Threads : u # t => thread'[u].pc = thread[u].pc
      BY <2>1 DEF TypeOK
  <2>3. \A u \in Threads : HasMutex(u) => HasMutex(u)'
      BY <2>1, <2>2 DEF HasMutex, Ns
  <2>4. \A u \in Threads : thread'[u].pc # "idle" => HasMutex(u)'
      BY <1>a, <2>1, <2>2, <2>3
  <2>5. \A u \in Threads : u # t /\ Inside(u)' => Inside(u)
      BY <2>2 DEF Inside
  <2>6. ASSUME NEW u \in Threads, u # t, Inside(u)
        PROVE  Ns(u) # Ns(t)
    <3>1. HasMutex(t) /\ HasMutex(u)
        BY <1>a, <2>1, <2>6 DEF Inside
    <3>2. Process(u) = Process(t)
        BY <3>1, InsideAlone DEF HasMutex
    <3>3. u \in ThreadsOf(Process(t))
        BY <3>2 DEF ThreadsOf
    <3> QED
        BY <1>7, <2>6, <3>1, <3>2, <3>3 DEF Lock, HasMutex
  <2>7. NamespaceExclusive'
      BY <2>1, <2>5, <2>6 DEF MutexInv, NamespaceExclusive, Ns
  <2> QED
      BY <1>b, <2>4, <2>7
<1>8. ASSUME NEW t \in Threads, SetLock(t) \/ Mark(t)
      PROVE  MutexInv'
  <2>1. /\ UNCHANGED <<stage, namespace, M>>
        /\ \A u \in Threads : thread'[u].pc # "idle" =>
                                /\ thread'[u].ref = thread[u].ref
                                /\ thread[u].pc # "idle"
      BY <1>8, AccessEnds
  <2>2. \A u \in Threads : thread'[u].pc # "idle" => HasMutex(u)'
      BY <1>a, <2>1 DEF HasMutex, Ns
  <2>3. \A u \in Threads : Inside(u)' => Inside(u)
      BY <1>8, AccessEnds DEF Inside
  <2>4. NamespaceExclusive'
      BY <2>1, <2>3 DEF MutexInv, NamespaceExclusive, Ns
  <2> QED
      BY <1>b, <2>2, <2>4
<1>9. CASE UNCHANGED vars
    BY <1>3, <1>9 DEF vars, memVars, apiVars
<1> QED
    BY <1>1, <1>2, <1>4, <1>5, <1>6, <1>7, <1>8, <1>9, Kinds

\* Two workers, of one process or of two, are never in execute for the same
\* namespace (getLock of NamespaceLockMap and the election).
THEOREM NamespacesExclusive == Spec => []NamespaceExclusive
<1>1. Init => TypeOK /\ LeaseInv /\ MutexInv
    BY TypeInit, LeaseInit, MutexInit
<1>2. TypeOK /\ LeaseInv /\ MutexInv /\ [Next]_vars => (TypeOK /\ LeaseInv /\ MutexInv)'
    BY TypeStep, LeaseStep, MutexStep
<1>3. MutexInv => NamespaceExclusive
    BY DEF MutexInv
<1> QED
    BY <1>1, <1>2, <1>3, PTL DEF Spec
-----------------------------------------------------------------------------
\* The cache.

\* A worker that has changed the webhook and has not yet marked the cache.
Marking(p, n) == \E t \in ThreadsOf(p) : thread[t].pc = "marking" /\ Ns(t) = n

\* What MarkInv says of one entry.
Entry(p, n) ==
    cache[p][n] # "unknown" =>
        /\ stage[p] = "working"
        /\ \/ <<p, n>> \in lost
           \/ Marking(p, n)
           \/ (cache[p][n] = "locked") = (n \in webhook)

LEMMA MarkEntries == MarkInv <=> \A p \in Replicas, n \in Namespaces : Entry(p, n)
BY DEF MarkInv, Entry, Marking

LEMMA MarkInit == Init => MarkInv
BY DEF Init, MarkInv, NewNamespaceCache

\* A worker that goes on marking is found by Marking in the next state.
LEMMA MarkingKept ==
    ASSUME NEW p \in Replicas, NEW n \in Namespaces, UNCHANGED namespace,
           \A t \in ThreadsOf(p) :
                thread[t].pc = "marking" /\ Ns(t) = n => thread'[t].pc = "marking"
    PROVE  Marking(p, n) => Marking(p, n)'
BY DEF Marking, Ns, ThreadsOf

\* The invariant of the cache is preserved.
LEMMA MarkStep ==
    TypeOK /\ LeaseInv /\ MarkInv /\ [Next]_vars => MarkInv'
<1> SUFFICES ASSUME TypeOK, LeaseInv, MarkInv, [Next]_vars,
                    NEW q \in Replicas, NEW x \in Namespaces
             PROVE  Entry(q, x)'
    BY DEF MarkInv, Entry, Marking
<1>a. Entry(q, x)
    BY MarkEntries
<1>b. \A t \in ThreadsOf(q) : t \in Threads /\ Process(t) = q
    BY DEF ThreadsOf
<1>0. CASE /\ UNCHANGED <<thread, cache, lost, namespace, webhook>>
           /\ stage[q] = "working" => stage'[q] = "working"
    BY <1>0, <1>a DEF Entry, Marking, Ns
<1>1. ASSUME NEW p \in Replicas, Ended(p)
      PROVE  Entry(q, x)'
  <2>1. CASE q = p
      BY <1>1, <2>1 DEF Ended, Exit, TypeOK, Entry, NewNamespaceCache
  <2>2. CASE q # p
    <3>1. cache'[q] = cache[q] /\ stage'[q] = stage[q]
        BY <1>1, <2>2 DEF Ended, Exit, TypeOK
    <3>2. UNCHANGED <<namespace, webhook>>
        BY <1>1 DEF Ended, apiVars
    <3>3. <<q, x>> \in lost => <<q, x>> \in lost'
        BY <1>1, <2>2 DEF Ended, Exit
    <3>4. \A t \in ThreadsOf(q) : thread'[t] = thread[t]
        BY <1>1, <1>b, <2>2 DEF Ended, Exit
    <3>5. Marking(q, x) => Marking(q, x)'
        BY <3>2, <3>4, MarkingKept
    <3> QED
        BY <1>a, <3>1, <3>2, <3>3, <3>5 DEF Entry
  <2> QED
      BY <2>1, <2>2
<1>2. ASSUME NEW p \in Replicas,
             Start(p) \/ Observe(p) \/ Acquire(p) \/ onStartedLeading(p) \/ Run(p)
      PROVE  Entry(q, x)'
  <2>1. UNCHANGED <<thread, cache, lost, namespace, webhook>>
      BY <1>2 DEF Start, Observe, Acquire, onStartedLeading, Run, apiVars, memVars
  <2>2. stage[q] = "working" => stage'[q] = "working"
      BY <1>2 DEF Start, Observe, Acquire, onStartedLeading, Run, TypeOK
  <2> QED
      BY <1>0, <2>1, <2>2
<1>3. CASE Tick
    BY <1>0, <1>3 DEF Tick, memVars, apiVars
<1>4. CASE \/ \E p \in Replicas : Reconnect(p) \/ CutOff(p) \/ enqueueAll(p)
           \/ ChangeKubeVirts
           \/ \E k \in Keys : Update(k)
    BY <1>0, <1>4 DEF Reconnect, CutOff, enqueueAll, ChangeKubeVirts, Update,
           memVars, apiVars
<1>5. ASSUME NEW t \in Threads, Get(t) \/ Lock(t)
      PROVE  Entry(q, x)'
  <2>1. UNCHANGED <<stage, cache, lost, namespace, webhook>>
      BY <1>5 DEF Get, Lock, outside, apiVars
  <2>2. \A u \in Threads : thread[u].pc = "marking" => thread'[u] = thread[u]
      BY <1>5 DEF Get, Lock, At, TypeOK
  <2>3. Marking(q, x) => Marking(q, x)'
      BY <1>b, <2>1, <2>2, MarkingKept
  <2> QED
      BY <1>a, <2>1, <2>3 DEF Entry
<1>6. ASSUME NEW t \in Threads, SetLock(t)
      PROVE  Entry(q, x)'
  <2> DEFINE goesOn == EndAccess(t, [thread[t] EXCEPT !.pc = "marking", !.raced = FALSE])
  <2>1. UNCHANGED <<stage, cache, namespace>>
      BY <1>6 DEF SetLock, outside
  <2>2. thread[t].pc = "reading" /\ stage[Process(t)] = "working"
      BY <1>6 DEF SetLock, At
  <2>3. \A u \in Threads : thread[u].pc = "marking" => thread'[u].pc = "marking"
      BY <1>6, <2>2, AccessEnds
  <2>4. Marking(q, x) => Marking(q, x)'
      BY <1>b, <2>1, <2>3, MarkingKept
  <2>5. \/ webhook' = webhook
        \/ webhook' = Flipped(t) /\ (goesOn \/ <<Process(t), Ns(t)>> \in lost')
      BY <1>6, SetLockOutcomes
  <2>6. lost \subseteq lost'
      BY <1>6, SetLockOutcomes
  <2>7. CASE (x \in webhook') = (x \in webhook)
      BY <1>a, <2>1, <2>4, <2>6, <2>7 DEF Entry
  <2>8. CASE (x \in webhook') # (x \in webhook)
    <3>1. x = Ns(t) /\ (goesOn \/ <<Process(t), x>> \in lost')
        BY <2>5, <2>8 DEF Flipped
    <3>2. goesOn => thread'[t].pc = "marking"
      <4>1. thread[t] \in [pc : Points, ref : Nat, raced : BOOLEAN]
          BY DEF TypeOK
      <4> QED
          BY <4>1, EndAccessOthers
    <3>3. CASE stage[q] = "working"
      <4>1. Process(t) = q
          BY <2>2, <3>3, ThreadParts DEF LeaseInv, Leads
      <4>2. t \in ThreadsOf(q)
          BY <4>1 DEF ThreadsOf
      <4>3. goesOn => Marking(q, x)'
          BY <2>1, <3>1, <3>2, <4>2 DEF Marking, Ns, ThreadsOf
      <4> QED
          BY <2>1, <3>1, <3>3, <4>1, <4>3 DEF Entry
    <3>4. CASE stage[q] # "working"
        BY <1>a, <2>1, <3>4 DEF Entry
    <3> QED
        BY <3>3, <3>4
  <2> QED
      BY <2>7, <2>8
<1>7. ASSUME NEW t \in Threads, Mark(t)
      PROVE  Entry(q, x)'
  <2> DEFINE p == Process(t)
             n == Ns(t)
             v == MarkLockState(n)
  <2>1. UNCHANGED <<stage, namespace, webhook>> /\ stage[p] = "working"
      BY <1>7 DEF Mark, At, outside
  <2>2. \/ cache' = [cache EXCEPT ![p][n] = v] /\ lost' = lost \ {<<p, n>>}
        \/ cache' = cache /\ lost' = lost \cup {<<p, n>>}
      BY <1>7 DEF Mark
  <2>3. p \in Replicas /\ n \in Namespaces
      BY ThreadParts
  <2>4. (v = "locked") = (n \in webhook)
      BY DEF MarkLockState
  <2>5. cache \in [Replicas -> [Namespaces -> LockStates]]
      BY DEF TypeOK
  <2>6. CASE q = p /\ x = n
    <3> HIDE DEF p, n, v
    <3> QED
        BY <2>1, <2>2, <2>3, <2>4, <2>5, <2>6 DEF Entry
  <2>7. CASE ~ (q = p /\ x = n)
    <3>1. \A u \in ThreadsOf(q) :
            thread[u].pc = "marking" /\ Ns(u) = x => thread'[u].pc = "marking"
        BY <1>7, <1>b, <2>7, AccessEnds
    <3>2. Marking(q, x) => Marking(q, x)'
        BY <2>1, <3>1, MarkingKept
    <3> HIDE DEF p, n, v
    <3>3. cache'[q][x] = cache[q][x] /\ (<<q, x>> \in lost' <=> <<q, x>> \in lost)
        BY <2>2, <2>3, <2>5, <2>7
    <3> QED
        BY <1>a, <2>1, <3>2, <3>3 DEF Entry
  <2> QED
      BY <2>6, <2>7
<1>8. CASE UNCHANGED vars
    BY <1>0, <1>8 DEF vars, memVars, apiVars
<1> QED
    BY <1>1, <1>2, <1>3, <1>4, <1>5, <1>6, <1>7, <1>8, Kinds

\* What the leader has cached of a lock is true between two calls of execute,
\* unless the reply to the last Create or Delete of the webhook was lost or a race
\* on the map has lost the mark (lockNamespace, unlockNamespace and the exit of a
\* process that loses the lease).
THEOREM CachesTruthful == Spec => []CacheTruthful
<1>1. Init => TypeOK /\ LeaseInv /\ MarkInv
    BY TypeInit, LeaseInit, MarkInit
<1>2. TypeOK /\ LeaseInv /\ MarkInv /\ [Next]_vars => (TypeOK /\ LeaseInv /\ MarkInv)'
    BY TypeStep, LeaseStep, MarkStep
<1>3. MarkInv => CacheTruthful
    BY DEF MarkInv, CacheTruthful, Inside
<1> QED
    BY <1>1, <1>2, <1>3, PTL DEF Spec
=============================================================================
