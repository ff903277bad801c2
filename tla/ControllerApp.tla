---------------------------- MODULE ControllerApp ----------------------------
(***************************************************************************)
(* The processes of the controller: two replicas that compete for a lease, *)
(* the start of the informers and of the workers of the one that leads,    *)
(* and what the workers of a process share in memory: the mutexes of       *)
(* NamespaceLockMap and the map of NamespaceCache.                         *)
(*                                                                         *)
(* Of execute(), which module VmmrqController has in detail, remains the   *)
(* lock of the namespace, the look at the cached lock state, and a call    *)
(* that locks or unlocks the namespace.  Time goes in ticks.               *)
(***************************************************************************)
EXTENDS Integers, FiniteSets

CONSTANTS
    Replicas,      \* the pods of the Deployment
    threadiness,   \* how many workers a process has
    Namespaces,
    Keys,          \* the migrations to be served
    Assignments,   \* the ways the migrations may be spread over namespaces
    None,
    LeaseDuration, \* how long, in ticks, a lease that is not renewed is respected
    RenewDeadline, \* after how long a leader gives up renewing
    MaxTroubles    \* bound on crashes, outages, KubeVirts that come and go, lost
                   \* replies, and reads that a race spoils

ASSUME AppAssumption ==
    /\ Assignments \subseteq [Keys -> Namespaces]
    /\ None \notin Replicas
    /\ threadiness \in Nat \ {0}
    /\ {LeaseDuration, RenewDeadline, MaxTroubles} \subseteq Nat
    /\ RenewDeadline < LeaseDuration

LockStates == {"unknown", "locked", "unlocked"}

VARIABLES
    stage,     \* how far every process has come
    holder,    \* the identity in the lease
    seen,      \* the candidates that have seen the lease as it is now
    observed,  \* for how long each of them has seen it so
    renewed,   \* for how long each has not renewed it
    cut,       \* the processes that cannot reach the API server
    kubevirts, \* the number of KubeVirt objects
    namespace, \* the namespace of every key
    unserved,  \* keys with work to do: the migration is rejected, or a ledger
               \* still names it
    queue,     \* the keys in the queue of every process
    thread,    \* the state of every worker
    M,         \* NamespaceLockMap.M of every process: 0, or the number of a mutex
    cache,     \* NamespaceCache.cache
    lost,      \* the entries of it that missed the last change of the webhook:
               \* the reply to the call or, in a race, the write got lost
    webhook,   \* the namespaces that are locked
    troubles

leaseVars == <<holder, seen, observed, renewed>>
memVars == <<thread, M, cache, lost>>
apiVars == <<namespace, unserved, webhook>>
vars == <<stage, leaseVars, cut, kubevirts, queue, memVars, apiVars, troubles>>

\* A worker of a process is known by the key it processes.
Threads == Replicas \X Keys
Process(t) == t[1]
Key(t) == t[2]
Ns(t) == namespace[Key(t)]
ThreadsOf(p) == {t \in Threads : Process(t) = p}

\* pc, the mutex, and whether the access to the map is in a race
Idle == [pc |-> "idle", ref |-> 0, raced |-> FALSE]

NoMutexes == [n \in Namespaces |-> 0]
NewNamespaceCache == [n \in Namespaces |-> "unknown"]

Init ==
    /\ stage = [p \in Replicas |-> "down"]
    /\ holder = None
    /\ seen = {}
    /\ observed = [p \in Replicas |-> 0]
    /\ renewed = [p \in Replicas |-> 0]
    /\ cut = {}
    /\ kubevirts = 1
    /\ namespace \in Assignments
    /\ unserved = Keys
    /\ queue = [p \in Replicas |-> {}]
    /\ thread = [t \in Threads |-> Idle]
    /\ M = [p \in Replicas |-> NoMutexes]
    /\ cache = [p \in Replicas |-> NewNamespaceCache]
    /\ lost = {}
    /\ webhook = {}
    /\ troubles = MaxTroubles

Trouble == troubles > 0 /\ troubles' = troubles - 1

-----------------------------------------------------------------------------
\* Leader election.

Leads(p) == stage[p] \in {"syncing", "ready", "working", "stuck"}

\* Execute and Run up to the leader elector: a process that cannot read its
\* secret waits.
Start(p) ==
    /\ stage[p] = "down"
    /\ p \notin cut
    /\ stage' = [stage EXCEPT ![p] = "candidate"]
    /\ UNCHANGED <<leaseVars, cut, kubevirts, queue, memVars, apiVars, troubles>>

\* A candidate reads a lease that has changed.
Observe(p) ==
    /\ stage[p] = "candidate"
    /\ p \notin cut \cup seen
    /\ seen' = seen \cup {p}
    /\ UNCHANGED <<stage, holder, observed, renewed, cut, kubevirts, queue, memVars, apiVars, troubles>>

\* The lease is free, is the process's own from before a restart, or was not
\* renewed for its duration.
Expired(p) == p \in seen /\ (holder \in {None, p} \/ observed[p] >= LeaseDuration)

Acquire(p) ==
    /\ stage[p] = "candidate"
    /\ p \notin cut
    /\ Expired(p)
    /\ stage' = [stage EXCEPT ![p] = "syncing"]
    /\ holder' = p
    /\ seen' = {}
    /\ observed' = [q \in Replicas |-> 0]
    /\ renewed' = [renewed EXCEPT ![p] = 0]
    /\ UNCHANGED <<cut, kubevirts, queue, memVars, apiVars, troubles>>

\* Can the leader renew its lease.
Renews(p) == Leads(p) /\ p \notin cut /\ holder = p

\* The process ends, and with it all it has in memory.  The container starts
\* again under the same name.
Exit(p) ==
    /\ stage' = [stage EXCEPT ![p] = "down"]
    /\ queue' = [queue EXCEPT ![p] = {}]
    /\ thread' = [t \in Threads |-> IF Process(t) = p THEN Idle ELSE thread[t]]
    /\ M' = [M EXCEPT ![p] = NoMutexes]
    /\ cache' = [cache EXCEPT ![p] = NewNamespaceCache]
    /\ lost' = {e \in lost : e[1] # p}
    /\ renewed' = [renewed EXCEPT ![p] = 0]
    /\ seen' = seen \ {p}
    /\ observed' = [observed EXCEPT ![p] = 0]

\* Mutant of OnStoppedLeading: it is only logged.
OnStoppedLeadingLogged(p) ==
    /\ Leads(p)
    /\ ~ Renews(p)
    /\ renewed[p] = RenewDeadline
    /\ renewed' = [renewed EXCEPT ![p] = 0]
    /\ UNCHANGED <<stage, holder, seen, observed, cut, kubevirts, queue, memVars, apiVars, troubles>>

\* All attempts to renew have failed: Fatal.
OnStoppedLeading(p) ==
    /\ Leads(p)
    /\ ~ Renews(p)
    /\ renewed[p] = RenewDeadline
    /\ Exit(p)
    /\ UNCHANGED <<holder, cut, kubevirts, apiVars, troubles>>

\* A crash, a failure of the HTTP server, or the panic of enqueueMigration on the
\* tombstone of a migration whose deletion the informer has missed.
Crash(p) ==
    /\ stage[p] # "down"
    /\ Trouble
    /\ Exit(p)
    /\ UNCHANGED <<holder, cut, kubevirts, apiVars>>

\* The pod is replaced by one with another name.
Replace(p) ==
    /\ stage[p] # "down"
    /\ Trouble
    /\ Exit(p)
    /\ holder' = IF holder = p THEN "gone" ELSE holder
    /\ UNCHANGED <<cut, kubevirts, apiVars>>

CutOff(p) ==
    /\ Trouble
    /\ p \notin cut
    /\ cut' = cut \cup {p}
    /\ UNCHANGED <<stage, leaseVars, kubevirts, queue, memVars, apiVars>>

Reconnect(p) ==
    /\ p \in cut
    /\ cut' = cut \ {p}
    /\ UNCHANGED <<stage, leaseVars, kubevirts, queue, memVars, apiVars, troubles>>

\* Mutant of Tick: a leader may exit later than it has to.
TickLate ==
    LET kept == \E p \in Replicas : Renews(p) IN
    /\ renewed' = [p \in Replicas |-> IF Leads(p) /\ ~ Renews(p) THEN renewed[p] + 1 ELSE 0]
    /\ seen' = IF kept THEN {} ELSE seen
    /\ observed' = [p \in Replicas |->
                       IF kept \/ p \notin seen THEN 0
                       ELSE IF observed[p] < LeaseDuration THEN observed[p] + 1
                       ELSE observed[p]]
    /\ UNCHANGED <<stage, holder, cut, kubevirts, queue, memVars, apiVars, troubles>>

\* Time passes.  A leader that can does not let a tick pass without renewing its
\* lease, and one that has to exit does so first.
Tick ==
    LET kept == \E p \in Replicas : Renews(p) IN
    /\ \A p \in Replicas : Leads(p) /\ ~ Renews(p) => renewed[p] < RenewDeadline
    /\ renewed' = [p \in Replicas |-> IF Leads(p) /\ ~ Renews(p) THEN renewed[p] + 1 ELSE 0]
    /\ seen' = IF kept THEN {} ELSE seen
    /\ observed' = [p \in Replicas |->
                       IF kept \/ p \notin seen THEN 0
                       ELSE IF observed[p] < LeaseDuration THEN observed[p] + 1
                       ELSE observed[p]]
    /\ UNCHANGED <<stage, holder, cut, kubevirts, queue, memVars, apiVars, troubles>>

-----------------------------------------------------------------------------
\* The start of the controller.

\* The informers are in sync, all but the one of PVCs; the probe says leader.
onStartedLeading(p) ==
    /\ stage[p] = "syncing"
    /\ p \notin cut
    /\ stage' = [stage EXCEPT ![p] = "ready"]
    /\ UNCHANGED <<leaseVars, cut, kubevirts, queue, memVars, apiVars, troubles>>

leaderProbe(p) == stage[p] \in {"ready", "working", "stuck"}

\* Run registers the handlers and starts the workers and the timer; without
\* exactly one KubeVirt it returns an error that is only logged.  There is no
\* AddFunc for migrations: their keys are not replayed.  addVmmrq is, and brings
\* back the rejected ones in the namespaces that have a VMMRQ.
Run(p) ==
    /\ stage[p] = "ready"
    /\ \E back \in SUBSET unserved : queue' = [queue EXCEPT ![p] = back]
    /\ stage' = [stage EXCEPT ![p] = IF kubevirts = 1 THEN "working" ELSE "stuck"]
    /\ UNCHANGED <<leaseVars, cut, kubevirts, memVars, apiVars, troubles>>

\* Mutant of missed: without the second loop, over the migrations; a ledger names
\* migrations only under a lock.
missedInLedgers == {k \in unserved : namespace[k] \in webhook}

\* The migrations a ledger names, and the rejected ones.
missed == unserved

\* The timer of Run, every thirty seconds and at once.  A key that a worker has
\* is left out: what the queue makes of it is one more run after this one, which
\* Update brings about as well.
enqueueAll(p) ==
    LET again == {k \in missed : thread[<<p, k>>].pc = "idle"} IN
    /\ stage[p] = "working"
    /\ ~ again \subseteq queue[p]
    /\ queue' = [queue EXCEPT ![p] = @ \cup again]
    /\ UNCHANGED <<stage, leaseVars, cut, kubevirts, memVars, apiVars, troubles>>

\* A KubeVirt object is created or deleted.
ChangeKubeVirts ==
    /\ Trouble
    /\ kubevirts' \in {kubevirts - 1, kubevirts + 1} \cap (0..1)
    /\ UNCHANGED <<stage, leaseVars, cut, queue, memVars, apiVars>>

\* A migration is updated or deleted so that there is work to do (updateMigration,
\* deleteMigration); informers that are behind are not modelled here.
Update(k) ==
    /\ k \notin unserved
    /\ unserved' = unserved \cup {k}
    /\ queue' = [p \in Replicas |-> IF stage[p] \in {"working", "stuck"}
                                    THEN queue[p] \cup {k} ELSE queue[p]]
    /\ UNCHANGED <<stage, leaseVars, cut, kubevirts, memVars, namespace, webhook, troubles>>

-----------------------------------------------------------------------------
\* The workers.

At(t, pc) == stage[Process(t)] = "working" /\ thread[t].pc = pc

outside == <<stage, leaseVars, cut, kubevirts>>

\* Mutant of getLock: a new mutex whether one exists or not.
getLockNew(p, n) == M[p][n] + 1

\* The mutex of the namespace, made when there is none yet; nlm.Mutex makes
\* this one step.
getLock(p, n) == IF M[p][n] = 0 THEN 1 ELSE M[p][n]

\* Get of the queue by an idle worker, and execute up to getLock.
Get(t) ==
    LET p == Process(t)
        m == getLock(p, Ns(t))
    IN
    /\ At(t, "idle")
    /\ Key(t) \in queue[p]
    /\ Cardinality({u \in ThreadsOf(p) : thread[u].pc # "idle"}) < threadiness
    /\ queue' = [queue EXCEPT ![p] = @ \ {Key(t)}]
    /\ M' = [M EXCEPT ![p][Ns(t)] = m]
    /\ thread' = [thread EXCEPT ![t].pc = "lock", ![t].ref = m]
    /\ UNCHANGED <<outside, cache, lost, apiVars, troubles>>

\* Is a thread between Lock and Unlock.
Inside(t) == thread[t].pc \in {"reading", "marking"}

\* Lock of the mutex; then GetLockState begins to read the map.
Lock(t) ==
    /\ At(t, "lock")
    /\ \A u \in ThreadsOf(Process(t)) :
        Inside(u) /\ Ns(u) = Ns(t) => thread[u].ref # thread[t].ref
    /\ thread' = [thread EXCEPT ![t].pc = "reading"]
    /\ UNCHANGED <<outside, queue, M, cache, lost, apiVars, troubles>>

\* The threads whose access to the map overlaps with that of t, one a write.
Overlapping(t) ==
    {u \in ThreadsOf(Process(t)) \ {t} :
        Inside(u) /\ "marking" \in {thread[t].pc, thread[u].pc}}

Raced(t) == thread[t].raced \/ Overlapping(t) # {}

\* The access of t ends; t goes on as new, and what overlaps has been raced.
EndAccess(t, new) ==
    thread' = [u \in Threads |->
        IF u = t THEN new
        ELSE IF u \in Overlapping(t) THEN [thread[u] EXCEPT !.raced = TRUE]
        ELSE thread[u]]

\* The runtime may notice a race and end the process.
Throw(t) ==
    /\ Inside(t)
    /\ Raced(t)
    /\ Trouble
    /\ Exit(Process(t))
    /\ UNCHANGED <<holder, cut, kubevirts, apiVars>>

\* Unlock and the end of Execute.  What came up after Get is still to be done.
Return(t, failed) ==
    LET p == Process(t)
        k == Key(t)
    IN
    /\ EndAccess(t, Idle)
    /\ queue' = IF failed THEN [queue EXCEPT ![p] = @ \cup {k}] ELSE queue
    /\ unserved' = IF failed \/ k \in queue[p] THEN unserved ELSE unserved \ {k}

\* A race may make the read miss the entry.
Missed(t) == IF Raced(t) /\ troubles > 0 THEN {"unknown"} ELSE {}

\* The lock state that was read, and what execute does: leave the namespace as it
\* is, or lock or unlock it.  When the state is unknown NamespaceLocked asks the
\* API server: it finds no lock, or one that it does not recognise, and fails.
\* The API server refuses when it cannot be reached or has the webhook in the new
\* state already.  The reply to a call that took effect may get lost: execute
\* returns the error before it has marked the cache.
SetLock(t) ==
    LET p == Process(t)
        n == Ns(t)
        locked == n \in webhook
    IN
    /\ At(t, "reading")
    /\ \E state \in {cache[p][n]} \cup Missed(t) :
        LET nsLocked == state = "locked"
            left == IF state = cache[p][n] THEN troubles ELSE troubles - 1
        IN
        \/ /\ \/ p \in cut /\ Return(t, TRUE)
              \/ p \notin cut /\ ~ (state = "unknown" /\ locked) /\ Return(t, FALSE)
              \/ p \notin cut /\ nsLocked # locked /\ Return(t, TRUE)
           /\ troubles' = left
           /\ UNCHANGED <<webhook, lost>>
        \/ /\ p \notin cut
           /\ nsLocked = locked
           /\ webhook' = IF locked THEN webhook \ {n} ELSE webhook \cup {n}
           /\ \/ /\ EndAccess(t, [thread[t] EXCEPT !.pc = "marking", !.raced = FALSE])
                 /\ troubles' = left
                 /\ UNCHANGED <<queue, unserved, lost>>
              \/ /\ left > 0
                 /\ troubles' = left - 1
                 /\ lost' = lost \cup {<<p, n>>}
                 /\ Return(t, TRUE)
    /\ UNCHANGED <<outside, M, cache, namespace>>

\* Mutant of MarkLockState: the state before the call.
MarkLockStateBefore(n) == IF n \in webhook THEN "unlocked" ELSE "locked"

\* MarkLockStateLocked and MarkLockStateUnlocked
MarkLockState(n) == IF n \in webhook THEN "locked" ELSE "unlocked"

\* A race may lose the write.
Mark(t) ==
    LET p == Process(t)
        n == Ns(t)
    IN
    /\ At(t, "marking")
    /\ \/ cache' = [cache EXCEPT ![p][n] = MarkLockState(n)] /\ lost' = lost \ {<<p, n>>}
       \/ Raced(t) /\ UNCHANGED cache /\ lost' = lost \cup {<<p, n>>}
    /\ Return(t, FALSE)
    /\ UNCHANGED <<outside, M, namespace, webhook, troubles>>

Step(t) == Lock(t) \/ SetLock(t) \/ Mark(t)

Elect(p) == Start(p) \/ Observe(p) \/ Acquire(p) \/ OnStoppedLeading(p) \/ onStartedLeading(p)
            \/ Run(p)

Next ==
    \/ \E p \in Replicas :
        \/ Elect(p) \/ enqueueAll(p)
        \/ Reconnect(p) \/ Crash(p) \/ Replace(p) \/ CutOff(p)
    \/ Tick
    \/ ChangeKubeVirts
    \/ \E k \in Keys : Update(k)
    \/ \E t \in Threads : Get(t) \/ Step(t) \/ Throw(t)

\* Processes, threads and time go on, outages end, mutexes and the queue starve
\* nobody.  A key is not updated forever.
Fairness ==
    /\ WF_vars(Tick)
    /\ WF_vars(\E p \in Replicas : Reconnect(p))
    /\ \A p \in Replicas : WF_vars(Elect(p)) /\ WF_vars(enqueueAll(p))
    /\ \A k \in Keys : SF_vars(\E p \in Replicas : Get(<<p, k>>) \/ Step(<<p, k>>))

Spec == Init /\ [][Next]_vars /\ Fairness

-----------------------------------------------------------------------------
Stages == {"down", "candidate", "syncing", "ready", "working", "stuck"}
Points == {"idle", "lock", "reading", "marking"}

\* Types of the variables.
TypeOK ==
    /\ stage \in [Replicas -> Stages]
    /\ holder \in Replicas \cup {None, "gone"}
    /\ seen \cup cut \subseteq Replicas
    /\ observed \in [Replicas -> 0..LeaseDuration]
    /\ renewed \in [Replicas -> 0..RenewDeadline]
    /\ kubevirts \in 0..1
    /\ namespace \in [Keys -> Namespaces]
    /\ unserved \subseteq Keys
    /\ queue \in [Replicas -> SUBSET Keys]
    /\ thread \in [Threads -> [pc : Points, ref : Nat, raced : BOOLEAN]]
    /\ M \in [Replicas -> [Namespaces -> Nat]]
    /\ cache \in [Replicas -> [Namespaces -> LockStates]]
    /\ lost \subseteq Replicas \X Namespaces
    /\ webhook \subseteq Namespaces
    /\ troubles \in 0..MaxTroubles

\* Never do two processes say that they lead, or run workers: whoever has lost
\* the lease exits before another may take it over.
OneLeader == \A p, q \in Replicas : leaderProbe(p) /\ leaderProbe(q) => p = q

\* Two workers, of one process or of two, are never in execute for the same
\* namespace: mutexes are made on demand, and a leader that lost its lease
\* exits before the lease can be taken over.
NamespaceExclusive ==
    \A t, u \in Threads :
        t # u /\ Inside(t) /\ Inside(u) => Ns(t) # Ns(u)

\* Between two calls of execute for a namespace, what the leader has cached of
\* its lock is true, whichever process locked or unlocked it before and however
\* the calls interleave, unless the last change of the webhook went past the
\* cache: the reply to the call was lost (execute returns before MarkLockState),
\* or a race on the map has lost the write.
CacheTruthful ==
    \A p \in Replicas, n \in Namespaces :
        /\ cache[p][n] # "unknown"
        /\ <<p, n>> \notin lost
        /\ \A t \in ThreadsOf(p) : Inside(t) => Ns(t) # n
        => (cache[p][n] = "locked") = (n \in webhook)

\* Is the leader unable to change the lock of n, for good: it meets a lock its
\* process did not take, or the webhook is not what the cache says, so that each
\* Create finds it there already and each Delete finds it gone.
Wedged(n) ==
    \E p \in Replicas :
        stage[p] = "working" /\ (<<p, n>> \in lost \/ (cache[p][n] = "unknown" /\ n \in webhook))

\* Every migration is served again and again, whatever crashes, outages and
\* changes of leadership there were and although new migrations are not replayed
\* (enqueueAll), unless the leader was started without a single KubeVirt or the
\* lock of the migration's own namespace is out of the leader's control.
Served ==
    \A k \in Keys :
        <>[]((\A p \in Replicas : stage[p] # "stuck") /\ ~ Wedged(namespace[k]))
            => []<>(k \notin unserved)
=============================================================================
