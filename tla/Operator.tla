------------------------------ MODULE Operator ------------------------------
(***************************************************************************)
(* The operator: one worker that reconciles MTQ objects (CRs).  The CR     *)
(* that claims the ConfigMap mtq-config is deployed, any other becomes an  *)
(* error.                                                                  *)
(*                                                                         *)
(* The flow of Reconcile is the lifecycle SDK's and is modelled from how   *)
(* this repository drives it; the hooks are the repository's own.  Reads   *)
(* go to informer caches, writes to the API server, one per step.  Only    *)
(* the loop over the objects is one step, unless the operator crashes in   *)
(* it: it reads and writes each object once, so that a step of someone     *)
(* else in between could as well come before or after it.                  *)
(* Certificates are reduced to whether a secret or the bundle has its      *)
(* data; module CertRotation has the details.                              *)
(***************************************************************************)
EXTENDS Resources

CONSTANTS
    Crs,         \* the MTQ objects (by UID) users may create
    None,        \* no owner
    CrClasses,   \* the priority classes a CR may ask for
    Orders,      \* the orders, of GetAllResources, in which the loop goes
    MaxCrs,      \* bound on the CRs users create
    MaxDeletes,  \* bound on the CRs they delete
    MaxTroubles, \* bound on crashes, failing calls, tampering, changes and lags
    Laggards,    \* the informers that may fall behind
    CrashPoints, \* after how many objects the operator may crash in the loop
    Faulty,      \* the objects of which a write in the loop may fail
    Deletable,   \* the objects somebody may delete
    Editable     \* and the ones somebody may edit

Claim == <<"configmaps", "mtq-config">>
Deployments == {o \in Objects : Resource(o) = "deployments"}
CertObjects == {Signer, Bundle, Target}

\* The informers of the operator: of CRs, of ConfigMaps, of secrets and of the
\* other resources together; the certificate manager has its own.
Informers == {"mtqs", "configmaps", "secrets", "others", "certs"}
Informer(o) == IF Resource(o) \in Informers THEN Resource(o) ELSE "others"

ASSUME OperatorAssumption ==
    /\ None \notin Crs
    /\ Orders # {} /\ Orders \subseteq GetAllResources /\ Orders \subseteq Seq(Objects)
    /\ \A all \in Orders : CrashPoints \subseteq 0..Len(all)
    /\ Faulty \cup Deletable \cup Editable \subseteq Objects
    /\ Laggards \subseteq Informers
    /\ {MaxCrs, MaxDeletes, MaxTroubles} \subseteq Nat
    /\ IsFiniteSet(Crs) /\ MaxCrs <= Cardinality(Crs)

VARIABLES
    cr,       \* the MTQ objects in the API server
    crView,   \* in the operator's cache
    obj,      \* the objects in the API server
    objView,  \* in the operator's cache
    certView, \* the secrets and the bundle in the certificate manager's listers
    classes,  \* the priority classes of the cluster
    queue,    \* CRs to be reconciled
    watching, \* have the informers of the objects been started
    rec,      \* the call of Reconcile that is under way
    lagging,  \* the informers that have fallen behind
    created,  \* CRs created so far
    troubles  \* crashes, failing calls, tampering, changes and lags left

api == <<cr, obj, classes>>
views == <<crView, objView, certView>>
bounds == <<created, lagging>>
vars == <<api, views, queue, watching, rec, bounds, troubles>>

-----------------------------------------------------------------------------
\* Objects.  cfg is what an operation left in them: for a Deployment the
\* priority class, for certificates whether there is data, else "ok", and
\* "edited" after somebody changed it.

Absent == [live |-> FALSE, owner |-> None, cfg |-> "", ready |-> FALSE]

NoCr == [live |-> FALSE, deleting |-> FALSE, phase |-> "", finalizer |-> FALSE,
         observed |-> FALSE, degraded |-> FALSE, class |-> NoClass]

Desired(o, class) ==
    IF o \in Deployments THEN class ELSE IF o \in CertObjects THEN "empty" ELSE "ok"

\* Secrets and ConfigMaps are left as they are once they exist.
Outdated(o, class) ==
    \/ ~ objView[o].live
    \/ o \notin CertObjects /\ objView[o].cfg # Desired(o, class)

Idle == [pc |-> "idle", cr |-> None, copy |-> NoCr,
         todo |-> <<>>, failed |-> FALSE]

Init ==
    /\ cr = [c \in Crs |-> NoCr]
    /\ crView = cr
    /\ obj = [o \in Objects \cup {Claim} |-> Absent]
    /\ objView = obj
    /\ certView = [o \in CertObjects |-> Absent]
    /\ classes = {MTQPriorityClass}
    /\ queue = {}
    /\ watching = FALSE
    /\ rec = Idle
    /\ created = {}
    /\ lagging = {}
    /\ troubles = MaxTroubles

At(pc) == rec.pc = pc

Trouble == troubles > 0 /\ troubles' = troubles - 1

\* Mutant of Requeue: the call is forgotten before its CR is enqueued.
RequeueForgotten == rec' = Idle /\ queue' = queue \cup {Idle.cr}

\* Reconcile returns and does, or does not, ask to be called again.
Requeue == rec' = Idle /\ queue' = queue \cup {rec.cr}
Return == rec' = Idle /\ UNCHANGED queue
Goto(pc) == rec' = [rec EXCEPT !.pc = pc] /\ UNCHANGED queue

\* An update of the CR, which conflicts when the copy is out of date.
CrUpdate(new, pc) ==
    IF cr[rec.cr] # rec.copy
    THEN Requeue /\ UNCHANGED cr
    ELSE /\ cr' = [cr EXCEPT ![rec.cr] = new]
         /\ rec' = IF pc = "idle" THEN Idle ELSE [rec EXCEPT !.pc = pc, !.copy = new]
         /\ UNCHANGED queue

CrUpdateStatus(phase, pc) == CrUpdate([rec.copy EXCEPT !.phase = phase], pc)

-----------------------------------------------------------------------------
\* Reconcile up to the update.

\* The cache can only be read when the operator may list and watch.
CanRead ==
    ({"mtqs", "priorityclasses"} \cup {Resource(o) : o \in Objects \cup {Claim}}) \X ListWatch
        \subseteq getClusterPolicyRules \cup getNamespacedPolicyRules

\* Mutant of getConfigMap: the ConfigMap is looked up under another name.
getConfigMapMissed == Absent

getConfigMap == objView[Claim]

IsCreating == ~ getConfigMap.live

CheckForOrphans == \E o \in Objects : objView[o].live

Reconcile(c) ==
    LET copy == crView[c]
        begin(pc) == /\ rec' = [Idle EXCEPT !.pc = pc, !.cr = c, !.copy = copy]
                     /\ queue' = queue \ {c}
    IN
    /\ At("idle")
    /\ c \in queue
    /\ CanRead
    /\ watching' = (watching \/ copy.live)
    /\ \/ ~ copy.live /\ queue' = queue \ {c} /\ UNCHANGED rec
       \/ copy.live /\ copy.deleting /\ begin("ReconcileDelete")
       \/ /\ copy.live /\ ~ copy.deleting /\ IsCreating
          /\ \/ copy.phase # "" /\ begin("ReconcileError")
             \/ copy.phase = "" /\ CheckForOrphans /\ UNCHANGED <<rec, queue>>
             \/ copy.phase = "" /\ ~ CheckForOrphans /\ begin("preCreate")
       \/ copy.live /\ ~ copy.deleting /\ ~ IsCreating /\ begin("checkSanity")
    /\ UNCHANGED <<api, views, bounds, troubles>>

\* preCreate claims the ConfigMap: the API server lets only one CR create it.
createOperatorConfig ==
    /\ At("preCreate")
    /\ IF obj[Claim].live
       THEN Requeue /\ UNCHANGED obj
       ELSE /\ obj' = [obj EXCEPT ![Claim] =
                           [Absent EXCEPT !.live = TRUE, !.owner = rec.cr, !.cfg = "ok"]]
            /\ Goto("CrInit")
    /\ UNCHANGED <<cr, classes, views, watching, bounds, troubles>>

\* The phase and the finalizer are written one after the other.
CrInit ==
    /\ \/ At("CrInit") /\ CrUpdateStatus("Deploying", "finalizer")
       \/ At("finalizer") /\ CrUpdate([rec.copy EXCEPT !.finalizer = TRUE], "checkSanity")
    /\ UNCHANGED <<obj, classes, views, watching, bounds, troubles>>

\* The process ends and starts anew: its caches are filled again.
Crash ==
    /\ rec' = Idle
    /\ crView' = cr
    /\ objView' = obj'
    /\ certView' = [o \in CertObjects |-> obj'[o]]
    /\ queue' = {c \in Crs : cr[c].live}
    /\ watching' = FALSE

\* Is the CR that owns the claim gone or about to go.
configMapOwnerDeleted(cm) ==
    cm.owner # None => ~ crView[cm.owner].live \/ crView[cm.owner].deleting

\* Mutant of checkSanity: the owner of the claim is not compared.
checkSanityAny ==
    /\ At("checkSanity")
    /\ Goto("CheckUpgrade")
    /\ UNCHANGED <<api, views, watching, bounds, troubles>>

\* A claim that is not yet in the cache is a nil pointer: the operator crashes.
checkSanity ==
    LET cm == getConfigMap IN
    /\ At("checkSanity")
    /\ IF ~ cm.live
       THEN obj' = obj /\ Crash
       ELSE /\ IF cm.owner = rec.cr THEN Goto("CheckUpgrade")
               ELSE IF configMapOwnerDeleted(cm) THEN Requeue
               ELSE Goto("ReconcileError")
            /\ UNCHANGED <<obj, views, watching>>
    /\ UNCHANGED <<cr, classes, bounds, troubles>>

\* Nobody asks for another call after an error.
ReconcileError ==
    /\ At("ReconcileError")
    /\ CrUpdateStatus("Error", "idle")
    /\ UNCHANGED <<obj, classes, views, watching, bounds, troubles>>

\* Phase Deleting, phase Deleted, then the finalizer is removed, with which the
\* CR is gone.
ReconcileDelete ==
    /\ \/ At("ReconcileDelete") /\ ~ rec.copy.finalizer /\ Return /\ UNCHANGED cr
       \/ /\ At("ReconcileDelete") /\ rec.copy.finalizer
          /\ IF rec.copy.phase = "Deleting"
             THEN Goto("deleting") /\ UNCHANGED cr
             ELSE CrUpdateStatus("Deleting", "deleting")
       \/ At("deleting") /\ CrUpdateStatus("Deleted", "deleted")
       \/ At("deleted") /\ CrUpdate(NoCr, "idle")
    /\ UNCHANGED <<obj, classes, views, watching, bounds, troubles>>

-----------------------------------------------------------------------------
\* ReconcileUpdate.

\* No version observed yet and not deploying: an upgrade.
IsUpgrading(copy) == ~ copy.observed /\ copy.phase # "Deploying"

CheckUpgrade ==
    LET new == [rec.copy EXCEPT !.phase = IF IsUpgrading(rec.copy) THEN "Upgrading" ELSE @] IN
    /\ At("CheckUpgrade")
    /\ IF new = rec.copy
       THEN Goto("objects") /\ UNCHANGED cr
       ELSE CrUpdate(new, "objects")
    /\ UNCHANGED <<obj, classes, views, watching, bounds, troubles>>

OperatorRules == getClusterPolicyRules \cup getNamespacedPolicyRules

\* The objects the operator may create: it needs the verb, and may give away, with
\* a role or with a binding to it, no more than it has.
Creatable ==
    {o \in Objects :
        LET role == IF Resource(o) \in Bindings THEN RoleRef(o) ELSE o
            held == IF Resource(role) = "clusterroles" THEN getClusterPolicyRules ELSE OperatorRules
        IN
        /\ <<Resource(o), "create">> \in OperatorRules
        /\ Resource(role) \in Roles => RulesOf(role) \subseteq held}

Updatable == {o \in Objects : <<Resource(o), "update">> \in OperatorRules}

\* Does the write of an object succeed, unless it is a binding without its role.
Accepted(o, fault) ==
    /\ o # fault
    /\ IF objView[o].live THEN obj[o] = objView[o] /\ o \in Updatable
       ELSE ~ obj[o].live /\ o \in Creatable

Precedes(p, q, all) == \E i, j \in 1..Len(all) : i < j /\ all[i] = p /\ all[j] = q

\* A binding can only be created when the role it refers to exists.
Succeeds(o, all, fault) ==
    /\ Accepted(o, fault)
    /\ Resource(o) \in Bindings /\ ~ objView[o].live =>
        \/ obj[RoleRef(o)].live
        \/ Precedes(RoleRef(o), o, all) /\ Accepted(RoleRef(o), fault)

\* The object as created for a CR; one that is updated keeps its owner.
Created(o, c, class) ==
    [live |-> TRUE, owner |-> c, cfg |-> Desired(o, class), ready |-> FALSE]

Updated(o, class) == [obj[o] EXCEPT !.cfg = Desired(o, class), !.ready = FALSE]

\* The objects after the loop over the list all; a call that fails does not end
\* it.  fault is an object for which the API server returns an error.
ReconcileObjects(all, class, fault) ==
    [o \in DOMAIN obj |->
        IF o \notin ToSet(all) \/ ~ Outdated(o, class) \/ ~ Succeeds(o, all, fault)
        THEN obj[o]
        ELSE IF objView[o].live THEN Updated(o, class) ELSE Created(o, rec.cr, class)]

ReconcileUpdate ==
    LET class == getNamespacedArgs(rec.copy.class, classes) IN
    /\ At("objects")
    /\ \E all \in Orders, fault \in Faulty \cup {None} :
        /\ fault # None => Trouble /\ Outdated(fault, class)
        /\ fault = None => UNCHANGED troubles
        /\ obj' = ReconcileObjects(all, class, fault)
        /\ rec' = [rec EXCEPT !.pc = "sync", !.todo = <<Signer, Bundle, Target>>,
                     !.failed = \E o \in ToSet(all) :
                                  Outdated(o, class) /\ ~ Succeeds(o, all, fault)]
    /\ UNCHANGED <<cr, classes, views, queue, watching, bounds>>

\* The operator crashes in the loop.
ReconcileUpdateCrash ==
    LET class == getNamespacedArgs(rec.copy.class, classes) IN
    /\ At("objects")
    /\ Trouble
    /\ \E all \in Orders : \E n \in CrashPoints :
        obj' = ReconcileObjects(SubSeq(all, 1, n), class, None)
    /\ Crash
    /\ UNCHANGED <<cr, classes, bounds>>

\* The secret or the bundle with its data: what exists keeps its owner, what the
\* certificate manager creates has none.
Filled(o) == [obj[o] EXCEPT !.live = TRUE, !.cfg = "data"]

\* Sync goes through the three certificate objects.  A secret the lister lacks
\* is created, one it has is updated; either fails if the lister is wrong.  The
\* bundle is only written where data is missing.
sync ==
    LET o == Head(rec.todo)
        needed == ~ certView[o].live \/ certView[o].cfg # "data"
        wrong == IF certView[o].live THEN ~ obj[o].live
                 ELSE obj[o].live /\ o # Bundle
    IN
    /\ At("sync")
    /\ rec.todo # <<>>
    /\ IF needed /\ wrong
       THEN Requeue /\ UNCHANGED obj
       ELSE /\ obj' = IF needed THEN [obj EXCEPT ![o] = Filled(o)] ELSE obj
            /\ rec' = [rec EXCEPT !.todo = Tail(@)]
            /\ UNCHANGED queue
    /\ UNCHANGED <<cr, classes, views, watching, bounds, troubles>>

\* After Sync: errors of the loop, the state of the Deployments, and the phase.
CheckDegraded ==
    LET copy == rec.copy
        degraded == \E d \in Deployments : ~ objView[d].ready
        deployed == ~ degraded /\ (copy.phase # "Deployed" \/ IsUpgrading(copy))
        new == IF deployed
               THEN [copy EXCEPT !.phase = "Deployed", !.observed = TRUE, !.degraded = FALSE]
               ELSE [copy EXCEPT !.degraded = degraded /\ copy.phase = "Deployed"]
    IN
    /\ At("sync")
    /\ rec.todo = <<>>
    /\ Requeue
    /\ cr' = IF /\ ~ rec.failed
                /\ \A d \in Deployments : objView[d].live
                /\ new # copy
                /\ cr[rec.cr] = copy
             THEN [cr EXCEPT ![rec.cr] = new] ELSE cr
    /\ UNCHANGED <<obj, classes, views, watching, bounds, troubles>>

-----------------------------------------------------------------------------
\* The rest of the cluster.

\* What the informers that are up to date would show.
CrsSeen == IF "mtqs" \in lagging THEN crView ELSE cr
ObjectsSeen == [o \in DOMAIN obj |-> IF Informer(o) \in lagging THEN objView[o] ELSE obj[o]]
CertsSeen == IF "certs" \in lagging THEN certView ELSE [o \in CertObjects |-> obj[o]]

Prompt == crView = CrsSeen /\ objView = ObjectsSeen /\ certView = CertsSeen

\* The informers deliver; the CRs that changed and the owners of the objects
\* that changed are enqueued.
Deliver ==
    LET changed == {o \in DOMAIN obj : objView[o] # ObjectsSeen[o]} IN
    /\ ~ Prompt
    /\ crView' = CrsSeen
    /\ objView' = ObjectsSeen
    /\ certView' = CertsSeen
    /\ queue' = queue
          \cup {c \in Crs : crView[c] # CrsSeen[c]}
          \cup {c \in Crs : watching /\ \E o \in changed : c \in {obj[o].owner, objView[o].owner}}
    /\ UNCHANGED <<api, watching, rec, bounds, troubles>>

\* An informer falls behind and catches up.
StartLag(i) ==
    /\ Trouble
    /\ i \notin lagging
    /\ lagging' = lagging \cup {i}
    /\ UNCHANGED <<api, views, queue, watching, rec, created>>

EndLag(i) ==
    /\ i \in lagging
    /\ lagging' = lagging \ {i}
    /\ UNCHANGED <<api, views, queue, watching, rec, created, troubles>>

\* GetActiveMTQ, when the informer of CRDs delivers the CRD of MTQ objects, which
\* it does when it is started: without a CR that is not in error, a nil pointer.
GetActiveMTQ == {c \in Crs : crView[c].live /\ crView[c].phase # "Error"}

watchMTQCRD ==
    /\ watching
    /\ IF GetActiveMTQ = {}
       THEN obj' = obj /\ Crash
       ELSE /\ queue' = queue \cup (IF Cardinality(GetActiveMTQ) = 1 THEN GetActiveMTQ ELSE {})
            /\ UNCHANGED <<obj, views, watching, rec>>
    /\ UNCHANGED <<cr, classes, bounds, troubles>>

\* The garbage collector deletes objects whose owner is gone, and those of the
\* resources one informer is for together.
CollectGarbage(i) ==
    LET garbage == {o \in DOMAIN obj : /\ Informer(o) = i /\ obj[o].live
                                       /\ obj[o].owner # None /\ ~ cr[obj[o].owner].live}
    IN
    /\ garbage # {}
    /\ obj' = [o \in DOMAIN obj |-> IF o \in garbage THEN Absent ELSE obj[o]]
    /\ UNCHANGED <<cr, classes, views, queue, watching, rec, bounds, troubles>>

\* Pods of a Deployment can be scheduled, each on a node of its own, and have what
\* they need.  In a rollout a new pod takes a spare node, or the node of an old
\* one that may be taken down.
CanRun(d) ==
    LET spec == Deployment(Name(d)) IN
    /\ Cardinality(Nodes) >= spec.replicas
    /\ spec.maxUnavailable > 0 \/ Cardinality(Nodes) > spec.replicas
    /\ obj[<<"serviceaccounts", spec.account>>].live
    /\ obj[spec.secret].live
    /\ spec.keys # {} => obj[spec.secret].cfg = "data"

\* All pods of the Deployments that can run become ready.
BecomeReady ==
    LET starting == {d \in Deployments : obj[d].live /\ ~ obj[d].ready /\ CanRun(d)} IN
    /\ starting # {}
    /\ obj' = [o \in DOMAIN obj |-> IF o \in starting THEN [obj[o] EXCEPT !.ready = TRUE]
                                    ELSE obj[o]]
    /\ UNCHANGED <<cr, classes, views, queue, watching, rec, bounds, troubles>>

\* UIDs are given out in a fixed order.
CreateCr ==
    LET c == CHOOSE d \in Crs : d \notin created IN
    /\ Cardinality(created) < MaxCrs
    /\ created' = created \cup {c}
    /\ \E class \in CrClasses : cr' = [cr EXCEPT ![c] = [NoCr EXCEPT !.live = TRUE, !.class = class]]
    /\ UNCHANGED <<obj, classes, views, queue, watching, rec, lagging, troubles>>

\* Without a finalizer the CR is gone at once.
DeleteCr(c) ==
    /\ cr[c].live
    /\ ~ cr[c].deleting
    /\ Cardinality({d \in created : ~ cr[d].live \/ cr[d].deleting}) < MaxDeletes
    /\ cr' = [cr EXCEPT ![c] = IF @.finalizer THEN [@ EXCEPT !.deleting = TRUE] ELSE NoCr]
    /\ UNCHANGED <<obj, classes, views, queue, watching, rec, bounds, troubles>>

OperatorCrash == Trouble /\ obj' = obj /\ Crash /\ UNCHANGED <<cr, classes, bounds>>

\* A call of the API server outside the loop fails: Reconcile returns the error.
ApiError ==
    /\ Trouble
    /\ rec.pc \notin {"idle", "objects"}
    /\ Requeue
    /\ UNCHANGED <<api, views, watching, bounds>>

\* Somebody edits or deletes an object of the operator.
Tamper(o) ==
    /\ Trouble
    /\ obj[o].live
    /\ \/ o \in Deletable /\ obj' = [obj EXCEPT ![o] = Absent]
       \/ /\ o \in Editable
          /\ obj[o].cfg # "edited"
          /\ obj' = [obj EXCEPT ![o].cfg = "edited", ![o].ready = FALSE]
    /\ UNCHANGED <<cr, classes, views, queue, watching, rec, bounds>>

\* Administrators remove the default priority class or create it again.
ChangeClasses ==
    /\ Trouble
    /\ classes' = (IF MTQPriorityClass \in classes THEN {} ELSE {MTQPriorityClass})
    /\ UNCHANGED <<cr, obj, views, queue, watching, rec, bounds>>

ReconcileStep ==
    \/ \E c \in Crs : Reconcile(c)
    \/ createOperatorConfig \/ CrInit \/ checkSanity \/ ReconcileError \/ ReconcileDelete
    \/ CheckUpgrade \/ ReconcileUpdate \/ sync \/ CheckDegraded

CatchUp == \E i \in Informers : EndLag(i)
Environment == (\E i \in Informers : CollectGarbage(i)) \/ BecomeReady

\* An informer that has not fallen behind delivers before anything else happens.
Next ==
    \/ Deliver
    \/ /\ Prompt
       /\ \/ ReconcileStep
          \/ CreateCr
          \/ \E c \in Crs : DeleteCr(c)
          \/ \E i \in Laggards : StartLag(i)
          \/ watchMTQCRD
          \/ CatchUp
          \/ Environment
          \/ OperatorCrash \/ ReconcileUpdateCrash \/ ApiError \/ ChangeClasses
          \/ \E o \in Deletable \cup Editable : Tamper(o)

\* The worker and the informers go on, one that is behind catches up, a CR that
\* is in the queue gets its turn, and so do the garbage collector and the controllers of Deployments.
Fairness ==
    /\ WF_vars(Deliver)
    /\ WF_vars(Prompt /\ ReconcileStep)
    /\ \A c \in Crs : SF_vars(Prompt /\ Reconcile(c))
    /\ SF_vars(Prompt /\ CatchUp)
    /\ SF_vars(Prompt /\ Environment)

Spec == Init /\ [][Next]_vars /\ Fairness

-----------------------------------------------------------------------------
Classes == CrClasses \cup {NoClass, MTQPriorityClass}
Phases == {"", "Deploying", "Upgrading", "Deployed", "Error", "Deleting", "Deleted"}
Cr == [live : BOOLEAN, deleting : BOOLEAN, phase : Phases, finalizer : BOOLEAN,
       observed : BOOLEAN, degraded : BOOLEAN, class : Classes]
Object == [live : BOOLEAN, owner : Crs \cup {None}, ready : BOOLEAN,
           cfg : {"", "ok", "empty", "data", "edited"} \cup Classes]
Steps == {"idle", "preCreate", "CrInit", "finalizer", "checkSanity", "ReconcileError",
          "ReconcileDelete", "deleting", "deleted", "CheckUpgrade", "objects", "sync"}

\* Types of the variables.
TypeOK ==
    /\ {cr, crView} \subseteq [Crs -> Cr]
    /\ {obj, objView} \subseteq [Objects \cup {Claim} -> Object]
    /\ certView \in [CertObjects -> Object]
    /\ classes \subseteq Classes
    /\ queue \cup created \subseteq Crs
    /\ watching \in BOOLEAN
    /\ rec \in [pc : Steps, cr : Crs \cup {None}, copy : Cr,
                todo : Seq(Objects), failed : BOOLEAN]
    /\ lagging \subseteq Informers
    /\ troubles \in 0..MaxTroubles

\* However the caches lag behind, calls fail and the operator crashes, the
\* claim of preCreate and checkSanity let at most one CR be deployed at a time.
OneActive ==
    Cardinality({c \in Crs : cr[c].live /\ cr[c].phase \in {"Deploying", "Upgrading", "Deployed"}})
        <= 1

Owns(c, claim) == claim.live /\ claim.owner = c

\* The call under way is about a CR that somebody created, and has read it.
CallKnown == ~ At("idle") => rec.cr \in created /\ rec.copy.live

\* UIDs do not come back: whoever exists, or is in a cache, was created.
OnceCreated ==
    /\ \A c \in Crs : cr[c].live \/ crView[c].live => c \in created
    /\ \A claim \in {obj[Claim], objView[Claim]} : claim.live => claim.owner \in created

\* A claim that a CR once had it has as long as it exists: the cache may show it
\* late but never wrongly.
ClaimLasts ==
    \A c \in Crs : cr[c].live /\ Owns(c, objView[Claim]) => Owns(c, obj[Claim])

\* The inductive invariant behind OneActive: a CR that is deployed, and one that
\* is beyond createOperatorConfig or checkSanity in Reconcile, has the claim.
ClaimIndInv ==
    /\ CallKnown
    /\ OnceCreated
    /\ ClaimLasts
    /\ \A c \in Crs :
        /\ cr[c].live
        /\ \/ cr[c].phase \in {"Deploying", "Upgrading", "Deployed"}
           \/ rec.cr = c /\ rec.pc \in {"CrInit", "finalizer", "CheckUpgrade", "objects", "sync"}
        => Owns(c, obj[Claim])

\* The only CR; one that was turned down because of another is not.
Sole(c) ==
    /\ cr[c].live
    /\ ~ cr[c].deleting
    /\ \A d \in Crs \ {c} : ~ cr[d].live
    /\ cr[c].phase = "Error" => obj[Claim].owner = c

\* An object the garbage collector will never take.
Orphaned == \E o \in Objects : obj[o].live /\ obj[o].owner = None

\* The rules that the account of this name holds.
Granted(name) ==
    UNION {RulesOf(RoleRef(b)) : b \in {o \in Objects :
                /\ Resource(o) \in Bindings /\ Name(o) = name
                /\ obj[o].live /\ obj[o].cfg = "ok"
                /\ obj[RoleRef(o)].live /\ obj[RoleRef(o)].cfg = "ok"}}

Installed(c) ==
    /\ cr[c].phase = "Deployed"
    /\ ~ cr[c].degraded
    /\ \A o \in Objects :
        /\ obj[o].live
        /\ obj[o].owner = c
        /\ obj[o].cfg = IF o \in CertObjects THEN "data"
                        ELSE Desired(o, getNamespacedArgs(cr[c].class, classes))
    /\ \A d \in Deployments : obj[d].ready /\ CallsOf(Name(d)) \subseteq Granted(Name(d))
    /\ Wired

\* When a CR stays the only one, it is deployed in the end, and stays so: all
\* objects are there, are its own and as described, the Deployments are ready,
\* their programs may make every call they make, and the webhook reaches the
\* lock server; no matter what was deployed before, which call failed, which
\* object was deleted or edited, and when the operator crashed.  Excepted is a
\* cluster with an object nobody owns (see Reinstalled).
InstallCompletes ==
    <>[]((\E c \in Crs : Sole(c)) /\ ~ Orphaned) => <>[](\E c \in Crs : Sole(c) /\ Installed(c))

\* "should remove/install MTQ a number of times successfully": a CR that stays
\* the only one is deployed.
Reinstalled ==
    <>[](\E c \in Crs : Sole(c)) => []<>(\E c \in Crs : cr[c].phase = "Deployed")
=============================================================================
