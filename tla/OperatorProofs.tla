--------------------------- MODULE OperatorProofs ---------------------------
(***************************************************************************)
(* Proofs about the operator, for any CRs, orders, lags, crashes and       *)
(* failing calls.                                                          *)
(***************************************************************************)
EXTENDS Operator, FiniteSetTheorems, TLAPS

Recs == [pc : Steps, cr : Crs \cup {None}, copy : Cr, todo : Seq(Objects), failed : BOOLEAN]

-----------------------------------------------------------------------------
\* Objects.

\* The claim is none of the objects of the factories.
LEMMA ClaimApart == Claim \notin Objects
<1> USE DEF Claim, ToSet
<1>1. Claim \notin {Signer, Bundle, Target}
  BY DEF Signer, Bundle, Target
<1>2. Claim \notin ToSet(createMTQLockResources)
  BY DEF createMTQLockResources
<1>3. Claim \notin ToSet(createMTQControllerResources)
  BY DEF createMTQControllerResources
<1>4. Claim \notin ToSet(createStaticMTQLockResources)
  BY DEF createStaticMTQLockResources
<1>5. Claim \notin ToSet(createStaticControllerResources)
  BY DEF createStaticControllerResources
<1>6. Claim \notin ToSet(createCRDResources)
  BY DEF createCRDResources
<1> HIDE DEF Claim, ToSet
<1>7. \A group \in factoryFunctions : Claim \notin ToSet(group)
  BY <1>2, <1>3 DEF factoryFunctions
<1>8. \A group \in staticFactoryFunctions : Claim \notin ToSet(group)
  BY <1>4, <1>5, <1>6 DEF staticFactoryFunctions
<1>9. \A group \in Groups : Claim \notin ToSet(group)
  BY <1>7, <1>8 DEF Groups
<1> QED
  BY <1>1, <1>9 DEF Objects

\* Certificates and Deployments are objects.
LEMMA ObjectKinds == CertObjects \subseteq Objects /\ Deployments \subseteq Objects
  BY DEF CertObjects, Deployments, Objects

\* What an object should be is something it can be.
LEMMA DesiredType ==
    ASSUME TypeOK, NEW class \in Classes, NEW o
    PROVE  Desired(o, getNamespacedArgs(class, classes))
             \in {"", "ok", "empty", "data", "edited"} \cup Classes
<1>1. getNamespacedArgs(class, classes) \in Classes
  BY DEF getNamespacedArgs, TypeOK, Classes
<1> QED
  BY <1>1 DEF Desired

\* The constants of the records have their types.
LEMMA EmptyTypes ==
    /\ Absent \in Object
    /\ NoCr \in Cr
    /\ Idle \in Recs
<1>1. NoCr \in Cr
  BY DEF NoCr, Cr, Phases, Classes
<1>2. Absent \in Object
  BY DEF Absent, Object
<1> QED
  BY <1>1, <1>2 DEF Idle, Recs, Steps

\* The types by their parts.
LEMMA TypeParts ==
    TypeOK <=> /\ cr \in [Crs -> Cr] /\ crView \in [Crs -> Cr]
               /\ obj \in [Objects \cup {Claim} -> Object]
               /\ objView \in [Objects \cup {Claim} -> Object]
               /\ certView \in [CertObjects -> Object]
               /\ classes \subseteq Classes /\ queue \subseteq Crs /\ created \subseteq Crs
               /\ watching \in BOOLEAN /\ rec \in Recs /\ lagging \subseteq Informers
               /\ troubles \in 0..MaxTroubles
  BY DEF TypeOK, Recs

\* The same one step later.
LEMMA TypePartsNext ==
    TypeOK' <=> (/\ cr \in [Crs -> Cr] /\ crView \in [Crs -> Cr]
                 /\ obj \in [Objects \cup {Claim} -> Object]
                 /\ objView \in [Objects \cup {Claim} -> Object]
                 /\ certView \in [CertObjects -> Object]
                 /\ classes \subseteq Classes /\ queue \subseteq Crs /\ created \subseteq Crs
                 /\ watching \in BOOLEAN /\ rec \in Recs /\ lagging \subseteq Informers
                 /\ troubles \in 0..MaxTroubles)'
  BY TypeParts, PTL

-----------------------------------------------------------------------------
\* Type correctness.

\* The types hold at first.
LEMMA TypeInit == Init => TypeOK
<1> SUFFICES ASSUME Init PROVE TypeOK
  OBVIOUS
<1>1. /\ cr \in [Crs -> Cr] /\ crView \in [Crs -> Cr]
      /\ obj \in [Objects \cup {Claim} -> Object]
      /\ objView \in [Objects \cup {Claim} -> Object]
      /\ certView \in [CertObjects -> Object] /\ rec \in Recs
  BY EmptyTypes DEF Init
<1>2. troubles \in 0..MaxTroubles
  BY OperatorAssumption DEF Init
<1> QED
  BY <1>1, <1>2, TypeParts DEF Init, Classes

\* The bound on troubles is kept.
LEMMA TroubleType ==
    ASSUME TypeOK, Trouble
    PROVE  troubles' \in 0..MaxTroubles
  BY OperatorAssumption DEF TypeOK, Trouble

\* Reconcile returns, with or without another call, or goes on.
LEMMA CallType ==
    ASSUME TypeOK, CallKnown,
           \/ ~ At("idle") /\ Requeue
           \/ Return
           \/ \E pc \in Steps : Goto(pc)
    PROVE  rec' \in Recs /\ queue' \subseteq Crs
<1> USE TypeParts
<1>1. CASE ~ At("idle") /\ Requeue
  BY <1>1, EmptyTypes DEF Requeue, CallKnown
<1>2. CASE Return
  BY <1>2, EmptyTypes DEF Return
<1>3. CASE \E pc \in Steps : Goto(pc)
  BY <1>3 DEF Goto, Recs
<1> QED
  BY <1>1, <1>2, <1>3

\* So does an update of the CR.
LEMMA UpdateType ==
    ASSUME TypeOK, CallKnown, ~ At("idle"), NEW new \in Cr, NEW pc \in Steps,
           CrUpdate(new, pc)
    PROVE  rec' \in Recs /\ queue' \subseteq Crs /\ cr' \in [Crs -> Cr]
<1>1. CASE cr[rec.cr] # rec.copy
  BY <1>1, CallType, TypeParts DEF CrUpdate
<1>2. CASE cr[rec.cr] = rec.copy
  <2>1. [rec EXCEPT !.pc = pc, !.copy = new] \in Recs
    BY TypeParts DEF Recs
  <2>2. [cr EXCEPT ![rec.cr] = new] \in [Crs -> Cr]
    BY TypeParts
  <2> QED
    BY <1>2, <2>1, <2>2, EmptyTypes, TypeParts DEF CrUpdate
<1> QED
  BY <1>1, <1>2

\* A crash leaves nothing but copies of what the API server has.
LEMMA CrashType ==
    ASSUME TypeOK, Crash, obj' \in [Objects \cup {Claim} -> Object]
    PROVE  /\ rec' \in Recs /\ queue' \subseteq Crs /\ watching' \in BOOLEAN
           /\ crView' \in [Crs -> Cr] /\ objView' \in [Objects \cup {Claim} -> Object]
           /\ certView' \in [CertObjects -> Object]
  BY EmptyTypes, ObjectKinds, TypeParts DEF Crash

\* What the loop leaves behind are objects.
LEMMA LoopType ==
    ASSUME TypeOK, NEW all, NEW fault
    PROVE  ReconcileObjects(all, getNamespacedArgs(rec.copy.class, classes), fault)
             \in [Objects \cup {Claim} -> Object]
<1> DEFINE class == getNamespacedArgs(rec.copy.class, classes)
<1>1. rec.copy.class \in Classes /\ rec.cr \in Crs \cup {None}
  BY TypeParts DEF Recs, Cr
<1>2. \A o : Desired(o, class) \in {"", "ok", "empty", "data", "edited"} \cup Classes
  BY <1>1, DesiredType
<1> HIDE DEF class
<1>3. \A o \in Objects \cup {Claim} : obj[o] \in Object
  BY TypeParts
<1>4. \A o \in Objects \cup {Claim} : Updated(o, class) \in Object
  BY <1>2, <1>3 DEF Updated, Object
<1>5. \A o \in Objects \cup {Claim} : Created(o, rec.cr, class) \in Object
  BY <1>1, <1>2 DEF Created, Object
<1>6. DOMAIN obj = Objects \cup {Claim}
  BY TypeParts
<1> QED
  BY <1>3, <1>4, <1>5, <1>6 DEF ReconcileObjects, class

\* Reconcile up to the update keeps the types.
LEMMA TypeBegin ==
    ASSUME TypeOK, CallKnown,
           \/ \E c \in Crs : Reconcile(c)
           \/ createOperatorConfig \/ CrInit \/ checkSanity \/ ReconcileError
           \/ ReconcileDelete
    PROVE  TypeOK'
<1> USE TypeParts, TypePartsNext
<1>1. ASSUME NEW c \in Crs, Reconcile(c) PROVE TypeOK'
  <2>1. \A pc \in Steps : [Idle EXCEPT !.pc = pc, !.cr = c, !.copy = crView[c]] \in Recs
    BY EmptyTypes DEF Recs, Idle
  <2>2. /\ rec' = rec
           \/ \E pc \in Steps : rec' = [Idle EXCEPT !.pc = pc, !.cr = c, !.copy = crView[c]]
        /\ queue' \subseteq Crs /\ watching' \in BOOLEAN
        /\ UNCHANGED <<api, views, bounds, troubles>>
    BY <1>1 DEF Reconcile, Steps, Cr
  <2>3. rec' \in Recs
    BY <2>1, <2>2
  <2> QED
    BY <2>2, <2>3 DEF api, views, bounds
<1>2. CASE createOperatorConfig
  <2> DEFINE claim == [Absent EXCEPT !.live = TRUE, !.owner = rec.cr, !.cfg = "ok"]
  <2>1. claim \in Object
    BY EmptyTypes DEF Absent, Object, Recs
  <2>2. rec' \in Recs /\ queue' \subseteq Crs
    BY <1>2, CallType DEF createOperatorConfig, At, Steps
  <2>3. /\ obj' = obj \/ obj' = [obj EXCEPT ![Claim] = claim]
        /\ UNCHANGED <<cr, classes, views, watching, bounds, troubles>>
    BY <1>2 DEF createOperatorConfig
  <2> HIDE DEF claim
  <2>4. obj' \in [Objects \cup {Claim} -> Object]
    BY <2>1, <2>3
  <2> QED
    BY <2>2, <2>3, <2>4 DEF views, bounds
<1>3. \A phase \in Phases : [rec.copy EXCEPT !.phase = phase] \in Cr
  BY DEF Recs, Cr
<1>4. [rec.copy EXCEPT !.finalizer = TRUE] \in Cr /\ NoCr \in Cr
  BY EmptyTypes DEF Recs, Cr
<1>5. CASE CrInit
  <2>1. rec' \in Recs /\ queue' \subseteq Crs /\ cr' \in [Crs -> Cr]
    BY <1>3, <1>4, <1>5, UpdateType DEF CrInit, CrUpdateStatus, At, Phases, Steps
  <2> QED
    BY <1>5, <2>1 DEF CrInit, views, bounds
<1>6. CASE checkSanity
  <2>1. CASE obj' = obj /\ Crash
    BY <1>6, <2>1, CrashType DEF checkSanity, bounds
  <2>2. CASE UNCHANGED <<obj, views, watching>>
    <3>1. rec' \in Recs /\ queue' \subseteq Crs
      BY <1>6, <2>2, CallType, CrashType DEF checkSanity, At, Steps
    <3> QED
      BY <1>6, <2>2, <3>1 DEF checkSanity, views, bounds
  <2> QED
    BY <1>6, <2>1, <2>2 DEF checkSanity
<1>7. CASE ReconcileError
  <2>1. rec' \in Recs /\ queue' \subseteq Crs /\ cr' \in [Crs -> Cr]
    BY <1>3, <1>7, UpdateType DEF ReconcileError, CrUpdateStatus, At, Phases, Steps
  <2> QED
    BY <1>7, <2>1 DEF ReconcileError, views, bounds
<1>8. CASE ReconcileDelete
  <2>1. CASE UNCHANGED cr /\ (Return \/ Goto("deleting"))
    BY <1>8, <2>1, CallType DEF ReconcileDelete, Steps, views, bounds
  <2>2. CASE \/ At("ReconcileDelete") /\ CrUpdateStatus("Deleting", "deleting")
             \/ At("deleting") /\ CrUpdateStatus("Deleted", "deleted")
             \/ At("deleted") /\ CrUpdate(NoCr, "idle")
    <3>1. rec' \in Recs /\ queue' \subseteq Crs /\ cr' \in [Crs -> Cr]
      BY <1>3, <1>4, <2>2, UpdateType DEF CrUpdateStatus, At, Phases, Steps
    <3> QED
      BY <1>8, <3>1 DEF ReconcileDelete, views, bounds
  <2> QED
    BY <1>8, <2>1, <2>2 DEF ReconcileDelete
<1> QED
  BY <1>1, <1>2, <1>5, <1>6, <1>7, <1>8

\* The update keeps the types.
LEMMA TypeUpdate ==
    ASSUME TypeOK, CallKnown,
           \/ CheckUpgrade \/ ReconcileUpdate \/ ReconcileUpdateCrash
           \/ sync \/ CheckDegraded
    PROVE  TypeOK'
<1> USE TypeParts, TypePartsNext
<1>1. CASE CheckUpgrade
  <2> DEFINE new == [rec.copy EXCEPT !.phase = IF IsUpgrading(rec.copy)
                                               THEN "Upgrading" ELSE @]
  <2>1. new \in Cr
    BY DEF Recs, Cr, Phases
  <2>2. \/ Goto("objects") /\ UNCHANGED cr
        \/ ~ At("idle") /\ CrUpdate(new, "objects")
    BY <1>1 DEF CheckUpgrade, At
  <2> HIDE DEF new
  <2>3. rec' \in Recs /\ queue' \subseteq Crs /\ cr' \in [Crs -> Cr]
    BY <2>1, <2>2, UpdateType, CallType DEF Steps
  <2> QED
    BY <1>1, <2>3 DEF CheckUpgrade, views, bounds
<1>2. CASE ReconcileUpdate
  <2>1. PICK all \in Orders, fault \in Faulty \cup {None} :
          /\ troubles' = troubles \/ Trouble
          /\ obj' = ReconcileObjects(all, getNamespacedArgs(rec.copy.class, classes), fault)
          /\ \E failed \in BOOLEAN :
               rec' = [rec EXCEPT !.pc = "sync", !.todo = <<Signer, Bundle, Target>>,
                                  !.failed = failed]
    BY <1>2 DEF ReconcileUpdate
  <2>2. <<Signer, Bundle, Target>> \in Seq(Objects)
    BY ObjectKinds DEF CertObjects
  <2>3. rec' \in Recs
    BY <2>1, <2>2 DEF Recs, Steps
  <2>4. troubles' \in 0..MaxTroubles
    BY <2>1, TroubleType
  <2>5. obj' \in [Objects \cup {Claim} -> Object]
    BY <2>1, LoopType
  <2> QED
    BY <1>2, <2>3, <2>4, <2>5 DEF ReconcileUpdate, views, bounds
<1>3. CASE ReconcileUpdateCrash
  <2>1. obj' \in [Objects \cup {Claim} -> Object]
    BY <1>3, LoopType DEF ReconcileUpdateCrash
  <2>2. troubles' \in 0..MaxTroubles /\ Crash
    BY <1>3, TroubleType DEF ReconcileUpdateCrash
  <2> QED
    BY <1>3, <2>1, <2>2, CrashType DEF ReconcileUpdateCrash, bounds
<1>4. CASE sync
  <2> DEFINE o == Head(rec.todo)
  <2>1. rec.todo \in Seq(Objects) /\ rec.todo # <<>>
    BY <1>4 DEF sync, Recs
  <2>2. o \in Objects /\ Tail(rec.todo) \in Seq(Objects)
    BY <2>1
  <2>3. Filled(o) \in Object
    <3>1. \A x \in Object : [x EXCEPT !.live = TRUE, !.cfg = "data"] \in Object
      BY DEF Object
    <3>2. obj[o] \in Object
      BY <2>2
    <3> QED
      BY <3>1, <3>2 DEF Filled
  <2>4. [obj EXCEPT ![o] = Filled(o)] \in [Objects \cup {Claim} -> Object]
    BY <2>2, <2>3
  <2>5. [rec EXCEPT !.todo = Tail(@)] \in Recs
    BY <2>2 DEF Recs
  <2>6. \/ ~ At("idle") /\ Requeue /\ UNCHANGED obj
        \/ /\ obj' \in {obj, [obj EXCEPT ![o] = Filled(o)]}
           /\ rec' = [rec EXCEPT !.todo = Tail(@)] /\ UNCHANGED queue
    BY <1>4 DEF sync, At
  <2> HIDE DEF o
  <2>7. rec' \in Recs /\ queue' \subseteq Crs /\ obj' \in [Objects \cup {Claim} -> Object]
    BY <2>4, <2>5, <2>6, CallType
  <2> QED
    BY <1>4, <2>7 DEF sync, views, bounds
<1>5. CASE CheckDegraded
  <2>1. \A degraded \in BOOLEAN :
          /\ [rec.copy EXCEPT !.phase = "Deployed", !.observed = TRUE,
                              !.degraded = FALSE] \in Cr
          /\ [rec.copy EXCEPT !.degraded = degraded] \in Cr
    BY DEF Recs, Cr, Phases
  <2>2. ~ At("idle") /\ Requeue /\ \E new \in Cr : cr' \in {cr, [cr EXCEPT ![rec.cr] = new]}
    BY <1>5, <2>1 DEF CheckDegraded, At
  <2>3. rec' \in Recs /\ queue' \subseteq Crs /\ cr' \in [Crs -> Cr]
    BY <2>2, CallType
  <2> QED
    BY <1>5, <2>3 DEF CheckDegraded, views, bounds
<1> QED
  BY <1>1, <1>2, <1>3, <1>4, <1>5

\* There is a CR left to create.
LEMMA NextCr ==
    ASSUME TypeOK, Cardinality(created) < MaxCrs
    PROVE  (CHOOSE d \in Crs : d \notin created) \in Crs \ created
<1>1. created # Crs
  BY OperatorAssumption, FS_CardinalityType
<1> QED
  BY <1>1, TypeParts

\* What the informers and the cluster around the operator do keeps the types.
LEMMA TypeAround ==
    ASSUME TypeOK, CallKnown,
           \/ Deliver
           \/ CreateCr
           \/ \E c \in Crs : DeleteCr(c)
           \/ \E i \in Laggards : StartLag(i)
           \/ watchMTQCRD
           \/ CatchUp
           \/ Environment
           \/ OperatorCrash \/ ApiError \/ ChangeClasses
           \/ \E o \in Deletable \cup Editable : Tamper(o)
    PROVE  TypeOK'
<1> USE TypeParts, TypePartsNext
<1>0. ObjectsSeen \in [Objects \cup {Claim} -> Object] /\ DOMAIN obj = Objects \cup {Claim}
  BY DEF ObjectsSeen
<1>1. CASE Deliver
  <2>1. crView' \in [Crs -> Cr] /\ certView' \in [CertObjects -> Object]
    BY <1>1, ObjectKinds DEF Deliver, CrsSeen, CertsSeen
  <2>2. objView' \in [Objects \cup {Claim} -> Object] /\ queue' \subseteq Crs
    BY <1>0, <1>1 DEF Deliver
  <2> QED
    BY <1>1, <2>1, <2>2 DEF Deliver, api, bounds
<1>2. CASE CreateCr
  <2> DEFINE c == CHOOSE d \in Crs : d \notin created
  <2>1. c \in Crs
    BY <1>2, NextCr DEF CreateCr
  <2>2. \A class \in CrClasses : [NoCr EXCEPT !.live = TRUE, !.class = class] \in Cr
    BY EmptyTypes DEF NoCr, Cr, Classes
  <2>3. /\ created' = created \cup {c}
        /\ \E class \in CrClasses :
             cr' = [cr EXCEPT ![c] = [NoCr EXCEPT !.live = TRUE, !.class = class]]
    BY <1>2 DEF CreateCr
  <2> HIDE DEF c
  <2>4. cr' \in [Crs -> Cr] /\ created' \subseteq Crs
    BY <2>1, <2>2, <2>3
  <2> QED
    BY <1>2, <2>4 DEF CreateCr, views
<1>3. ASSUME NEW c \in Crs, DeleteCr(c) PROVE TypeOK'
  <2>1. [cr[c] EXCEPT !.deleting = TRUE] \in Cr
    BY DEF Cr
  <2>2. cr' \in [Crs -> Cr]
    BY <1>3, <2>1, EmptyTypes DEF DeleteCr
  <2> QED
    BY <1>3, <2>2 DEF DeleteCr, views, bounds
<1>4. ASSUME NEW i \in Laggards, StartLag(i) PROVE TypeOK'
  BY <1>4, TroubleType, OperatorAssumption DEF StartLag, api, views
<1>5. CASE watchMTQCRD
  <2>1. CASE obj' = obj /\ Crash
    BY <1>5, <2>1, CrashType DEF watchMTQCRD, bounds
  <2>2. CASE /\ queue' \in {queue, queue \cup GetActiveMTQ}
             /\ UNCHANGED <<obj, views, watching, rec>>
    BY <1>5, <2>2 DEF watchMTQCRD, GetActiveMTQ, views, bounds
  <2> QED
    BY <1>5, <2>1, <2>2 DEF watchMTQCRD
<1>6. CASE CatchUp
  BY <1>6 DEF CatchUp, EndLag, api, views
<1>7. CASE Environment
  <2>1. \A o \in Objects \cup {Claim} : [obj[o] EXCEPT !.ready = TRUE] \in Object
    <3>1. \A x \in Object : [x EXCEPT !.ready = TRUE] \in Object
      BY DEF Object
    <3> QED
      BY <3>1
  <2>2. obj' \in [Objects \cup {Claim} -> Object]
    BY <1>0, <1>7, <2>1, EmptyTypes DEF Environment, CollectGarbage, BecomeReady
  <2> QED
    BY <1>7, <2>2 DEF Environment, CollectGarbage, BecomeReady, views, bounds
<1>8. CASE OperatorCrash
  BY <1>8, CrashType, TroubleType DEF OperatorCrash, bounds
<1>9. CASE ApiError
  BY <1>9, CallType, TroubleType DEF ApiError, At, api, views, bounds
<1>10. CASE ChangeClasses
  BY <1>10, TroubleType DEF ChangeClasses, Classes, views, bounds
<1>11. ASSUME NEW o \in Deletable \cup Editable, Tamper(o) PROVE TypeOK'
  <2>1. o \in Objects
    BY OperatorAssumption
  <2>2. [obj EXCEPT ![o].cfg = "edited", ![o].ready = FALSE] \in [Objects \cup {Claim} -> Object]
    <3>1. obj[o] \in Object
      BY <2>1
    <3> QED
      BY <2>1, <3>1 DEF Object
  <2>3. obj' \in [Objects \cup {Claim} -> Object]
    BY <1>11, <2>1, <2>2, EmptyTypes DEF Tamper
  <2> QED
    BY <1>11, <2>3, TroubleType DEF Tamper, views, bounds
<1> QED
  BY <1>1, <1>2, <1>3, <1>4, <1>5, <1>6, <1>7, <1>8, <1>9, <1>10, <1>11

\* Every step keeps the types.
LEMMA TypeNext ==
    ASSUME TypeOK, CallKnown, [Next]_vars
    PROVE  TypeOK'
<1>1. CASE UNCHANGED vars
  BY <1>1, TypeParts, TypePartsNext DEF vars, api, views, bounds
<1>2. CASE Next
  BY <1>2, TypeBegin, TypeUpdate, TypeAround DEF Next, ReconcileStep
<1> QED
  BY <1>1, <1>2

-----------------------------------------------------------------------------
\* The inductive invariant.

Active == {"Deploying", "Upgrading", "Deployed"}

\* The points of Reconcile at which the CR has the claim.
Claiming == {"CrInit", "finalizer", "CheckUpgrade", "objects", "sync"}

ActiveOwns ==
    \A c \in Crs : cr[c].live /\ cr[c].phase \in Active => Owns(c, obj[Claim])

CallOwns ==
    \A c \in Crs : cr[c].live /\ rec.cr = c /\ rec.pc \in Claiming => Owns(c, obj[Claim])

\* The inductive invariant by its parts.
LEMMA ClaimParts ==
    ClaimIndInv <=> CallKnown /\ OnceCreated /\ ClaimLasts /\ ActiveOwns /\ CallOwns
  BY DEF ClaimIndInv, ActiveOwns, CallOwns, Active, Claiming

\* The same one step later.
LEMMA ClaimPartsNext ==
    ClaimIndInv' <=> (CallKnown /\ OnceCreated /\ ClaimLasts /\ ActiveOwns /\ CallOwns)'
  BY ClaimParts, PTL

\* The inductive invariant holds at first.
LEMMA ClaimInit == Init => ClaimIndInv
<1> SUFFICES ASSUME Init PROVE ClaimIndInv
  OBVIOUS
<1>1. rec = Idle /\ Idle.pc = "idle"
  BY DEF Init, Idle
<1>2. \A c \in Crs : ~ cr[c].live /\ ~ crView[c].live
  BY DEF Init, NoCr
<1>3. ~ obj[Claim].live /\ ~ objView[Claim].live
  BY DEF Init, Absent
<1> QED
  BY <1>1, <1>2, <1>3
     DEF ClaimIndInv, CallKnown, At, OnceCreated, ClaimLasts

\* A step that leaves CRs and the claim alone, delivers them at most, and takes
\* no call to where it would need the claim.
LEMMA ClaimFrame ==
    ASSUME TypeOK, ClaimIndInv, UNCHANGED <<cr, created>>, crView' \in {crView, cr},
           obj'[Claim] = obj[Claim], objView'[Claim] \in {objView[Claim], obj[Claim]},
           CallKnown',
           /\ cr[rec'.cr].live
           /\ rec'.pc \in Claiming
           => \/ rec.pc \in Claiming /\ rec'.cr = rec.cr
              \/ Owns(rec'.cr, objView[Claim])
    PROVE  ClaimIndInv'
<1>0. CallKnown /\ OnceCreated /\ ClaimLasts /\ ActiveOwns /\ CallOwns
  BY ClaimParts
<1>1. OnceCreated'
  BY <1>0 DEF OnceCreated
<1>2. ClaimLasts'
  BY <1>0 DEF ClaimLasts
<1>3. ActiveOwns'
  BY <1>0 DEF ActiveOwns
<1>4. CallOwns'
  BY <1>0 DEF CallOwns, ClaimLasts
<1> QED
  BY <1>1, <1>2, <1>3, <1>4, ClaimPartsNext

\* The call ends.
LEMMA ClaimIdle ==
    ASSUME TypeOK, ClaimIndInv, UNCHANGED <<cr, created>>, crView' \in {crView, cr},
           obj'[Claim] = obj[Claim], objView'[Claim] \in {objView[Claim], obj[Claim]},
           rec' = Idle
    PROVE  ClaimIndInv'
<1>1. rec'.pc = "idle"
  BY DEF Idle
<1> QED
  BY <1>1, ClaimFrame DEF CallKnown, At, Claiming

\* An update of the CR, which has the claim if it needs it afterwards.
LEMMA ClaimUpdate ==
    ASSUME TypeOK, ClaimIndInv, ~ At("idle"), NEW new \in Cr, NEW pc \in Steps,
           CrUpdate(new, pc), pc # "idle" => new.live,
           UNCHANGED <<crView, obj, objView, created>>,
           pc \in Claiming \/ new.phase \in Active =>
               \/ rec.pc \in Claiming
               \/ rec.copy.phase \in Active
    PROVE  ClaimIndInv'
<1> DEFINE c == rec.cr
<1>0. CallKnown /\ OnceCreated /\ ClaimLasts /\ ActiveOwns /\ CallOwns
  BY ClaimParts
<1>1. CASE cr[c] # rec.copy
  BY <1>1, ClaimIdle DEF CrUpdate, Requeue
<1>2. CASE cr[c] = rec.copy
  <2>1. c \in created /\ c \in Crs /\ cr[c].live
    BY <1>0, <1>2, TypeParts DEF CallKnown
  <2>2. /\ cr' = [cr EXCEPT ![c] = new]
        /\ rec' = IF pc = "idle" THEN Idle ELSE [rec EXCEPT !.pc = pc, !.copy = new]
    BY <1>2 DEF CrUpdate
  <2>3. cr'[c] = new /\ \A d \in Crs \ {c} : cr'[d] = cr[d]
    BY <2>1, <2>2, TypeParts
  <2>4. \/ rec'.pc = "idle"
        \/ rec'.pc = pc /\ rec'.cr = c /\ rec'.copy = new /\ new.live
    <3>1. CASE pc = "idle"
      BY <2>2, <3>1 DEF Idle
    <3>2. CASE pc # "idle"
      BY <2>2, <3>2, TypeParts DEF Recs
    <3> QED
      BY <3>1, <3>2
  <2>5. pc \in Claiming \/ new.phase \in Active => Owns(c, obj[Claim])
    BY <1>0, <1>2, <2>1 DEF ActiveOwns, CallOwns
  <2> HIDE DEF c
  <2>6. CallKnown'
    BY <2>1, <2>4 DEF CallKnown, At
  <2>7. OnceCreated'
    BY <1>0, <2>1, <2>3 DEF OnceCreated
  <2>8. ClaimLasts'
    BY <1>0, <2>1, <2>3 DEF ClaimLasts
  <2>9. ActiveOwns'
    BY <1>0, <2>3, <2>5 DEF ActiveOwns
  <2>10. CallOwns'
    BY <2>4, <2>5 DEF CallOwns, Claiming
  <2> QED
    BY <2>6, <2>7, <2>8, <2>9, <2>10, ClaimPartsNext
<1> QED
  BY <1>1, <1>2

-----------------------------------------------------------------------------
\* Every step keeps the inductive invariant.

\* The loop over the objects leaves the claim alone.
LEMMA LoopSparesClaim ==
    ASSUME TypeOK, NEW all \in Seq(Objects), NEW class, NEW fault
    PROVE  ReconcileObjects(all, class, fault)[Claim] = obj[Claim]
<1>1. Claim \notin ToSet(all)
  BY ClaimApart DEF ToSet
<1>2. Claim \in DOMAIN obj
  BY TypeParts
<1> QED
  BY <1>1, <1>2 DEF ReconcileObjects

\* Reconcile begins with what the cache has of a CR.
LEMMA ClaimBegin ==
    ASSUME TypeOK, ClaimIndInv, NEW c \in Crs, Reconcile(c)
    PROVE  ClaimIndInv'
<1>0. CallKnown /\ OnceCreated
  BY ClaimParts
<1>1. UNCHANGED <<cr, crView, obj, objView, created>>
  BY DEF Reconcile, api, views, bounds
<1>2. \/ rec' = rec
      \/ /\ crView[c].live
         /\ \E pc \in {"ReconcileDelete", "ReconcileError", "preCreate", "checkSanity"} :
              rec' = [Idle EXCEPT !.pc = pc, !.cr = c, !.copy = crView[c]]
  BY DEF Reconcile
<1>3. CASE rec' = rec
  <2>1. CallKnown'
    BY <1>0, <1>1, <1>3 DEF CallKnown, At
  <2> QED
    BY <1>1, <1>3, <2>1, ClaimFrame
<1>4. CASE rec' # rec
  <2>1. /\ crView[c].live
        /\ rec'.pc \in {"ReconcileDelete", "ReconcileError", "preCreate", "checkSanity"}
        /\ rec'.cr = c /\ rec'.copy = crView[c]
    BY <1>2, <1>4 DEF Idle
  <2>2. CallKnown'
    BY <1>0, <1>1, <2>1 DEF CallKnown, OnceCreated
  <2> QED
    BY <1>1, <2>1, <2>2, ClaimFrame DEF Claiming
<1> QED
  BY <1>3, <1>4

\* Whoever creates the claim is the only one to have it: no other CR is deployed.
LEMMA ClaimCreate ==
    ASSUME TypeOK, ClaimIndInv, createOperatorConfig
    PROVE  ClaimIndInv'
<1>0. CallKnown /\ OnceCreated /\ ClaimLasts /\ ActiveOwns /\ CallOwns
  BY ClaimParts
<1>1. UNCHANGED <<cr, crView, objView, created>>
  BY DEF createOperatorConfig, views, bounds
<1>2. CASE obj[Claim].live
  BY <1>1, <1>2, ClaimIdle DEF createOperatorConfig, Requeue
<1>3. CASE ~ obj[Claim].live
  <2> DEFINE claim == [Absent EXCEPT !.live = TRUE, !.owner = rec.cr, !.cfg = "ok"]
  <2>1. rec.cr \in created /\ rec.copy.live
    BY <1>0 DEF createOperatorConfig, CallKnown, At
  <2>2. obj' = [obj EXCEPT ![Claim] = claim] /\ rec' = [rec EXCEPT !.pc = "CrInit"]
    BY <1>3 DEF createOperatorConfig, Goto
  <2>3. claim.live /\ claim.owner = rec.cr
    BY DEF Absent
  <2> HIDE DEF claim
  <2>4. obj'[Claim].live /\ obj'[Claim].owner = rec.cr
    BY <2>2, <2>3, TypeParts
  <2>5. rec'.pc = "CrInit" /\ rec'.cr = rec.cr /\ rec'.copy = rec.copy
    BY <2>2, TypeParts DEF Recs
  <2>6. CallKnown'
    BY <1>1, <2>1, <2>5 DEF CallKnown
  <2>7. OnceCreated'
    BY <1>0, <1>1, <2>1, <2>4 DEF OnceCreated
  <2>8. ClaimLasts'
    BY <1>0, <1>1, <1>3 DEF ClaimLasts, Owns
  <2>9. ActiveOwns'
    BY <1>0, <1>1, <1>3 DEF ActiveOwns, Owns
  <2>10. CallOwns'
    BY <2>4, <2>5 DEF CallOwns, Owns
  <2> QED
    BY <2>6, <2>7, <2>8, <2>9, <2>10, ClaimPartsNext
<1> QED
  BY <1>2, <1>3

\* A call that goes on, and needs the claim only if it had it.
LEMMA ClaimGoto ==
    ASSUME TypeOK, ClaimIndInv, ~ At("idle"), UNCHANGED <<cr, crView, objView, created>>,
           obj'[Claim] = obj[Claim],
           rec'.cr = rec.cr, rec'.copy = rec.copy,
           rec'.pc \in Claiming => \/ rec.pc \in Claiming
                                   \/ Owns(rec.cr, objView[Claim])
    PROVE  ClaimIndInv'
<1>1. CallKnown'
  BY ClaimParts DEF CallKnown
<1> QED
  BY <1>1, ClaimFrame

\* The steps of Reconcile that write the CR.
LEMMA ClaimWrites ==
    ASSUME TypeOK, ClaimIndInv, CrInit \/ ReconcileError \/ ReconcileDelete \/ CheckUpgrade
    PROVE  ClaimIndInv'
<1> DEFINE copy == rec.copy
<1>0. CallKnown
  BY ClaimParts
<1>1. UNCHANGED <<crView, obj, objView, created>> /\ ~ At("idle")
  BY DEF CrInit, ReconcileError, ReconcileDelete, CheckUpgrade, views, bounds, At
<1>2. copy \in Cr /\ copy.live
  BY <1>0, <1>1, TypeParts DEF Recs, CallKnown
<1>3. \A phase \in Phases : /\ [copy EXCEPT !.phase = phase] \in Cr
                            /\ [copy EXCEPT !.phase = phase].live
                            /\ [copy EXCEPT !.phase = phase].phase = phase
  BY <1>2 DEF Cr
<1>4. [copy EXCEPT !.finalizer = TRUE] \in Cr /\ [copy EXCEPT !.finalizer = TRUE].live
  BY <1>2 DEF Cr
<1>5. NoCr \in Cr /\ NoCr.phase = ""
  BY EmptyTypes DEF NoCr
<1>6. \A pc : Goto(pc) => rec'.pc = pc /\ rec'.cr = rec.cr /\ rec'.copy = copy
  BY TypeParts DEF Goto, Recs
<1> HIDE DEF copy
<1>7. CASE At("CrInit") /\ CrUpdateStatus("Deploying", "finalizer")
  <2>1. CrUpdate([copy EXCEPT !.phase = "Deploying"], "finalizer") /\ rec.pc \in Claiming
    BY <1>7 DEF CrUpdateStatus, At, Claiming, copy
  <2> QED
    BY <1>1, <1>3, <2>1, ClaimUpdate DEF Phases, Steps
<1>8. CASE At("finalizer") /\ CrUpdate([rec.copy EXCEPT !.finalizer = TRUE], "checkSanity")
  <2>1. CrUpdate([copy EXCEPT !.finalizer = TRUE], "checkSanity") /\ rec.pc \in Claiming
    BY <1>8 DEF At, Claiming, copy
  <2> QED
    BY <1>1, <1>4, <2>1, ClaimUpdate DEF Steps
<1>9. CASE ReconcileError
  <2>1. CrUpdate([copy EXCEPT !.phase = "Error"], "idle")
    BY <1>9 DEF ReconcileError, CrUpdateStatus, copy
  <2> QED
    BY <1>1, <1>3, <2>1, ClaimUpdate DEF Phases, Steps, Active, Claiming
<1>10. CASE ReconcileDelete
  <2>1. CASE UNCHANGED cr /\ Return
    BY <1>1, <2>1, ClaimIdle DEF Return
  <2>2. CASE UNCHANGED cr /\ Goto("deleting")
    BY <1>1, <1>6, <2>2, ClaimGoto DEF Claiming, copy
  <2>3. CASE CrUpdateStatus("Deleting", "deleting")
    <3>1. CrUpdate([copy EXCEPT !.phase = "Deleting"], "deleting")
      BY <2>3 DEF CrUpdateStatus, copy
    <3> QED
      BY <1>1, <1>3, <3>1, ClaimUpdate DEF Phases, Steps, Active, Claiming
  <2>4. CASE CrUpdateStatus("Deleted", "deleted")
    <3>1. CrUpdate([copy EXCEPT !.phase = "Deleted"], "deleted")
      BY <2>4 DEF CrUpdateStatus, copy
    <3> QED
      BY <1>1, <1>3, <3>1, ClaimUpdate DEF Phases, Steps, Active, Claiming
  <2>5. CASE CrUpdate(NoCr, "idle")
    BY <1>1, <1>5, <2>5, ClaimUpdate DEF Steps, Active, Claiming
  <2> QED
    BY <1>10, <2>1, <2>2, <2>3, <2>4, <2>5 DEF ReconcileDelete
<1>11. CASE CheckUpgrade
  <2> DEFINE new == [copy EXCEPT !.phase = IF IsUpgrading(copy) THEN "Upgrading" ELSE @]
  <2>1. new \in Cr /\ new.live
    BY <1>2 DEF Cr, Phases
  <2>2. rec.pc \in Claiming
    BY <1>11 DEF CheckUpgrade, At, Claiming
  <2>3. \/ Goto("objects") /\ UNCHANGED cr
        \/ CrUpdate(new, "objects")
    BY <1>11 DEF CheckUpgrade, copy
  <2> HIDE DEF new
  <2>4. CASE Goto("objects") /\ UNCHANGED cr
    BY <1>1, <1>6, <2>2, <2>4, ClaimGoto DEF copy
  <2>5. CASE CrUpdate(new, "objects")
    BY <1>1, <2>1, <2>2, <2>5, ClaimUpdate DEF Steps
  <2> QED
    BY <2>3, <2>4, <2>5
<1> QED
  BY <1>7, <1>8, <1>9, <1>10, <1>11 DEF CrInit

\* checkSanity lets only the CR pass that the cache shows as the owner.
LEMMA ClaimSanity ==
    ASSUME TypeOK, ClaimIndInv, checkSanity
    PROVE  ClaimIndInv'
<1>1. UNCHANGED <<cr, created>> /\ ~ At("idle")
  BY DEF checkSanity, bounds, At
<1>2. CASE obj' = obj /\ Crash
  BY <1>1, <1>2, ClaimIdle DEF Crash
<1>3. CASE UNCHANGED <<obj, views, watching>>
  <2>1. UNCHANGED <<crView, obj, objView>>
    BY <1>3 DEF views
  <2>2. \A pc : Goto(pc) => rec'.pc = pc /\ rec'.cr = rec.cr /\ rec'.copy = rec.copy
    BY TypeParts DEF Goto, Recs
  <2>3. CASE Requeue
    BY <1>1, <2>1, <2>3, ClaimIdle DEF Requeue
  <2>4. CASE Goto("ReconcileError")
    BY <1>1, <2>1, <2>2, <2>4, ClaimGoto DEF Claiming
  <2>5. CASE Owns(rec.cr, objView[Claim]) /\ Goto("CheckUpgrade")
    BY <1>1, <2>1, <2>2, <2>5, ClaimGoto
  <2>6. CASE Crash
    BY <1>1, <2>1, <2>6, ClaimIdle DEF Crash
  <2> QED
    BY <2>3, <2>4, <2>5, <2>6 DEF checkSanity, getConfigMap, Owns
<1> QED
  BY <1>2, <1>3 DEF checkSanity

\* The loop over the objects and Sync touch objects, and the claim is none; the
\* CR is written in the end.
LEMMA ClaimObjects ==
    ASSUME TypeOK, ClaimIndInv,
           ReconcileUpdate \/ ReconcileUpdateCrash \/ sync \/ CheckDegraded
    PROVE  ClaimIndInv'
<1>0. CallKnown /\ OnceCreated /\ ClaimLasts /\ ActiveOwns /\ CallOwns
  BY ClaimParts
<1>1. UNCHANGED created /\ ~ At("idle") /\ rec.pc \in Claiming
  BY DEF ReconcileUpdate, ReconcileUpdateCrash, sync, CheckDegraded, bounds, At, Claiming
<1>2. CASE ReconcileUpdate
  <2>1. UNCHANGED <<cr, crView, objView>>
    BY <1>2 DEF ReconcileUpdate, views
  <2>2. obj'[Claim] = obj[Claim]
    <3>1. PICK all \in Orders, fault \in Faulty \cup {None} :
            obj' = ReconcileObjects(all, getNamespacedArgs(rec.copy.class, classes), fault)
      BY <1>2 DEF ReconcileUpdate
    <3> QED
      BY <3>1, LoopSparesClaim, OperatorAssumption
  <2>3. PICK failed : rec' = [rec EXCEPT !.pc = "sync", !.todo = <<Signer, Bundle, Target>>,
                                         !.failed = failed]
    BY <1>2 DEF ReconcileUpdate
  <2>4. rec'.cr = rec.cr /\ rec'.copy = rec.copy
    BY <2>3, TypeParts DEF Recs
  <2> QED
    BY <1>1, <2>1, <2>2, <2>4, ClaimGoto
<1>3. CASE ReconcileUpdateCrash
  <2>1. PICK all \in Orders, n \in CrashPoints :
          obj' = ReconcileObjects(SubSeq(all, 1, n),
                                  getNamespacedArgs(rec.copy.class, classes), None)
    BY <1>3 DEF ReconcileUpdateCrash
  <2>2. all \in Seq(Objects) /\ n \in 0..Len(all)
    BY OperatorAssumption
  <2>3. SubSeq(all, 1, n) \in Seq(Objects)
    BY <2>2
  <2>4. obj'[Claim] = obj[Claim]
    BY <2>1, <2>3, LoopSparesClaim
  <2>5. Crash /\ UNCHANGED cr
    BY <1>3 DEF ReconcileUpdateCrash
  <2>6. crView' = cr /\ objView' = obj' /\ rec' = Idle
    BY <2>5 DEF Crash
  <2> QED
    BY <1>1, <2>4, <2>5, <2>6, ClaimIdle
<1>4. CASE sync
  <2> DEFINE o == Head(rec.todo)
  <2>1. UNCHANGED <<cr, crView, objView>>
    BY <1>4 DEF sync, views
  <2>2. rec.todo \in Seq(Objects) /\ rec.todo # <<>>
    BY <1>4, TypeParts DEF sync, Recs
  <2>3. o \in Objects
    BY <2>2
  <2>4. \/ Requeue /\ UNCHANGED obj
        \/ /\ obj' \in {obj, [obj EXCEPT ![o] = Filled(o)]}
           /\ rec' = [rec EXCEPT !.todo = Tail(@)]
    BY <1>4 DEF sync
  <2> HIDE DEF o
  <2>5. obj'[Claim] = obj[Claim]
    BY <2>3, <2>4, ClaimApart, TypeParts
  <2>6. CASE Requeue
    BY <1>1, <2>1, <2>5, <2>6, ClaimIdle DEF Requeue
  <2>7. CASE rec' = [rec EXCEPT !.todo = Tail(@)]
    <3>1. rec'.cr = rec.cr /\ rec'.copy = rec.copy
      BY <2>7, TypeParts DEF Recs
    <3> QED
      BY <1>1, <2>1, <2>5, <3>1, ClaimGoto
  <2> QED
    BY <2>4, <2>6, <2>7
<1>5. CASE CheckDegraded
  <2>1. UNCHANGED <<crView, obj, objView>> /\ rec' = Idle
    BY <1>5 DEF CheckDegraded, views, Requeue
  <2>2. CASE UNCHANGED cr
    BY <1>1, <2>1, <2>2, ClaimIdle
  <2>3. CASE \E new : cr[rec.cr] = rec.copy /\ cr' = [cr EXCEPT ![rec.cr] = new]
    <3>1. PICK new : cr' = [cr EXCEPT ![rec.cr] = new]
      BY <2>3
    <3>2. rec.cr \in created /\ rec.cr \in Crs /\ cr[rec.cr].live
      BY <1>0, <1>1, <2>3, TypeParts DEF CallKnown
    <3>3. \A d \in Crs \ {rec.cr} : cr'[d] = cr[d]
      BY <3>1, TypeParts
    <3>4. Owns(rec.cr, obj[Claim])
      BY <1>0, <1>1, <3>2 DEF CallOwns
    <3>5. CallKnown' /\ CallOwns'
      BY <2>1 DEF CallKnown, CallOwns, At, Idle, Claiming
    <3>6. OnceCreated'
      BY <1>0, <1>1, <2>1, <3>2, <3>3 DEF OnceCreated
    <3>7. ClaimLasts'
      BY <1>0, <2>1, <3>3, <3>4 DEF ClaimLasts
    <3>8. ActiveOwns'
      BY <1>0, <2>1, <3>3, <3>4 DEF ActiveOwns
    <3> QED
      BY <3>5, <3>6, <3>7, <3>8, ClaimPartsNext
  <2> QED
    BY <1>5, <2>2, <2>3 DEF CheckDegraded
<1> QED
  BY <1>2, <1>3, <1>4, <1>5

\* A step of somebody else during which CRs and the claim stay as they are.
LEMMA ClaimElsewhere ==
    ASSUME TypeOK, ClaimIndInv, UNCHANGED <<cr, rec, created>>, crView' \in {crView, cr},
           obj'[Claim] = obj[Claim], objView'[Claim] \in {objView[Claim], obj[Claim]}
    PROVE  ClaimIndInv'
<1>1. CallKnown'
  BY ClaimParts DEF CallKnown, At
<1> QED
  BY <1>1, ClaimFrame

\* Users create CRs, which are in no phase, and delete them.
LEMMA ClaimUsers ==
    ASSUME TypeOK, ClaimIndInv, CreateCr \/ \E c \in Crs : DeleteCr(c)
    PROVE  ClaimIndInv'
<1>0. CallKnown /\ OnceCreated /\ ClaimLasts /\ ActiveOwns /\ CallOwns
  BY ClaimParts
<1>1. UNCHANGED <<crView, obj, objView, rec>>
  BY DEF CreateCr, DeleteCr, views
<1>2. CASE CreateCr
  <2>1. PICK c \in Crs \ created, class \in CrClasses :
          /\ created' = created \cup {c}
          /\ cr' = [cr EXCEPT ![c] = [NoCr EXCEPT !.live = TRUE, !.class = class]]
    BY <1>2, NextCr DEF CreateCr
  <2>2. cr'[c].phase = "" /\ \A d \in Crs \ {c} : cr'[d] = cr[d]
    BY <2>1, TypeParts DEF NoCr
  <2>3. ~ Owns(c, obj[Claim]) /\ ~ Owns(c, objView[Claim])
    BY <1>0 DEF OnceCreated, Owns
  <2>4. CallKnown'
    BY <1>0, <1>1, <2>1 DEF CallKnown, At
  <2>5. OnceCreated'
    BY <1>0, <1>1, <2>1, <2>2 DEF OnceCreated
  <2>6. ClaimLasts'
    BY <1>0, <1>1, <2>2, <2>3 DEF ClaimLasts
  <2>7. ActiveOwns'
    BY <1>0, <1>1, <2>2 DEF ActiveOwns, Active
  <2>8. CallOwns'
    BY <1>0, <1>1, <2>1, <2>2 DEF CallOwns, CallKnown, At, Claiming
  <2> QED
    BY <2>4, <2>5, <2>6, <2>7, <2>8, ClaimPartsNext
<1>3. ASSUME NEW c \in Crs, DeleteCr(c) PROVE ClaimIndInv'
  <2>1. /\ UNCHANGED created
        /\ cr' = [cr EXCEPT ![c] = IF @.finalizer THEN [@ EXCEPT !.deleting = TRUE] ELSE NoCr]
    BY <1>3 DEF DeleteCr, bounds
  <2>2. /\ cr'[c].live => cr[c].live
        /\ cr'[c].phase \in {cr[c].phase, ""}
        /\ \A d \in Crs \ {c} : cr'[d] = cr[d]
    BY <2>1, TypeParts DEF NoCr, Cr
  <2>3. CallKnown'
    BY <1>0, <1>1, <2>1 DEF CallKnown, At
  <2>4. OnceCreated'
    BY <1>0, <1>1, <2>1, <2>2 DEF OnceCreated
  <2>5. ClaimLasts'
    BY <1>0, <1>1, <2>2 DEF ClaimLasts
  <2>6. ActiveOwns'
    BY <1>0, <1>1, <2>2 DEF ActiveOwns, Active
  <2>7. CallOwns'
    BY <1>0, <1>1, <2>2 DEF CallOwns
  <2> QED
    BY <2>3, <2>4, <2>5, <2>6, <2>7, ClaimPartsNext
<1> QED
  BY <1>2, <1>3

\* The garbage collector takes the claim only when its owner is gone.
LEMMA ClaimCollect ==
    ASSUME TypeOK, ClaimIndInv, NEW i, CollectGarbage(i)
    PROVE  ClaimIndInv'
<1>0. CallKnown /\ OnceCreated /\ ClaimLasts /\ ActiveOwns /\ CallOwns
  BY ClaimParts
<1>1. UNCHANGED <<cr, crView, objView, rec, created>>
  BY DEF CollectGarbage, views, bounds
<1>2. CASE obj'[Claim] = obj[Claim]
  BY <1>1, <1>2, ClaimElsewhere
<1>3. CASE obj'[Claim] # obj[Claim]
  <2>1. Claim \in DOMAIN obj
    BY TypeParts
  <2>2. obj'[Claim] = Absent /\ ~ cr[obj[Claim].owner].live
    BY <1>3, <2>1 DEF CollectGarbage
  <2>3. ~ obj'[Claim].live
    <3>1. ~ Absent.live
      BY DEF Absent
    <3> QED
      BY <2>2, <3>1
  <2>4. \A c \in Crs : cr[c].live => ~ Owns(c, obj[Claim])
    BY <2>2 DEF Owns
  <2>5. CallKnown' /\ OnceCreated'
    BY <1>0, <1>1, <2>3 DEF CallKnown, OnceCreated, At
  <2>6. ClaimLasts' /\ ActiveOwns' /\ CallOwns'
    BY <1>0, <1>1, <2>4 DEF ClaimLasts, ActiveOwns, CallOwns
  <2> QED
    BY <2>5, <2>6, ClaimPartsNext
<1> QED
  BY <1>2, <1>3

\* The informers, and the rest of the cluster.
LEMMA ClaimAround ==
    ASSUME TypeOK, ClaimIndInv,
           \/ Deliver
           \/ \E i \in Laggards : StartLag(i)
           \/ watchMTQCRD
           \/ CatchUp
           \/ BecomeReady
           \/ OperatorCrash \/ ApiError \/ ChangeClasses
           \/ \E o \in Deletable \cup Editable : Tamper(o)
    PROVE  ClaimIndInv'
<1>0. Claim \in DOMAIN obj
  BY TypeParts
<1>1. CASE Deliver
  <2>1. objView'[Claim] \in {objView[Claim], obj[Claim]} /\ crView' \in {crView, cr}
    BY <1>0, <1>1 DEF Deliver, ObjectsSeen, CrsSeen
  <2> QED
    BY <1>1, <2>1, ClaimElsewhere DEF Deliver, api, bounds
<1>2. ASSUME NEW i \in Laggards, StartLag(i) PROVE ClaimIndInv'
  BY <1>2, ClaimElsewhere DEF StartLag, api, views
<1>3. CASE watchMTQCRD
  <2>1. CASE obj' = obj /\ Crash
    BY <1>3, <2>1, ClaimIdle DEF watchMTQCRD, Crash, bounds
  <2>2. CASE UNCHANGED <<obj, views, watching, rec>>
    BY <1>3, <2>2, ClaimElsewhere DEF watchMTQCRD, views, bounds
  <2> QED
    BY <1>3, <2>1, <2>2 DEF watchMTQCRD
<1>4. CASE CatchUp
  BY <1>4, ClaimElsewhere DEF CatchUp, EndLag, api, views
<1>5. CASE BecomeReady
  <2>1. Claim \notin Deployments
    BY ClaimApart, ObjectKinds
  <2>2. obj'[Claim] = obj[Claim]
    BY <1>0, <1>5, <2>1 DEF BecomeReady
  <2> QED
    BY <1>5, <2>2, ClaimElsewhere DEF BecomeReady, views, bounds
<1>6. CASE OperatorCrash
  BY <1>6, ClaimIdle DEF OperatorCrash, Crash, bounds
<1>7. CASE ApiError
  BY <1>7, ClaimIdle DEF ApiError, Requeue, api, views, bounds
<1>8. CASE ChangeClasses
  BY <1>8, ClaimElsewhere DEF ChangeClasses, views, bounds
<1>9. ASSUME NEW o \in Deletable \cup Editable, Tamper(o) PROVE ClaimIndInv'
  <2>1. o # Claim
    BY OperatorAssumption, ClaimApart
  <2>2. obj'[Claim] = obj[Claim]
    BY <1>9, <2>1, TypeParts DEF Tamper
  <2> QED
    BY <1>9, <2>2, ClaimElsewhere DEF Tamper, views, bounds
<1> QED
  BY <1>1, <1>2, <1>3, <1>4, <1>5, <1>6, <1>7, <1>8, <1>9

\* Every step keeps the inductive invariant.
LEMMA ClaimNext ==
    ASSUME TypeOK, ClaimIndInv, [Next]_vars
    PROVE  ClaimIndInv'
<1>1. CASE UNCHANGED vars
  BY <1>1, ClaimElsewhere DEF vars, api, views, bounds
<1>2. CASE Next
  BY <1>2, ClaimBegin, ClaimCreate, ClaimWrites, ClaimSanity, ClaimObjects, ClaimUsers,
     ClaimCollect, ClaimAround
     DEF Next, ReconcileStep, Environment
<1> QED
  BY <1>1, <1>2

-----------------------------------------------------------------------------
\* The theorems.

\* The operator keeps its inductive invariant: whoever is deployed, or about to
\* be, has the ConfigMap mtq-config.
THEOREM ClaimKept == Spec => []ClaimIndInv
<1>1. Init => TypeOK /\ ClaimIndInv
  BY TypeInit, ClaimInit
<1>2. TypeOK /\ ClaimIndInv /\ [Next]_vars => (TypeOK /\ ClaimIndInv)'
  BY TypeNext, ClaimNext, ClaimParts
<1> QED
  BY <1>1, <1>2, PTL DEF Spec

\* Type correctness of the operator.
THEOREM OperatorTypeCorrect == Spec => []TypeOK
<1>1. Init => TypeOK /\ ClaimIndInv
  BY TypeInit, ClaimInit
<1>2. TypeOK /\ ClaimIndInv /\ [Next]_vars => (TypeOK /\ ClaimIndInv)'
  BY TypeNext, ClaimNext, ClaimParts
<1> QED
  BY <1>1, <1>2, PTL DEF Spec

\* At most one CR is deployed at a time: two would both own the one claim.
THEOREM AtMostOneActive == Spec => []OneActive
<1>1. ClaimIndInv => OneActive
  <2> SUFFICES ASSUME ClaimIndInv PROVE OneActive
    OBVIOUS
  <2> DEFINE active == {c \in Crs : cr[c].live /\ cr[c].phase \in Active}
  <2>1. \A c, d \in active : c = d
    BY ClaimParts DEF ActiveOwns, Owns
  <2>2. active = {} \/ \E c : active = {c}
    BY <2>1
  <2>3. Cardinality(active) \in {0, 1}
    BY <2>2, FS_EmptySet, FS_Singleton
  <2> QED
    BY <2>3 DEF OneActive, Active
<1> QED
  BY <1>1, ClaimKept, PTL
=============================================================================
