--------------------------- MODULE ResourceQuotas ---------------------------
(***************************************************************************)
(* The arithmetic the VMMRQ controller does on resource lists and on the   *)
(* ResourceQuotas of one namespace.                                        *)
(*                                                                         *)
(* A v1.ResourceList gives a quantity to some of the resource names.  A    *)
(* ResourceQuota object is a record with its spec.hard, its status.hard    *)
(* and its status.used; live says whether the object exists.  The list     *)
(* OriginalBlockingResourceQuotas, whose names are unique, is a function   *)
(* from the quotas to their recorded spec.hard.                            *)
(***************************************************************************)
EXTENDS Integers, FiniteSets

CONSTANTS
    Resources,   \* names of the pod resources a quota may constrain
    validationSet, \* those that every container has to specify: cpu and memory
    RQs,         \* names of the ResourceQuotas of the namespace
    Migrations,  \* names of the VirtualMachineInstanceMigrations in it
    NotRecorded  \* what the ledger holds for a quota that is not in the list

\* The quantity of a resource that a list does not name.
Unnamed == -1

ResourceList == [Resources -> Nat \cup {Unnamed}]

ASSUME NotRecordedAssumption == NotRecorded \notin ResourceList

ASSUME ValidationSetAssumption == validationSet \subseteq Resources

EmptyList == [x \in Resources |-> Unnamed]

names(list) == {x \in Resources : list[x] # Unnamed}

RQObject == [live : BOOLEAN, hard : ResourceList,
             statusHard : ResourceList, used : ResourceList]

\* OriginalBlockingResourceQuotas: quota name -> spec.hard before the loan.
Ledger == [RQs -> ResourceList \cup {NotRecorded}]

EmptyLedger == [r \in RQs |-> NotRecorded]

recorded(orig) == {r \in RQs : orig[r] # NotRecorded}

\* MigrationsToBlockingResourceQuotas; the code never stores an empty list,
\* so {} stands for a migration that is not in the map.
BlockingMap == [Migrations -> SUBSET RQs]

-----------------------------------------------------------------------------
\* Only resources that both the quota and the VMMRQ name are increased.
addResourcesToRQ(hard, add) ==
    [x \in Resources |->
        IF x \in names(hard) \cap names(add) THEN hard[x] + add[x] ELSE hard[x]]

\* Constraints of the pod evaluator.  The usage of a pod names such a resource if
\* its containers specify it; either all of them do or none.
Constraints(statusHard, usage) == names(statusHard) \cap validationSet \subseteq names(usage)

\* quotaplugin.CheckRequest for one quota.  "unspecified" is the answer for a pod
\* that violates the quota's constraints, "unknown" that of a quota whose usage
\* is not calculated yet; neither error is "exceeded quota".
CheckRequest(statusHard, used, usage) ==
    LET charged == {x \in names(usage) \cap names(statusHard) : usage[x] > 0}
    IN  IF ~ Constraints(statusHard, usage) THEN "unspecified"
        ELSE IF ~ (names(statusHard) \subseteq names(used)) THEN "unknown"
        ELSE IF \A x \in charged : used[x] + usage[x] <= statusHard[x]
             THEN "ok"
             ELSE "exceeded"

\* Mutant of errWithCurrRQ: the raised quota is asked instead of the recorded.
errWithRaisedRQ(obj, r, orig, usage) == CheckRequest(obj.statusHard, obj.used, usage)

\* What the quota would answer if it still had its recorded spec.
errWithCurrRQ(obj, r, orig, usage) ==
    CheckRequest(IF r \in recorded(orig) THEN orig[r] ELSE obj.statusHard,
                 obj.used, usage)

\* What the quota would answer with the VMMRQ's resources on top of it.
errWithModifiedRQ(obj, r, orig, add, usage) ==
    CheckRequest(
        addResourcesToRQ(IF r \in recorded(orig) THEN orig[r] ELSE obj.hard, add),
        obj.used, usage)

\* The quotas that block the target pod and that the VMMRQ can lift.  One
\* quota that stays exceeded makes the whole answer empty.
getCurrBlockingRQInNS(cache, orig, add, usage) ==
    LET live == {r \in RQs : cache[r].live}
        hopeless ==
            \E r \in live :
                errWithModifiedRQ(cache[r], r, orig, add, usage) = "exceeded"
    IN  IF hopeless
        THEN {}
        ELSE {r \in live :
                /\ errWithCurrRQ(cache[r], r, orig, usage) = "exceeded"
                /\ errWithModifiedRQ(cache[r], r, orig, add, usage) = "ok"}

flatStringToStringMapNoDups(m2b) == UNION {m2b[m] : m \in Migrations}

\* Mutant of getAllBlockingRQsInNS: recorded quotas are read from the cache too.
getAllBlockingRQsFromCache(cache, m2b, orig) ==
    [r \in RQs |-> IF r \in flatStringToStringMapNoDups(m2b) /\ cache[r].live
                   THEN cache[r].hard ELSE NotRecorded]

\* The new ledger: what is recorded stays as recorded, a new name takes the
\* spec.hard the informer's cache shows; a name the cache lacks is dropped.
getAllBlockingRQsInNS(cache, m2b, orig) ==
    [r \in RQs |->
        IF r \notin flatStringToStringMapNoDups(m2b) THEN NotRecorded
        ELSE IF r \in recorded(orig) THEN orig[r]
        ELSE IF cache[r].live THEN cache[r].hard
        ELSE NotRecorded]

\* Mutants of getRQListToRestore: the flag found inverted, the lists swapped.
getRQListToKeep(currOrig, prevOrig) == recorded(prevOrig) \cap recorded(currOrig)
getRQListToRaise(currOrig, prevOrig) == recorded(currOrig) \ recorded(prevOrig)

getRQListToRestore(currOrig, prevOrig) == recorded(prevOrig) \ recorded(currOrig)

shouldLockNS(orig) == recorded(orig) # {}
=============================================================================
