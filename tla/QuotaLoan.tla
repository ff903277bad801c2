------------------------------ MODULE QuotaLoan ------------------------------
(***************************************************************************)
(* What the VMMRQ controller promises a tenant, without workers, caches    *)
(* and retries: quotas are lent from under a lock, every loan is booked    *)
(* before it is taken, and the lock is not given up before the books are   *)
(* empty.                                                                  *)
(***************************************************************************)
CONSTANTS
    Quotas,      \* the ResourceQuotas of the namespace
    Hards,       \* the values of spec.hard
    Gone,        \* stands for the spec.hard of a quota that was deleted
    NotRecorded  \* the entry of a quota that is not booked

VARIABLES
    hard,    \* spec.hard of every quota
    own,     \* as the tenant last set it
    book,    \* the recorded originals
    locked   \* is the namespace locked

loanVars == <<hard, own, book, locked>>

Init ==
    /\ own \in [Quotas -> Hards]
    /\ hard = own
    /\ book = [q \in Quotas |-> NotRecorded]
    /\ locked = FALSE

\* The namespace is locked at any time and unlocked when nothing is booked.
Lock ==
    /\ ~ locked
    /\ locked' = TRUE
    /\ UNCHANGED <<hard, own, book>>

Unlock ==
    /\ locked
    /\ \A q \in Quotas : book[q] = NotRecorded
    /\ locked' = FALSE
    /\ UNCHANGED <<hard, own, book>>

\* Entries are made and removed while the quota is as the entry says: before a
\* loan is taken and after it is returned.
Book ==
    /\ locked
    /\ book' \in [Quotas -> Hards \cup {NotRecorded}]
    /\ \A q \in Quotas :
         \/ book'[q] = book[q]
         \/ hard[q] = Gone
         \/ {book[q], book'[q]} = {NotRecorded, hard[q]}
    /\ UNCHANGED <<hard, own, locked>>

\* A quota is raised once, from the value that is booked, and set back to it.
Lend(q) ==
    /\ locked
    /\ hard[q] = book[q]
    /\ hard'[q] \in Hards
    /\ hard' = [hard EXCEPT ![q] = hard'[q]]
    /\ UNCHANGED <<own, book, locked>>

Return(q) ==
    /\ locked
    /\ book[q] # NotRecorded
    /\ hard[q] # Gone
    /\ hard' = [hard EXCEPT ![q] = book[q]]
    /\ UNCHANGED <<own, book, locked>>

\* The tenant changes quotas while the namespace is not locked, and deletes them
\* at any time.
TenantChange(q) ==
    /\ ~ locked
    /\ hard'[q] \in Hards
    /\ hard' = [hard EXCEPT ![q] = hard'[q]]
    /\ own' = [own EXCEPT ![q] = hard'[q]]
    /\ UNCHANGED <<book, locked>>

TenantDelete(q) ==
    /\ hard' = [hard EXCEPT ![q] = Gone]
    /\ UNCHANGED <<own, book, locked>>

Next ==
    \/ Lock \/ Unlock \/ Book
    \/ \E q \in Quotas : Lend(q) \/ Return(q) \/ TenantChange(q) \/ TenantDelete(q)

Spec == Init /\ [][Next]_loanVars

-----------------------------------------------------------------------------
\* Without the lock every quota is the tenant's, and a quota that is not the
\* tenant's is booked with the tenant's value.
Honest ==
    \A q \in Quotas :
        hard[q] \notin {Gone, own[q]} => locked /\ book[q] = own[q]
=============================================================================
