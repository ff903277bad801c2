------------------------------ MODULE VmmrqLoan ------------------------------
(***************************************************************************)
(* The VMMRQ controller as an implementation of QuotaLoan.  The books are  *)
(* the ledgers of the VMMRQs together, the lock is the webhook.            *)
(***************************************************************************)
EXTENDS VmmrqController

CONSTANT Gone \* the spec.hard of a quota that does not exist

ASSUME GoneAssumption == Gone \notin ResourceList \cup {NotRecorded}

\* The VMMRQs that record a quota; there is never more than one.
Bookers(r) == {v \in LiveVMMRQs : r \in recorded(ledger(v))}

Books ==
    [r \in RQs |-> IF Bookers(r) = {} THEN NotRecorded
                   ELSE ledger(CHOOSE v \in Bookers(r) : TRUE)[r]]

\* spec.hard of every quota
Hard == [r \in RQs |-> IF rq[r].live THEN rq[r].hard ELSE Gone]

Loan == INSTANCE QuotaLoan WITH
            Quotas <- RQs,
            Hards <- ResourceList,
            hard <- Hard,
            own <- tenant,
            book <- Books,
            locked <- webhook

\* Every step of execute(), of other actors and of the tenant is one of
\* QuotaLoan or changes nothing there: UpdateStatus adds and removes entries
\* only while the quota has the recorded value, addResourcesToRQs raises a quota
\* from that value and never twice, restoreOriginalRQs sets it back, and
\* UnlockNamespace comes after the last entry is gone.
ImplementsLoan == Loan!Spec
=============================================================================
