--------------------------- MODULE QuotaLoanProofs ---------------------------
(***************************************************************************)
(* QuotaLoan keeps what it is meant for, for any quotas and values.        *)
(***************************************************************************)
EXTENDS QuotaLoan, TLAPS

\* Why Honest holds: the books have the tenant's values, and an entry stays until
\* the quota has its value back.
LoanInv ==
    /\ own \in [Quotas -> Hards]
    /\ hard \in [Quotas -> Hards \cup {Gone}]
    /\ book \in [Quotas -> Hards \cup {NotRecorded}]
    /\ \A q \in Quotas : book[q] # NotRecorded /\ hard[q] # Gone => book[q] = own[q]
    /\ \A q \in Quotas : hard[q] \notin {Gone, own[q]} => book[q] # NotRecorded
    /\ ~ locked => \A q \in Quotas : book[q] = NotRecorded

\* The values that stand for no spec.hard are none.
Distinct == Gone \notin Hards \cup {NotRecorded} /\ NotRecorded \notin Hards

LEMMA LoanInit == Init => LoanInv
BY DEF Init, LoanInv

\* Steps of the controller and of the tenant keep the invariant.
LEMMA LoanStep ==
    ASSUME Distinct, LoanInv, [Next]_loanVars
    PROVE  LoanInv'
<1> USE DEF LoanInv, Distinct
<1>1. CASE Lock
    BY <1>1 DEF Lock
<1>2. CASE Unlock
    BY <1>2 DEF Unlock
<1>3. CASE Book
    BY <1>3 DEF Book
<1>4. ASSUME NEW q \in Quotas, Lend(q)
      PROVE  LoanInv'
  <2>1. book[q] # NotRecorded
      BY <1>4 DEF Lend
  <2> QED
      BY <1>4, <2>1 DEF Lend
<1>5. ASSUME NEW q \in Quotas, Return(q)
      PROVE  LoanInv'
    BY <1>5 DEF Return
<1>6. ASSUME NEW q \in Quotas, TenantChange(q)
      PROVE  LoanInv'
    BY <1>6 DEF TenantChange
<1>7. ASSUME NEW q \in Quotas, TenantDelete(q)
      PROVE  LoanInv'
    BY <1>7 DEF TenantDelete
<1>8. CASE UNCHANGED loanVars
    BY <1>8 DEF loanVars
<1> QED
    BY <1>1, <1>2, <1>3, <1>4, <1>5, <1>6, <1>7, <1>8 DEF Next

\* Whatever implements QuotaLoan, as ImplementsLoan says of execute(), never
\* leaves a quota changed without the lock or without an entry from which
\* restoreOriginalRQs can set it back.
THEOREM LoansHonest ==
    ASSUME Distinct
    PROVE  Spec => []Honest
<1>1. Init => LoanInv
    BY LoanInit
<1>2. LoanInv /\ [Next]_loanVars => LoanInv'
    BY LoanStep
<1>3. LoanInv => Honest
    BY DEF LoanInv, Honest
<1> QED
    BY <1>1, <1>2, <1>3, PTL DEF Spec
=============================================================================
