---------------------------- MODULE LedgerProofs ----------------------------
(***************************************************************************)
(* Safety of payouts and disputes, for any jobs, prices, staff, faults and *)
(* bounds.                                                                 *)
(***************************************************************************)
EXTENDS Ledger, FiniteSetTheorems, TLAPS

-----------------------------------------------------------------------------
(* Amounts *)

\* math.Round of a share of a non-negative amount, in whole cents, is
\* between zero and the amount.
LEMMA RoundedShare ==
    ASSUME NEW p \in Nat, NEW s \in 0 .. 100
    PROVE  Rounded(p * s, 100) \in Nat /\ Rounded(p * s, 100) <= p
<1>1. p * s \in Nat /\ p * s <= 100 * p
  BY SMT
<1>2. \A n \in Nat : n <= 100 * p => Rounded(n, 100) \in Nat /\ Rounded(n, 100) <= p
  BY SMT DEF Rounded
<1> QED BY <1>1, <1>2

\* The two parts of a metering record are amounts, and add up.
LEMMA MeteredSplit ==
    ASSUME NEW j \in Jobs
    PROVE  /\ Paid(j) \in Nat /\ Earned(j) \in Nat /\ Paid(j) - Earned(j) \in Nat
           /\ Earned(j) + (Paid(j) - Earned(j)) = Paid(j)
<1>1. Cost[j] \in Nat /\ Share \in 0 .. 100
  BY LedgerAssumption
<1>2. Paid(j) \in Nat
  BY <1>1 DEF Paid, Rounded
<1>3. Earned(j) \in Nat /\ Earned(j) <= Paid(j)
  BY <1>1, <1>2, RoundedShare DEF Earned
<1> QED BY <1>2, <1>3

\* A refund is an amount.
LEMMA RefundType ==
    ASSUME NEW j \in Jobs, NEW pct \in 0 .. 100
    PROVE  RefundAmount(j, pct) \in Nat
<1>1. Amount[j] \in Nat
  BY LedgerAssumption
<1>2. Amount[j] * pct \in Nat
  BY <1>1
<1>3. \A n \in Nat : n \div 100 \in Nat
  BY SMT
<1> QED BY <1>2, <1>3 DEF RefundAmount

-----------------------------------------------------------------------------
(* Types *)

\* stripe is a record of two fields; the rest is the type invariant.
LedgerType ==
    /\ LedgerTypeOK
    /\ stripe = [payouts |-> stripe.payouts, refunds |-> stripe.refunds]

\* A failure is written down and stays within its bound.
LEMMA FaultType ==
    ASSUME LedgerType, NEW kind, LedgerFault(kind)
    PROVE  /\ ledgerFaults' \in Seq(LedgerFaultKinds)
           /\ Len(ledgerFaults') <= MaxLedgerFaults
<1>1. kind \in LedgerFaultKinds /\ ledgerFaults \in Seq(LedgerFaultKinds)
  BY LedgerAssumption DEF LedgerFault, LedgerType, LedgerTypeOK
<1>2. /\ Len(ledgerFaults) < MaxLedgerFaults
      /\ ledgerFaults' = Append(ledgerFaults, kind)
  BY DEF LedgerFault
<1>3. MaxLedgerFaults \in Nat
  BY LedgerAssumption
<1> QED BY <1>1, <1>2, <1>3

\* What Stripe has after a payout.
LEMMA PayoutType ==
    ASSUME LedgerType, NEW j \in Jobs
    PROVE  Payout(j) \subseteq [job : Jobs, cents : Nat, no : Nat]
BY DEF LedgerType, LedgerTypeOK, Payout

LEMMA InitType == LedgerInit => LedgerType
<1> SUFFICES ASSUME LedgerInit PROVE LedgerType
  OBVIOUS
<1>1. \A j \in Jobs : ~record[j].made
  BY DEF LedgerInit, NoRecord
<1>2. ledgerFaults \in Seq(LedgerFaultKinds) /\ Len(ledgerFaults) <= MaxLedgerFaults
  BY LedgerAssumption DEF LedgerInit
<1>3. staff \in [Staff -> [stage : {"idle", "read", "refunded"}, pct : 0 .. 100,
                         id : 0 .. MaxDisputes]]
  BY LedgerAssumption DEF LedgerInit, IdleStaff
<1>4. dispute \in [DisputeIds -> [job : Jobs \cup {NoJob}, pct : 0 .. 100,
                                status : {"none", "resolved"} \cup Active,
                                arbiter : Staff \cup {NoJob}]]
  BY DEF LedgerInit, NoDispute
<1>5. job \in [Jobs -> [status : Statuses, age : 0 .. 2]]
  BY DEF LedgerInit, Statuses
<1>6. record \in [Jobs -> [made : BOOLEAN, earned : Nat, fee : Nat, released : BOOLEAN]]
  BY DEF LedgerInit, NoRecord
<1>7. /\ stripe.payouts = {} /\ stripe.refunds \in [Jobs -> Nat]
      /\ stripe = [payouts |-> stripe.payouts, refunds |-> stripe.refunds]
  BY DEF LedgerInit
<1> QED BY <1>1, <1>2, <1>3, <1>4, <1>5, <1>6, <1>7 DEF LedgerInit, LedgerType, LedgerTypeOK

JobRows == [Jobs -> [status : Statuses, age : 0 .. 2]]

\* An UPDATE of one column leaves rows of jobs rows of jobs.
LEMMA StatusType ==
    ASSUME NEW f \in JobRows, NEW j \in Jobs, NEW to \in Statuses
    PROVE  [f EXCEPT ![j].status = to] \in JobRows
<1>1. f[j] \in [status : Statuses, age : 0 .. 2]
  BY DEF JobRows
<1>2. [f[j] EXCEPT !.status = to] \in [status : Statuses, age : 0 .. 2]
  BY <1>1
<1> QED BY <1>2 DEF JobRows

LEMMA AgeType ==
    ASSUME NEW f \in JobRows, NEW j \in Jobs, NEW a \in 0 .. 2
    PROVE  [f EXCEPT ![j].age = a] \in JobRows
<1>1. f[j] \in [status : Statuses, age : 0 .. 2]
  BY DEF JobRows
<1>2. [f[j] EXCEPT !.age = a] \in [status : Statuses, age : 0 .. 2]
  BY <1>1
<1> QED BY <1>2 DEF JobRows

\* The steps that change rows of jobs, their records or the account; those
\* of the releaser with the failures around it; those of members and staff.
RowStep ==
    \/ \E j \in Jobs, to \in Statuses : CompleteJob(j, to)
    \/ \E j \in Jobs, from, to \in Statuses : PrintMoves(j, from, to)
    \/ \E j \in Jobs : LedgerAge(j) \/ ComputeMetering(j)
    \/ Connect

ReleaserStep ==
    \/ LedgerTick \/ MarkReleased \/ MarkFails \/ Crash
    \/ \E j \in Jobs : TriggerPayout(j) \/ MeteringLost(j)
    \/ \E j \in Jobs, paid \in BOOLEAN : TriggerPayoutFails(j, paid)

DisputeStep ==
    \/ \E j \in Jobs, d \in DisputeIds : Contest(j, d)
    \/ \E s \in Staff, d \in DisputeIds : handleDisputeReview(s, d)
    \/ \E s \in Staff, d \in DisputeIds, pct \in Percentages : ResolveRead(s, d, pct)
    \/ \E s \in Staff : ResolveRefund(s) \/ ResolveWrite(s) \/ ResolveFails(s)

LEMMA StepKinds == LedgerNext => RowStep \/ ReleaserStep \/ DisputeStep
BY DEF LedgerNext, Releaser, RowStep, ReleaserStep, DisputeStep

LEMMA RowStepType ==
    ASSUME LedgerType, RowStep
    PROVE  LedgerType'
<1>a. job \in JobRows /\ metering \subseteq Jobs
  BY DEF LedgerType, LedgerTypeOK, JobRows
<1>b. job' \in JobRows =>
        (UNCHANGED <<record, account, todo, paying, stripe, dispute, staff, ledgerFaults>>
         /\ metering' \subseteq Jobs => LedgerType')
  BY DEF LedgerType, LedgerTypeOK, JobRows, Paid
<1>1. ASSUME NEW j \in Jobs, NEW to \in Statuses, CompleteJob(j, to) PROVE LedgerType'
  <2>1. job' \in JobRows
    BY <1>a, <1>1, StatusType DEF CompleteJob
  <2> QED BY <1>a, <1>b, <1>1, <2>1 DEF CompleteJob
<1>2. ASSUME NEW j \in Jobs, NEW from \in Statuses, NEW to \in Statuses, PrintMoves(j, from, to) PROVE LedgerType'
  <2>1. job' \in JobRows
    BY <1>a, <1>2, StatusType DEF PrintMoves
  <2> QED BY <1>a, <1>b, <1>2, <2>1 DEF PrintMoves
<1>3. ASSUME NEW j \in Jobs, LedgerAge(j) PROVE LedgerType'
  <2>1. job[j].age + 1 \in 0 .. 2
    BY <1>a, <1>3 DEF LedgerAge, JobRows
  <2>2. job' \in JobRows
    BY <1>a, <1>3, <2>1, AgeType DEF LedgerAge
  <2> QED BY <1>a, <1>b, <1>3, <2>2 DEF LedgerAge
<1> USE DEF LedgerType, LedgerTypeOK
<1>4. ASSUME NEW j \in Jobs, ComputeMetering(j) PROVE LedgerType'
  <2>1. Metered(j) \in [made : BOOLEAN, earned : Nat, fee : Nat, released : BOOLEAN]
    BY MeteredSplit DEF Metered
  <2>2. Metered(j).earned + Metered(j).fee = Paid(j)
    BY MeteredSplit DEF Metered
  <2>3. record' \in [Jobs -> [made : BOOLEAN, earned : Nat, fee : Nat, released : BOOLEAN]]
    BY <1>4, <2>1 DEF ComputeMetering
  <2>4. \A i \in Jobs : record'[i].made => record'[i].earned + record'[i].fee = Paid(i)
    BY <1>4, <2>1, <2>2 DEF ComputeMetering
  <2> QED BY <1>4, <2>3, <2>4 DEF ComputeMetering, Paid
<1>5. CASE Connect
  BY <1>5 DEF Connect, Paid
<1> QED BY <1>1, <1>2, <1>3, <1>4, <1>5 DEF RowStep

LEMMA ReleaserStepType ==
    ASSUME LedgerType, ReleaserStep
    PROVE  LedgerType'
<1>a. LedgerTypeOK /\ stripe = [payouts |-> stripe.payouts, refunds |-> stripe.refunds]
  BY DEF LedgerType
<1>1. CASE LedgerTick
  BY <1>1, <1>a DEF LedgerTick, LedgerType, LedgerTypeOK, Paid
<1>2. ASSUME NEW j \in Jobs, TriggerPayout(j) PROVE LedgerType'
  <2>1. stripe' = [payouts |-> Payout(j), refunds |-> stripe.refunds]
    BY <1>2, <1>a DEF TriggerPayout
  <2>2. Payout(j) \subseteq [job : Jobs, cents : Nat, no : Nat]
    BY PayoutType
  <2> QED BY <1>2, <1>a, <2>1, <2>2 DEF TriggerPayout, LedgerType, LedgerTypeOK, Paid
<1>3. ASSUME NEW j \in Jobs, NEW paid \in BOOLEAN, TriggerPayoutFails(j, paid) PROVE LedgerType'
  <2>1. /\ ledgerFaults' \in Seq(LedgerFaultKinds)
        /\ Len(ledgerFaults') <= MaxLedgerFaults
    BY <1>3, FaultType DEF TriggerPayoutFails
  <2>2. \/ stripe' = stripe
        \/ stripe' = [payouts |-> Payout(j), refunds |-> stripe.refunds]
    BY <1>3, <1>a DEF TriggerPayoutFails
  <2>3. Payout(j) \subseteq [job : Jobs, cents : Nat, no : Nat]
    BY PayoutType
  <2>4. /\ stripe'.payouts \subseteq [job : Jobs, cents : Nat, no : Nat]
        /\ stripe'.refunds \in [Jobs -> Nat]
        /\ stripe' = [payouts |-> stripe'.payouts, refunds |-> stripe'.refunds]
    BY <1>a, <2>2, <2>3 DEF LedgerTypeOK
  <2> QED BY <1>3, <1>a, <2>1, <2>4 DEF TriggerPayoutFails, LedgerType, LedgerTypeOK, Paid
<1>4. CASE MarkReleased
  <2>1. paying \in Jobs
    BY <1>4, <1>a DEF MarkReleased, LedgerTypeOK
  <2>2. record[paying] \in [made : BOOLEAN, earned : Nat, fee : Nat, released : BOOLEAN]
    BY <1>a, <2>1 DEF LedgerTypeOK
  <2>3. /\ [record[paying] EXCEPT !.released = TRUE]
              \in [made : BOOLEAN, earned : Nat, fee : Nat, released : BOOLEAN]
        /\ [record[paying] EXCEPT !.released = TRUE].made = record[paying].made
        /\ [record[paying] EXCEPT !.released = TRUE].earned = record[paying].earned
        /\ [record[paying] EXCEPT !.released = TRUE].fee = record[paying].fee
    BY <2>2
  <2>4. record' = [record EXCEPT ![paying] = [record[paying] EXCEPT !.released = TRUE]]
    BY <1>4 DEF MarkReleased
  <2>5. record' \in [Jobs -> [made : BOOLEAN, earned : Nat, fee : Nat, released : BOOLEAN]]
    BY <1>a, <2>3, <2>4 DEF LedgerTypeOK
  <2>6. \A i \in Jobs : record'[i].made => record'[i].earned + record'[i].fee = Paid(i)
    BY <1>a, <2>1, <2>3, <2>4 DEF LedgerTypeOK
  <2> QED BY <1>4, <1>a, <2>5, <2>6 DEF MarkReleased, LedgerType, LedgerTypeOK, Paid
<1>5. CASE MarkFails
  <2>1. /\ ledgerFaults' \in Seq(LedgerFaultKinds)
        /\ Len(ledgerFaults') <= MaxLedgerFaults
    BY <1>5, FaultType DEF MarkFails
  <2> QED BY <1>5, <1>a, <2>1 DEF MarkFails, LedgerType, LedgerTypeOK, Paid
<1>6. ASSUME NEW j \in Jobs, MeteringLost(j) PROVE LedgerType'
  <2>1. /\ ledgerFaults' \in Seq(LedgerFaultKinds)
        /\ Len(ledgerFaults') <= MaxLedgerFaults
    BY <1>6, FaultType DEF MeteringLost
  <2> QED BY <1>6, <1>a, <2>1 DEF MeteringLost, LedgerType, LedgerTypeOK, Paid
<1>7. CASE Crash
  <2>1. /\ ledgerFaults' \in Seq(LedgerFaultKinds)
        /\ Len(ledgerFaults') <= MaxLedgerFaults
    BY <1>7, FaultType DEF Crash
  <2>2. IdleStaff \in [stage : {"idle", "read", "refunded"}, pct : 0 .. 100,
                      id : 0 .. MaxDisputes]
    BY LedgerAssumption DEF IdleStaff
  <2>3. staff' \in [Staff -> [stage : {"idle", "read", "refunded"}, pct : 0 .. 100,
                            id : 0 .. MaxDisputes]]
    BY <1>7, <2>2 DEF Crash
  <2> QED BY <1>7, <1>a, <2>1, <2>3 DEF Crash, LedgerType, LedgerTypeOK, Paid
<1> QED BY <1>1, <1>2, <1>3, <1>4, <1>5, <1>6, <1>7 DEF ReleaserStep

Disputes ==
    [job : Jobs \cup {NoJob}, pct : 0 .. 100, status : {"none", "resolved"} \cup Active,
     arbiter : Staff \cup {NoJob}]

Requests ==
    [stage : {"idle", "read", "refunded"}, pct : 0 .. 100, id : 0 .. MaxDisputes]

LEMMA DisputeStepType ==
    ASSUME LedgerType, DisputeStep
    PROVE  LedgerType'
<1>a. LedgerTypeOK /\ stripe = [payouts |-> stripe.payouts, refunds |-> stripe.refunds]
  BY DEF LedgerType
<1>b. /\ dispute \in [DisputeIds -> Disputes] /\ staff \in [Staff -> Requests]
      /\ stripe.refunds \in [Jobs -> Nat]
  BY <1>a DEF LedgerTypeOK, Disputes, Requests
<1>c. dispute' \in [DisputeIds -> Disputes] /\ staff' \in [Staff -> Requests] =>
        (UNCHANGED <<job, metering, record, account, todo, paying, stripe, ledgerFaults>>
           => LedgerType')
  BY <1>a DEF LedgerType, LedgerTypeOK, Paid, Disputes, Requests
<1>d. IdleStaff \in Requests
  BY LedgerAssumption DEF IdleStaff, Requests
<1>1. ASSUME NEW j \in Jobs, NEW d \in DisputeIds, Contest(j, d) PROVE LedgerType'
  <2>1. NoDispute \in Disputes
    BY DEF NoDispute, Disputes
  <2>2. [NoDispute EXCEPT !.job = j, !.status = "open"] \in Disputes
    BY <2>1 DEF Disputes, Active
  <2> QED BY <1>1, <1>b, <1>c, <2>2 DEF Contest
<1>2. ASSUME NEW s \in Staff, NEW d \in DisputeIds, handleDisputeReview(s, d) PROVE LedgerType'
  <2>1. dispute[d] \in Disputes
    BY <1>b
  <2>2. [dispute[d] EXCEPT !.status = "under_review", !.arbiter = s] \in Disputes
    BY <2>1 DEF Disputes, Active
  <2>3. dispute' = [dispute EXCEPT ![d] =
                      [dispute[d] EXCEPT !.status = "under_review", !.arbiter = s]]
    BY <1>2, <1>b DEF handleDisputeReview
  <2> QED BY <1>2, <1>b, <1>c, <2>2, <2>3 DEF handleDisputeReview
<1>3. ASSUME NEW s \in Staff, NEW d \in DisputeIds, NEW pct \in Percentages, ResolveRead(s, d, pct) PROVE LedgerType'
  <2>1. [stage |-> "read", id |-> d, pct |-> pct] \in Requests
    BY LedgerAssumption DEF Requests, DisputeIds
  <2> QED BY <1>3, <1>b, <1>c, <2>1 DEF ResolveRead
<1>4. ASSUME NEW s \in Staff, ResolveRefund(s) PROVE LedgerType'
  <2> DEFINE i == dispute[staff[s].id].job
             cents == RefundAmount(i, staff[s].pct)
  <2>1. staff[s] \in Requests
    BY <1>b
  <2>2. [staff[s] EXCEPT !.stage = "refunded"] \in Requests /\ staff[s].pct \in 0 .. 100
    BY <2>1 DEF Requests
  <2>3. staff' \in [Staff -> Requests]
    BY <1>4, <1>b, <1>d, <2>2 DEF ResolveRefund
  <2>4. \/ stripe' = stripe
        \/ stripe' = [stripe EXCEPT !.refunds[i] = @ + cents]
    BY <1>4 DEF ResolveRefund
  <2>5. [stripe.refunds EXCEPT ![i] = @ + cents] \in [Jobs -> Nat]
    <3>1. CASE i \in Jobs
      <4>1. cents \in Nat
        BY <2>2, <3>1, RefundType
      <4> HIDE DEF cents, i
      <4> QED BY <1>b, <3>1, <4>1
    <3>2. CASE i \notin Jobs
      <4> HIDE DEF cents, i
      <4> QED BY <1>b, <3>2
    <3> QED BY <3>1, <3>2
  <2>6. /\ stripe'.payouts = stripe.payouts
        /\ stripe'.refunds \in [Jobs -> Nat]
        /\ stripe' = [payouts |-> stripe'.payouts, refunds |-> stripe'.refunds]
    BY <1>a, <1>b, <2>4, <2>5
  <2> QED BY <1>4, <1>a, <2>3, <2>6 DEF ResolveRefund, LedgerType, LedgerTypeOK, Paid, Requests
<1>5. ASSUME NEW s \in Staff, ResolveWrite(s) PROVE LedgerType'
  <2> DEFINE i == staff[s].id
             new == [dispute[i] EXCEPT !.status = "resolved", !.arbiter = s,
                                       !.pct = staff[s].pct]
  <2>1. staff[s].pct \in 0 .. 100
    BY <1>b DEF Requests
  <2>2. i \in DisputeIds => new \in Disputes
    <3> SUFFICES ASSUME i \in DisputeIds PROVE new \in Disputes
      OBVIOUS
    <3>1. dispute[i] \in Disputes
      BY <1>b
    <3> QED BY <2>1, <3>1 DEF Disputes
  <2>3. dispute' = [dispute EXCEPT ![i] = new]
    BY <1>5, <1>b DEF ResolveWrite
  <2>4. dispute' \in [DisputeIds -> Disputes]
    BY <1>b, <2>2, <2>3
  <2> QED BY <1>5, <1>b, <1>c, <1>d, <2>4 DEF ResolveWrite
<1>6. ASSUME NEW s \in Staff, ResolveFails(s) PROVE LedgerType'
  <2>1. /\ ledgerFaults' \in Seq(LedgerFaultKinds)
        /\ Len(ledgerFaults') <= MaxLedgerFaults
    BY <1>6, FaultType DEF ResolveFails
  <2>2. staff' \in [Staff -> Requests]
    BY <1>6, <1>b, <1>d DEF ResolveFails
  <2> QED BY <1>6, <1>a, <2>1, <2>2 DEF ResolveFails, LedgerType, LedgerTypeOK, Paid, Requests
<1> QED BY <1>1, <1>2, <1>3, <1>4, <1>5, <1>6 DEF DisputeStep

LEMMA TypeStep == LedgerType /\ [LedgerNext]_ledgerVars => LedgerType'
<1> SUFFICES ASSUME LedgerType, [LedgerNext]_ledgerVars PROVE LedgerType'
  OBVIOUS
<1>1. CASE UNCHANGED ledgerVars
  BY <1>1 DEF ledgerVars, LedgerType, LedgerTypeOK, Paid
<1>2. CASE LedgerNext
  BY <1>2, StepKinds, RowStepType, ReleaserStepType, DisputeStepType
<1> QED BY <1>1, <1>2

\* Rows, records and requests keep their types, and every metering record
\* splits what the member pays without losing a cent, whatever the prices,
\* the share and the order of the steps.
THEOREM LedgerTyped == LedgerSpec => []LedgerTypeOK
<1>1. LedgerSpec => []LedgerType
  BY InitType, TypeStep, PTL DEF LedgerSpec
<1>2. LedgerType => LedgerTypeOK
  BY DEF LedgerType
<1> QED BY <1>1, <1>2, PTL

-----------------------------------------------------------------------------
(* Payouts and disputes *)

\* What EligiblePayouts selects by and no later step takes back.
Due(j) == job[j].status = "completed" /\ job[j].age >= 1 /\ record[j].earned > 0

\* An unmetered job has no earnings; candidates and paid jobs are due, a
\* payout is of the recorded earnings and one per job; a dispute is on a
\* no-show, and one per job is active.
MoneyInv ==
    /\ \A j \in Jobs : ~record[j].made => record[j].earned = 0
    /\ \A j \in todo : Due(j)
    /\ \A p \in stripe.payouts : Due(p.job) /\ p.cents = record[p.job].earned
    /\ PaidOnce
    /\ \A d \in DisputeIds : dispute[d].job \in Jobs => job[dispute[d].job].status = "no_show"
    /\ \A d, e \in DisputeIds :
          /\ dispute[d].job = dispute[e].job
          /\ dispute[d].status \in Active /\ dispute[e].status \in Active
          => d = e

LEMMA InitMoney == LedgerInit => MoneyInv
<1> SUFFICES ASSUME LedgerInit PROVE MoneyInv
  OBVIOUS
<1>1. \A j \in Jobs : record[j].earned = 0
  BY DEF LedgerInit, NoRecord
<1>2. todo = {} /\ stripe.payouts = {}
  BY DEF LedgerInit
<1>3. \A d \in DisputeIds : dispute[d].job = NoJob /\ dispute[d].status \notin Active
  BY DEF LedgerInit, NoDispute, Active
<1> QED BY <1>1, <1>2, <1>3, LedgerAssumption DEF MoneyInv, PaidOnce

\* Steps that only let jobs and records advance keep all of it: a due job
\* stays due with the same earnings, a no-show stays a no-show.
LEMMA AdvanceMoney ==
    ASSUME LedgerType, MoneyInv, LedgerType',
           \A j \in Jobs :
               /\ Due(j) => Due(j)' /\ record'[j].earned = record[j].earned
               /\ job[j].status = "no_show" => job'[j].status = "no_show"
               /\ ~record'[j].made => record'[j].earned = 0,
           UNCHANGED <<todo, stripe, dispute>>
    PROVE  MoneyInv'
<1>1. todo \subseteq Jobs /\ \A p \in stripe.payouts : p.job \in Jobs
  BY DEF LedgerType, LedgerTypeOK
<1> UNCHANGED todo /\ UNCHANGED stripe /\ UNCHANGED dispute
  OBVIOUS
<1>2. \A j \in todo' : Due(j)'
  BY <1>1 DEF MoneyInv
<1>3. \A p \in stripe'.payouts : Due(p.job)' /\ p.cents = record'[p.job].earned
  BY <1>1 DEF MoneyInv
<1>4. PaidOnce'
  BY DEF MoneyInv, PaidOnce
<1>5. \A d \in DisputeIds :
        dispute'[d].job \in Jobs => job'[dispute'[d].job].status = "no_show"
  BY DEF MoneyInv
<1>6. \A d, e \in DisputeIds :
        /\ dispute'[d].job = dispute'[e].job
        /\ dispute'[d].status \in Active /\ dispute'[e].status \in Active
        => d = e
  BY DEF MoneyInv
<1> QED BY <1>2, <1>3, <1>4, <1>5, <1>6 DEF MoneyInv

\* The row written by an UPDATE of jobs.status, column by column.
LEMMA StatusColumns ==
    ASSUME NEW f \in JobRows, NEW j \in Jobs, NEW to \in Statuses, NEW i \in Jobs
    PROVE  /\ [f EXCEPT ![j].status = to][i].age = f[i].age
           /\ [f EXCEPT ![j].status = to][i].status = IF i = j THEN to ELSE f[i].status
<1>1. f[j] \in [status : Statuses, age : 0 .. 2]
  BY DEF JobRows
<1>2. /\ [f[j] EXCEPT !.status = to].age = f[j].age
      /\ [f[j] EXCEPT !.status = to].status = to
  BY <1>1
<1> QED BY <1>2 DEF JobRows

LEMMA AgeColumns ==
    ASSUME NEW f \in JobRows, NEW j \in Jobs, NEW a \in 0 .. 2, NEW i \in Jobs
    PROVE  /\ [f EXCEPT ![j].age = a][i].status = f[i].status
           /\ [f EXCEPT ![j].age = a][i].age = IF i = j THEN a ELSE f[i].age
<1>1. f[j] \in [status : Statuses, age : 0 .. 2]
  BY DEF JobRows
<1>2. /\ [f[j] EXCEPT !.age = a].status = f[j].status
      /\ [f[j] EXCEPT !.age = a].age = a
  BY <1>1
<1> QED BY <1>2 DEF JobRows

LEMMA RowStepMoney ==
    ASSUME LedgerType, MoneyInv, RowStep
    PROVE  MoneyInv'
<1>t. LedgerType'
  BY RowStepType
<1>a. job \in JobRows
  BY DEF LedgerType, LedgerTypeOK, JobRows
<1>m. \A i \in Jobs : ~record[i].made => record[i].earned = 0
  BY DEF MoneyInv
<1> DEFINE Goal(i) == /\ Due(i) => Due(i)' /\ record'[i].earned = record[i].earned
                      /\ job[i].status = "no_show" => job'[i].status = "no_show"
                      /\ ~record'[i].made => record'[i].earned = 0
<1>1. ASSUME NEW j \in Jobs, NEW to \in Statuses, CompleteJob(j, to) PROVE MoneyInv'
  <2>1. \A i \in Jobs : Goal(i)
    BY <1>a, <1>m, <1>1, StatusColumns DEF CompleteJob, Due
  <2> QED BY <1>t, <1>1, <2>1, AdvanceMoney DEF CompleteJob
<1>2. ASSUME NEW j \in Jobs, NEW from \in Statuses, NEW to \in Statuses, PrintMoves(j, from, to) PROVE MoneyInv'
  <2>1. \A i \in Jobs : Goal(i)
    BY <1>a, <1>m, <1>2, StatusColumns DEF PrintMoves, Due
  <2> QED BY <1>t, <1>2, <2>1, AdvanceMoney DEF PrintMoves
<1>3. ASSUME NEW j \in Jobs, LedgerAge(j) PROVE MoneyInv'
  <2>1. job[j].age + 1 \in 0 .. 2
    BY <1>a, <1>3 DEF LedgerAge, JobRows
  <2>2. \A i \in Jobs : job'[i].status = job[i].status /\ (job[i].age >= 1 => job'[i].age >= 1)
    BY <1>a, <1>3, <2>1, AgeColumns DEF LedgerAge, JobRows
  <2>3. \A i \in Jobs : Goal(i)
    BY <1>m, <1>3, <2>2 DEF LedgerAge, Due
  <2> QED BY <1>t, <1>3, <2>3, AdvanceMoney DEF LedgerAge
<1>4. ASSUME NEW j \in Jobs, ComputeMetering(j) PROVE MoneyInv'
  <2>1. \A i \in Jobs : record[i].made => record'[i] = record[i]
    BY <1>4 DEF ComputeMetering, LedgerType, LedgerTypeOK
  <2>2. \A i \in Jobs : record'[i] = record[i] \/ record'[i].made
    BY <1>4 DEF ComputeMetering, LedgerType, LedgerTypeOK, Metered
  <2>3. \A i \in Jobs : record[i].earned > 0 => record[i].made
    BY <1>m
  <2>4. \A i \in Jobs : Goal(i)
    BY <1>m, <1>4, <2>1, <2>2, <2>3 DEF ComputeMetering, Due
  <2> QED BY <1>t, <1>4, <2>4, AdvanceMoney DEF ComputeMetering
<1>5. CASE Connect
  <2>1. \A i \in Jobs : Goal(i)
    BY <1>m, <1>5 DEF Connect, Due
  <2> QED BY <1>t, <1>5, <2>1, AdvanceMoney DEF Connect
<1> QED BY <1>1, <1>2, <1>3, <1>4, <1>5 DEF RowStep

\* A payout Stripe knows is not made again; a new one is of a candidate.
LEMMA PayoutMoney ==
    ASSUME LedgerType, MoneyInv, NEW j \in todo
    PROVE  /\ \A p \in Payout(j) : Due(p.job) /\ p.cents = record[p.job].earned
           /\ \A p, q \in Payout(j) : p.job = q.job => p = q
<1>1. /\ Due(j)
      /\ \A p \in stripe.payouts : Due(p.job) /\ p.cents = record[p.job].earned
      /\ \A p, q \in stripe.payouts : p.job = q.job => p = q
  BY DEF MoneyInv, PaidOnce
<1>2. CASE \E p \in stripe.payouts : p.job = j
  BY <1>1, <1>2 DEF Payout
<1>3. CASE \A p \in stripe.payouts : p.job # j
  <2> DEFINE new == [job |-> j, cents |-> record[j].earned, no |-> 0]
  <2>1. new.job = j /\ new.cents = record[j].earned
    OBVIOUS
  <2>2. Payout(j) = stripe.payouts \cup {new}
    BY <1>3 DEF Payout
  <2> HIDE DEF new
  <2> QED BY <1>1, <1>3, <2>1, <2>2
<1> QED BY <1>2, <1>3

LEMMA ReleaserStepMoney ==
    ASSUME LedgerType, MoneyInv, ReleaserStep
    PROVE  MoneyInv'
<1>t. LedgerType'
  BY ReleaserStepType
<1>r. stripe = [payouts |-> stripe.payouts, refunds |-> stripe.refunds]
  BY DEF LedgerType
<1>a. ASSUME UNCHANGED <<job, record, dispute>>,
             \A i \in todo' : Due(i),
             \A p \in stripe'.payouts : Due(p.job) /\ p.cents = record[p.job].earned,
             PaidOnce'
      PROVE  MoneyInv'
  <2> UNCHANGED job /\ UNCHANGED record /\ UNCHANGED dispute
    BY <1>a
  <2>1. \A i : Due(i)' <=> Due(i)
    BY DEF Due
  <2>2. /\ \A i \in todo' : Due(i)'
        /\ \A p \in stripe'.payouts : Due(p.job)' /\ p.cents = record'[p.job].earned
    BY <1>a, <2>1
  <2>3. /\ \A i \in Jobs : ~record'[i].made => record'[i].earned = 0
        /\ \A d \in DisputeIds :
              dispute'[d].job \in Jobs => job'[dispute'[d].job].status = "no_show"
        /\ \A d, e \in DisputeIds :
              /\ dispute'[d].job = dispute'[e].job
              /\ dispute'[d].status \in Active /\ dispute'[e].status \in Active
              => d = e
    BY DEF MoneyInv
  <2> QED BY <1>a, <2>2, <2>3 DEF MoneyInv
<1>b. /\ \A i \in todo : Due(i)
      /\ \A p \in stripe.payouts : Due(p.job) /\ p.cents = record[p.job].earned
      /\ PaidOnce
  BY DEF MoneyInv
<1>1. CASE LedgerTick
  <2>1. \A i \in todo' : Due(i)
    BY <1>1 DEF LedgerTick, EligiblePayouts, Due
  <2> QED BY <1>1, <1>a, <1>b, <2>1 DEF LedgerTick, PaidOnce
<1>2. ASSUME NEW j \in Jobs, TriggerPayout(j) PROVE MoneyInv'
  <2>1. stripe'.payouts = Payout(j) /\ j \in todo
    BY <1>2, <1>r DEF TriggerPayout
  <2>2. PaidOnce' /\ \A p \in stripe'.payouts : Due(p.job) /\ p.cents = record[p.job].earned
    BY <2>1, PayoutMoney DEF PaidOnce
  <2> QED BY <1>2, <1>a, <1>b, <2>2 DEF TriggerPayout
<1>3. ASSUME NEW j \in Jobs, NEW paid \in BOOLEAN, TriggerPayoutFails(j, paid) PROVE MoneyInv'
  <2>1. j \in todo /\ (stripe'.payouts = Payout(j) \/ stripe'.payouts = stripe.payouts)
    BY <1>3, <1>r DEF TriggerPayoutFails
  <2>2. PaidOnce' /\ \A p \in stripe'.payouts : Due(p.job) /\ p.cents = record[p.job].earned
    BY <1>b, <2>1, PayoutMoney DEF PaidOnce
  <2> QED BY <1>3, <1>a, <1>b, <2>2 DEF TriggerPayoutFails
<1>4. CASE MarkReleased
  <2>1. paying \in Jobs
    BY <1>4 DEF MarkReleased, LedgerType, LedgerTypeOK
  <2>2. record[paying] \in [made : BOOLEAN, earned : Nat, fee : Nat, released : BOOLEAN]
    BY <2>1 DEF LedgerType, LedgerTypeOK
  <2>3. /\ [record[paying] EXCEPT !.released = TRUE].made <=> record[paying].made
        /\ [record[paying] EXCEPT !.released = TRUE].earned = record[paying].earned
    BY <2>2
  <2>4. record' = [record EXCEPT ![paying] = [record[paying] EXCEPT !.released = TRUE]]
    BY <1>4 DEF MarkReleased
  <2>5. record \in [Jobs -> [made : BOOLEAN, earned : Nat, fee : Nat, released : BOOLEAN]]
    BY DEF LedgerType, LedgerTypeOK
  <2>6. \A i \in Jobs : record'[i].earned = record[i].earned /\ (record'[i].made <=> record[i].made)
    BY <2>1, <2>3, <2>4, <2>5
  <2>7. /\ \A i \in Jobs : ~record[i].made => record[i].earned = 0
        /\ UNCHANGED <<job, todo, stripe, dispute>>
    BY <1>4 DEF MarkReleased, MoneyInv
  <2>8. \A i \in Jobs :
            /\ Due(i) => Due(i)' /\ record'[i].earned = record[i].earned
            /\ job[i].status = "no_show" => job'[i].status = "no_show"
            /\ ~record'[i].made => record'[i].earned = 0
    BY <2>6, <2>7 DEF Due
  <2> QED BY <1>t, <2>7, <2>8, AdvanceMoney
<1>5. CASE MarkFails
  BY <1>5, <1>a, <1>b DEF MarkFails, PaidOnce
<1>6. ASSUME NEW j \in Jobs, MeteringLost(j) PROVE MoneyInv'
  BY <1>6, <1>a, <1>b DEF MeteringLost, PaidOnce
<1>7. CASE Crash
  BY <1>7, <1>a, <1>b DEF Crash, PaidOnce
<1> QED BY <1>1, <1>2, <1>3, <1>4, <1>5, <1>6, <1>7 DEF ReleaserStep

\* What the steps of members and staff write of a dispute: a new one is on a
\* no-show without an active one; a later write never makes one active.
LEMMA DisputeWrites ==
    ASSUME LedgerType, DisputeStep
    PROVE  /\ \A d \in DisputeIds :
                  \/ /\ dispute'[d].job = dispute[d].job
                     /\ dispute'[d].status \in Active => dispute[d].status \in Active
                  \/ /\ Contestable(dispute'[d].job)
                     /\ \A e \in DisputeIds : e # d => dispute'[e] = dispute[e]
           /\ stripe'.payouts = stripe.payouts
           /\ UNCHANGED <<job, record, todo>>
<1>r. stripe = [payouts |-> stripe.payouts, refunds |-> stripe.refunds]
  BY DEF LedgerType
<1>b. dispute \in [DisputeIds -> Disputes] /\ staff \in [Staff -> Requests]
  BY DEF LedgerType, LedgerTypeOK, Disputes, Requests
<1> DEFINE Kept(d) == /\ dispute'[d].job = dispute[d].job
                      /\ dispute'[d].status \in Active => dispute[d].status \in Active
           Opened(d) == /\ Contestable(dispute'[d].job)
                        /\ \A e \in DisputeIds : e # d => dispute'[e] = dispute[e]
           Goal == /\ \A d \in DisputeIds : Kept(d) \/ Opened(d)
                   /\ stripe'.payouts = stripe.payouts
                   /\ UNCHANGED <<job, record, todo>>
<1>1. ASSUME NEW j \in Jobs, NEW d \in DisputeIds, Contest(j, d) PROVE Goal
  <2>1. [NoDispute EXCEPT !.job = j, !.status = "open"].job = j
    BY DEF NoDispute
  <2>2. dispute'[d].job = j /\ \A e \in DisputeIds : e # d => dispute'[e] = dispute[e]
    BY <1>1, <1>b, <2>1 DEF Contest
  <2>3. Contestable(j)
    BY <1>1 DEF Contest
  <2>4. Opened(d)
    BY <2>2, <2>3
  <2>5. \A e \in DisputeIds : e # d => Kept(e)
    BY <2>2
  <2> QED BY <1>1, <2>4, <2>5 DEF Contest
<1>2. ASSUME NEW s \in Staff, NEW d \in DisputeIds, handleDisputeReview(s, d) PROVE Goal
  <2>1. dispute[d] \in Disputes
    BY <1>b
  <2>2. [dispute[d] EXCEPT !.status = "under_review", !.arbiter = s].job = dispute[d].job
    BY <2>1 DEF Disputes
  <2>3. dispute' = [dispute EXCEPT ![d] =
                      [dispute[d] EXCEPT !.status = "under_review", !.arbiter = s]]
    BY <1>2, <1>b DEF handleDisputeReview
  <2>4. dispute[d].status \in Active
    BY <1>2 DEF handleDisputeReview, Reviewable, Active
  <2>5. \A e \in DisputeIds : Kept(e)
    BY <1>b, <2>2, <2>3, <2>4
  <2> QED BY <1>2, <2>5 DEF handleDisputeReview
<1>3. ASSUME NEW s \in Staff, NEW d \in DisputeIds, NEW pct \in Percentages,
             ResolveRead(s, d, pct)
      PROVE  Goal
  BY <1>3 DEF ResolveRead
<1>4. ASSUME NEW s \in Staff, ResolveRefund(s) PROVE Goal
  <2>1. UNCHANGED <<job, record, todo, dispute>>
    BY <1>4 DEF ResolveRefund
  <2>2. stripe'.payouts = stripe.payouts
    BY <1>4, <1>r DEF ResolveRefund
  <2> QED BY <2>1, <2>2
<1>5. ASSUME NEW s \in Staff, ResolveWrite(s) PROVE Goal
  <2> DEFINE i == staff[s].id
             new == [dispute[i] EXCEPT !.status = "resolved", !.arbiter = s,
                                       !.pct = staff[s].pct]
  <2>1. i \in DisputeIds => new.job = dispute[i].job /\ new.status = "resolved"
    <3> SUFFICES ASSUME i \in DisputeIds
                 PROVE  new.job = dispute[i].job /\ new.status = "resolved"
      OBVIOUS
    <3>1. dispute[i] \in Disputes
      BY <1>b
    <3> QED BY <3>1 DEF Disputes
  <2>2. dispute' = [dispute EXCEPT ![i] = new]
    BY <1>5, <1>b DEF ResolveWrite
  <2> HIDE DEF new, i
  <2>3. "resolved" \notin Active
    BY DEF Active
  <2>4. \A e \in DisputeIds : Kept(e)
    BY <1>b, <2>1, <2>2, <2>3
  <2> QED BY <1>5, <2>4 DEF ResolveWrite
<1>6. ASSUME NEW s \in Staff, ResolveFails(s) PROVE Goal
  BY <1>6 DEF ResolveFails
<1> QED BY <1>1, <1>2, <1>3, <1>4, <1>5, <1>6 DEF DisputeStep

LEMMA DisputeStepMoney ==
    ASSUME LedgerType, MoneyInv, DisputeStep
    PROVE  MoneyInv'
<1>1. /\ \A d \in DisputeIds :
             \/ /\ dispute'[d].job = dispute[d].job
                /\ dispute'[d].status \in Active => dispute[d].status \in Active
             \/ /\ Contestable(dispute'[d].job)
                /\ \A e \in DisputeIds : e # d => dispute'[e] = dispute[e]
      /\ stripe'.payouts = stripe.payouts
      /\ job' = job /\ record' = record /\ todo' = todo
  BY DisputeWrites
<1>2. /\ \A j \in Jobs : ~record'[j].made => record'[j].earned = 0
      /\ \A j \in todo' : Due(j)'
      /\ \A p \in stripe'.payouts : Due(p.job)' /\ p.cents = record'[p.job].earned
      /\ PaidOnce'
  BY <1>1 DEF MoneyInv, PaidOnce, Due
<1>3. \A d \in DisputeIds :
        dispute'[d].job \in Jobs => job'[dispute'[d].job].status = "no_show"
  BY <1>1 DEF MoneyInv, Contestable
<1>4. ASSUME NEW d \in DisputeIds, NEW e \in DisputeIds,
             dispute'[d].job = dispute'[e].job,
             dispute'[d].status \in Active, dispute'[e].status \in Active
      PROVE  d = e
  <2>1. ASSUME NEW f \in DisputeIds, NEW g \in DisputeIds, f # g,
               Contestable(dispute'[f].job),
               \A h \in DisputeIds : h # f => dispute'[h] = dispute[h],
               dispute'[f].job = dispute'[g].job, dispute'[g].status \in Active
        PROVE  FALSE
    BY <2>1 DEF Contestable, ActiveDisputes
  <2> QED BY <1>1, <1>4, <2>1 DEF MoneyInv
<1> QED BY <1>2, <1>3, <1>4 DEF MoneyInv

LEMMA MoneyStep == LedgerType /\ MoneyInv /\ [LedgerNext]_ledgerVars => MoneyInv'
<1> SUFFICES ASSUME LedgerType, MoneyInv, [LedgerNext]_ledgerVars PROVE MoneyInv'
  OBVIOUS
<1>1. CASE UNCHANGED ledgerVars
  <2>1. LedgerType'
    BY TypeStep
  <2>2. job' = job /\ record' = record /\ UNCHANGED <<todo, stripe, dispute>>
    BY <1>1 DEF ledgerVars
  <2>3. \A j \in Jobs : ~record[j].made => record[j].earned = 0
    BY DEF MoneyInv
  <2>4. \A j \in Jobs :
            /\ Due(j) => Due(j)' /\ record'[j].earned = record[j].earned
            /\ job[j].status = "no_show" => job'[j].status = "no_show"
            /\ ~record'[j].made => record'[j].earned = 0
    BY <2>2, <2>3 DEF Due
  <2> QED BY <2>1, <2>2, <2>4, AdvanceMoney
<1>2. CASE LedgerNext
  BY <1>2, StepKinds, RowStepMoney, ReleaserStepMoney, DisputeStepMoney
<1> QED BY <1>1, <1>2

LEMMA MoneyInductive == LedgerSpec => [](LedgerType /\ MoneyInv)
<1>1. LedgerInit => LedgerType /\ MoneyInv
  BY InitType, InitMoney
<1>2. LedgerType /\ MoneyInv /\ [LedgerNext]_ledgerVars => LedgerType' /\ MoneyInv'
  BY TypeStep, MoneyStep
<1> QED BY <1>1, <1>2, PTL DEF LedgerSpec

\* The idempotency key payout-<job> makes retries harmless: whatever fails
\* between TriggerPayout and payout_released_at, a job is paid out once.
THEOREM PayoutOnce == LedgerSpec => []PaidOnce
<1>1. MoneyInv => PaidOnce
  BY DEF MoneyInv
<1> QED BY <1>1, MoneyInductive, PTL

\* The releaser pays for a completed job of more than 24 hours, exactly what
\* its record says, and never for a job somebody disputes, although it pays
\* from a list of candidates that was read earlier.
THEOREM PayoutEarned == LedgerSpec => []PayoutsEarned
<1>1. LedgerType /\ MoneyInv => PayoutsEarned
  <2> SUFFICES ASSUME LedgerType, MoneyInv, NEW p \in stripe.payouts
               PROVE  /\ job[p.job].status = "completed" /\ job[p.job].age >= 1
                      /\ p.cents > 0 /\ p.cents = record[p.job].earned
                      /\ \A d \in DisputeIds : dispute[d].job # p.job
    BY DEF PayoutsEarned
  <2>1. Due(p.job) /\ p.cents = record[p.job].earned
    BY DEF MoneyInv
  <2>2. p.job \in Jobs
    BY DEF LedgerType, LedgerTypeOK
  <2>3. \A d \in DisputeIds : dispute[d].job = p.job => job[p.job].status = "no_show"
    BY <2>2 DEF MoneyInv
  <2> QED BY <2>1, <2>3 DEF Due
<1> QED BY <1>1, MoneyInductive, PTL

\* idx_disputes_one_active_per_job: a job has one dispute at a time, however
\* many members and staff act on it.
THEOREM DisputeOnce == LedgerSpec => []OneActiveDispute
<1>1. MoneyInv => OneActiveDispute
  <2> SUFFICES ASSUME MoneyInv, NEW j \in Jobs
               PROVE  Cardinality(ActiveDisputes(j)) <= 1
    BY DEF OneActiveDispute
  <2>1. CASE ActiveDisputes(j) = {}
    <3>1. Cardinality(ActiveDisputes(j)) = 0
      BY <2>1, FS_EmptySet
    <3> QED BY <3>1
  <2>2. CASE ActiveDisputes(j) # {}
    <3>1. PICK d \in ActiveDisputes(j) : TRUE
      BY <2>2
    <3>2. ActiveDisputes(j) = {d}
      BY <3>1 DEF MoneyInv, ActiveDisputes
    <3>3. Cardinality(ActiveDisputes(j)) = 1
      BY <3>2, FS_Singleton
    <3> QED BY <3>3
  <2> QED BY <2>1, <2>2
<1> QED BY <1>1, MoneyInductive, PTL

-----------------------------------------------------------------------------
(* Decisions *)

\* A request of handleDisputeResolve that is under way is about a dispute
\* that is still to be decided.
DecisionInv ==
    \A s \in Staff : staff[s].stage # "idle" =>
        staff[s].id \in DisputeIds /\ dispute[staff[s].id].status \in Active

\* With one arbiter the gap between reading a dispute and writing the
\* decision is closed: no step changes a resolved dispute.
LEMMA OneArbiterStep ==
    ASSUME \A s, t \in Staff : s = t, LedgerType, DecisionInv, [LedgerNext]_ledgerVars
    PROVE  /\ DecisionInv'
           /\ \A d \in DisputeIds : dispute[d].status = "resolved" => dispute'[d] = dispute[d]
<1>b. /\ dispute \in [DisputeIds -> Disputes] /\ staff \in [Staff -> Requests]
      /\ IdleStaff.stage = "idle"
  BY DEF LedgerType, LedgerTypeOK, Disputes, Requests, IdleStaff
<1> DEFINE Kept == \A d \in DisputeIds : dispute[d].status = "resolved" => dispute'[d] = dispute[d]
           Goal == DecisionInv' /\ Kept
<1>0. ASSUME dispute' = dispute, staff' = staff PROVE Goal
  BY <1>0 DEF DecisionInv
<1>1. CASE UNCHANGED ledgerVars
  BY <1>0, <1>1 DEF ledgerVars
<1>2. CASE RowStep
  BY <1>0, <1>2 DEF RowStep, CompleteJob, PrintMoves, LedgerAge, ComputeMetering, Connect
<1>3. CASE ReleaserStep
  <2>1. CASE Crash
    BY <2>1, <1>b DEF Crash, DecisionInv
  <2>2. CASE ~Crash
    BY <1>0, <1>3, <2>2 DEF ReleaserStep, LedgerTick, MarkReleased, MarkFails, TriggerPayout,
       TriggerPayoutFails, MeteringLost
  <2> QED BY <2>1, <2>2
<1>4. ASSUME NEW j \in Jobs, NEW d \in DisputeIds, Contest(j, d) PROVE Goal
  <2>1. dispute[d].status = "none"
    BY <1>4 DEF Contest, NoDispute
  <2>2. \A e \in DisputeIds : e # d => dispute'[e] = dispute[e]
    BY <1>4, <1>b DEF Contest
  <2> QED BY <1>4, <2>1, <2>2 DEF Contest, DecisionInv, Active
<1>5. ASSUME NEW s \in Staff, NEW d \in DisputeIds, handleDisputeReview(s, d) PROVE Goal
  <2>1. dispute[d] \in Disputes
    BY <1>b
  <2>2. [dispute[d] EXCEPT !.status = "under_review", !.arbiter = s].status = "under_review"
    BY <2>1 DEF Disputes
  <2>3. dispute' = [dispute EXCEPT ![d] =
                      [dispute[d] EXCEPT !.status = "under_review", !.arbiter = s]]
    BY <1>5, <1>b DEF handleDisputeReview
  <2>4. /\ dispute'[d].status = "under_review"
        /\ \A e \in DisputeIds : e # d => dispute'[e] = dispute[e]
    BY <1>b, <2>2, <2>3
  <2>5. dispute[d].status = "open" /\ staff' = staff
    BY <1>5 DEF handleDisputeReview, Reviewable
  <2> QED BY <2>4, <2>5 DEF DecisionInv, Active
<1>6. ASSUME NEW s \in Staff, NEW d \in DisputeIds, NEW pct \in Percentages,
             ResolveRead(s, d, pct)
      PROVE  Goal
  <2>1. staff'[s].id = d /\ \A t \in Staff : t = s
    BY <1>6, <1>b DEF ResolveRead
  <2>2. dispute' = dispute /\ dispute[d].status \in Active
    BY <1>6 DEF ResolveRead, Resolvable
  <2> QED BY <2>1, <2>2 DEF DecisionInv
<1>7. ASSUME NEW s \in Staff, ResolveRefund(s) PROVE Goal
  <2>1. staff[s] \in Requests /\ staff[s].stage # "idle"
    BY <1>7, <1>b DEF ResolveRefund
  <2>2. [staff[s] EXCEPT !.stage = "refunded"].id = staff[s].id
    BY <2>1 DEF Requests
  <2>3. staff'[s] = IdleStaff \/ staff'[s] = [staff[s] EXCEPT !.stage = "refunded"]
    BY <1>7, <1>b DEF ResolveRefund
  <2>4. \A t \in Staff : t = s
    OBVIOUS
  <2>5. dispute' = dispute
    BY <1>7 DEF ResolveRefund
  <2> QED BY <1>b, <2>1, <2>2, <2>3, <2>4, <2>5 DEF DecisionInv
<1>8. ASSUME NEW s \in Staff, ResolveWrite(s) PROVE Goal
  <2>1. staff'[s] = IdleStaff /\ \A t \in Staff : t = s
    BY <1>8, <1>b DEF ResolveWrite
  <2>2. DecisionInv'
    BY <1>b, <2>1 DEF DecisionInv
  <2>3. dispute[staff[s].id].status \in Active
    BY <1>8 DEF ResolveWrite, DecisionInv
  <2>4. \A e \in DisputeIds : e # staff[s].id => dispute'[e] = dispute[e]
    BY <1>8, <1>b DEF ResolveWrite
  <2> QED BY <2>2, <2>3, <2>4 DEF Active
<1>9. ASSUME NEW s \in Staff, ResolveFails(s) PROVE Goal
  <2>1. staff'[s] = IdleStaff /\ \A t \in Staff : t = s
    BY <1>9, <1>b DEF ResolveFails
  <2> QED BY <1>9, <1>b, <2>1 DEF ResolveFails, DecisionInv
<1>10. CASE DisputeStep
  BY <1>4, <1>5, <1>6, <1>7, <1>8, <1>9, <1>10 DEF DisputeStep
<1> QED BY <1>1, <1>2, <1>3, <1>10, StepKinds

\* handleDisputeResolve's "already resolved" holds with a single arbiter: the
\* overwritten decision that two of them can produce needs both.
THEOREM OneArbiterDecides ==
    ASSUME \A s, t \in Staff : s = t
    PROVE  LedgerSpec => DecisionFinal
<1>1. LedgerInit => LedgerType /\ DecisionInv
  <2>1. LedgerInit => DecisionInv
    BY DEF LedgerInit, DecisionInv, IdleStaff
  <2> QED BY <2>1, InitType
<1>2. LedgerType /\ DecisionInv /\ [LedgerNext]_ledgerVars =>
        /\ LedgerType' /\ DecisionInv'
        /\ [\A d \in DisputeIds :
              dispute[d].status = "resolved" => dispute'[d] = dispute[d]]_ledgerVars
  BY TypeStep, OneArbiterStep
<1> QED BY <1>1, <1>2, PTL DEF LedgerSpec, DecisionFinal

=============================================================================
