------------------------------- MODULE Ledger -------------------------------
(***************************************************************************)
(* Money after a job has ended: the metering record CompleteJob asks for,  *)
(* the releaser that pays providers out every hour, and the disputes a     *)
(* member opens over a no-show and staff resolve.                          *)
(*                                                                         *)
(* Atomicity.  No path here uses a transaction: each SQL statement and     *)
(* each call of Stripe is an action.  The releaser is one goroutine of     *)
(* the portal; staff requests run concurrently with it and each other.     *)
(*                                                                         *)
(* Abstractions.  One provider.  A job starts out running on its node; the *)
(* job life cycle proper is module Jobs.  No code writes                   *)
(* jobs.amount_cents or jobs.payment_intent_id, so Amount and Charged say  *)
(* which jobs carry them.  Time is an age class per job.                   *)
(***************************************************************************)
EXTENDS Naturals, FiniteSets, Sequences, FiniteSetsExt

CONSTANTS
    Jobs,
    Prints,           \* the jobs of a print workload
    Seeded,           \* the jobs on a node whose profile has the keys of cmd/seed
    Amount,           \* jobs.amount_cents
    Charged,          \* the jobs with a payment intent Stripe can refund
    Cost,             \* metered cost of a job, in tenths of a cent
    Share,            \* contributor_share, in percent
    Staff,
    Percentages,      \* values of consumer_refund_pct that staff enter
    NoJob,
    LedgerMayFail,    \* what may fail, a subset of LedgerFaultKinds
    MaxLedgerFaults,  \* bound: failures in one behaviour
    MaxDisputes       \* bound: dispute ids

LedgerFaultKinds == {"metering", "stripe", "answer", "mark", "crash", "resolve"}

DisputeIds == 1 .. MaxDisputes

ASSUME LedgerAssumption ==
    /\ Prints \subseteq Jobs /\ Seeded \subseteq Jobs /\ Charged \subseteq Jobs
    /\ Amount \in [Jobs -> Nat] /\ Cost \in [Jobs -> Nat]
    /\ Share \in 0 .. 100 /\ Percentages \subseteq 0 .. 100
    /\ NoJob \notin Jobs
    /\ LedgerMayFail \subseteq LedgerFaultKinds /\ MaxLedgerFaults \in Nat /\ MaxDisputes \in Nat

VARIABLES
    job,       \* status and age of each job
    metering,  \* jobs whose CompleteJob has not reached ComputeMetering yet
    record,    \* job_metering: the earnings, and payout_released_at set or not
    account,   \* participants.stripe_account_id is set
    todo,      \* candidates the releaser has still to pay in this round
    paying,    \* the candidate paid but not marked yet
    stripe,    \* what Stripe did: payout keys with amounts, refunds by job
    dispute,   \* disputes, by id
    staff,     \* requests of POST /dispute/{id}/resolve
    ledgerFaults

ledgerVars == <<job, metering, record, account, todo, paying, stripe, dispute, staff, ledgerFaults>>

-----------------------------------------------------------------------------
(* Data *)

Ended == {"completed", "failed", "no_show", "delivered"}

Statuses == Ended \cup {"running", "awaiting_pickup", "picked_up"}

NoRecord == [made |-> FALSE, earned |-> 0, fee |-> 0, released |-> FALSE]

NoDispute == [job |-> NoJob, status |-> "none", arbiter |-> NoJob, pct |-> 0]

IdleStaff == [stage |-> "idle", id |-> 0, pct |-> 0]

Active == {"open", "under_review"}

ActiveDisputes(j) == {d \in DisputeIds : dispute[d].job = j /\ dispute[d].status \in Active}

\* math.Round of n/d.
Rounded(n, d) == (2 * n + d) \div (2 * d)

\* consumerPaidCents and what of it the contributor earns.
Paid(j) == Rounded(Cost[j], 10)
Earned(j) == Rounded(Paid(j) * Share, 100)

LedgerFault(kind) ==
    /\ kind \in LedgerMayFail
    /\ Len(ledgerFaults) < MaxLedgerFaults
    /\ ledgerFaults' = Append(ledgerFaults, kind)

-----------------------------------------------------------------------------
(* Jobs end, time passes, the provider connects an account *)

CompleteJob(j, to) ==
    /\ job[j].status = "running"
    /\ to \in {"failed", IF j \in Prints THEN "awaiting_pickup" ELSE "completed"}
    /\ job' = [job EXCEPT ![j].status = to]
    /\ metering' = IF to = "completed" THEN metering \cup {j} ELSE metering
    /\ UNCHANGED <<record, account, todo, paying, stripe, dispute, staff, ledgerFaults>>

\* The member collects the print and confirms it, or the provider flags it.
PrintMoves(j, from, to) ==
    /\ job[j].status = from
    /\ <<from, to>> \in {<<"awaiting_pickup", "picked_up">>, <<"picked_up", "delivered">>,
                         <<"awaiting_pickup", "no_show">>}
    /\ job' = [job EXCEPT ![j].status = to]
    /\ UNCHANGED <<metering, record, account, todo, paying, stripe, dispute, staff, ledgerFaults>>

\* 24 hours, then 7 days since completed_at.
LedgerAge(j) ==
    /\ job[j].status \in Ended
    /\ job[j].age < 2
    /\ job' = [job EXCEPT ![j].age = @ + 1]
    /\ UNCHANGED <<metering, record, account, todo, paying, stripe, dispute, staff, ledgerFaults>>

Connect ==
    /\ ~account
    /\ account' = TRUE
    /\ UNCHANGED <<job, metering, record, todo, paying, stripe, dispute, staff, ledgerFaults>>

-----------------------------------------------------------------------------
(* Metering *)

Metered(j) ==
    [made |-> TRUE, earned |-> Earned(j), released |-> FALSE, fee |-> Paid(j) - Earned(j)]

\* Without the keys CPUCores and RAMMB the scan fails and CompleteJob logs it.
ComputeMetering(j) ==
    /\ j \in metering
    /\ metering' = metering \ {j}
    /\ record' = IF j \in Seeded /\ ~record[j].made
                 THEN [record EXCEPT ![j] = Metered(j)] ELSE record
    /\ UNCHANGED <<job, account, todo, paying, stripe, dispute, staff, ledgerFaults>>

\* The database or the process fails after the status was written.
MeteringLost(j) ==
    /\ j \in metering
    /\ LedgerFault("metering")
    /\ metering' = metering \ {j}
    /\ UNCHANGED <<job, record, account, todo, paying, stripe, dispute, staff>>

-----------------------------------------------------------------------------
(* The payout releaser *)

\* Variant: the 24 hours are not waited for.
EligibleAtOnce(j) ==
    /\ job[j].status = "completed"
    /\ Amount[j] > 0
    /\ account
    /\ ActiveDisputes(j) = {}
    /\ record[j].earned > 0
    /\ ~record[j].released

EligiblePayouts(j) ==
    /\ job[j].status = "completed"
    /\ job[j].age >= 1
    /\ Amount[j] > 0
    /\ account
    /\ ActiveDisputes(j) = {}
    /\ record[j].earned > 0
    /\ ~record[j].released

LedgerTick ==
    /\ todo = {} /\ paying = NoJob
    /\ todo' = {j \in Jobs : EligiblePayouts(j)}
    /\ todo' # {}
    /\ UNCHANGED <<job, metering, record, account, paying, stripe, dispute, staff, ledgerFaults>>

\* Variant: a new idempotency key for every attempt.
PayoutEachTime(j) ==
    stripe.payouts
        \cup {[job |-> j, cents |-> record[j].earned, no |-> Cardinality(stripe.payouts)]}

\* Stripe answers a key it knows with the payout it made for it.
Payout(j) ==
    IF \E p \in stripe.payouts : p.job = j THEN stripe.payouts
    ELSE stripe.payouts \cup {[job |-> j, cents |-> record[j].earned, no |-> 0]}

TriggerPayout(j) ==
    /\ paying = NoJob
    /\ j \in todo
    /\ stripe' = [stripe EXCEPT !.payouts = Payout(j)]
    /\ paying' = j
    /\ todo' = todo \ {j}
    /\ UNCHANGED <<job, metering, record, account, dispute, staff, ledgerFaults>>

\* Variant: a failed payout falls through to the bookkeeping.
TriggerPayoutFailsMarked(j, paid) ==
    /\ paying = NoJob
    /\ j \in todo
    /\ LedgerFault(IF paid THEN "answer" ELSE "stripe")
    /\ stripe' = IF paid THEN [stripe EXCEPT !.payouts = Payout(j)] ELSE stripe
    /\ paying' = j
    /\ todo' = todo \ {j}
    /\ UNCHANGED <<job, metering, record, account, dispute, staff>>

\* The error is logged and the candidate skipped: Stripe refused, or it paid
\* and the answer was lost.
TriggerPayoutFails(j, paid) ==
    /\ paying = NoJob
    /\ j \in todo
    /\ LedgerFault(IF paid THEN "answer" ELSE "stripe")
    /\ stripe' = IF paid THEN [stripe EXCEPT !.payouts = Payout(j)] ELSE stripe
    /\ todo' = todo \ {j}
    /\ UNCHANGED <<job, metering, record, account, paying, dispute, staff>>

MarkReleased ==
    /\ paying # NoJob
    /\ record' = [record EXCEPT ![paying].released = TRUE]
    /\ paying' = NoJob
    /\ UNCHANGED <<job, metering, account, todo, stripe, dispute, staff, ledgerFaults>>

MarkFails ==
    /\ paying # NoJob
    /\ LedgerFault("mark")
    /\ paying' = NoJob
    /\ UNCHANGED <<job, metering, record, account, todo, stripe, dispute, staff>>

\* The portal restarts.
Crash ==
    /\ todo # {} \/ paying # NoJob \/ \E s \in Staff : staff[s] # IdleStaff
    /\ LedgerFault("crash")
    /\ todo' = {} /\ paying' = NoJob
    /\ staff' = [s \in Staff |-> IdleStaff]
    /\ UNCHANGED <<job, metering, record, account, stripe, dispute>>

-----------------------------------------------------------------------------
(* Disputes *)

\* Variant: no unique index on the active disputes of a job.
ContestableAgain(j) ==
    /\ job[j].status = "no_show"
    /\ job[j].age < 2

\* handleConsumerContestNoShow and idx_disputes_one_active_per_job.
Contestable(j) ==
    /\ job[j].status = "no_show"
    /\ job[j].age < 2
    /\ ActiveDisputes(j) = {}

Contest(j, d) ==
    /\ Contestable(j)
    /\ dispute[d] = NoDispute
    /\ \A e \in 1 .. d - 1 : dispute[e] # NoDispute
    /\ dispute' = [dispute EXCEPT ![d] = [NoDispute EXCEPT !.job = j, !.status = "open"]]
    /\ UNCHANGED <<job, metering, record, account, todo, paying, stripe, staff, ledgerFaults>>

\* Variant: review does not ask for an open dispute.
ReviewableAny(d) == dispute[d] # NoDispute

Reviewable(d) == dispute[d].status = "open"

handleDisputeReview(s, d) ==
    /\ Reviewable(d)
    /\ dispute' = [dispute EXCEPT ![d].status = "under_review", ![d].arbiter = s]
    /\ UNCHANGED <<job, metering, record, account, todo, paying, stripe, staff, ledgerFaults>>

\* Variant: a resolved dispute can be resolved again.
ResolvableAny(d) == dispute[d] # NoDispute

Resolvable(d) == dispute[d].status \in Active

ResolveRead(s, d, pct) ==
    /\ staff[s] = IdleStaff
    /\ Resolvable(d)
    /\ staff' = [staff EXCEPT ![s] = [stage |-> "read", id |-> d, pct |-> pct]]
    /\ UNCHANGED <<job, metering, record, account, todo, paying, stripe, dispute, ledgerFaults>>

\* refundAmount, in cents.
RefundAmount(j, pct) == (Amount[j] * pct) \div 100

\* What Stripe can still pay back of a charge.
Refundable(j, cents) == j \in Charged /\ stripe.refunds[j] + cents <= Amount[j]

ResolveRefund(s) ==
    LET j == dispute[staff[s].id].job
        cents == RefundAmount(j, staff[s].pct)
        ok == cents = 0 \/ Refundable(j, cents)
    IN  /\ staff[s].stage = "read"
        /\ stripe' = IF ok THEN [stripe EXCEPT !.refunds[j] = @ + cents] ELSE stripe
        /\ staff' = [staff EXCEPT ![s] = IF ok THEN [@ EXCEPT !.stage = "refunded"] ELSE IdleStaff]
        /\ UNCHANGED <<job, metering, record, account, todo, paying, dispute, ledgerFaults>>

ResolveWrite(s) ==
    /\ staff[s].stage = "refunded"
    /\ dispute' = [dispute EXCEPT ![staff[s].id].status = "resolved",
                                  ![staff[s].id].arbiter = s,
                                  ![staff[s].id].pct = staff[s].pct]
    /\ staff' = [staff EXCEPT ![s] = IdleStaff]
    /\ UNCHANGED <<job, metering, record, account, todo, paying, stripe, ledgerFaults>>

ResolveFails(s) ==
    /\ staff[s].stage = "refunded"
    /\ LedgerFault("resolve")
    /\ staff' = [staff EXCEPT ![s] = IdleStaff]
    /\ UNCHANGED <<job, metering, record, account, todo, paying, stripe, dispute>>

-----------------------------------------------------------------------------
LedgerInit ==
    /\ job = [j \in Jobs |-> [status |-> "running", age |-> 0]]
    /\ metering = {}
    /\ record = [j \in Jobs |-> NoRecord]
    /\ account = FALSE
    /\ todo = {} /\ paying = NoJob
    /\ stripe = [payouts |-> {}, refunds |-> [j \in Jobs |-> 0]]
    /\ dispute = [d \in DisputeIds |-> NoDispute]
    /\ staff = [s \in Staff |-> IdleStaff]
    /\ ledgerFaults = <<>>

Releaser ==
    \/ LedgerTick
    \/ \E j \in Jobs : TriggerPayout(j)
    \/ MarkReleased

LedgerNext ==
    \/ \E j \in Jobs, to \in Statuses : CompleteJob(j, to)
    \/ \E j \in Jobs, from, to \in Statuses : PrintMoves(j, from, to)
    \/ \E j \in Jobs : LedgerAge(j) \/ ComputeMetering(j) \/ MeteringLost(j)
    \/ Connect
    \/ Releaser
    \/ \E j \in Jobs, paid \in BOOLEAN : TriggerPayoutFails(j, paid)
    \/ MarkFails
    \/ Crash
    \/ \E j \in Jobs, d \in DisputeIds : Contest(j, d)
    \/ \E s \in Staff, d \in DisputeIds : handleDisputeReview(s, d)
    \/ \E s \in Staff, d \in DisputeIds, pct \in Percentages : ResolveRead(s, d, pct)
    \/ \E s \in Staff : ResolveRefund(s) \/ ResolveWrite(s) \/ ResolveFails(s)

LedgerSpec == LedgerInit /\ [][LedgerNext]_ledgerVars

LedgerFairSpec ==
    /\ LedgerSpec
    /\ WF_ledgerVars(Releaser)
    /\ \A j \in Jobs : WF_ledgerVars(LedgerAge(j)) /\ WF_ledgerVars(ComputeMetering(j))

-----------------------------------------------------------------------------
(* Properties *)

\* The variables keep the types the columns and the structs give them, and a
\* metering record splits what the member pays without losing a cent.
LedgerTypeOK ==
    /\ job \in [Jobs -> [status : Statuses, age : 0 .. 2]]
    /\ metering \subseteq Jobs /\ todo \subseteq Jobs /\ paying \in Jobs \cup {NoJob}
    /\ record \in [Jobs -> [made : BOOLEAN, earned : Nat, fee : Nat, released : BOOLEAN]]
    /\ \A j \in Jobs : record[j].made => record[j].earned + record[j].fee = Paid(j)
    /\ account \in BOOLEAN
    /\ ledgerFaults \in Seq(LedgerFaultKinds) /\ Len(ledgerFaults) <= MaxLedgerFaults
    /\ stripe.payouts \subseteq [job : Jobs, cents : Nat, no : Nat]
    /\ stripe.refunds \in [Jobs -> Nat]
    /\ dispute \in [DisputeIds -> [job : Jobs \cup {NoJob}, pct : 0 .. 100,
                                   status : {"none", "resolved"} \cup Active,
                                   arbiter : Staff \cup {NoJob}]]
    /\ staff \in [Staff -> [stage : {"idle", "read", "refunded"}, pct : 0 .. 100,
                            id : 0 .. MaxDisputes]]

\* Whatever fails between TriggerPayout and payout_released_at, and however
\* often the releaser selects the job again, the provider is paid for a job
\* once.
PaidOnce ==
    \A p, q \in stripe.payouts : p.job = q.job => p = q

\* RunPayoutReleaser pays only what was earned: a payout is for a completed,
\* metered, priced job more than 24 hours old, for exactly the recorded
\* earnings, and never for a job a dispute was opened on.
PayoutsEarned ==
    \A p \in stripe.payouts :
        /\ job[p.job].status = "completed" /\ job[p.job].age >= 1
        /\ p.cents > 0 /\ p.cents = record[p.job].earned
        /\ \A d \in DisputeIds : dispute[d].job # p.job

\* In the end every completed job that earned something and that nobody
\* disputes is paid out and recorded as released, whichever single round of
\* the releaser failed.
DuePaid ==
    <>[](\A j \in Jobs :
            /\ job[j].status = "completed"
            /\ job[j].age >= 1
            /\ Amount[j] > 0 /\ record[j].earned > 0
            /\ account
            /\ ActiveDisputes(j) = {}
            => record[j].released /\ \E p \in stripe.payouts : p.job = j)

\* CompleteJob meters a job it completes: when ComputeMetering has returned,
\* the job has its record in job_metering.
CompletedMetered ==
    \A j \in Jobs : job[j].status = "completed" => j \in metering \/ record[j].made

\* handleConsumerDelivered makes a print job terminal and payout-eligible: a
\* delivered job with a price, whose provider is connected, is paid.
DeliveredPaid ==
    \A j \in Jobs :
        (job[j].status = "delivered" /\ Amount[j] > 0 /\ account)
            ~> \E p \in stripe.payouts : p.job = j

\* However often a member contests a no-show, a job has at most one dispute
\* that is open or under review.
OneActiveDispute ==
    \A j \in Jobs : Cardinality(ActiveDisputes(j)) <= 1

\* handleDisputeResolve answers "already resolved": the arbiter and the share
\* of a resolved dispute do not change.
DecisionFinal ==
    [][\A d \in DisputeIds : dispute[d].status = "resolved" => dispute'[d] = dispute[d]]_ledgerVars

\* What was refunded to the member of a job is what the decisions on its
\* disputes say, once no decision is under way, unless a decision was cut off
\* between the refund and its row.
RefundsAsDecided ==
    \A j \in Jobs :
        /\ \A s \in Staff : staff[s] = IdleStaff
        /\ \A i \in DOMAIN ledgerFaults : ledgerFaults[i] \notin {"crash", "resolve"}
        =>
            stripe.refunds[j] =
                MapThenSumSet(LAMBDA d : RefundAmount(j, dispute[d].pct),
                              {d \in DisputeIds : /\ dispute[d].job = j
                                                  /\ dispute[d].status = "resolved"})
=============================================================================
