----------------------------- MODULE JobsProofs -----------------------------
(***************************************************************************)
(* Safety theorems about Jobs and its refinement of JobLifecycle, for any  *)
(* number of nodes, jobs, members, requests in flight and restarts.        *)
(***************************************************************************)
EXTENDS JobsTypeProofs

(* What one step can do to the row of a job.  Every safety theorem below is a *)
(* consequence of this description of the steps.                              *)

\* Steps that only change the status.
PlainEdges ==
    {<<"awaiting_confirmation", "declined">>, <<"scheduled", "declined">>,
     <<"dispatched", "declined">>, <<"dispatched", "scheduled">>,
     <<"dispatched", "running">>, <<"declined", "failed">>,
     <<"running", "failed">>, <<"running", "awaiting_pickup">>,
     <<"awaiting_pickup", "picked_up">>, <<"awaiting_pickup", "failed">>,
     <<"picked_up", "delivered">>}

SameBinding(j) == node'[j] = node[j] /\ consent'[j] = consent[j]

\* Another job's step, or a poll's claim.
Quiet(j) ==
    /\ SameBinding(j)
    /\ \/ status'[j] = status[j]
       \/ status[j] = "scheduled" /\ status'[j] = "dispatched"

Advanced(j) ==
    /\ SameBinding(j)
    /\ <<status[j], status'[j]>> \in PlainEdges
    /\ metered' = metered

Submitted(j) ==
    /\ status[j] = "none"
    /\ status'[j] = SubmittedStatus(j)
    /\ node'[j] \in Nodes
    /\ Owner[node'[j]] # Consumer[j]
    /\ consent'[j] = consent[j]
    /\ metered' = metered

Confirmed(j) ==
    /\ status[j] = "awaiting_confirmation"
    /\ status'[j] = "scheduled"
    /\ node'[j] = node[j]
    /\ consent'[j] = node[j]
    /\ metered' = metered

Completed(j) ==
    /\ status[j] = "running"
    /\ status'[j] = "completed"
    /\ j \notin PrintJobs
    /\ SameBinding(j)
    /\ metered' \in {metered, metered \cup {j}}

Rescheduled(j) ==
    /\ status[j] = "scheduled"
    /\ status'[j] = "scheduled"
    /\ j \notin PrintJobs
    /\ node'[j] \in Nodes
    /\ Owner[node'[j]] # Consumer[j]
    /\ consent'[j] = consent[j]
    /\ metered' = metered

Rerouted(j) ==
    /\ status[j] = "declined"
    /\ status'[j] = ReroutedStatus(j)
    /\ node'[j] \in Nodes
    /\ Owner[node'[j]] # Consumer[j]
    /\ consent'[j] = NoNode
    /\ metered' = metered

Effect(j) ==
    \/ Advanced(j)
    \/ Submitted(j)
    \/ Confirmed(j)
    \/ Completed(j)
    \/ Rescheduled(j)
    \/ Rerouted(j)

AllQuiet == metered' = metered /\ \A k \in JobIds : Quiet(k)

OneEffect == \E j \in JobIds : Effect(j) /\ \A k \in JobIds \ {j} : Quiet(k)

\* A guarded status change and nothing else is an effect on that job alone.
LEMMA MoveEffect ==
    ASSUME TypeInv, NEW j \in JobIds, NEW to,
           <<status[j], to>> \in PlainEdges, Move(j, to),
           UNCHANGED <<node, metered, consent>>
    PROVE  OneEffect
<1>1. Advanced(j)
  BY DEF Advanced, SameBinding, Move, TypeInv, TypeOK
<1>2. \A k \in JobIds \ {j} : Quiet(k)
  BY DEF Quiet, SameBinding, Move, TypeInv, TypeOK
<1> QED
  BY <1>1, <1>2 DEF OneEffect, Effect

\* A step that leaves the rows alone.
LEMMA NoEffect ==
    ASSUME UNCHANGED <<status, node, metered, consent>>
    PROVE  AllQuiet
BY DEF AllQuiet, Quiet, SameBinding

\* Consumers, providers and clocks change at most one row.
LEMMA JobStepEffect ==
    ASSUME TypeInv, NEW j \in JobIds, JobStep(j)
    PROVE  AllQuiet \/ OneEffect
<1>1. CASE SubmitJob(j)
  <2>1. Submitted(j)
    BY <1>1, FindMatchNodes
    DEF SubmitJob, Submitted, Move, TypeInv, TypeOK
  <2>2. \A k \in JobIds \ {j} : Quiet(k)
    BY <1>1 DEF SubmitJob, Quiet, SameBinding, Move, TypeInv, TypeOK
  <2> QED
    BY <2>1, <2>2 DEF OneEffect, Effect
<1>2. CASE JobConfirmCheck(j)
  BY <1>2, NoEffect DEF JobConfirmCheck, dbVars
<1>3. CASE ConsumerPickedUp(j)
  BY <1>3, MoveEffect DEF ConsumerPickedUp, HandOver, PlainEdges
<1>4. CASE ConsumerDelivered(j)
  BY <1>4, MoveEffect DEF ConsumerDelivered, HandOver, PlainEdges
<1>5. CASE ProviderNoShow(j)
  BY <1>5, MoveEffect DEF ProviderNoShow, HandOver, PlainEdges
<1>6. CASE Elapse(j)
  BY <1>6, NoEffect DEF Elapse
<1> QED
  BY <1>1, <1>2, <1>3, <1>4, <1>5, <1>6 DEF JobStep

\* Registry and poll steps: at most claims.
LEMMA NodeStepEffect ==
    ASSUME TypeInv, NEW n \in Nodes, NodeStep(n)
    PROVE  AllQuiet
<1>1. CASE Register(n) \/ Evict(n)
  BY <1>1, NoEffect DEF Register, Evict, dbVars
<1>2. CASE PollSelect(n) \/ PollAbandon(n) \/ NodeCrash(n)
  BY <1>2, NoEffect DEF PollSelect, PollAbandon, NodeCrash, dbVars
<1>3. CASE PollFlip(n)
  BY <1>3 DEF PollFlip, Flipped, AllQuiet, Quiet, SameBinding
<1> QED
  BY <1>1, <1>2, <1>3 DEF NodeStep

\* The write of a request changes at most the row of its job.
LEMMA RequestStepEffect ==
    ASSUME TypeInv, NEW q \in pending, RequestStep(q)
    PROVE  AllQuiet \/ OneEffect
<1>0. q.job \in JobIds /\ q.exit \in Exits
  BY DEF TypeInv, TypeOK, Requests
<1>1. CASE JobConfirm(q)
  <2>1. CASE status[q.job] # "awaiting_confirmation"
    BY <1>1, <2>1, NoEffect DEF JobConfirm
  <2>2. CASE status[q.job] = "awaiting_confirmation"
    <3>1. Confirmed(q.job)
      BY <1>0, <1>1, <2>2 DEF JobConfirm, Confirmed, Move, TypeInv, TypeOK
    <3>2. \A k \in JobIds \ {q.job} : Quiet(k)
      BY <1>0, <1>1 DEF JobConfirm, Quiet, SameBinding, Move, TypeInv, TypeOK
    <3> QED
      BY <1>0, <3>1, <3>2 DEF OneEffect, Effect
  <2> QED
    BY <2>1, <2>2
<1>2. CASE JobDecline(q)
  BY <1>0, <1>2, NoEffect, MoveEffect DEF JobDecline, PlainEdges
<1>3. CASE StartedWrite(q)
  BY <1>0, <1>3, NoEffect, MoveEffect DEF StartedWrite, CanStart, PlainEdges
<1>4. CASE CompleteWrite(q)
  <2>1. CASE ~CanComplete(q.job)
    BY <1>4, <2>1, NoEffect DEF CompleteWrite
  <2>2. CASE CanComplete(q.job) /\ NewStatus(q.job, q.exit) = "completed"
    <3>1. q.job \notin PrintJobs
      BY <1>0, <2>2 DEF NewStatus, Exits
    <3>2. Completed(q.job)
      BY <1>0, <1>4, <2>2, <3>1
      DEF CompleteWrite, CanComplete, Completed, SameBinding, Move, TypeInv, TypeOK
    <3>3. \A k \in JobIds \ {q.job} : Quiet(k)
      BY <1>0, <1>4 DEF CompleteWrite, Quiet, SameBinding, Move, TypeInv, TypeOK
    <3> QED
      BY <1>0, <3>2, <3>3 DEF OneEffect, Effect
  <2>3. CASE CanComplete(q.job) /\ NewStatus(q.job, q.exit) # "completed"
    <3>1. NewStatus(q.job, q.exit) \in {"failed", "awaiting_pickup"}
      BY <1>0, <2>3 DEF NewStatus, Exits
    <3>2. <<status[q.job], NewStatus(q.job, q.exit)>> \in PlainEdges
      BY <2>3, <3>1 DEF CanComplete, PlainEdges
    <3> QED
      BY <1>0, <1>4, <2>3, <3>2, MoveEffect DEF CompleteWrite, Meters
  <2> QED
    BY <2>1, <2>2, <2>3
<1>5. CASE DeclineRecord(q) \/ Abandon(q)
  BY <1>5, NoEffect DEF DeclineRecord, Abandon, dbVars
<1>6. CASE ReportWrite(q)
  BY <1>0, <1>6, NoEffect, MoveEffect DEF ReportWrite, CanStart, PlainEdges
<1> QED
  BY <1>1, <1>2, <1>3, <1>4, <1>5, <1>6 DEF RequestStep

\* A node that holds an assignment changes a row only by declining it.
LEMMA RunStepEffect ==
    ASSUME TypeInv, NEW r \in runs, RunStep(r)
    PROVE  AllQuiet \/ OneEffect
<1>0. r.job \in JobIds
  BY DEF TypeInv, TypeOK, Runs
<1>1. CASE ProtocolDecline(r)
  <2>1. <<status[r.job], "declined">> \in PlainEdges
    BY <1>1 DEF ProtocolDecline, Declinable, PlainEdges
  <2> QED
    BY <1>0, <1>1, <2>1, MoveEffect DEF ProtocolDecline
<1>2. CASE UNCHANGED dbVars /\ UNCHANGED consent
  BY <1>2, NoEffect DEF dbVars
<1> QED
  BY <1>1, <1>2 DEF RunStep, AgentStart, AgentDrop, StartedCheck, CompleteCheck,
     ReportCheck

\* One iteration of an expiry pass changes at most the row it was given.
LEMMA ExpireEffect ==
    ASSUME TypeInv, NEW row \in todo, NEW p, NEW from, NEW to,
           <<from, to>> \in PlainEdges, Expire(row, p, from, to)
    PROVE  AllQuiet \/ OneEffect
<1>1. row[1] \in JobIds
  BY DEF TypeInv, TypeOK
<1> QED
  BY <1>1, NoEffect, MoveEffect DEF Expire

\* A step of the reroute loop changes at most one row.
LEMMA LoopStepEffect ==
    ASSUME TypeInv,
           \/ BeginPass
           \/ \E row \in todo : ReapRow(row)
           \/ Rebind
           \/ RebindError
    PROVE  AllQuiet \/ OneEffect
<1>1. CASE BeginPass \/ RebindError
  BY <1>1, NoEffect DEF BeginPass, RebindError, dbVars
<1>2. ASSUME NEW row \in todo, ReapRow(row)
      PROVE  AllQuiet \/ OneEffect
  <2>1. CASE ExpireConfirmation(row)
    BY <2>1, ExpireEffect DEF ExpireConfirmation, PlainEdges
  <2>2. CASE ExpireDispatched(row)
    BY <2>2, ExpireEffect DEF ExpireDispatched, PlainEdges
  <2>3. CASE ExpirePickedUp(row)
    BY <2>3, ExpireEffect DEF ExpirePickedUp, PlainEdges
  <2>4. CASE RescheduleDecide(row) \/ RerouteDecide(row)
    BY <2>4, NoEffect DEF RescheduleDecide, RerouteDecide, dbVars
  <2> QED
    BY <1>2, <2>1, <2>2, <2>3, <2>4 DEF ReapRow
<1>3. CASE RescheduleWrite
  <2>1. CASE ~StillStale
    BY <1>3, <2>1, NoEffect DEF RescheduleWrite
  <2>2. CASE StillStale
    <3>1. work.job \in JobIds
      BY <1>3 DEF RescheduleWrite, TypeInv, TypeOK
    <3>2. Rescheduled(work.job)
      BY <1>3, <2>2, <3>1, ConstantsAssumption
      DEF RescheduleWrite, StillStale, Rescheduled, TypeInv, TypeOK, WorkInv
    <3>3. \A k \in JobIds \ {work.job} : Quiet(k)
      BY <1>3, <3>1 DEF RescheduleWrite, Quiet, SameBinding, TypeInv, TypeOK
    <3> QED
      BY <3>1, <3>2, <3>3 DEF OneEffect, Effect
  <2> QED
    BY <2>1, <2>2
<1>4. CASE RerouteWrite
  <2>1. work.job \in JobIds /\ work.target \in Nodes \cup {NoNode}
    BY <1>4 DEF RerouteWrite, TypeInv, TypeOK
  <2>2. CASE status[work.job] # "declined"
    BY <1>4, <2>2, NoEffect DEF RerouteWrite
  <2>3. CASE status[work.job] = "declined" /\ work.target = NoNode
    <3>1. Move(work.job, "failed") /\ UNCHANGED <<node, metered, consent>>
      BY <1>4, <2>3 DEF RerouteWrite
    <3>2. <<status[work.job], "failed">> \in PlainEdges
      BY <2>3 DEF PlainEdges
    <3> QED
      BY <2>1, <3>1, <3>2, MoveEffect
  <2>4. CASE status[work.job] = "declined" /\ work.target # NoNode
    <3>1. Rerouted(work.job)
      BY <1>4, <2>1, <2>4 DEF RerouteWrite, Rerouted, Move, TypeInv, TypeOK, WorkInv
    <3>2. \A k \in JobIds \ {work.job} : Quiet(k)
      BY <1>4, <2>1, <2>4
      DEF RerouteWrite, Quiet, SameBinding, Move, TypeInv, TypeOK
    <3> QED
      BY <2>1, <3>1, <3>2 DEF OneEffect, Effect
  <2> QED
    BY <2>2, <2>3, <2>4
<1> QED
  BY <1>1, <1>2, <1>3, <1>4 DEF Rebind

\* Every step leaves all rows quiet or has one of the effects on one of them.
LEMMA StepEffect == TypeInv /\ [Next]_vars => AllQuiet \/ OneEffect
<1> SUFFICES ASSUME TypeInv, [Next]_vars PROVE AllQuiet \/ OneEffect
  OBVIOUS
<1>1. CASE Restart \/ UNCHANGED vars
  BY <1>1, NoEffect DEF Restart, vars, dbVars
<1> QED
  BY <1>1, NodeStepEffect, JobStepEffect, RequestStepEffect, RunStepEffect,
     LoopStepEffect DEF Next

-----------------------------------------------------------------------------
(* Safety of the rows *)

\* A print job is always on the node it was confirmed for: only Confirmed
\* brings it past confirmation, and only Rerouted moves it, back to before.
LEMMA ConsentStep == TypeInv /\ ConsentForPlacement /\ [Next]_vars => ConsentForPlacement'
<1> SUFFICES ASSUME TypeInv, ConsentForPlacement, [Next]_vars,
                    NEW j \in PrintJobs, PrintConfirm,
                    status'[j] \in Statuses \ {"none", "declined", "failed",
                                               "awaiting_confirmation"}
             PROVE  consent'[j] = node'[j]
  BY DEF ConsentForPlacement
<1>0. j \in JobIds /\ status[j] \in Statuses
  BY ConstantsAssumption DEF TypeInv, TypeOK
<1>1. CASE Quiet(j)
  BY <1>1 DEF Quiet, SameBinding, ConsentForPlacement, Statuses
<1>2. CASE Effect(j)
  BY <1>0, <1>2 DEF Effect, Advanced, Submitted, Confirmed, Completed, Rescheduled,
     Rerouted, PlainEdges, SameBinding, ConsentForPlacement, Statuses,
     SubmittedStatus, ReroutedStatus
<1> QED
  BY <1>0, <1>1, <1>2, StepEffect DEF AllQuiet, OneEffect

\* No step binds a job to a node of its own consumer.
LEMMA SelfPlacementStep == TypeInv /\ NoSelfPlacement /\ [Next]_vars => NoSelfPlacement'
<1> SUFFICES ASSUME TypeInv, NoSelfPlacement, [Next]_vars, NEW j \in JobIds,
                    node'[j] # NoNode
             PROVE  Owner[node'[j]] # Consumer[j]
  BY DEF NoSelfPlacement
<1>1. CASE Quiet(j)
  BY <1>1 DEF Quiet, SameBinding, NoSelfPlacement
<1>2. CASE Effect(j)
  BY <1>2 DEF Effect, Advanced, Submitted, Confirmed, Completed, Rescheduled,
     Rerouted, SameBinding, NoSelfPlacement
<1> QED
  BY <1>1, <1>2, StepEffect DEF AllQuiet, OneEffect

\* A job is metered in the step that completes it, and no effect leaves
\* "completed".
LEMMA MeteredStep == TypeInv /\ MeteredStaysCompleted /\ [Next]_vars => MeteredStaysCompleted'
<1> SUFFICES ASSUME TypeInv, MeteredStaysCompleted, [Next]_vars, NEW j \in metered'
             PROVE  j \notin PrintJobs /\ status'[j] = "completed"
  BY DEF MeteredStaysCompleted
<1>1. CASE AllQuiet
  BY <1>1 DEF AllQuiet, Quiet, MeteredStaysCompleted, TypeInv, TypeOK
<1>2. CASE OneEffect
  <2>1. PICK k \in JobIds : Effect(k) /\ \A i \in JobIds \ {k} : Quiet(i)
    BY <1>2 DEF OneEffect
  <2>a. Completed(k) \/ metered' = metered
    BY <2>1 DEF Effect, Advanced, Submitted, Confirmed, Rescheduled, Rerouted
  <2>b. Completed(k) => j \in metered \/ j = k
    BY DEF Completed
  <2>2. j \in metered \/ (Completed(k) /\ j = k)
    BY <2>a, <2>b
  <2>3. CASE Completed(k) /\ j = k
    BY <2>3 DEF Completed
  <2>4. CASE j \in metered
    <3>1. j \in JobIds /\ j \notin PrintJobs /\ status[j] = "completed"
      BY <2>4 DEF MeteredStaysCompleted, TypeInv, TypeOK
    <3>2. j # k
      BY <2>1, <3>1 DEF Effect, Advanced, Submitted, Confirmed, Completed,
         Rescheduled, Rerouted, PlainEdges
    <3> QED
      BY <2>1, <3>1, <3>2 DEF Quiet
  <2> QED
    BY <2>2, <2>3, <2>4
<1> QED
  BY <1>1, <1>2, StepEffect

\* The three invariants of the rows hold initially.
LEMMA RowsInit == Init => ConsentForPlacement /\ NoSelfPlacement /\ MeteredStaysCompleted
BY ConstantsAssumption DEF Init, ConsentForPlacement, NoSelfPlacement,
   MeteredStaysCompleted

\* No interleaving of members, polls, expiries and rebinds leaves a print job
\* past confirmation on a node whose owner did not confirm that placement.
THEOREM Consent == Spec => []ConsentForPlacement
<1>1. Spec => []TypeInv
  BY TypeInit, TypeStep, PTL DEF Spec
<1> QED
  BY <1>1, RowsInit, ConsentStep, PTL DEF Spec

\* SubmitJob, RerouteDeclinedJob and RescheduleStaleJob never place a job with
\* its own consumer.
THEOREM NeverSelfPlaced == Spec => []NoSelfPlacement
<1>1. Spec => []TypeInv
  BY TypeInit, TypeStep, PTL DEF Spec
<1> QED
  BY <1>1, RowsInit, SelfPlacementStep, PTL DEF Spec

\* The outcome of a metered job is final.
THEOREM MeteredFinal == Spec => []MeteredStaysCompleted
<1>1. Spec => []TypeInv
  BY TypeInit, TypeStep, PTL DEF Spec
<1> QED
  BY <1>1, RowsInit, MeteredStep, PTL DEF Spec

-----------------------------------------------------------------------------
(* One runner *)

\* The statuses a job can have once it has been started: no effect leads back.
Started == {"running", "awaiting_pickup", "picked_up", "delivered", "completed",
            "failed"}

Runners == {r \in runs : r.stage = "running"}

\* A job that some node is executing has been started.
RunnersStarted == \A r \in Runners : status[r.job] \in Started

\* AtMostOneRunner is not inductive alone: a second /started is refused only
\* because the first one has moved the row out of "dispatched" for good.
RunnerInv == AtMostOneRunner /\ RunnersStarted

\* A node becomes a runner only in the step that moves the job out of
\* "dispatched".
NewRunner(x) ==
    /\ status[x.job] = "dispatched"
    /\ status'[x.job] = "running"
    /\ Runners' \subseteq Runners \cup {x}

\* Only StartedWrite makes a runner.
LEMMA RunnersStep ==
    ASSUME TypeInv, [Next]_vars
    PROVE  Runners' \subseteq Runners \/ \E x \in Runs : NewRunner(x)
<1>1. CASE runs' \subseteq runs
  BY <1>1 DEF Runners
<1>2. ASSUME NEW n \in Nodes, NodeStep(n)
      PROVE  Runners' \subseteq Runners
  <2>1. CASE PollFlip(n)
    <3>1. \A r \in runs' : r \in runs \/ r.stage = "got"
      BY <2>1 DEF PollFlip, Run
    <3> QED
      BY <3>1 DEF Runners
  <2>2. CASE ~PollFlip(n)
    <3>1. runs' \subseteq runs
      BY <1>2, <2>2 DEF NodeStep, Register, Evict, PollSelect, PollAbandon, NodeCrash
    <3> QED
      BY <3>1 DEF Runners
  <2> QED
    BY <2>1, <2>2
<1>3. ASSUME NEW j \in JobIds, JobStep(j)
      PROVE  runs' = runs
  BY <1>3 DEF JobStep, SubmitJob, JobConfirmCheck, ConsumerPickedUp,
     ConsumerDelivered, ProviderNoShow, HandOver, Elapse
<1>4. ASSUME NEW r \in runs, RunStep(r)
      PROVE  Runners' \subseteq Runners
  <2>1. CASE AgentStart(r) \/ StartedCheck(r)
    <3>1. \A s \in runs' : s \in runs \/ s.stage \in {"up", "asking"}
      BY <2>1 DEF AgentStart, StartedCheck, Run
    <3> QED
      BY <3>1 DEF Runners
  <2>2. CASE ~(AgentStart(r) \/ StartedCheck(r))
    <3>1. runs' \subseteq runs
      BY <1>4, <2>2 DEF RunStep, AgentDrop, CompleteCheck, ProtocolDecline, ReportCheck
    <3> QED
      BY <3>1 DEF Runners
  <2> QED
    BY <2>1, <2>2
<1>5. ASSUME NEW q \in pending, RequestStep(q), ~StartedWrite(q)
      PROVE  runs' \subseteq runs
  BY <1>5 DEF RequestStep, JobConfirm, JobDecline, CompleteWrite, DeclineRecord,
     ReportWrite, Abandon
<1>6. ASSUME NEW q \in pending, StartedWrite(q)
      PROVE  runs' \subseteq runs \/ \E x \in Runs : NewRunner(x)
  <2> DEFINE asking == Run(q.by, q.job, "asking")
             x == Run(q.by, q.job, "running")
  <2>1. CASE runs' = runs \ {asking}
    BY <2>1
  <2>2. CASE /\ CanStart(q.job)
             /\ asking \in runs
             /\ runs' = (runs \ {asking}) \cup {x}
    <3>1. q.job \in JobIds /\ asking \in Runs
      BY <2>2 DEF TypeInv, TypeOK, Requests
    <3>2. x \in Runs /\ x.job = q.job
      BY <3>1 DEF Run, Runs, Stages
    <3>3. status[x.job] = "dispatched" /\ status'[x.job] = "running"
      BY <1>6, <2>2, <3>1, <3>2 DEF StartedWrite, CanStart, Move, TypeInv, TypeOK
    <3>4. Runners' \subseteq Runners \cup {x}
      BY <2>2 DEF Runners
    <3> QED
      BY <3>2, <3>3, <3>4 DEF NewRunner
  <2> QED
    BY <1>6, <2>1, <2>2 DEF StartedWrite
<1>7. CASE BeginPass \/ Rebind \/ RebindError
  BY <1>1, <1>7 DEF BeginPass, Rebind, RescheduleWrite, RerouteWrite, RebindError
<1>8. ASSUME NEW row \in todo, ReapRow(row)
      PROVE  runs' = runs
  BY <1>8 DEF ReapRow, ExpireConfirmation, ExpireDispatched, ExpirePickedUp, Expire,
     RescheduleDecide, RerouteDecide
<1>9. CASE Restart \/ UNCHANGED vars
  BY <1>1, <1>9 DEF Restart, vars
<1> QED
  BY <1>1, <1>2, <1>3, <1>4, <1>5, <1>6, <1>7, <1>8, <1>9 DEF Next

\* A started job stays started.
LEMMA StartedStays ==
    ASSUME TypeInv, [Next]_vars, NEW j \in JobIds, status[j] \in Started
    PROVE  status'[j] \in Started
<1>1. CASE Quiet(j)
  BY <1>1 DEF Quiet, Started
<1>2. CASE Effect(j)
  BY <1>2 DEF Effect, Advanced, Submitted, Confirmed, Completed, Rescheduled,
     Rerouted, PlainEdges, Started
<1> QED
  BY <1>1, <1>2, StepEffect DEF AllQuiet, OneEffect

\* A step makes at most one new runner, of a job that had none.
LEMMA RunnerStep == TypeInv /\ RunnerInv /\ [Next]_vars => RunnerInv'
<1> SUFFICES ASSUME TypeInv, RunnerInv, [Next]_vars PROVE RunnerInv'
  OBVIOUS
<1>0. \A r \in Runners : r.job \in JobIds /\ status[r.job] \in Started
                         /\ status'[r.job] \in Started
  BY StartedStays DEF RunnerInv, RunnersStarted, Runners, Runs, TypeInv, TypeOK
<1>a. \A r, s \in Runners : r.job = s.job => r.node = s.node
  BY DEF RunnerInv, AtMostOneRunner, Runners
<1>b. SUFFICES /\ \A r, s \in Runners' : r.job = s.job => r.node = s.node
               /\ \A r \in Runners' : status'[r.job] \in Started
  BY <1>b DEF RunnerInv, AtMostOneRunner, RunnersStarted, Runners
<1>1. CASE Runners' \subseteq Runners
  BY <1>0, <1>a, <1>1
<1>2. CASE \E x \in Runs : NewRunner(x)
  <2>1. PICK x \in Runs : NewRunner(x)
    BY <1>2
  <2>2. \A r \in Runners : r.job # x.job
    BY <1>0, <2>1 DEF NewRunner, Started
  <2>3. \A r \in Runners' : r \in Runners \/ r = x
    BY <2>1 DEF NewRunner
  <2>4. status'[x.job] \in Started
    BY <2>1 DEF NewRunner, Started
  <2> QED
    BY <1>0, <1>a, <2>2, <2>3, <2>4
<1> QED
  BY <1>1, <1>2, RunnersStep

\* Whatever PollScheduledJobs returns to whom, at most one node executes a job.
THEOREM OneRunner == Spec => []AtMostOneRunner
<1>1. Spec => []TypeInv
  BY TypeInit, TypeStep, PTL DEF Spec
<1>2. Init => RunnerInv
  BY DEF Init, RunnerInv, AtMostOneRunner, RunnersStarted, Runners
<1>3. RunnerInv => AtMostOneRunner
  BY DEF RunnerInv
<1> QED
  BY <1>1, <1>2, <1>3, RunnerStep, PTL DEF Spec

-----------------------------------------------------------------------------
(* Outcomes, when every node is an agent *)

\* A /complete that passed its identity check is of the node that the row
\* still names, since the row of a started job is never rebound; ReportJob is
\* the protocol nodes'.
OutcomeInv ==
    \A q \in pending : /\ q.op # "report"
                       /\ q.op = "complete" => /\ status[q.job] \in Started
                                               /\ node[q.job] = q.by

\* The node of a started job is fixed.
LEMMA StartedFixed ==
    ASSUME TypeInv, [Next]_vars, NEW j \in JobIds, status[j] \in Started
    PROVE  node'[j] = node[j]
<1>1. CASE Quiet(j)
  BY <1>1 DEF Quiet, SameBinding
<1>2. CASE Effect(j)
  BY <1>2 DEF Effect, Advanced, Submitted, Confirmed, Completed, Rescheduled,
     Rerouted, SameBinding, Started
<1> QED
  BY <1>1, <1>2, StepEffect DEF AllQuiet, OneEffect

\* Where an outcome request can come from: it was there, or CompleteCheck has
\* just let it through for a runner.
Outcomes == {q \in pending : q.op \in {"complete", "report"}}

FromRunner(q) == /\ q.op = "complete"
                 /\ \E r \in Runners : q.job = r.job /\ q.by = r.node /\ node[r.job] = r.node

LEMMA OutcomesStep ==
    ASSUME ProtocolNodes = {}, TypeInv, OutcomeInv, [Next]_vars
    PROVE  \A q \in Outcomes' : q \in Outcomes \/ FromRunner(q)
<1>1. CASE pending' \subseteq pending
  BY <1>1 DEF Outcomes
<1>2. ASSUME NEW n \in Nodes, NodeStep(n)
      PROVE  pending' = pending
  BY <1>2 DEF NodeStep, Register, Evict, PollSelect, PollFlip, PollAbandon, NodeCrash
<1>3. ASSUME NEW j \in JobIds, JobStep(j)
      PROVE  Outcomes' \subseteq Outcomes
  <2>1. CASE JobConfirmCheck(j)
    <3>1. \A q \in pending' : q \in pending \/ q.op \in {"portal_confirm", "portal_decline"}
      BY <2>1 DEF JobConfirmCheck, Request
    <3> QED BY <3>1 DEF Outcomes
  <2>2. CASE ~JobConfirmCheck(j)
    <3>1. pending' = pending
      BY <1>3, <2>2 DEF JobStep, SubmitJob, ConsumerPickedUp, ConsumerDelivered,
         ProviderNoShow, HandOver, Elapse
    <3> QED BY <3>1 DEF Outcomes
  <2> QED BY <2>1, <2>2
<1>4. ASSUME NEW q \in pending, RequestStep(q)
      PROVE  pending' \subseteq pending
  <2>1. ~ReportWrite(q)
    BY DEF OutcomeInv, ReportWrite
  <2> QED
    BY <1>4, <2>1 DEF RequestStep, JobConfirm, JobDecline, StartedWrite, CompleteWrite,
       DeclineRecord, Abandon
<1>5. ASSUME NEW r \in runs, RunStep(r)
      PROVE  \A q \in Outcomes' : q \in Outcomes \/ FromRunner(q)
  <2>1. ASSUME NEW exit \in Exits, CompleteCheck(r, exit)
        PROVE  \A q \in Outcomes' : q \in Outcomes \/ FromRunner(q)
    <3>1. r \in Runners
      BY <2>1 DEF CompleteCheck, Runners
    <3>2. CASE CallerOwns(r)
      <4> DEFINE x == Request("complete", r.job, r.node, exit)
      <4>1. pending' = pending \cup {x}
        BY <2>1, <3>2 DEF CompleteCheck
      <4>2. x.op = "complete" /\ x.job = r.job /\ x.by = r.node
        BY DEF Request
      <4>3. FromRunner(x)
        BY <3>1, <3>2, <4>2 DEF FromRunner, CallerOwns
      <4> QED BY <4>1, <4>3 DEF Outcomes
    <3>3. CASE ~CallerOwns(r)
      BY <2>1, <3>3 DEF CompleteCheck, Outcomes
    <3> QED BY <3>2, <3>3
  <2>2. CASE StartedCheck(r)
    <3>1. \A q \in pending' : q \in pending \/ q.op = "started"
      BY <2>2 DEF StartedCheck, Request
    <3> QED BY <3>1 DEF Outcomes
  <2>3. CASE AgentStart(r) \/ AgentDrop(r)
    BY <1>1, <2>3 DEF AgentStart, AgentDrop
  <2>4. ~ProtocolDecline(r) /\ \A exit \in {"ok", "bad"} : ~ReportCheck(r, exit)
    BY DEF ProtocolDecline, ReportCheck
  <2> QED BY <1>5, <2>1, <2>2, <2>3, <2>4 DEF RunStep
<1>6. CASE BeginPass \/ Rebind \/ RebindError
  BY <1>1, <1>6 DEF BeginPass, Rebind, RescheduleWrite, RerouteWrite, RebindError
<1>7. ASSUME NEW row \in todo, ReapRow(row)
      PROVE  pending' = pending
  BY <1>7 DEF ReapRow, ExpireConfirmation, ExpireDispatched, ExpirePickedUp, Expire,
     RescheduleDecide, RerouteDecide
<1>8. CASE Restart \/ UNCHANGED vars
  BY <1>1, <1>8 DEF Restart, vars
<1> QED
  BY <1>1, <1>2, <1>3, <1>4, <1>5, <1>6, <1>7, <1>8 DEF Next

LEMMA OutcomeStep ==
    ASSUME ProtocolNodes = {}, TypeInv, RunnerInv, OutcomeInv, [Next]_vars
    PROVE  OutcomeInv'
<1> SUFFICES ASSUME NEW q \in pending'
             PROVE  /\ q.op # "report"
                    /\ q.op = "complete" => status'[q.job] \in Started /\ node'[q.job] = q.by
  BY DEF OutcomeInv
<1>1. CASE q \notin Outcomes'
  BY <1>1 DEF Outcomes
<1>2. CASE q \in Outcomes
  BY <1>2, StartedStays, StartedFixed DEF Outcomes, OutcomeInv, TypeInv, TypeOK, Requests
<1>3. CASE FromRunner(q)
  <2>1. PICK r \in Runners : q.job = r.job /\ q.by = r.node /\ node[r.job] = r.node
    BY <1>3 DEF FromRunner
  <2>2. r.job \in JobIds /\ status[r.job] \in Started
    BY DEF RunnerInv, RunnersStarted, Runners, Runs, TypeInv, TypeOK
  <2> QED BY <1>3, <2>1, <2>2, StartedStays, StartedFixed DEF FromRunner
<1> QED BY <1>1, <1>2, <1>3, OutcomesStep

\* Only CompleteJob ends a run.
LEMMA RunningEnds ==
    ASSUME TypeInv, [Next]_vars, NEW j \in JobIds,
           status[j] = "running", status'[j] # "running"
    PROVE  \E q \in pending : CompleteWrite(q) /\ q.job = j
<1>1. ASSUME NEW n \in Nodes PROVE ~NodeStep(n)
  BY DEF NodeStep, Register, Evict, PollSelect, PollFlip, Flipped, PollAbandon,
     NodeCrash, dbVars
<1>m. ASSUME NEW k \in JobIds, NEW to, Move(k, to), status[k] # "running"
      PROVE  FALSE
  BY <1>m DEF Move, TypeInv, TypeOK
<1>2. ASSUME NEW k \in JobIds PROVE ~JobStep(k)
  BY <1>m DEF JobStep, SubmitJob, JobConfirmCheck, ConsumerPickedUp, ConsumerDelivered,
     ProviderNoShow, HandOver, Elapse, dbVars
<1>3. ASSUME NEW q \in pending, RequestStep(q)
      PROVE  CompleteWrite(q) /\ q.job = j
  <2>0. q.job \in JobIds
    BY DEF TypeInv, TypeOK, Requests
  <2>1. CASE CompleteWrite(q)
    BY <2>0, <2>1 DEF CompleteWrite, Move, TypeInv, TypeOK
  <2>2. CASE ~CompleteWrite(q)
    BY <1>3, <1>m, <2>0, <2>2 DEF RequestStep, JobConfirm, JobDecline, StartedWrite, CanStart,
       DeclineRecord, ReportWrite, Abandon, dbVars
  <2> QED BY <2>1, <2>2
<1>4. ASSUME NEW r \in runs PROVE ~RunStep(r)
  <2>1. r.job \in JobIds
    BY DEF TypeInv, TypeOK, Runs
  <2> QED BY <1>m, <2>1 DEF RunStep, AgentStart, AgentDrop, StartedCheck, CompleteCheck,
             ProtocolDecline, Declinable, ReportCheck, dbVars
<1>5. ASSUME NEW row \in todo PROVE ~ReapRow(row)
  <2>1. row[1] \in JobIds
    BY DEF TypeInv, TypeOK
  <2> QED BY <1>m, <2>1 DEF ReapRow, ExpireConfirmation, ExpireDispatched, ExpirePickedUp,
             Expire, RescheduleDecide, RerouteDecide, dbVars
<1>6. ~(BeginPass \/ RescheduleWrite \/ RebindError \/ Restart \/ UNCHANGED vars)
  BY DEF BeginPass, RescheduleWrite, RebindError, Restart, vars, dbVars
<1>7. ~RerouteWrite
  <2>1. work # NoWork => work.job \in JobIds
    BY DEF TypeInv, TypeOK
  <2> QED BY <1>m, <2>1 DEF RerouteWrite
<1> QED BY <1>1, <1>2, <1>3, <1>4, <1>5, <1>6, <1>7 DEF Next, Rebind

\* When every node is an agent, the outcome of a run is written by the node
\* that the row names, however polls, expiries and rebinds interleave with
\* handleCompleteJob's check and CompleteJob's UPDATE.  With protocol nodes
\* ReportJob breaks it.
THEOREM OutcomesBound ==
    ASSUME ProtocolNodes = {}
    PROVE  Spec => OutcomeByBoundNode
<1>1. Spec => []TypeInv
  BY TypeInit, TypeStep, PTL DEF Spec
<1>2. Init => RunnerInv /\ OutcomeInv
  BY DEF Init, RunnerInv, AtMostOneRunner, RunnersStarted, Runners, OutcomeInv
<1>3. TypeInv /\ RunnerInv /\ OutcomeInv /\ [Next]_vars => RunnerInv' /\ OutcomeInv'
  BY RunnerStep, OutcomeStep
<1>4. TypeInv /\ OutcomeInv /\ [Next]_vars =>
        \A j \in JobIds :
            status[j] = "running" /\ status'[j] # "running"
                => \E q \in pending \ pending' :
                      q.op = "complete" /\ q.job = j /\ q.by = node[j]
  BY RunningEnds DEF OutcomeInv, CompleteWrite
<1> QED
  BY <1>1, <1>2, <1>3, <1>4, PTL DEF Spec, OutcomeByBoundNode

-----------------------------------------------------------------------------
(* Jobs implements JobLifecycle *)

\* What each status stands for.
LEMMA PhaseValues ==
    /\ phaseOf["none"] = "absent"
    /\ \A s \in {"awaiting_confirmation", "scheduled", "dispatched", "declined"} :
          phaseOf[s] = "placing"
    /\ phaseOf["running"] = "executing"
    /\ \A s \in {"awaiting_pickup", "picked_up"} : phaseOf[s] = "handover"
    /\ \A s \in {"completed", "delivered"} : phaseOf[s] = "done"
    /\ phaseOf["failed"] = "failed"
BY DEF phaseOf, Statuses

\* What Phase and Worker say of a row, before and after a step.
LEMMA RowAbstraction ==
    ASSUME NEW j \in JobIds
    PROVE  /\ Phase[j] = phaseOf[status[j]]
           /\ Phase'[j] = phaseOf[status'[j]]
           /\ Worker[j] = IF Phase[j] \in {"absent", "placing"} THEN NoNode ELSE node[j]
           /\ Worker'[j] = IF Phase'[j] \in {"absent", "placing"} THEN NoNode ELSE node'[j]
BY DEF Phase, Worker

\* A quiet row looks the same in the life cycle.
LEMMA QuietStutters ==
    ASSUME NEW k \in JobIds, Quiet(k)
    PROVE  Phase'[k] = Phase[k] /\ Worker'[k] = Worker[k]
<1>1. phaseOf[status'[k]] = phaseOf[status[k]]
  BY PhaseValues DEF Quiet
<1>2. node'[k] = node[k]
  BY DEF Quiet, SameBinding
<1> QED
  BY <1>1, <1>2, RowAbstraction

\* The steps of the life cycle, seen at row j.
Stutters(j) == Phase'[j] = Phase[j] /\ Worker'[j] = Worker[j] /\ metered' = metered

Places(j) ==
    /\ Phase[j] = "absent" /\ Phase'[j] = "placing"
    /\ Worker'[j] = Worker[j] /\ metered' = metered

Settles(j) ==
    /\ Phase[j] = "placing" /\ Phase'[j] \in {"executing", "failed"}
    /\ Worker'[j] \in Nodes /\ metered' = metered

Fails(j) ==
    /\ Phase[j] = "executing" /\ Phase'[j] \in {"failed", "handover"}
    /\ Worker'[j] = Worker[j] /\ metered' = metered

Finishes(j) ==
    /\ Phase[j] = "executing" /\ Phase'[j] = "done"
    /\ Worker'[j] = Worker[j] /\ metered' \in {metered, metered \cup {j}}

HandsOver(j) ==
    /\ Phase[j] = "handover" /\ Phase'[j] \in {"failed", "done"}
    /\ Worker'[j] = Worker[j] /\ metered' = metered

\* A status change is a step of the life cycle or invisible to it.
LEMMA AdvancedPhase ==
    ASSUME TypeInv, NEW j \in JobIds, Advanced(j)
    PROVE  Stutters(j) \/ Settles(j) \/ Fails(j) \/ HandsOver(j)
<1>1. node'[j] = node[j] /\ metered' = metered
  BY DEF Advanced, SameBinding
<1>2. <<status[j], status'[j]>> \in PlainEdges
  BY DEF Advanced
<1>3. node[j] \in Nodes
  BY <1>2 DEF PlainEdges, TypeInv, Placed
<1>4. \/ Phase[j] = "placing" /\ Phase'[j] \in {"placing", "executing", "failed"}
      \/ Phase[j] = "executing" /\ Phase'[j] \in {"failed", "handover"}
      \/ Phase[j] = "handover" /\ Phase'[j] \in {"handover", "failed", "done"}
  BY <1>2, PhaseValues, RowAbstraction, SMTT(30) DEF PlainEdges
<1> QED
  BY <1>1, <1>3, <1>4, RowAbstraction DEF Stutters, Settles, Fails, HandsOver

\* What an effect on row j is in the life cycle.
LEMMA EffectPhase ==
    ASSUME TypeInv, NEW j \in JobIds, Effect(j)
    PROVE  \/ Stutters(j) \/ Places(j) \/ Settles(j)
           \/ Fails(j) \/ Finishes(j) \/ HandsOver(j)
<1>a. Phase[j] = phaseOf[status[j]] /\ Phase'[j] = phaseOf[status'[j]]
  BY RowAbstraction
<1>b. Phase[j] \in {"absent", "placing"} => Worker[j] = NoNode
  BY RowAbstraction
<1>c. Phase'[j] \in {"absent", "placing"} => Worker'[j] = NoNode
  BY RowAbstraction
<1>1. CASE Advanced(j)
  BY <1>1, AdvancedPhase
<1>2. CASE Submitted(j)
  <2>1. status[j] = "none" /\ status'[j] \in {"awaiting_confirmation", "scheduled"}
    BY <1>2 DEF Submitted, SubmittedStatus
  <2>2. Phase[j] = "absent" /\ Phase'[j] = "placing"
    BY <1>a, <2>1, PhaseValues
  <2> QED BY <1>2, <1>b, <1>c, <2>2 DEF Submitted, Places
<1>3. CASE Confirmed(j)
  <2>1. Phase[j] = "placing" /\ Phase'[j] = "placing"
    BY <1>3, <1>a, PhaseValues DEF Confirmed
  <2> QED BY <1>3, <1>b, <1>c, <2>1 DEF Confirmed, Stutters
<1>4. CASE Completed(j)
  <2>1. Phase[j] = "executing" /\ Phase'[j] = "done"
    BY <1>4, <1>a, PhaseValues DEF Completed
  <2>2. Worker'[j] = Worker[j]
    BY <1>4, <2>1, RowAbstraction DEF Completed, SameBinding
  <2> QED BY <1>4, <2>1, <2>2 DEF Completed, Finishes
<1>5. CASE Rescheduled(j)
  <2>1. Phase[j] = "placing" /\ Phase'[j] = "placing"
    BY <1>5, <1>a, PhaseValues DEF Rescheduled
  <2> QED BY <1>5, <1>b, <1>c, <2>1 DEF Rescheduled, Stutters
<1>6. CASE Rerouted(j)
  <2>1. status[j] = "declined" /\ status'[j] \in {"awaiting_confirmation", "scheduled"}
    BY <1>6 DEF Rerouted, ReroutedStatus
  <2>2. Phase[j] = "placing" /\ Phase'[j] = "placing"
    BY <1>a, <2>1, PhaseValues
  <2> QED BY <1>6, <1>b, <1>c, <2>2 DEF Rerouted, Stutters
<1> QED
  BY <1>1, <1>2, <1>3, <1>4, <1>5, <1>6 DEF Effect

\* A function that changes at one point only.
LEMMA PointChange ==
    ASSUME NEW S, NEW f, NEW g, f = [k \in S |-> f[k]], g = [k \in S |-> g[k]],
           NEW j \in S, \A k \in S \ {j} : g[k] = f[k]
    PROVE  g = [f EXCEPT ![j] = g[j]]
OBVIOUS

\* Every step of Jobs is a step of the life cycle or a stutter.
LEMMA LifecycleStep ==
    ASSUME TypeInv, [Next]_vars
    PROVE  [Lifecycle!LifecycleNext]_(Lifecycle!lifecycleVars)
<1>f. /\ Phase = [k \in JobIds |-> Phase[k]] /\ Phase' = [k \in JobIds |-> Phase'[k]]
      /\ Worker = [k \in JobIds |-> Worker[k]] /\ Worker' = [k \in JobIds |-> Worker'[k]]
  BY DEF Phase, Worker
<1>1. CASE AllQuiet
  <2>1. \A k \in JobIds : Phase'[k] = Phase[k] /\ Worker'[k] = Worker[k]
    BY <1>1, QuietStutters DEF AllQuiet
  <2>2. Phase' = Phase /\ Worker' = Worker
    BY <1>f, <2>1
  <2> QED
    BY <1>1, <2>2 DEF AllQuiet, Lifecycle!lifecycleVars
<1>2. CASE OneEffect
  <2>1. PICK j \in JobIds : Effect(j) /\ \A k \in JobIds \ {j} : Quiet(k)
    BY <1>2 DEF OneEffect
  <2>2. \A k \in JobIds \ {j} : Phase'[k] = Phase[k] /\ Worker'[k] = Worker[k]
    BY <2>1, QuietStutters
  <2>3. Phase' = [Phase EXCEPT ![j] = Phase'[j]]
    BY <1>f, <2>2, PointChange
  <2>4. Worker' = [Worker EXCEPT ![j] = Worker'[j]]
    BY <1>f, <2>2, PointChange
  <2>5. Worker'[j] = Worker[j] => Worker' = Worker
    BY <1>f, <2>4
  <2>6. Phase'[j] = Phase[j] => Phase' = Phase
    BY <1>f, <2>3
  <2>7. CASE Stutters(j)
    BY <2>5, <2>6, <2>7 DEF Stutters, Lifecycle!lifecycleVars
  <2>8. CASE Places(j)
    <3>1. Lifecycle!Place(j)
      BY <2>3, <2>5, <2>8 DEF Places, Lifecycle!Place
    <3> QED
      BY <3>1 DEF Lifecycle!LifecycleNext
  <2>9. CASE Settles(j)
    <3>1. Lifecycle!Settle(j)
      BY <2>3, <2>4, <2>9 DEF Settles, Lifecycle!Settle
    <3> QED
      BY <3>1 DEF Lifecycle!LifecycleNext
  <2>10. CASE Fails(j) \/ Finishes(j)
    <3>1. Lifecycle!Finish(j)
      BY <2>3, <2>5, <2>10 DEF Fails, Finishes, Lifecycle!Finish
    <3> QED
      BY <3>1 DEF Lifecycle!LifecycleNext
  <2>11. CASE HandsOver(j)
    <3>1. Lifecycle!HandOver(j)
      BY <2>3, <2>5, <2>11 DEF HandsOver, Lifecycle!HandOver
    <3> QED
      BY <3>1 DEF Lifecycle!LifecycleNext
  <2> QED
    BY <2>1, <2>7, <2>8, <2>9, <2>10, <2>11, EffectPhase
<1> QED
  BY <1>1, <1>2, StepEffect

\* The job table, with every race, loss and restart of the model, implements
\* the life cycle: a job starts once, its node is then fixed, it closes once.
THEOREM Refinement == Spec => ImplementsLifecycle
<1>1. Spec => []TypeInv
  BY TypeInit, TypeStep, PTL DEF Spec
<1>2. Init => Lifecycle!LifecycleInit
  BY DEF Init, Lifecycle!LifecycleInit, Phase, Worker, phaseOf, Statuses
<1>3. TypeInv /\ [Next]_vars
        => [Lifecycle!LifecycleNext]_(Lifecycle!lifecycleVars)
  BY LifecycleStep
<1> QED
  BY <1>1, <1>2, <1>3, PTL DEF Spec, ImplementsLifecycle, Lifecycle!LifecycleSpec

=============================================================================
