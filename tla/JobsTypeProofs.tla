-------------------------- MODULE JobsTypeProofs ----------------------------
(***************************************************************************)
(* Type correctness of Jobs, and what its decline rows exclude, for any    *)
(* number of nodes, jobs, members, requests in flight and restarts.        *)
(*                                                                         *)
(* TypeInv is the type invariant strengthened until it is inductive: a job *)
(* with a row is bound to a node, a decline in flight comes from a node,   *)
(* and a rebind in flight has a target that its UPDATE may write.          *)
(***************************************************************************)
EXTENDS Jobs, TLAPS

\* A job that has a row is bound to a node.
Placed == \A j \in JobIds : status[j] # "none" => node[j] \in Nodes

\* A protocol decline between its two statements comes from a node.
DeclinesFromNodes == \A q \in pending : q.op = "decline" => q.by \in Nodes

\* A rebind that has been decided: never to a node of the job's consumer, and
\* in the stale pass always to a node and never of a print job.
WorkInv ==
    work # NoWork =>
        /\ work.target # NoNode => Owner[work.target] # Consumer[work.job]
        /\ pass = "stale" => work.target \in Nodes /\ work.job \notin PrintJobs

TypeInv == TypeOK /\ Placed /\ DeclinesFromNodes /\ WorkInv

\* SubmitJob, reroute and rebind choose among the nodes of the registry.
LEMMA FindMatchNodes ==
    ASSUME TypeOK, NEW j \in JobIds, NEW x
    PROVE  /\ FindMatch(j, x) \subseteq Nodes
           /\ \A n \in FindMatch(j, x) : Owner[n] # Consumer[j]
BY ConstantsAssumption DEF TypeOK, FindMatch

\* Initially every variable has its type.
LEMMA TypeInit == Init => TypeInv
BY ConstantsAssumption DEF Init, TypeInv, TypeOK, Placed, DeclinesFromNodes,
   WorkInv, Statuses, Passes

\* The steps of the registry, the polls and a node's crash keep the types.
LEMMA TypeNodeStep ==
    ASSUME TypeInv, NEW n \in Nodes, NodeStep(n)
    PROVE  TypeInv'
<1> USE DEF TypeInv, TypeOK, Placed, DeclinesFromNodes, WorkInv
<1>1. CASE Register(n)
  BY <1>1 DEF Register, dbVars, reaperVars
<1>2. CASE Evict(n)
  BY <1>2 DEF Evict, dbVars, reaperVars
<1>3. CASE PollSelect(n)
  BY <1>3 DEF PollSelect, Pollable, dbVars, reaperVars
<1>4. CASE PollFlip(n)
  BY <1>4 DEF PollFlip, Flipped, Run, Runs, Stages, Statuses, reaperVars
<1>5. CASE PollAbandon(n)
  BY <1>5 DEF PollAbandon, dbVars, reaperVars
<1>6. CASE NodeCrash(n)
  BY <1>6 DEF NodeCrash, dbVars, reaperVars
<1> QED
  BY <1>1, <1>2, <1>3, <1>4, <1>5, <1>6 DEF NodeStep

\* The steps of consumers, providers and clocks keep the types.
LEMMA TypeJobStep ==
    ASSUME TypeInv, NEW j \in JobIds, JobStep(j)
    PROVE  TypeInv'
<1> USE DEF TypeInv, TypeOK, Placed, DeclinesFromNodes, WorkInv
<1>1. CASE SubmitJob(j)
  BY <1>1, FindMatchNodes
  DEF SubmitJob, Move, SubmittedStatus, Statuses, reaperVars
<1>2. CASE JobConfirmCheck(j)
  BY <1>2, ConstantsAssumption
  DEF JobConfirmCheck, Request, Requests, Exits, dbVars, reaperVars
<1>3. CASE ConsumerPickedUp(j)
  BY <1>3 DEF ConsumerPickedUp, HandOver, Move, Statuses, reaperVars
<1>4. CASE ConsumerDelivered(j)
  BY <1>4 DEF ConsumerDelivered, HandOver, Move, Statuses, reaperVars
<1>5. CASE ProviderNoShow(j)
  BY <1>5 DEF ProviderNoShow, HandOver, Move, Statuses, reaperVars
<1>6. CASE Elapse(j)
  BY <1>6 DEF Elapse, reaperVars
<1> QED
  BY <1>1, <1>2, <1>3, <1>4, <1>5, <1>6 DEF JobStep

\* The write of a request keeps the types.
LEMMA TypeRequestStep ==
    ASSUME TypeInv, NEW q \in pending, RequestStep(q)
    PROVE  TypeInv'
<1> USE DEF TypeInv, TypeOK, Placed, DeclinesFromNodes, WorkInv
<1>0. q.job \in JobIds /\ q.by \in Nodes \cup Members /\ q.exit \in Exits
  BY DEF Requests
<1>1. CASE JobConfirm(q)
  BY <1>0, <1>1 DEF JobConfirm, Move, Statuses, reaperVars
<1>2. CASE JobDecline(q)
  BY <1>0, <1>2 DEF JobDecline, Move, Statuses, reaperVars
<1>3. CASE StartedWrite(q)
  <2>1. runs' \subseteq Runs
    BY <1>0, <1>3 DEF StartedWrite, Run, Runs, Stages
  <2>2. /\ status' \in [JobIds -> Statuses]
        /\ overdue' \subseteq JobIds
        /\ \A j \in JobIds : status'[j] # "none" => status[j] # "none"
    BY <1>0, <1>3 DEF StartedWrite, CanStart, Move, Statuses
  <2> QED
    BY <1>3, <2>1, <2>2 DEF StartedWrite, reaperVars
<1>4. CASE CompleteWrite(q)
  <2>1. NewStatus(q.job, q.exit) \in Statuses \ {"none"}
    BY <1>0 DEF NewStatus, Statuses, Exits
  <2> QED
    BY <1>0, <1>4, <2>1 DEF CompleteWrite, CanComplete, Move, reaperVars
<1>5. CASE DeclineRecord(q)
  BY <1>0, <1>5 DEF DeclineRecord, reaperVars
<1>6. CASE ReportWrite(q)
  <2>1. pending' \subseteq Requests /\ DeclinesFromNodes'
    BY <1>0, <1>6 DEF ReportWrite, Request, Requests
  <2>2. /\ status' \in [JobIds -> Statuses]
        /\ overdue' \subseteq JobIds
        /\ \A j \in JobIds : status'[j] # "none" => status[j] # "none"
    BY <1>0, <1>6 DEF ReportWrite, CanStart, Move, Statuses
  <2> QED
    BY <1>6, <2>1, <2>2 DEF ReportWrite, reaperVars
<1>7. CASE Abandon(q)
  BY <1>0, <1>7 DEF Abandon, dbVars, reaperVars
<1> QED
  BY <1>1, <1>2, <1>3, <1>4, <1>5, <1>6, <1>7 DEF RequestStep

\* The steps of a node that holds an assignment keep the types.
LEMMA TypeRunStep ==
    ASSUME TypeInv, NEW r \in runs, RunStep(r)
    PROVE  TypeInv'
<1> USE DEF TypeInv, TypeOK, Placed, DeclinesFromNodes, WorkInv
<1>0. r.job \in JobIds /\ r.node \in Nodes
  BY DEF Runs
<1>1. CASE AgentStart(r)
  <2>1. runs' \subseteq Runs
    BY <1>0, <1>1 DEF AgentStart, Run, Runs, Stages
  <2> QED
    BY <1>1, <2>1 DEF AgentStart, dbVars, reaperVars
<1>2. CASE AgentDrop(r)
  BY <1>0, <1>2 DEF AgentDrop, dbVars, reaperVars
<1>3. CASE StartedCheck(r)
  <2>1. runs' \subseteq Runs
    BY <1>0, <1>3 DEF StartedCheck, Run, Runs, Stages
  <2>2. pending' \subseteq Requests /\ DeclinesFromNodes'
    BY <1>0, <1>3 DEF StartedCheck, Request, Requests, Exits
  <2> QED
    BY <1>3, <2>1, <2>2 DEF StartedCheck, dbVars, reaperVars
<1>4. ASSUME NEW exit \in Exits, CompleteCheck(r, exit)
      PROVE  TypeInv'
  <2>1. pending' \subseteq Requests /\ DeclinesFromNodes'
    BY <1>0, <1>4 DEF CompleteCheck, Request, Requests
  <2> QED
    BY <1>4, <2>1 DEF CompleteCheck, dbVars, reaperVars
<1>5. CASE ProtocolDecline(r)
  <2>1. pending' \subseteq Requests /\ DeclinesFromNodes'
    BY <1>0, <1>5 DEF ProtocolDecline, Request, Requests, Exits
  <2>2. /\ status' \in [JobIds -> Statuses]
        /\ overdue' \subseteq JobIds
        /\ \A j \in JobIds : status'[j] # "none" => status[j] # "none"
    BY <1>0, <1>5 DEF ProtocolDecline, Declinable, Move, Statuses
  <2> QED
    BY <1>5, <2>1, <2>2 DEF ProtocolDecline, reaperVars
<1>6. ASSUME NEW exit \in {"ok", "bad"}, ReportCheck(r, exit)
      PROVE  TypeInv'
  <2>1. pending' \subseteq Requests /\ DeclinesFromNodes'
    BY <1>0, <1>6 DEF ReportCheck, Request, Requests, Exits
  <2> QED
    BY <1>6, <2>1 DEF ReportCheck, dbVars, reaperVars
<1> QED
  BY <1>1, <1>2, <1>3, <1>4, <1>5, <1>6 DEF RunStep

\* One guarded UPDATE of an expiry pass keeps the types.
LEMMA TypeExpire ==
    ASSUME TypeInv, NEW row \in todo, NEW p, NEW from \in Statuses \ {"none"},
           NEW to \in Statuses \ {"none"}, Expire(row, p, from, to)
    PROVE  TypeInv'
<1> USE DEF TypeInv, TypeOK, Placed, DeclinesFromNodes, WorkInv
<1>1. row[1] \in JobIds /\ todo' \subseteq JobIds \X Nodes
  BY DEF Expire
<1>2. /\ status' \in [JobIds -> Statuses]
      /\ overdue' \subseteq JobIds
      /\ \A j \in JobIds : status'[j] # "none" => status[j] # "none"
  BY <1>1 DEF Expire, Move
<1> QED
  BY <1>1, <1>2 DEF Expire

\* One iteration of a pass keeps the types.
LEMMA TypeReapRow ==
    ASSUME TypeInv, NEW row \in todo, ReapRow(row)
    PROVE  TypeInv'
<1>0. row[1] \in JobIds /\ row[2] \in Nodes
  BY DEF TypeInv, TypeOK
<1>a. {"awaiting_confirmation", "declined", "dispatched", "scheduled", "picked_up",
       "delivered"} \subseteq Statuses \ {"none"}
  BY DEF Statuses
<1>1. CASE ExpireConfirmation(row)
  BY <1>1, <1>a, TypeExpire DEF ExpireConfirmation
<1>2. CASE ExpireDispatched(row)
  BY <1>2, <1>a, TypeExpire DEF ExpireDispatched
<1>3. CASE ExpirePickedUp(row)
  BY <1>3, <1>a, TypeExpire DEF ExpirePickedUp
<1>4. CASE RescheduleDecide(row)
  <2> DEFINE Cand == FindMatch(row[1], {row[2]} \cup DeclinedBy(row[1]))
  <2>1. Cand \subseteq Nodes /\ \A n \in Cand : Owner[n] # Consumer[row[1]]
    BY <1>0, FindMatchNodes DEF TypeInv
  <2>2. \/ work' = NoWork
        \/ /\ row[1] \notin PrintJobs
           /\ \E n \in Cand :
                 work' = [job |-> row[1], old |-> row[2], target |-> n]
    BY <1>4 DEF RescheduleDecide
  <2> HIDE DEF Cand
  <2>3. work' \in {NoWork} \cup
                [job : JobIds, old : Nodes, target : Nodes \cup {NoNode}]
    BY <1>0, <2>1, <2>2
  <2>4. WorkInv'
    BY <2>1, <2>2 DEF WorkInv
  <2> QED
    BY <1>4, <2>3, <2>4
    DEF RescheduleDecide, dbVars, TypeInv, TypeOK, Placed, DeclinesFromNodes
<1>5. CASE RerouteDecide(row)
  <2> DEFINE Cand == FindMatch(row[1], DeclinedBy(row[1]))
  <2>1. Cand \subseteq Nodes /\ \A n \in Cand : Owner[n] # Consumer[row[1]]
    BY <1>0, FindMatchNodes DEF TypeInv
  <2>2. \E n \in Cand \cup {NoNode} :
            work' = [job |-> row[1], old |-> row[2], target |-> n]
    BY <1>5 DEF RerouteDecide
  <2>a. pass' = "declined"
    BY <1>5 DEF RerouteDecide
  <2> HIDE DEF Cand
  <2>3. work' \in {NoWork} \cup
                [job : JobIds, old : Nodes, target : Nodes \cup {NoNode}]
    BY <1>0, <2>1, <2>2
  <2>4. WorkInv'
    BY <2>1, <2>2, <2>a DEF WorkInv
  <2> QED
    BY <1>5, <2>3, <2>4
    DEF RerouteDecide, dbVars, TypeInv, TypeOK, Placed, DeclinesFromNodes
<1> QED
  BY <1>1, <1>2, <1>3, <1>4, <1>5 DEF ReapRow

\* The steps of the reroute loop keep the types.
LEMMA TypeLoopStep ==
    ASSUME TypeInv,
           \/ BeginPass
           \/ \E row \in todo : ReapRow(row)
           \/ Rebind
           \/ RebindError
    PROVE  TypeInv'
<1> USE DEF TypeInv, TypeOK, Placed, DeclinesFromNodes, WorkInv
<1>1. CASE BeginPass
  <2>1. pass' \in Passes
    BY <1>1 DEF BeginPass, NextPass, Passes
  <2>2. Listed(pass') \subseteq JobIds \X Nodes
    BY <2>1 DEF Listed, Passes
  <2> QED
    BY <1>1, <2>1, <2>2 DEF BeginPass, dbVars
<1>2. CASE \E row \in todo : ReapRow(row)
  BY <1>2, TypeReapRow
<1>3. CASE RescheduleWrite
  BY <1>3 DEF RescheduleWrite, StillStale
<1>4. CASE RerouteWrite
  <2>1. work.job \in JobIds /\ work.target \in Nodes \cup {NoNode}
    BY <1>4 DEF RerouteWrite
  <2>2. /\ status' \in [JobIds -> Statuses]
        /\ overdue' \subseteq JobIds
        /\ node' \in [JobIds -> Nodes \cup {NoNode}]
        /\ consent' \in [JobIds -> Nodes \cup {NoNode}]
    BY <1>4, <2>1 DEF RerouteWrite, ReroutedStatus, Move, Statuses
  <2>3. Placed'
    BY <1>4, <2>1 DEF RerouteWrite, Move
  <2> QED
    BY <1>4, <2>2, <2>3 DEF RerouteWrite
<1>5. CASE RebindError
  BY <1>5 DEF RebindError, dbVars
<1> QED
  BY <1>1, <1>2, <1>3, <1>4, <1>5 DEF Rebind

\* Every step keeps the types.
LEMMA TypeStep == TypeInv /\ [Next]_vars => TypeInv'
<1> SUFFICES ASSUME TypeInv, [Next]_vars PROVE TypeInv'
  OBVIOUS
<1>1. CASE Restart
  <2>1. restarts' \in 0..MaxRestarts
    BY <1>1, ConstantsAssumption DEF Restart, TypeInv, TypeOK
  <2>2. /\ pending' \subseteq pending /\ runs' \subseteq runs
        /\ online' = {} /\ polled' = [n \in Nodes |-> {}]
        /\ pass' \in Passes /\ todo' = {} /\ work' = NoWork
        /\ UNCHANGED <<status, node, declines, metered, overdue, consent>>
    BY <1>1 DEF Restart, Passes, dbVars
  <2>3. TypeOK'
    BY <2>1, <2>2 DEF TypeInv, TypeOK
  <2>4. (Placed /\ DeclinesFromNodes /\ WorkInv)'
    BY <2>2 DEF TypeInv, Placed, DeclinesFromNodes, WorkInv
  <2> QED
    BY <2>3, <2>4 DEF TypeInv
<1>2. CASE UNCHANGED vars
  BY <1>2 DEF vars, TypeInv, TypeOK, Placed, DeclinesFromNodes, WorkInv
<1> QED
  BY <1>1, <1>2, TypeNodeStep, TypeJobStep, TypeRequestStep, TypeRunStep,
     TypeLoopStep DEF Next

\* Every variable keeps its type in every behaviour of the job machinery.
THEOREM TypeCorrect == Spec => []TypeOK
<1>1. TypeInv => TypeOK
  BY DEF TypeInv
<1> QED
  BY <1>1, TypeInit, TypeStep, PTL DEF Spec

-----------------------------------------------------------------------------
(* Declines of agents and portal members *)

Offered == {"awaiting_confirmation", "scheduled", "dispatched"}

\* A row as the decline rows leave it: only print jobs wait for confirmation,
\* a job without a row has no declines, and an offered job is not on a decliner.
RowOffer(j) ==
    /\ status[j] = "awaiting_confirmation" => j \in PrintJobs
    /\ status[j] = "none" => \A n \in Nodes : <<j, n>> \notin declines
    /\ status[j] \in Offered => <<j, node[j]>> \notin declines

\* What the loop has read stays true until it writes: a job it has listed as
\* declined is still declined, and has one row in the list; the target of a
\* rebind has not declined the job meanwhile.
LoopOffer ==
    /\ pass = "declined" =>
          /\ \A row \in todo : status[row[1]] = "declined"
          /\ \A row, other \in todo : row[1] = other[1] => row = other
    /\ pass = "declined" /\ work # NoWork =>
          /\ status[work.job] = "declined"
          /\ \A row \in todo : row[1] # work.job
          /\ <<work.job, work.target>> \notin declines
    /\ pass = "stale" /\ work # NoWork => <<work.job, work.target>> \notin declines

OfferInv ==
    /\ \A q \in pending : q.op # "decline"
    /\ \A j \in JobIds : RowOffer(j)
    /\ LoopOffer

\* A status change that needs no look at the decline rows.
OfferEdge(a, b) ==
    /\ a # "declined"
    /\ b \notin {"awaiting_confirmation", "none"}
    /\ b \in Offered => a \in Offered

StatusMoves == \A j \in JobIds : status'[j] = status[j] \/ OfferEdge(status[j], status'[j])

LEMMA RowsKeepOffers ==
    ASSUME OfferInv, node' = node, declines' = declines, StatusMoves
    PROVE  \A j \in JobIds : RowOffer(j)'
<1> SUFFICES ASSUME NEW j \in JobIds PROVE RowOffer(j)'
  OBVIOUS
<1>1. RowOffer(j)
  BY DEF OfferInv
<1> QED BY <1>1 DEF RowOffer, StatusMoves, OfferEdge

\* Steps outside the loop that bind no node and record no decline.
LEMMA QuietOffer ==
    ASSUME TypeInv, OfferInv, node' = node, declines' = declines, StatusMoves,
           pass' = pass, todo' = todo, work' = work, \A q \in pending' : q.op # "decline"
    PROVE  OfferInv'
<1>1. \A row \in todo : row[1] \in JobIds
  BY DEF TypeInv, TypeOK
<1>2. work # NoWork => work.job \in JobIds
  BY DEF TypeInv, TypeOK
<1>3. LoopOffer'
  BY <1>1, <1>2 DEF OfferInv, LoopOffer, StatusMoves, OfferEdge
<1> QED BY <1>3, RowsKeepOffers DEF OfferInv

\* A move along an edge is such a change.
LEMMA MoveOffers ==
    ASSUME TypeInv, NEW j \in JobIds, NEW to, OfferEdge(status[j], to), Move(j, to)
    PROVE  StatusMoves
BY DEF Move, StatusMoves, TypeInv, TypeOK

LEMMA SameStatus ==
    ASSUME status' = status
    PROVE  StatusMoves
BY DEF StatusMoves

LEMMA NodeStepOffers ==
    ASSUME TypeInv, OfferInv, NEW n \in Nodes, NodeStep(n)
    PROVE  OfferInv'
<1>1. /\ node' = node /\ declines' = declines /\ pending' = pending
      /\ pass' = pass /\ todo' = todo /\ work' = work
  BY DEF NodeStep, Register, Evict, PollSelect, PollFlip, PollAbandon, NodeCrash, dbVars,
     reaperVars
<1>2. StatusMoves
  <2>1. CASE PollFlip(n)
    BY <2>1 DEF PollFlip, Flipped, StatusMoves, OfferEdge, Offered
  <2>2. CASE ~PollFlip(n)
    BY <2>2, SameStatus DEF NodeStep, Register, Evict, PollSelect, PollAbandon, NodeCrash, dbVars
  <2> QED BY <2>1, <2>2
<1> QED BY <1>1, <1>2, QuietOffer DEF OfferInv

LEMMA JobStepOffers ==
    ASSUME TypeInv, OfferInv, NEW j \in JobIds, JobStep(j)
    PROVE  OfferInv'
<1>a. /\ declines' = declines /\ pass' = pass /\ todo' = todo /\ work' = work
      /\ \A q \in pending' : q.op # "decline"
  <2>1. CASE SubmitJob(j)
    BY <2>1 DEF SubmitJob, reaperVars, OfferInv
  <2>2. CASE JobConfirmCheck(j)
    <3>1. declines' = declines /\ pass' = pass /\ todo' = todo /\ work' = work
      BY <2>2 DEF JobConfirmCheck, dbVars, reaperVars
    <3>2. \A q \in pending' : q \in pending \/ q.op \in {"portal_confirm", "portal_decline"}
      BY <2>2 DEF JobConfirmCheck, Request
    <3> QED BY <3>1, <3>2 DEF OfferInv
  <2>3. CASE ConsumerPickedUp(j) \/ ConsumerDelivered(j) \/ ProviderNoShow(j)
    BY <2>3 DEF ConsumerPickedUp, ConsumerDelivered, ProviderNoShow, HandOver, reaperVars,
       OfferInv
  <2>4. CASE Elapse(j)
    BY <2>4 DEF Elapse, dbVars, reaperVars, OfferInv
  <2> QED BY <2>1, <2>2, <2>3, <2>4 DEF JobStep
<1>1. CASE SubmitJob(j)
  <2>1. PICK n \in FindMatch(j, {}) : node' = [node EXCEPT ![j] = n]
    BY <1>1 DEF SubmitJob
  <2>2. n \in Nodes
    BY FindMatchNodes DEF TypeInv
  <2>3. /\ node'[j] = n /\ status'[j] = SubmittedStatus(j) /\ status[j] = "none"
        /\ \A k \in JobIds : k # j => node'[k] = node[k] /\ status'[k] = status[k]
    BY <1>1, <2>1 DEF SubmitJob, Move, TypeInv, TypeOK
  <2>4. <<j, n>> \notin declines
    BY <2>2, <2>3 DEF OfferInv, RowOffer
  <2>5. RowOffer(j)'
    BY <1>a, <2>3, <2>4 DEF RowOffer, SubmittedStatus
  <2>6. \A k \in JobIds : k # j => RowOffer(k)'
    BY <1>a, <2>3 DEF OfferInv, RowOffer
  <2>7. LoopOffer'
    <3>1. \A k \in JobIds : status[k] = "declined" => status'[k] = "declined"
      BY <2>3
    <3>2. \A row \in todo : row[1] \in JobIds
      BY DEF TypeInv, TypeOK
    <3>3. work # NoWork => work.job \in JobIds
      BY DEF TypeInv, TypeOK
    <3> QED BY <1>a, <3>1, <3>2, <3>3 DEF OfferInv, LoopOffer
  <2> QED BY <1>a, <2>5, <2>6, <2>7 DEF OfferInv
<1>2. CASE ConsumerPickedUp(j) \/ ConsumerDelivered(j) \/ ProviderNoShow(j)
  <2>1. StatusMoves
    BY <1>2, MoveOffers DEF ConsumerPickedUp, ConsumerDelivered, ProviderNoShow, HandOver,
       OfferEdge, Offered
  <2> QED BY <1>a, <1>2, <2>1, QuietOffer
          DEF ConsumerPickedUp, ConsumerDelivered, ProviderNoShow, HandOver
<1>3. CASE JobConfirmCheck(j) \/ Elapse(j)
  BY <1>a, <1>3, SameStatus, QuietOffer DEF JobConfirmCheck, Elapse, dbVars
<1> QED BY <1>1, <1>2, <1>3 DEF JobStep

LEMMA RequestStepOffers ==
    ASSUME TypeInv, OfferInv, NEW q \in pending, RequestStep(q)
    PROVE  OfferInv'
<1>0. q.job \in JobIds /\ q.exit \in Exits /\ q.op # "decline"
  BY DEF TypeInv, TypeOK, Requests, OfferInv
<1>a. /\ pass' = pass /\ todo' = todo /\ work' = work /\ node' = node
      /\ \A x \in pending' : x.op # "decline"
  <2>1. CASE ReportWrite(q)
    <3>1. pass' = pass /\ todo' = todo /\ work' = work /\ node' = node
      BY <2>1 DEF ReportWrite, reaperVars
    <3>2. \A x \in pending' : x.op # "decline"
      BY <2>1 DEF ReportWrite, OfferInv, Request
    <3> QED BY <3>1, <3>2
  <2>2. CASE JobConfirm(q) \/ JobDecline(q)
    <3>1. /\ pass' = pass /\ todo' = todo /\ work' = work /\ node' = node
          /\ pending' = pending \ {q}
      BY <2>2 DEF JobConfirm, JobDecline, reaperVars
    <3> QED BY <3>1 DEF OfferInv
  <2>3. CASE StartedWrite(q) \/ CompleteWrite(q)
    <3>1. /\ pass' = pass /\ todo' = todo /\ work' = work /\ node' = node
          /\ pending' = pending \ {q}
      BY <2>3 DEF StartedWrite, CompleteWrite, reaperVars
    <3> QED BY <3>1 DEF OfferInv
  <2>4. CASE DeclineRecord(q) \/ Abandon(q)
    <3>1. /\ pass' = pass /\ todo' = todo /\ work' = work /\ node' = node
          /\ pending' = pending \ {q}
      BY <2>4 DEF DeclineRecord, Abandon, dbVars, reaperVars
    <3> QED BY <3>1 DEF OfferInv
  <2> QED BY <2>1, <2>2, <2>3, <2>4 DEF RequestStep
<1>1. CASE JobConfirm(q)
  <2>1. StatusMoves
    BY <1>0, <1>1, MoveOffers, SameStatus DEF JobConfirm, OfferEdge, Offered
  <2> QED BY <1>a, <1>1, <2>1, QuietOffer DEF JobConfirm
<1>2. CASE StartedWrite(q)
  <2>1. StatusMoves
    BY <1>0, <1>2, MoveOffers, SameStatus DEF StartedWrite, CanStart, OfferEdge, Offered
  <2> QED BY <1>a, <1>2, <2>1, QuietOffer DEF StartedWrite
<1>3. CASE CompleteWrite(q)
  <2>1. NewStatus(q.job, q.exit) \in {"failed", "awaiting_pickup", "completed"}
    BY <1>0 DEF NewStatus, Exits
  <2>2. StatusMoves
    BY <1>0, <1>3, <2>1, MoveOffers, SameStatus DEF CompleteWrite, CanComplete, OfferEdge, Offered
  <2> QED BY <1>a, <1>3, <2>2, QuietOffer DEF CompleteWrite
<1>4. CASE ReportWrite(q)
  <2>1. StatusMoves
    BY <1>0, <1>4, MoveOffers, SameStatus DEF ReportWrite, CanStart, OfferEdge, Offered
  <2> QED BY <1>a, <1>4, <2>1, QuietOffer DEF ReportWrite
<1>5. CASE Abandon(q)
  BY <1>a, <1>5, SameStatus, QuietOffer DEF Abandon, dbVars
<1>6. CASE JobDecline(q)
  <2> DEFINE j == q.job
  <2>1. CASE ~(status[j] = "awaiting_confirmation" /\ <<j, node[j]>> \notin declines)
    BY <1>a, <1>6, <2>1, SameStatus, QuietOffer DEF JobDecline
  <2>2. CASE status[j] = "awaiting_confirmation" /\ <<j, node[j]>> \notin declines
    <3>1. /\ Move(j, "declined") /\ declines' = declines \cup {<<j, node[j]>>}
      BY <1>6, <2>2 DEF JobDecline
    <3>2. /\ status'[j] = "declined"
          /\ \A k \in JobIds : k # j => status'[k] = status[k]
      BY <1>0, <3>1 DEF Move, TypeInv, TypeOK
    <3>3. \A k \in JobIds, n \in Nodes \cup {NoNode} :
             k # j => (<<k, n>> \in declines' <=> <<k, n>> \in declines)
      BY <3>1
    <3>4. RowOffer(j)'
      BY <3>2 DEF RowOffer, Offered
    <3>5. ASSUME NEW k \in JobIds, k # j PROVE RowOffer(k)'
      <4>1. RowOffer(k) /\ node[k] \in Nodes \cup {NoNode}
        BY DEF OfferInv, TypeInv, TypeOK
      <4> QED BY <1>a, <3>2, <3>3, <3>5, <4>1 DEF RowOffer
    <3>6. LoopOffer'
      <4>1. \A row \in todo : row[1] \in JobIds
        BY DEF TypeInv, TypeOK
      <4>2. work # NoWork => work.job \in JobIds /\ work.target \in Nodes \cup {NoNode}
        BY DEF TypeInv, TypeOK
      <4>3. \A k \in JobIds : status[k] = "declined" => status'[k] = "declined" /\ k # j
        BY <2>2, <3>2
      <4>4. pass = "stale" /\ work # NoWork => work.job # j
        BY <1>0, <2>2 DEF TypeInv, WorkInv, OfferInv, RowOffer
      <4> QED BY <1>a, <3>3, <4>1, <4>2, <4>3, <4>4 DEF OfferInv, LoopOffer
    <3> QED BY <1>a, <3>4, <3>5, <3>6 DEF OfferInv
  <2> QED BY <2>1, <2>2
<1> QED BY <1>0, <1>1, <1>2, <1>3, <1>4, <1>5, <1>6 DEF RequestStep, DeclineRecord

LEMMA RunStepOffers ==
    ASSUME TypeInv, OfferInv, ProtocolNodes = {}, NEW r \in runs, RunStep(r)
    PROVE  OfferInv'
<1>a. ~ProtocolDecline(r) /\ \A exit \in {"ok", "bad"} : ~ReportCheck(r, exit)
  BY DEF ProtocolDecline, ReportCheck
<1>1. /\ node' = node /\ declines' = declines /\ status' = status
      /\ pass' = pass /\ todo' = todo /\ work' = work
  BY <1>a DEF RunStep, AgentStart, AgentDrop, StartedCheck, CompleteCheck, dbVars, reaperVars
<1>2. \A q \in pending' : q \in pending \/ q.op \in {"started", "complete"}
  <2>1. CASE AgentStart(r) \/ AgentDrop(r)
    BY <2>1 DEF AgentStart, AgentDrop
  <2>2. CASE StartedCheck(r)
    BY <2>2 DEF StartedCheck, Request
  <2>3. CASE \E exit \in Exits : CompleteCheck(r, exit)
    BY <2>3 DEF CompleteCheck, Request
  <2> QED BY <1>a, <2>1, <2>2, <2>3 DEF RunStep
<1>3. \A q \in pending' : q.op # "decline"
  BY <1>2 DEF OfferInv
<1> QED BY <1>1, <1>3, SameStatus, QuietOffer

\* The writes of the loop, one row at a time.
LEMMA LoopStepOffers ==
    ASSUME TypeInv, OfferInv,
           \/ BeginPass
           \/ \E row \in todo : ReapRow(row)
           \/ Rebind
           \/ RebindError
           \/ Restart
    PROVE  OfferInv'
<1>a. /\ declines' = declines
      /\ \A q \in pending' : q.op # "decline"
  BY DEF BeginPass, ReapRow, ExpireConfirmation, ExpireDispatched, ExpirePickedUp, Expire,
     RescheduleDecide, RerouteDecide, Rebind, RescheduleWrite, RerouteWrite, RebindError,
     Restart, dbVars, OfferInv
<1>b. \A row \in todo : row[1] \in JobIds /\ row[2] \in Nodes
  BY DEF TypeInv, TypeOK
<1>c. work # NoWork => work.job \in JobIds /\ work.target \in Nodes \cup {NoNode}
  BY DEF TypeInv, TypeOK
<1>d. ASSUME status' = status, node' = node PROVE \A j \in JobIds : RowOffer(j)'
  BY <1>a, <1>d, SameStatus, RowsKeepOffers
<1>1. CASE BeginPass
  <2>1. /\ status' = status /\ node' = node /\ todo' = Listed(pass') /\ work' = work
        /\ work = NoWork
    BY <1>1 DEF BeginPass, dbVars
  <2>2. pass' = "declined" => Listed(pass') = {<<j, node[j]>> : j \in {k \in JobIds : status[k] = "declined"}}
    BY DEF Listed
  <2>3. LoopOffer'
    BY <2>1, <2>2 DEF LoopOffer
  <2> QED BY <1>a, <1>d, <2>1, <2>3 DEF OfferInv
<1>2. ASSUME NEW row \in todo, NEW p, NEW from, NEW to, Expire(row, p, from, to),
             OfferEdge(from, to), p \notin {"declined", "stale"}
      PROVE  OfferInv'
  <2>1. StatusMoves
    BY <1>b, <1>2, MoveOffers, SameStatus DEF Expire
  <2>2. node' = node /\ pass' = p
    BY <1>2 DEF Expire
  <2>3. LoopOffer'
    BY <1>2, <2>2 DEF LoopOffer
  <2> QED BY <1>a, <2>1, <2>2, <2>3, RowsKeepOffers DEF OfferInv
<1>3. ASSUME NEW row \in todo, RescheduleDecide(row) PROVE OfferInv'
  <2>1. status' = status /\ node' = node /\ pass' = pass /\ pass = "stale"
    BY <1>3 DEF RescheduleDecide, dbVars
  <2>2. \/ work' = NoWork
        \/ \E n \in FindMatch(row[1], {row[2]} \cup DeclinedBy(row[1])) :
              work' = [job |-> row[1], old |-> row[2], target |-> n]
    BY <1>3 DEF RescheduleDecide
  <2>3. work' # NoWork => <<work'.job, work'.target>> \notin declines
    <3>1. ASSUME NEW n \in FindMatch(row[1], {row[2]} \cup DeclinedBy(row[1])),
                 work' = [job |-> row[1], old |-> row[2], target |-> n]
          PROVE  <<work'.job, work'.target>> \notin declines
      <4>1. n \in Nodes /\ n \notin DeclinedBy(row[1])
        BY DEF FindMatch, TypeInv, TypeOK
      <4> QED BY <3>1, <4>1 DEF DeclinedBy
    <3> QED BY <2>2, <3>1
  <2>4. LoopOffer'
    BY <1>a, <2>1, <2>3 DEF LoopOffer
  <2> QED BY <1>a, <1>d, <2>1, <2>4 DEF OfferInv
<1>4. ASSUME NEW row \in todo, RerouteDecide(row) PROVE OfferInv'
  <2>1. /\ status' = status /\ node' = node /\ pass' = pass /\ pass = "declined"
        /\ todo' = todo \ {row}
    BY <1>4 DEF RerouteDecide, dbVars
  <2>2. PICK n \in IF FindMatch(row[1], DeclinedBy(row[1])) = {} THEN {NoNode}
                  ELSE FindMatch(row[1], DeclinedBy(row[1])) :
           work' = [job |-> row[1], old |-> row[2], target |-> n]
    BY <1>4 DEF RerouteDecide
  <2>3. <<row[1], n>> \notin declines
    <3>1. CASE n = NoNode
      BY <3>1, ConstantsAssumption DEF TypeInv, TypeOK
    <3>2. CASE n \in FindMatch(row[1], DeclinedBy(row[1]))
      <4>1. n \in Nodes /\ n \notin DeclinedBy(row[1])
        BY <3>2 DEF FindMatch, TypeInv, TypeOK
      <4> QED BY <4>1 DEF DeclinedBy
    <3> QED BY <2>2, <3>1, <3>2
  <2>4. work'.job = row[1] /\ work'.target = n
    BY <2>2
  <2>5. /\ \A x \in todo : status[x[1]] = "declined"
        /\ \A x, y \in todo : x[1] = y[1] => x = y
    BY <2>1 DEF OfferInv, LoopOffer
  <2>6. LoopOffer'
    BY <1>a, <2>1, <2>3, <2>4, <2>5 DEF LoopOffer
  <2> QED BY <1>a, <1>d, <2>1, <2>6 DEF OfferInv
<1>5. CASE RescheduleWrite
  <2>1. /\ status' = status /\ pass' = "stale" /\ work' = NoWork /\ pass = "stale"
        /\ work # NoWork
    BY <1>5 DEF RescheduleWrite
  <2>2. <<work.job, work.target>> \notin declines
    BY <2>1 DEF OfferInv, LoopOffer
  <2>3. \A j \in JobIds : node'[j] = node[j] \/ (j = work.job /\ node'[j] = work.target
                                               /\ status[j] = "scheduled")
    BY <1>5, <1>c, <2>1 DEF RescheduleWrite, StillStale, TypeInv, TypeOK
  <2>4. ASSUME NEW j \in JobIds PROVE RowOffer(j)'
    <3>1. RowOffer(j)
      BY DEF OfferInv
    <3> QED BY <1>a, <2>1, <2>2, <2>3, <3>1 DEF RowOffer, Offered
  <2>5. LoopOffer'
    BY <2>1 DEF LoopOffer
  <2> QED BY <1>a, <2>4, <2>5 DEF OfferInv
<1>6. CASE RerouteWrite
  <2>1. /\ pass = "declined" /\ pass' = pass /\ work # NoWork /\ work' = NoWork /\ todo' = todo
    BY <1>6 DEF RerouteWrite
  <2>2. /\ status[work.job] = "declined" /\ <<work.job, work.target>> \notin declines
        /\ \A row \in todo : row[1] # work.job /\ status[row[1]] = "declined"
        /\ \A x, y \in todo : x[1] = y[1] => x = y
    BY <2>1 DEF OfferInv, LoopOffer
  <2>3. \A k \in JobIds : k # work.job => status'[k] = status[k] /\ node'[k] = node[k]
    BY <1>6, <1>c, <2>1 DEF RerouteWrite, Move, TypeInv, TypeOK
  <2>4. \/ status'[work.job] = "failed"
        \/ /\ status'[work.job] = ReroutedStatus(work.job)
           /\ node'[work.job] = work.target
    BY <1>6, <1>c, <2>1, <2>2 DEF RerouteWrite, Move, TypeInv, TypeOK
  <2>5. ASSUME NEW k \in JobIds, k = work.job PROVE RowOffer(k)'
    BY <1>a, <2>2, <2>4, <2>5 DEF RowOffer, ReroutedStatus, Offered
  <2>6. ASSUME NEW k \in JobIds, k # work.job PROVE RowOffer(k)'
    <3>1. RowOffer(k)
      BY DEF OfferInv
    <3> QED BY <1>a, <2>3, <2>6, <3>1 DEF RowOffer
  <2>7. LoopOffer'
    BY <1>b, <2>1, <2>2, <2>3 DEF LoopOffer
  <2> QED BY <1>a, <2>5, <2>6, <2>7 DEF OfferInv
<1>7. CASE RebindError
  <2>1. /\ status' = status /\ node' = node /\ pass' = pass /\ todo' = todo /\ work' = NoWork
    BY <1>7 DEF RebindError, dbVars
  <2>2. LoopOffer'
    BY <2>1 DEF OfferInv, LoopOffer
  <2> QED BY <1>a, <1>d, <2>1, <2>2 DEF OfferInv
<1>8. CASE Restart
  <2>1. status' = status /\ node' = node /\ todo' = {} /\ work' = NoWork
    BY <1>8 DEF Restart, dbVars
  <2>2. LoopOffer'
    BY <2>1 DEF LoopOffer
  <2> QED BY <1>a, <1>d, <2>1, <2>2 DEF OfferInv
<1>9. ASSUME NEW row \in todo, ReapRow(row) PROVE OfferInv'
  <2>1. CASE ExpireConfirmation(row)
    BY <1>2, <2>1 DEF ExpireConfirmation, OfferEdge, Offered
  <2>2. CASE ExpireDispatched(row)
    BY <1>2, <2>2 DEF ExpireDispatched, OfferEdge, Offered
  <2>3. CASE ExpirePickedUp(row)
    BY <1>2, <2>3 DEF ExpirePickedUp, OfferEdge, Offered
  <2> QED BY <1>3, <1>4, <1>9, <2>1, <2>2, <2>3 DEF ReapRow
<1> QED BY <1>1, <1>5, <1>6, <1>7, <1>8, <1>9 DEF Rebind

\* Where every node runs the agent, so that jobs are declined on the portal,
\* whose transaction writes the decline row with the status, a node that
\* declined a job is never offered it again: not by a reroute that read the
\* declines before, and not by a rebind of the stale pass.
THEOREM DeclinersSpared ==
    ASSUME ProtocolNodes = {}
    PROVE  Spec => []DeclinerNotReoffered
<1>1. Spec => []TypeInv
  BY TypeInit, TypeStep, PTL DEF Spec
<1>2. Init => OfferInv
  BY DEF Init, OfferInv, RowOffer, LoopOffer, Offered
<1>3. TypeInv /\ OfferInv /\ [Next]_vars => OfferInv'
  <2> SUFFICES ASSUME TypeInv, OfferInv, [Next]_vars PROVE OfferInv'
    OBVIOUS
  <2>1. CASE UNCHANGED vars
    <3>1. /\ node' = node /\ declines' = declines /\ status' = status /\ pending' = pending
          /\ pass' = pass /\ todo' = todo /\ work' = work
      BY <2>1 DEF vars
    <3> QED BY <3>1, SameStatus, QuietOffer DEF OfferInv
  <2> QED BY <2>1, NodeStepOffers, JobStepOffers, RequestStepOffers, RunStepOffers,
             LoopStepOffers DEF Next
<1>4. OfferInv => DeclinerNotReoffered
  BY DEF OfferInv, RowOffer, DeclinerNotReoffered, Offered
<1> QED
  BY <1>1, <1>2, <1>3, <1>4, PTL DEF Spec

=============================================================================
