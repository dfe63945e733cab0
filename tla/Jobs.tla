-------------------------------- MODULE Jobs --------------------------------
(***************************************************************************)
(* The life of a job: submission, placement, contributor confirmation,     *)
(* dispatch to a node, execution, completion and hand-over, as the         *)
(* orchestrator, the portal, the reroute loop, the agents and the /v0      *)
(* protocol nodes drive it through the shared "jobs" table.                *)
(*                                                                         *)
(* Atomicity.  One action is one SQL statement (or one transaction whose   *)
(* statements lock the row they change) with the in-memory work around it. *)
(* A handler that reads in one statement and writes in a later one leaves  *)
(* a record in "pending" (a poll: in "polled"; the reroute loop: in "todo" *)
(* and "work") between the two, and anything may happen meanwhile.         *)
(*                                                                         *)
(* Abstractions.  Time: "overdue" holds the jobs whose current status has  *)
(* outlived its timer (confirmation_deadline, updated_at, picked_up_at or  *)
(* awaiting_pickup_at, each written when that status is entered).          *)
(* Placement: country, hardware and opt-out filters are the constant Fits, *)
(* and scheduler.Schedule may rank any candidate first.  The in-flight     *)
(* counters (AddInFlight) are read by that ranking only and are left out.  *)
(* Database errors: a request, or one iteration of the loop, may be        *)
(* abandoned before any of its statements.                                 *)
(***************************************************************************)
EXTENDS FiniteSets, Naturals

CONSTANTS
    Nodes,          \* nodes.id
    JobIds,         \* jobs.id
    Members,        \* participants.id
    NoNode,         \* node_id of a job that was never placed
    NoWork,         \* the reroute loop is between two jobs
    Owner,          \* nodes.participant_id
    Consumer,       \* jobs.participant_id
    PrintJobs,      \* jobs of type print_traditional or print_3d
    Fits,           \* the nodes that meet a job's requirements in FindMatch
    AgentNodes,     \* nodes that run cmd/agent
    ProtocolNodes,  \* nodes that speak the /v0 protocol
    PrintConfirm,   \* Orchestrator.printConfirmEnabled
    MaxPending,     \* bound: requests between their check and their write
    MaxRestarts     \* bound: orchestrator restarts in one behaviour

ASSUME ConstantsAssumption ==
    /\ NoNode \notin Nodes
    /\ Owner \in [Nodes -> Members]
    /\ Consumer \in [JobIds -> Members]
    /\ Fits \in [JobIds -> SUBSET Nodes]
    /\ PrintJobs \subseteq JobIds
    /\ AgentNodes \subseteq Nodes
    /\ ProtocolNodes \subseteq Nodes
    /\ AgentNodes \cap ProtocolNodes = {}
    /\ PrintConfirm \in BOOLEAN
    /\ MaxPending \in Nat
    /\ MaxRestarts \in Nat

VARIABLES
    status,     \* jobs.status; "none": there is no row
    node,       \* jobs.node_id
    declines,   \* job_node_declines rows
    metered,    \* jobs with a metering row
    overdue,    \* jobs whose current status has outlived its timer
    online,     \* keys of NodeRegistry.nodes (every entry's Status is "online")
    polled,     \* per node: what its poll has SELECTed and not yet flipped
    pending,    \* requests between their check and their write
    runs,       \* assignments the nodes hold; on an agent, its runJob goroutines
    pass,       \* the pass the reroute loop is in
    todo,       \* rows listed by that pass and not yet processed
    work,       \* the row being rebound: decided, not yet written
    restarts,   \* orchestrator restarts so far
    consent     \* history: the node a print placement was confirmed for

dbVars == <<status, node, declines, metered, overdue>>
reaperVars == <<pass, todo, work>>
vars == <<status, node, declines, metered, overdue, online, polled, pending,
          runs, pass, todo, work, restarts, consent>>

-----------------------------------------------------------------------------
(* Data *)

Statuses == {"none", "awaiting_confirmation", "scheduled", "dispatched",
             "declined", "running", "awaiting_pickup", "picked_up",
             "delivered", "completed", "failed"}

\* The statuses some reader compares with a timer.
TimedStatuses == {"awaiting_confirmation", "dispatched", "awaiting_pickup",
                  "picked_up"}

\* "ok": exit code 0.  "bad": another code, or none.  "lost": ContainerWait
\* failed, which executor.Wait returns as a result with exit code 0.
Exits == {"ok", "bad", "lost"}

Requests == [op : {"started", "complete", "report", "decline",
                   "portal_confirm", "portal_decline"},
             job : JobIds, by : Nodes \cup Members, exit : Exits]

Request(o, j, b, e) == [op |-> o, job |-> j, by |-> b, exit |-> e]

\* The assignment arrived; and, in runJob: the container is up; /started was
\* sent; /started was answered 200.
Stages == {"got", "up", "asking", "running"}

Runs == [node : Nodes, job : JobIds, stage : Stages]

Run(n, j, s) == [node |-> n, job |-> j, stage |-> s]

Passes == {"confirmations", "dispatched", "stale", "picked_up", "declined"}

\* Variant: the pass that reverts unconfirmed dispatches is missing.
NextPassNoDispatched == [p \in Passes |->
    CASE p = "confirmations" -> "stale"
      [] p = "dispatched"    -> "stale"
      [] p = "stale"         -> "picked_up"
      [] p = "picked_up"     -> "declined"
      [] p = "declined"      -> "confirmations"]

\* The order of the passes of StartDeclineRerouteLoop.
NextPass == [p \in Passes |->
    CASE p = "confirmations" -> "dispatched"
      [] p = "dispatched"    -> "stale"
      [] p = "stale"         -> "picked_up"
      [] p = "picked_up"     -> "declined"
      [] p = "declined"      -> "confirmations"]

\* The write a status change makes: the new status, its timer just started.
Move(j, s) ==
    /\ status' = [status EXCEPT ![j] = s]
    /\ overdue' = overdue \ {j}

\* Variants: without the same-owner check; without the excluded nodes.
FindMatchAnyOwner(j, excluded) == (online \cap Fits[j]) \ excluded

FindMatchNoExclusion(j, excluded) ==
    {n \in online \cap Fits[j] : Owner[n] # Consumer[j]}

\* NodeRegistry.FindMatch for job j.
FindMatch(j, excluded) ==
    {n \in (online \cap Fits[j]) \ excluded : Owner[n] # Consumer[j]}

DeclinedBy(j) == {n \in Nodes : <<j, n>> \in declines}

\* The status CompleteJob derives from the exit code and the workload type.
NewStatus(j, exit) ==
    CASE exit = "bad" -> "failed"
      [] exit # "bad" /\ j \in PrintJobs -> "awaiting_pickup"
      [] exit # "bad" /\ j \notin PrintJobs -> "completed"

\* Variant: every outcome is metered.
MetersAll(j, exit) == TRUE

\* CompleteJob's shouldMeter.
Meters(j, exit) == NewStatus(j, exit) = "completed"

\* Bound on the requests in flight.
HasRoom == Cardinality(pending) < MaxPending

\* The C5 predicate: a print job is never dispatched to its consumer's node.
SelfPrint(j, n) == j \in PrintJobs /\ Consumer[j] = Owner[n]

-----------------------------------------------------------------------------
(* Registry *)

\* Registration, claim or a protocol listing puts the node in the registry.
Register(n) ==
    /\ n \notin online
    /\ online' = online \cup {n}
    /\ UNCHANGED <<dbVars, polled, pending, runs, reaperVars, restarts, consent>>

\* evictStale: no heartbeat for the maximum age.
Evict(n) ==
    /\ n \in online
    /\ online' = online \ {n}
    /\ UNCHANGED <<dbVars, polled, pending, runs, reaperVars, restarts, consent>>

-----------------------------------------------------------------------------
(* Submission and the portal *)

\* Variant: the row is committed as it was first inserted.
SubmittedPending(j) == "pending"

\* The status a job is committed with ("pending" exists only inside the
\* transaction).
SubmittedStatus(j) == IF j \in PrintJobs /\ PrintConfirm
                      THEN "awaiting_confirmation" ELSE "scheduled"

SubmitJob(j) ==
    /\ status[j] = "none"
    /\ \E n \in FindMatch(j, {}) : node' = [node EXCEPT ![j] = n]
    /\ Move(j, SubmittedStatus(j))
    /\ UNCHANGED <<declines, metered, online, polled, pending, runs, reaperVars,
                   restarts, consent>>

\* handleJobConfirmAction up to its ownership and status check; the member who
\* posts the form is the owner of the node the job is bound to now.
JobConfirmCheck(j) ==
    /\ status[j] = "awaiting_confirmation"
    /\ HasRoom
    /\ \E op \in {"portal_confirm", "portal_decline"} :
          pending' = pending \cup {Request(op, j, Owner[node[j]], "ok")}
    /\ UNCHANGED <<dbVars, online, polled, runs, reaperVars, restarts, consent>>

\* The guarded UPDATE of a confirm; a row that has moved on is left alone.
JobConfirm(q) ==
    /\ q.op = "portal_confirm"
    /\ pending' = pending \ {q}
    /\ IF status[q.job] = "awaiting_confirmation"
       THEN /\ Move(q.job, "scheduled")
            /\ consent' = [consent EXCEPT ![q.job] = node[q.job]]
       ELSE UNCHANGED <<status, overdue, consent>>
    /\ UNCHANGED <<node, declines, metered, online, polled, runs, reaperVars,
                   restarts>>

\* The transaction of a decline: status flip and decline row together.  The
\* INSERT has no ON CONFLICT: an existing row rolls the flip back.
JobDecline(q) ==
    /\ q.op = "portal_decline"
    /\ pending' = pending \ {q}
    /\ IF /\ status[q.job] = "awaiting_confirmation"
          /\ <<q.job, node[q.job]>> \notin declines
       THEN /\ Move(q.job, "declined")
            /\ declines' = declines \cup {<<q.job, node[q.job]>>}
       ELSE UNCHANGED <<status, overdue, declines>>
    /\ UNCHANGED <<node, metered, online, polled, runs, reaperVars, restarts,
                   consent>>

\* A portal handler whose UPDATE repeats the guard of its SELECT, over columns
\* that no longer change, is one step.
HandOver(j, from, to) ==
    /\ status[j] = from
    /\ Move(j, to)
    /\ UNCHANGED <<node, declines, metered, online, polled, pending, runs,
                   reaperVars, restarts, consent>>

ConsumerPickedUp(j) == HandOver(j, "awaiting_pickup", "picked_up")

\* Variant: also from failed.
ConsumerDeliveredLate(j) ==
    \E from \in {"picked_up", "failed"} : HandOver(j, from, "delivered")

ConsumerDelivered(j) == HandOver(j, "picked_up", "delivered")

ProviderNoShow(j) == j \in overdue /\ HandOver(j, "awaiting_pickup", "failed")

-----------------------------------------------------------------------------
(* Dispatch: PollScheduledJobs is a SELECT and, later, an UPDATE *)

Pollable(n) == {j \in JobIds : /\ status[j] = "scheduled"
                               /\ node[j] = n
                               /\ ~SelfPrint(j, n)}

PollSelect(n) ==
    /\ n \in AgentNodes \cup ProtocolNodes
    /\ polled[n] = {}
    /\ Pollable(n) # {}
    /\ polled' = [polled EXCEPT ![n] = Pollable(n)]
    /\ UNCHANGED <<dbVars, online, pending, runs, reaperVars, restarts, consent>>

\* The jobs the UPDATE flips: it compares status, not node_id.
Flipped(n) == {j \in polled[n] : status[j] = "scheduled" /\ ~SelfPrint(j, n)}

\* Every job SELECTed is returned, if the answer arrives; an agent starts a
\* goroutine for each.
PollFlip(n) ==
    /\ polled[n] # {}
    /\ status' = [j \in JobIds |->
                     IF j \in Flipped(n) THEN "dispatched" ELSE status[j]]
    /\ overdue' = overdue \ Flipped(n)
    /\ polled' = [polled EXCEPT ![n] = {}]
    /\ runs' \in {runs, runs \cup {Run(n, j, "got") : j \in polled[n]}}
    /\ UNCHANGED <<node, declines, metered, online, pending, reaperVars,
                   restarts, consent>>

PollAbandon(n) ==
    /\ polled[n] # {}
    /\ polled' = [polled EXCEPT ![n] = {}]
    /\ UNCHANGED <<dbVars, online, pending, runs, reaperVars, restarts, consent>>

-----------------------------------------------------------------------------
(* The agent: runJob, and the handlers it calls *)

\* executor.Start has launched the container.
AgentStart(r) ==
    /\ r.node \in AgentNodes
    /\ r.stage = "got"
    /\ runs' = (runs \ {r}) \cup {Run(r.node, r.job, "up")}
    /\ UNCHANGED <<dbVars, online, polled, pending, reaperVars, restarts, consent>>

\* The early returns of runJob: no image, no such printer, opted out, start
\* failure, a /started or /complete that never reached the orchestrator.
AgentDrop(r) ==
    /\ r.stage # "asking"
    /\ runs' = runs \ {r}
    /\ UNCHANGED <<dbVars, online, polled, pending, reaperVars, restarts, consent>>

\* Variant: any node is let through.
CallerAny(r) == TRUE

\* The identity check of handleStartedJob and handleCompleteJob.
CallerOwns(r) == node[r.job] = r.node

\* handleStartedJob up to its identity check; a mismatch is a 403, on which
\* the agent stops the container.
StartedCheck(r) ==
    /\ r.stage = "up"
    /\ HasRoom
    /\ IF CallerOwns(r)
       THEN /\ runs' = (runs \ {r}) \cup {Run(r.node, r.job, "asking")}
            /\ pending' = pending \cup {Request("started", r.job, r.node, "ok")}
       ELSE /\ runs' = runs \ {r}
            /\ UNCHANGED pending
    /\ UNCHANGED <<dbVars, online, polled, reaperVars, restarts, consent>>

\* Variant: a job that is running may be started again.
CanRestart(j) == status[j] \in {"dispatched", "running"}

\* The guard of the UPDATE of handleStartedJob.
CanStart(j) == status[j] = "dispatched"

\* The UPDATE of handleStartedJob and its answer: 200 lets the goroutine wait
\* for the container; a 409 or a lost answer makes it stop the container.
StartedWrite(q) ==
    /\ q.op = "started"
    /\ pending' = pending \ {q}
    /\ IF CanStart(q.job) THEN Move(q.job, "running")
                          ELSE UNCHANGED <<status, overdue>>
    /\ LET asking == Run(q.by, q.job, "asking") IN
          \/ runs' = runs \ {asking}
          \/ /\ CanStart(q.job)
             /\ asking \in runs
             /\ runs' = (runs \ {asking}) \cup {Run(q.by, q.job, "running")}
    /\ UNCHANGED <<node, declines, metered, online, polled, reaperVars, restarts,
                   consent>>

\* The container has ended: one /complete, never retried, and handleCompleteJob
\* up to its identity check.
CompleteCheck(r, exit) ==
    /\ r.stage = "running"
    /\ HasRoom
    /\ runs' = runs \ {r}
    /\ pending' = IF CallerOwns(r)
                  THEN pending \cup {Request("complete", r.job, r.node, exit)}
                  ELSE pending
    /\ UNCHANGED <<dbVars, online, polled, reaperVars, restarts, consent>>

\* Variant: a completed job takes another outcome.
CanCompleteAgain(j) == status[j] \in {"running", "completed"}

\* The guard of the UPDATE of store.CompleteJob.
CanComplete(j) == status[j] = "running"

\* The UPDATE of CompleteJob and ComputeMetering, whose failure is logged.
CompleteWrite(q) ==
    /\ q.op = "complete"
    /\ pending' = pending \ {q}
    /\ IF CanComplete(q.job)
       THEN /\ Move(q.job, NewStatus(q.job, q.exit))
            /\ \/ UNCHANGED metered
               \/ /\ Meters(q.job, q.exit)
                  /\ metered' = metered \cup {q.job}
       ELSE UNCHANGED <<status, overdue, metered>>
    /\ UNCHANGED <<node, declines, online, polled, runs, reaperVars, restarts,
                   consent>>

\* The node's process dies; what it has already sent is still served.
NodeCrash(n) ==
    /\ \E r \in runs : r.node = n
    /\ runs' = {r \in runs : r.node # n}
    /\ UNCHANGED <<dbVars, online, polled, pending, reaperVars, restarts, consent>>

-----------------------------------------------------------------------------
(* The /v0 protocol adapter, called by a node for an assignment it holds (and  *)
(* may call again for, when an answer is lost)                                 *)

\* Variant: a running job may be declined.
DeclinableRunning(j) == status[j] \in {"scheduled", "dispatched", "running"}

\* The status guard of Decline's flip.
Declinable(j) == status[j] \in {"scheduled", "dispatched"}

\* Decline's guarded flip; the decline row is a later statement.
ProtocolDecline(r) ==
    /\ r.node \in ProtocolNodes
    /\ node[r.job] = r.node
    /\ Declinable(r.job)
    /\ HasRoom
    /\ Move(r.job, "declined")
    /\ pending' = pending \cup {Request("decline", r.job, r.node, "ok")}
    /\ UNCHANGED <<node, declines, metered, online, polled, runs, reaperVars,
                   restarts, consent>>

DeclineRecord(q) ==
    /\ q.op = "decline"
    /\ pending' = pending \ {q}
    /\ declines' = declines \cup {<<q.job, q.by>>}
    /\ UNCHANGED <<status, node, metered, overdue, online, polled, runs,
                   reaperVars, restarts, consent>>

\* ReportJob up to its assignment check.
ReportCheck(r, exit) ==
    /\ r.node \in ProtocolNodes
    /\ HasRoom
    /\ node[r.job] = r.node
    /\ pending' = pending \cup {Request("report", r.job, r.node, exit)}
    /\ UNCHANGED <<dbVars, online, polled, runs, reaperVars, restarts, consent>>

\* ReportJob's flip to running; what remains is CompleteJob.
ReportWrite(q) ==
    /\ q.op = "report"
    /\ pending' = (pending \ {q}) \cup
                    {Request("complete", q.job, q.by, q.exit)}
    /\ IF CanStart(q.job) /\ node[q.job] = q.by
       THEN Move(q.job, "running")
       ELSE UNCHANGED <<status, overdue>>
    /\ UNCHANGED <<node, declines, metered, online, polled, runs, reaperVars,
                   restarts, consent>>

\* A request ends in an error before its write; an agent whose /started fails
\* stops the container.
Abandon(q) ==
    /\ pending' = pending \ {q}
    /\ runs' = IF q.op = "started"
               THEN runs \ {Run(q.by, q.job, "asking")} ELSE runs
    /\ UNCHANGED <<dbVars, online, polled, reaperVars, restarts, consent>>

-----------------------------------------------------------------------------
(* StartDeclineRerouteLoop: five passes, each a listing query and then one    *)
(* guarded operation per listed row                                           *)

Listed(p) ==
    {<<j, node[j]>> : j \in
        CASE p = "confirmations" ->
               {j \in overdue : status[j] = "awaiting_confirmation"}
          [] p = "dispatched" -> {j \in overdue : status[j] = "dispatched"}
          [] p = "stale" ->
               {j \in JobIds \ PrintJobs : status[j] = "scheduled"}
          [] p = "picked_up" -> {j \in overdue : status[j] = "picked_up"}
          [] p = "declined" -> {j \in JobIds : status[j] = "declined"}}

BeginPass ==
    /\ todo = {}
    /\ work = NoWork
    /\ pass' = NextPass[pass]
    /\ todo' = Listed(pass')
    /\ UNCHANGED <<dbVars, online, polled, pending, runs, work, restarts, consent>>

\* One guarded UPDATE on a listed row: status and timer are compared again.
Expire(row, p, from, to) ==
    /\ pass = p
    /\ todo' = todo \ {row}
    /\ IF status[row[1]] = from /\ row[1] \in overdue
       THEN Move(row[1], to) ELSE UNCHANGED <<status, overdue>>
    /\ UNCHANGED <<node, declines, metered, online, polled, pending, runs, pass,
                   work, restarts, consent>>

ExpireConfirmation(row) ==
    Expire(row, "confirmations", "awaiting_confirmation", "declined")

ExpireDispatched(row) == Expire(row, "dispatched", "dispatched", "scheduled")

ExpirePickedUp(row) == Expire(row, "picked_up", "picked_up", "delivered")

\* rescheduleStale and RescheduleStaleJob up to FindMatch.  A node that is
\* online keeps its job; with no candidate the job is left as it is.
RescheduleDecide(row) ==
    /\ pass = "stale"
    /\ work = NoWork
    /\ todo' = todo \ {row}
    /\ LET candidates == FindMatch(row[1], {row[2]} \cup DeclinedBy(row[1]))
       IN  IF row[2] \in online \/ row[1] \in PrintJobs \/ candidates = {}
           THEN UNCHANGED work
           ELSE \E n \in candidates :
                   work' = [job |-> row[1], old |-> row[2], target |-> n]
    /\ UNCHANGED <<dbVars, online, polled, pending, runs, pass, restarts, consent>>

\* Variant: the status is not compared again.
StillBoundToOld == node[work.job] = work.old

\* The guard of the UPDATE of RescheduleStaleJob.
StillStale == status[work.job] = "scheduled" /\ node[work.job] = work.old

\* The UPDATE of RescheduleStaleJob.
RescheduleWrite ==
    /\ pass = "stale"
    /\ work # NoWork
    /\ work' = NoWork
    /\ node' = IF StillStale
               THEN [node EXCEPT ![work.job] = work.target] ELSE node
    /\ UNCHANGED <<status, declines, metered, overdue, online, polled, pending,
                   runs, pass, todo, restarts, consent>>

\* RerouteDeclinedJob up to FindMatch: the decline rows are read here.
RerouteDecide(row) ==
    /\ pass = "declined"
    /\ work = NoWork
    /\ todo' = todo \ {row}
    /\ LET candidates == FindMatch(row[1], DeclinedBy(row[1]))
       IN  \E n \in IF candidates = {} THEN {NoNode} ELSE candidates :
              work' = [job |-> row[1], old |-> row[2], target |-> n]
    /\ UNCHANGED <<dbVars, online, polled, pending, runs, pass, restarts, consent>>

\* Variant: a rerouted print job is not confirmed again.
ReroutedUnconfirmed(j) == "scheduled"

\* The status a rerouted job takes: a print job asks for confirmation again.
ReroutedStatus(j) ==
    IF j \in PrintJobs THEN "awaiting_confirmation" ELSE "scheduled"

\* The UPDATEs of RerouteDeclinedJob: rebind, or fail with no candidate left.
RerouteWrite ==
    /\ pass = "declined"
    /\ work # NoWork
    /\ work' = NoWork
    /\ IF status[work.job] # "declined"
       THEN UNCHANGED <<status, overdue, node, consent>>
       ELSE IF work.target = NoNode
       THEN /\ Move(work.job, "failed")
            /\ UNCHANGED <<node, consent>>
       ELSE /\ Move(work.job, ReroutedStatus(work.job))
            /\ node' = [node EXCEPT ![work.job] = work.target]
            /\ consent' = [consent EXCEPT ![work.job] = NoNode]
    /\ UNCHANGED <<declines, metered, online, polled, pending, runs, pass, todo,
                   restarts>>

\* A database error, or an enabled printer that FindMatch saw and the database
\* no longer has: the row waits for the next tick.
RebindError ==
    /\ work # NoWork
    /\ work' = NoWork
    /\ UNCHANGED <<dbVars, online, polled, pending, runs, pass, todo, restarts,
                   consent>>

-----------------------------------------------------------------------------
(* Environment *)

\* A job outlives the timer of its status.
Elapse(j) ==
    /\ status[j] \in TimedStatuses
    /\ j \notin overdue
    /\ overdue' = overdue \cup {j}
    /\ UNCHANGED <<status, node, declines, metered, online, polled, pending, runs,
                   reaperVars, restarts, consent>>

PortalOps == {"portal_confirm", "portal_decline"}

\* The orchestrator process dies and comes back: the registry is empty, the
\* requests it was serving end in an error at their clients, and the loop
\* starts over.  The portal is another process.
Restart ==
    /\ restarts < MaxRestarts
    /\ restarts' = restarts + 1
    /\ online' = {}
    /\ polled' = [n \in Nodes |-> {}]
    /\ pending' = {q \in pending : q.op \in PortalOps}
    /\ runs' = {r \in runs : r.stage # "asking"}
    /\ pass' = "declined"
    /\ todo' = {}
    /\ work' = NoWork
    /\ UNCHANGED <<dbVars, consent>>

-----------------------------------------------------------------------------
Init ==
    /\ status = [j \in JobIds |-> "none"]
    /\ node = [j \in JobIds |-> NoNode]
    /\ declines = {}
    /\ metered = {}
    /\ overdue = {}
    /\ online = {}
    /\ polled = [n \in Nodes |-> {}]
    /\ pending = {}
    /\ runs = {}
    /\ pass = "declined"
    /\ todo = {}
    /\ work = NoWork
    /\ restarts = 0
    /\ consent = [j \in JobIds |-> NoNode]

NodeStep(n) ==
    \/ Register(n)
    \/ Evict(n)
    \/ PollSelect(n)
    \/ PollFlip(n)
    \/ PollAbandon(n)
    \/ NodeCrash(n)

JobStep(j) ==
    \/ SubmitJob(j)
    \/ JobConfirmCheck(j)
    \/ ConsumerPickedUp(j)
    \/ ConsumerDelivered(j)
    \/ ProviderNoShow(j)
    \/ Elapse(j)

RequestStep(q) ==
    \/ JobConfirm(q)
    \/ JobDecline(q)
    \/ StartedWrite(q)
    \/ CompleteWrite(q)
    \/ DeclineRecord(q)
    \/ ReportWrite(q)
    \/ Abandon(q)

RunStep(r) ==
    \/ AgentStart(r)
    \/ AgentDrop(r)
    \/ StartedCheck(r)
    \/ \E exit \in Exits : CompleteCheck(r, exit)
    \/ ProtocolDecline(r)
    \/ \E exit \in {"ok", "bad"} : ReportCheck(r, exit)

ReapRow(row) ==
    \/ ExpireConfirmation(row)
    \/ ExpireDispatched(row)
    \/ ExpirePickedUp(row)
    \/ RescheduleDecide(row)
    \/ RerouteDecide(row)

Rebind ==
    \/ RescheduleWrite
    \/ RerouteWrite

Next ==
    \/ \E n \in Nodes : NodeStep(n)
    \/ \E j \in JobIds : JobStep(j)
    \/ \E q \in pending : RequestStep(q)
    \/ \E r \in runs : RunStep(r)
    \/ BeginPass
    \/ \E row \in todo : ReapRow(row)
    \/ Rebind
    \/ RebindError
    \/ Restart

Spec == Init /\ [][Next]_vars

\* Fairness: the loop's goroutine is woken by its ticker for as long as the
\* process lives, clocks advance, and no write of the loop fails every time it
\* is tried.  Nothing is assumed of agents, members or consumers.
Fairness ==
    /\ \A j \in JobIds : WF_vars(Elapse(j))
    /\ WF_vars(BeginPass)
    /\ WF_vars(\E row \in todo : ReapRow(row))
    /\ WF_vars(Rebind \/ RebindError)
    /\ \A j \in JobIds : SF_vars(Rebind /\ work.job = j)

FairSpec == Spec /\ Fairness

-----------------------------------------------------------------------------
(* Properties *)

\* Every variable keeps its type.
TypeOK ==
    /\ status \in [JobIds -> Statuses]
    /\ node \in [JobIds -> Nodes \cup {NoNode}]
    /\ declines \subseteq JobIds \X Nodes
    /\ metered \subseteq JobIds
    /\ overdue \subseteq JobIds
    /\ online \subseteq Nodes
    /\ polled \in [Nodes -> SUBSET JobIds]
    /\ pending \subseteq Requests
    /\ runs \subseteq Runs
    /\ pass \in Passes
    /\ todo \subseteq JobIds \X Nodes
    /\ work \in {NoWork} \cup
               [job : JobIds, old : Nodes, target : Nodes \cup {NoNode}]
    /\ restarts \in 0..MaxRestarts
    /\ consent \in [JobIds -> Nodes \cup {NoNode}]

\* However often a job is polled, expired, rebound and polled again, at most
\* one node has had its POST /jobs/{id}/started accepted and is executing it.
AtMostOneRunner ==
    \A r, s \in runs :
        r.stage = "running" /\ s.stage = "running" /\ r.job = s.job
            => r.node = s.node

\* A print job past confirmation is on the very node it was confirmed for:
\* neither the stale pass nor a reroute moves it without asking again.
ConsentForPlacement ==
    \A j \in PrintJobs :
        PrintConfirm /\ status[j] \in Statuses \ {"none", "declined", "failed",
                                                  "awaiting_confirmation"}
            => consent[j] = node[j]

\* No submission, reroute or rebind puts a job on a node of its own consumer.
NoSelfPlacement ==
    \A j \in JobIds : node[j] # NoNode => Owner[node[j]] # Consumer[j]

\* A node that declined a job (a job_node_declines row) is not offered the job
\* again by the reroute or the stale pass.
DeclinerNotReoffered ==
    \A j \in JobIds :
        status[j] \in {"awaiting_confirmation", "scheduled", "dispatched"}
            => <<j, node[j]>> \notin declines

\* A metering row exists only for a compute job that completed and it stays
\* completed: no late /complete, report or expiry overwrites the outcome.
MeteredStaysCompleted ==
    \A j \in metered : j \notin PrintJobs /\ status[j] = "completed"

\* The outcome of a running job is written by a request of the node that the
\* row names (handleCompleteJob and ReportJob bind the caller to it).
OutcomeByBoundNode ==
    [][\A j \in JobIds :
          status[j] = "running" /\ status'[j] # "running"
              => \E q \in pending \ pending' :
                    q.op = "complete" /\ q.job = j /\ q.by = node[j]]_vars

\* A job is dispatched to the node whose poll returned it: the claim of
\* PollScheduledJobs is atomic.
ClaimedByPoller ==
    [][\A r \in runs' \ runs :
          r.stage = "got" => status'[r.job] = "dispatched" /\ node'[r.job] = r.node]_vars

\* The job is marked running for the node whose /started was accepted.
StartedByBoundNode ==
    [][\A j \in JobIds :
          status[j] = "dispatched" /\ status'[j] = "running"
              => \E q \in pending \ pending' : q.job = j /\ q.by = node[j]]_vars

\* A confirmation is written for a member who owns the node the job is bound
\* to when it is written.
ConfirmedByOwner ==
    [][\A j \in JobIds :
          status[j] = "awaiting_confirmation" /\ status'[j] = "scheduled"
              => \E q \in pending \ pending' : q.job = j /\ q.by = Owner[node[j]]]_vars

\* A declined job that is placed again is placed on another node.
RerouteMoves ==
    [][\A j \in JobIds :
          status[j] = "declined"
              /\ status'[j] \in {"awaiting_confirmation", "scheduled"}
              => node'[j] # node[j]]_vars

\* A job is completed only when its container has exited with code 0.
CompletedMeansSuccess ==
    [][\A j \in JobIds :
          status[j] = "running" /\ status'[j] = "completed"
              => \E q \in pending \ pending' : q.job = j /\ q.exit = "ok"]_vars

\* The statuses the reroute loop alone must be able to end.
ReapedStatuses == {"awaiting_confirmation", "dispatched", "picked_up", "declined"}

\* With nobody else acting (no confirmation, no /started, no consumer), a job
\* does not wait for ever in a status that the reroute loop watches.
WaitsEnd ==
    \A j \in JobIds : \A s \in ReapedStatuses : (status[j] = s) ~> (status[j] # s)

-----------------------------------------------------------------------------
(* Refinement of JobLifecycle *)

phaseOf == [s \in Statuses |->
    CASE s = "none" -> "absent"
      [] s \in {"awaiting_confirmation", "scheduled", "dispatched", "declined"}
            -> "placing"
      [] s = "running" -> "executing"
      [] s \in {"awaiting_pickup", "picked_up"} -> "handover"
      [] s \in {"completed", "delivered"} -> "done"
      [] s = "failed" -> "failed"]

Phase == [j \in JobIds |-> phaseOf[status[j]]]

\* The node that counts is the one named when the job leaves placement.
Worker == [j \in JobIds |->
    IF Phase[j] \in {"absent", "placing"} THEN NoNode ELSE node[j]]

Lifecycle == INSTANCE JobLifecycle WITH phase <- Phase, worker <- Worker

\* The job table implements the life cycle.
ImplementsLifecycle == Lifecycle!LifecycleSpec

=============================================================================
