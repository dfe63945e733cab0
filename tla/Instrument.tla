----------------------------- MODULE Instrument -----------------------------
(***************************************************************************)
(* What SubmitJob's instrumentation records of a job: its shape when it    *)
(* was placed, its shape and the rejection when no node matched.  The      *)
(* ladder is loaded once, before the first job.                            *)
(***************************************************************************)
EXTENDS Ladder

CONSTANT InstrumentRequests  \* job shapes: vCPUs, memory and storage in GB

ASSUME RequestsAssumption == InstrumentRequests \subseteq [cpu : Nat, mem : Nat, disk : Nat]

VARIABLES
    ladder,         \* Orchestrator.ladder
    instrumentJob,  \* the request the last rows are about
    shape,          \* the last row for operator_job_shapes
    rejection       \* the rejection sent with it, if there is one

instrumentVars == <<ladder, instrumentJob, shape, rejection>>

\* Before the first job.
NoRequest == [cpu |-> 0, mem |-> 0, disk |-> 0]
NoShape == [intensity |-> <<0, 1>>, footprint |-> <<0, 1>>, placed |-> FALSE, rung |-> NoRung]

NoRejection == [reason |-> "", footprint |-> <<0, 1>>, wanted |-> NoRung]

Shape(req, placed) ==
    [intensity |-> Intensity(ladder, req), footprint |-> Footprint(ladder, req),
     placed |-> placed, rung |-> IF placed THEN FitRung(ladder, req) ELSE NoRung]

recordPlacement(req) ==
    /\ instrumentJob' = req
    /\ shape' = Shape(req, TRUE)
    /\ rejection' = NoRejection
    /\ UNCHANGED ladder

recordRejection(req) ==
    LET why == ClassifyRejection(ladder, req)
    IN  /\ instrumentJob' = req
        /\ shape' = Shape(req, FALSE)
        /\ rejection' = [reason |-> why[1], footprint |-> Footprint(ladder, req),
                          wanted |-> why[2]]
        /\ UNCHANGED ladder

\* main loads the ladder before the first job; if that fails it stays empty.
LoadLadder ==
    /\ instrumentJob = NoRequest
    /\ ladder' = NewLadder(SeededTiers)
    /\ UNCHANGED <<instrumentJob, shape, rejection>>

InstrumentInit ==
    /\ ladder = <<>>
    /\ instrumentJob = NoRequest
    /\ shape = NoShape
    /\ rejection = NoRejection

InstrumentNext ==
    \/ LoadLadder
    \/ \E req \in InstrumentRequests : recordPlacement(req) \/ recordRejection(req)

InstrumentSpec == InstrumentInit /\ [][InstrumentNext]_instrumentVars

-----------------------------------------------------------------------------
\* The two signals the dashboard reads agree with each other: with the seeded
\* ladder a footprint above 1 is recorded exactly for the jobs no available
\* tier fits, which are the jobs placed without a rung or rejected as too big.
ToweringAgrees ==
    (ladder # <<>>) =>
        LET towering == Above(shape.footprint, <<1, 1>>)
        IN  /\ shape.placed => (towering <=> shape.rung = NoRung)
            /\ ~shape.placed => (towering <=> rejection.reason = "too_big")

\* The rung recorded for a job, or wanted by a job rejected for lack of
\* capacity, is the smallest one on offer that holds it; without a ladder
\* nothing is claimed.
SmallestRung ==
    LET rung == IF shape.placed THEN shape.rung
                ELSE IF rejection.reason = "no_capacity" THEN rejection.wanted ELSE NoRung
    IN  IF ladder = <<>> THEN rung = NoRung /\ shape.footprint = <<0, 1>>
        ELSE rung # NoRung =>
                 \E t \in SeededTiers :
                     /\ t.name = rung /\ t.state = "available" /\ fits(t, instrumentJob)
                     /\ \A u \in SeededTiers : u.order < t.order => ~fits(u, instrumentJob)
=============================================================================
