----------------------------- MODULE Placement -----------------------------
(***************************************************************************)
(* Which node gets a job: the registry as the scheduler sees it, the       *)
(* admission test of FindMatch, the scores and the choice of Schedule, and *)
(* the supply side that counts the same nodes (CapacityInputs and          *)
(* AggregateCapacity).                                                     *)
(*                                                                         *)
(* Scores are floats in the code; here they are integers, Unit to the 1.0, *)
(* exact for ages in minutes, utilisations in quarters and core counts     *)
(* that divide the largest one.  The sort is unstable and the candidates   *)
(* come in map order, so any order among equal scores may result.          *)
(*                                                                         *)
(* Abstractions.  A heartbeat's three calls of the registry are one        *)
(* action.  A profile stands for the fields only registration writes.      *)
(***************************************************************************)
EXTENDS Integers, FiniteSets, FiniteSetsExt

CONSTANTS
    Nodes,
    Profile,            \* class, place, owner and hardware of each node
    PlacementRequests,  \* requests with the requester's place
    Utils,              \* CPU utilisation that nodes report, percent
    PlacementTier,      \* nodes per placement; every caller passes SLAStandard, 1
    NoSample,           \* LoadSampledAt is zero
    OptOutStates,       \* opt-out fields the heartbeats may bring
    MaxInFlight         \* bound: placements on a node

Weight == 60

\* maxAge of the eviction loop and loadSampleTTL, in minutes.
MaxAge == 5
loadSampleTTL == 3

OptOutFields == [compute : BOOLEAN, storage : BOOLEAN, printing : BOOLEAN, printer : BOOLEAN]

ASSUME PlacementAssumption ==
    /\ IsFiniteSet(Nodes)
    /\ \A n \in Nodes : Profile[n].cores \in Int
    /\ PlacementTier \in 1 .. Cardinality(Nodes)
    /\ NoSample \notin 0 .. loadSampleTTL + 1
    /\ Utils \subseteq 0 .. 100
    /\ OptOutStates \subseteq OptOutFields
    /\ MaxInFlight \in Nat

VARIABLES
    online,   \* nodes in the registry
    age,      \* minutes since each node's last heartbeat
    load,     \* its load sample
    out,      \* its opt-out fields
    inflight  \* its placements

placementVars == <<online, age, load, out, inflight>>

Unsampled == [at |-> NoSample, util |-> 0, active |-> FALSE]

AllIn == [compute |-> FALSE, storage |-> FALSE, printing |-> FALSE, printer |-> FALSE]

-----------------------------------------------------------------------------
(* Admission *)

\* MarketplaceToAgent, with the two print types as one.
Category(workload) ==
    CASE workload \in {"app_hosting", "batch_compute", "ai_inference", "cdn_edge"} -> "compute"
      [] workload = "object_storage" -> "storage"
      [] workload \in {"print_traditional", "print_3d"} -> "printing"
      [] workload = "" -> "any"

OptedIn(n, category) ==
    CASE category = "compute" -> ~out[n].compute
      [] category = "storage" -> ~out[n].storage
      [] category = "printing" -> ~out[n].printing /\ out[n].printer
      [] category = "any" -> TRUE

FindMatch(req) ==
    {n \in online :
        /\ n \notin req.excluded
        /\ req.consumer = "" \/ Profile[n].owner # req.consumer
        /\ req.residency = "" \/ Profile[n].country = req.residency
        /\ req.gpu => Profile[n].gpu
        /\ Profile[n].cores >= req.cores
        /\ Profile[n].ram >= req.ram
        /\ Profile[n].disk >= req.disk
        /\ OptedIn(n, Category(req.workload))}

-----------------------------------------------------------------------------
(* Scores *)

classScore(class) ==
    Weight * (CASE class = "A" -> 4 [] class = "B" -> 3 [] class = "C" -> 2
              [] class = "D" -> 1 [] OTHER -> 0)

\* Linear decay over 30 minutes.
freshnessScore(n) == Max({0, Weight - (Weight * age[n]) \div 30})

capacityScore(n, cands) ==
    (Weight * Profile[n].cores) \div Max({1} \cup {Profile[m].cores : m \in cands})

\* wLocality times 0.6, 0.3 or 0.
localityScore(n, req) ==
    CASE Profile[n].region # "" /\ Profile[n].region = req.region -> 6 * Weight
      [] OTHER -> IF req.country # "" /\ Profile[n].country = req.country
                  THEN 3 * Weight ELSE 0

PlacementFresh(s) == s.at # NoSample /\ s.at <= loadSampleTTL

\* Variant: a node that does not report counts as half idle.
idleScoreNeutral(s) ==
    IF s.active THEN 0
    ELSE IF PlacementFresh(s) THEN 2 * Weight - (2 * Weight * s.util) \div 100 ELSE Weight

\* wIdle times the reported idleness; nothing for an active owner, or for an
\* absent or stale sample.
idleScore(s) ==
    IF ~s.active /\ PlacementFresh(s) THEN 2 * Weight - (2 * Weight * s.util) \div 100 ELSE 0

Certified(n, cands) ==
    classScore(Profile[n].class) + freshnessScore(n) + capacityScore(n, cands)

\* Variant: placements do not count.
loadPenaltyNone(n) == 0

\* perInFlightPenalty for each placement.
loadPenalty(n) == (Weight \div 2) * inflight[n]

Score(n, cands, req) ==
    Certified(n, cands) + localityScore(n, req) + idleScore(load[n]) - loadPenalty(n)

\* The possible results: the first tier nodes of some descending order.
Schedule(cands, tier, req) ==
    {s \in kSubset(tier, cands) :
        \A n \in s, m \in cands \ s : Score(n, cands, req) >= Score(m, cands, req)}

-----------------------------------------------------------------------------
(* Supply *)

\* Variant: every node that has not opted out counts as a printer.
SuppliesAnyPrinter(n, category) ==
    CASE category = "compute" -> ~out[n].compute
      [] category = "storage" -> ~out[n].storage
      [] category = "printing" -> ~out[n].printing

\* The three tests of AggregateCapacity.
Supplies(n, category) ==
    CASE category = "compute" -> ~out[n].compute
      [] category = "storage" -> ~out[n].storage
      [] category = "printing" -> ~out[n].printing /\ out[n].printer

\* CapacityInputs and AggregateCapacity: nodes and cores per class and
\* category.
AggregateCapacity(class, category) ==
    LET group == {n \in online : Profile[n].class = class /\ Supplies(n, category)} IN
    [nodes |-> Cardinality(group), vcpus |-> MapThenSumSet(LAMBDA n : Profile[n].cores, group)]

-----------------------------------------------------------------------------
(* The registry *)

\* Register: a node appears, or comes back, with a fresh entry.
PlacementRegister(n) ==
    /\ online' = online \cup {n}
    /\ age' = [age EXCEPT ![n] = 0]
    /\ load' = [load EXCEPT ![n] = Unsampled]
    /\ out' = [out EXCEPT ![n] = AllIn]
    /\ inflight' = [inflight EXCEPT ![n] = 0]

\* handleHeartbeat: Heartbeat, UpdateOptOut and UpdateLoad.
PlacementHeartbeat(n, o, util, active) ==
    /\ n \in online
    /\ age' = [age EXCEPT ![n] = 0]
    /\ out' = [out EXCEPT ![n] = o]
    /\ load' = [load EXCEPT ![n] = [at |-> 0, util |-> util, active |-> active]]
    /\ UNCHANGED <<online, inflight>>

\* Adapter.Heartbeat carries no load sample.
ProtocolHeartbeat(n) ==
    /\ n \in online
    /\ age' = [age EXCEPT ![n] = 0]
    /\ UNCHANGED <<online, load, out, inflight>>

\* evictStale: the last heartbeat is not before the cutoff.
Kept(n) == age[n] < MaxAge

\* A minute passes, and evictStale removes what is too old.
Minute ==
    /\ online # {}
    /\ online' = {n \in online : Kept(n)}
    /\ age' = [n \in Nodes |-> IF n \in online' THEN age[n] + 1 ELSE 0]
    /\ load' = [n \in Nodes |->
                  IF n \notin online' THEN Unsampled
                  ELSE IF PlacementFresh(load[n]) THEN [load[n] EXCEPT !.at = @ + 1]
                  ELSE load[n]]
    /\ out' = [n \in Nodes |-> IF n \in online' THEN out[n] ELSE AllIn]
    /\ inflight' = [n \in Nodes |-> IF n \in online' THEN inflight[n] ELSE 0]

\* A submission or a rebind: FindMatch, Schedule and AddInFlight.
Place(req) ==
    LET cands == FindMatch(req) IN
    /\ Cardinality(cands) >= PlacementTier
    /\ \E chosen \in Schedule(cands, PlacementTier, req) :
          /\ \A n \in chosen : inflight[n] < MaxInFlight
          /\ inflight' = [n \in Nodes |-> inflight[n] + IF n \in chosen THEN 1 ELSE 0]
    /\ UNCHANGED <<online, age, load, out>>

\* AddInFlight(-1): a completion or a decline.
Release(n) ==
    /\ inflight[n] > 0
    /\ inflight' = [inflight EXCEPT ![n] = @ - 1]
    /\ UNCHANGED <<online, age, load, out>>

-----------------------------------------------------------------------------

PlacementInit ==
    /\ online = {}
    /\ age = [n \in Nodes |-> 0]
    /\ load = [n \in Nodes |-> Unsampled]
    /\ out = [n \in Nodes |-> AllIn]
    /\ inflight = [n \in Nodes |-> 0]

PlacementNext ==
    \/ \E n \in Nodes : PlacementRegister(n) \/ ProtocolHeartbeat(n) \/ Release(n)
    \/ \E n \in Nodes, o \in OptOutStates, u \in Utils, a \in BOOLEAN :
          PlacementHeartbeat(n, o, u, a)
    \/ Minute
    \/ \E req \in PlacementRequests : Place(req)

PlacementSpec == PlacementInit /\ [][PlacementNext]_placementVars

-----------------------------------------------------------------------------
(* Properties *)

\* The variables keep their types, and no node stays in the registry longer
\* than evictStale lets it.
PlacementTypeOK ==
    /\ online \subseteq Nodes
    /\ age \in [Nodes -> 0 .. MaxAge]
    /\ load \in [Nodes -> [at : (0 .. loadSampleTTL + 1) \cup {NoSample},
                           util : 0 .. 100, active : BOOLEAN]]
    /\ out \in [Nodes -> OptOutFields]
    /\ inflight \in [Nodes -> 0 .. MaxInFlight]

\* P holds of every way the request may be placed now: chosen n, passed over m.
Whenever(P(_, _, _, _)) ==
    \A req \in PlacementRequests :
        LET cands == FindMatch(req) IN
        Cardinality(cands) >= PlacementTier =>
            \A chosen \in Schedule(cands, PlacementTier, req) :
                \A n \in chosen, m \in cands \ chosen : P(n, m, cands, req)

SameTerms(n, m, cands, req) ==
    /\ Certified(n, cands) = Certified(m, cands)
    /\ localityScore(n, req) = localityScore(m, req)

\* Placements spread: of two nodes that differ in nothing but the work they
\* have, Schedule never takes the one with more of it.
SpreadsAmongEquals ==
    Whenever(LAMBDA n, m, cands, req :
        SameTerms(n, m, cands, req) /\ load[n] = load[m] => inflight[n] <= inflight[m])

\* "A node that stops reporting must never outrank an honest node": between
\* nodes equal in all else, one without a fresh sample is taken only when the
\* one that reports has no idleness to show, and then as its equal.
SilenceNeverOutranks ==
    Whenever(LAMBDA n, m, cands, req :
        /\ SameTerms(n, m, cands, req)
        /\ inflight[n] = inflight[m]
        /\ ~PlacementFresh(load[n])
        /\ PlacementFresh(load[m])
        => load[m].active \/ load[m].util = 100)

\* A plain request of the category, from nobody in particular.
AnyRequest(workload) ==
    [workload |-> workload, excluded |-> {}, consumer |-> "", residency |-> "",
     gpu |-> FALSE, cores |-> 0, ram |-> 0, disk |-> 0, region |-> "", country |-> ""]

\* AggregateCapacity counts supply the way FindMatch matches demand: per
\* category, over all classes, the nodes it reports are those a plain request
\* finds, with their cores.
SupplyMirrorsMatch ==
    \A w \in {"batch_compute", "object_storage", "print_3d"} :
        LET found == FindMatch(AnyRequest(w))
            groups == {[class |-> c, sum |-> AggregateCapacity(c, Category(w))] :
                         c \in {Profile[n].class : n \in Nodes}} IN
        /\ MapThenSumSet(LAMBDA g : g.sum.nodes, groups) = Cardinality(found)
        /\ MapThenSumSet(LAMBDA g : g.sum.vcpus, groups)
             = MapThenSumSet(LAMBDA n : Profile[n].cores, found)

\* wLocality is dominant: a same-region node beats any out-of-region node of
\* any class.
LocalityFirst ==
    Whenever(LAMBDA n, m, cands, req :
        Profile[m].region = req.region /\ req.region # "" => Profile[n].region = req.region)

\* Idleness may tip ties but never overturn the certified terms.
IdleOnlyTipsTies ==
    Whenever(LAMBDA n, m, cands, req :
        localityScore(n, req) = localityScore(m, req) /\ inflight[n] = inflight[m]
            => Certified(n, cands) >= Certified(m, cands))

=============================================================================
