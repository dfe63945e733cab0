---------------------------- MODULE SupplyProofs ----------------------------
(***************************************************************************)
(* Nodes on offer.  The scheduler's choice, for any set of nodes, profiles, *)
(* requests, utilisations and opt-out states: placements spread, and silence *)
(* about the load is never an advantage.  Signed listings, for any keys,   *)
(* handlers and messages: each takes effect once, the first key stays.     *)
(***************************************************************************)
EXTENDS Placement, NodeListing, FiniteSetTheorems, TLAPS

-----------------------------------------------------------------------------
(* The signed protocol *)

\* Messages of a class the node_class enum has.
Listable == {m \in Messages : nodeClassForComputeClass(m.class) \in {"A", "B", "C"}}

\* What a handler may hold.
Held ==
    {ListingIdle}
        \cup [stage : {"compare"}, msg : Keys]
        \cup [stage : {"bumped"}, msg : Messages]
        \cup [stage : {"stored"}, msg : Listable]
        \cup [stage : {"got", "registered"}, msg : Listable, hints : 0 .. MaxSeq]

\* The handler's listing has its number and is not written yet.
Writing(h) == handler[h].stage = "bumped" /\ handler[h].msg.kind = "listing"

\* A listing that was, or is about to be, written has a spent number; while
\* it is about to be written it has not been, and one handler holds it.
ListingInv ==
    /\ key \in Keys \cup {NoKey} /\ told \subseteq Keys
    /\ sent \subseteq Messages /\ IsFiniteSet(sent)
    /\ lastSeq \in [{"listing", "heartbeat"} -> 0 .. MaxSeq]
    /\ row \in [listed : 0 .. MaxSeq, class : {"A", "B", "C"}]
    /\ entry = NoEntry \/ entry \in Entries
    /\ listingFaults \in 0 .. MaxListingFaults
    /\ handler \in [ListingHandlers -> Held]
    /\ applied \in [ListingSeqs -> 0 .. 1]
    /\ \A s \in ListingSeqs : applied[s] = 1 => s <= lastSeq["listing"]
    /\ \A h \in ListingHandlers :
          Writing(h) => /\ handler[h].msg.seq <= lastSeq["listing"]
                        /\ applied[handler[h].msg.seq] = 0
    /\ \A g, h \in ListingHandlers :
          Writing(g) /\ Writing(h) /\ handler[g].msg.seq = handler[h].msg.seq => g = h
    /\ EnrolledKeyHeld

LEMMA ListingStart == ListingInit => ListingInv
<1> SUFFICES ASSUME ListingInit PROVE ListingInv
  OBVIOUS
<1>1. MaxSeq \in Nat /\ ListingIdle \in Held /\ ListingIdle.stage = "idle"
  BY ListingAssumption DEF Held, ListingIdle
<1>2. \A h \in ListingHandlers : ~Writing(h)
  BY <1>1 DEF ListingInit, Writing
<1>3. IsFiniteSet(sent)
  BY FS_EmptySet DEF ListingInit
<1>4. /\ lastSeq \in [{"listing", "heartbeat"} -> 0 .. MaxSeq]
      /\ applied \in [ListingSeqs -> 0 .. 1] /\ \A s \in ListingSeqs : applied[s] # 1
  BY <1>1 DEF ListingInit
<1>5. /\ row \in [listed : 0 .. MaxSeq, class : {"A", "B", "C"}]
      /\ listingFaults \in 0 .. MaxListingFaults
  BY <1>1, ListingAssumption DEF ListingInit
<1> QED BY <1>1, <1>2, <1>3, <1>4, <1>5 DEF ListingInit, ListingInv, EnrolledKeyHeld

\* What each step makes of what a handler holds.
LEMMA HeldFields ==
    ASSUME NEW r \in Held
    PROVE  /\ r.stage = "compare" => r.msg \in Keys
           /\ r.stage = "bumped" => r.msg \in Messages
           /\ r.stage \in {"stored", "got", "registered"} => r.msg \in Listable
           /\ r.stage = "got" => r.hints \in 0 .. MaxSeq
           /\ r.stage = "bumped" /\ r.msg \in Listable =>
                 /\ [r EXCEPT !.stage = "stored"] \in Held
                 /\ [r EXCEPT !.stage = "stored"].stage = "stored"
           /\ r.stage = "got" =>
                 /\ [r EXCEPT !.stage = "registered"] \in Held
                 /\ [r EXCEPT !.stage = "registered"].stage = "registered"
           /\ ListingIdle \in Held /\ ListingIdle.stage = "idle"
<1>1. CASE r = ListingIdle
  BY <1>1 DEF Held, ListingIdle
<1>2. CASE r \in [stage : {"compare"}, msg : Keys]
  BY <1>2 DEF Held, ListingIdle
<1>3. CASE r \in [stage : {"bumped"}, msg : Messages]
  BY <1>3 DEF Held, ListingIdle
<1>4. CASE r \in [stage : {"stored"}, msg : Listable]
  BY <1>4 DEF Held, ListingIdle
<1>5. CASE r \in [stage : {"got", "registered"}, msg : Listable, hints : 0 .. MaxSeq]
  BY <1>5 DEF Held, ListingIdle
<1> QED BY <1>1, <1>2, <1>3, <1>4, <1>5 DEF Held

\* The classes the code knows are mapped into the enum, or to the error.
LEMMA ClassKnown ==
    ASSUME NEW m \in Messages
    PROVE  nodeClassForComputeClass(m.class) = "error" \/ m \in Listable
<1>1. m.class \in ComputeClasses
  BY ListingAssumption DEF Messages
<1> QED BY <1>1 DEF Listable, nodeClassForComputeClass, ComputeClasses

\* Steps after which no handler writes that did not before.
LEMMA NoNewWriter ==
    ASSUME ListingInv,
           handler' \in [ListingHandlers -> Held],
           \A h \in ListingHandlers : handler'[h] = handler[h] \/ handler'[h].stage # "bumped",
           key' \in Keys \cup {NoKey}, told' \subseteq Keys, EnrolledKeyHeld',
           entry' = NoEntry \/ entry' \in Entries, row' = row,
           listingFaults' \in 0 .. MaxListingFaults,
           sent' \subseteq Messages, IsFiniteSet(sent'),
           lastSeq' = lastSeq, applied' = applied
    PROVE  ListingInv'
<1>1. \A h \in ListingHandlers : Writing(h)' => Writing(h) /\ handler'[h] = handler[h]
  BY DEF Writing
<1>2. \A h \in ListingHandlers :
        Writing(h)' => /\ handler'[h].msg.seq <= lastSeq'["listing"]
                       /\ applied'[handler'[h].msg.seq] = 0
  BY <1>1 DEF ListingInv
<1>3. \A g, h \in ListingHandlers :
        Writing(g)' /\ Writing(h)' /\ handler'[g].msg.seq = handler'[h].msg.seq => g = h
  BY <1>1 DEF ListingInv
<1> QED BY <1>2, <1>3 DEF ListingInv

\* First write wins, and who is told "enrolled" presented the key that won.
LEMMA EnrolSteps ==
    ASSUME ListingInv, NEW h \in ListingHandlers,
           EnrolCompare(h) \/ \E k \in Keys : EnrolInsert(h, k)
    PROVE  ListingInv'
<1>a. handler \in [ListingHandlers -> Held] /\ ListingIdle \in Held /\ ListingIdle.stage = "idle"
  BY DEF ListingInv, Held, ListingIdle
<1>b. key \in Keys \cup {NoKey} /\ told \subseteq Keys /\ told \subseteq {key}
  BY DEF ListingInv, EnrolledKeyHeld
<1>1. CASE EnrolCompare(h)
  <2>1. handler[h].msg \in Keys
    BY <1>1, <1>a, HeldFields DEF EnrolCompare
  <2>2. told' \subseteq Keys /\ EnrolledKeyHeld'
    BY <1>1, <1>b, <2>1 DEF EnrolCompare, SameKey, EnrolledKeyHeld
  <2>3. /\ handler' \in [ListingHandlers -> Held]
        /\ \A g \in ListingHandlers : handler'[g] = handler[g] \/ handler'[g].stage # "bumped"
    BY <1>1, <1>a DEF EnrolCompare, ListingDone
  <2> QED BY <1>1, <2>2, <2>3, NoNewWriter DEF EnrolCompare, ListingInv
<1>2. ASSUME NEW k \in Keys, EnrolInsert(h, k) PROVE ListingInv'
  <2>1. Holding("compare", k) \in Held /\ Holding("compare", k).stage = "compare"
    BY DEF Holding, Held
  <2>2. key' \in Keys \cup {NoKey} /\ told' \subseteq Keys /\ EnrolledKeyHeld'
    BY <1>2, <1>b, ListingAssumption DEF EnrolInsert, Inserted, EnrolledKeyHeld
  <2>3. handler' = handler \/ handler' = [handler EXCEPT ![h] = Holding("compare", k)]
    BY <1>2 DEF EnrolInsert
  <2>4. /\ handler' \in [ListingHandlers -> Held]
        /\ \A g \in ListingHandlers : handler'[g] = handler[g] \/ handler'[g].stage # "bumped"
    BY <1>a, <2>1, <2>3
  <2> QED BY <1>2, <2>2, <2>4, NoNewWriter DEF EnrolInsert, ListingInv
<1> QED BY <1>1, <1>2

\* The client numbers its messages within the bound.
LEMMA SendStep ==
    ASSUME ListingInv, NEW kind \in {"listing", "heartbeat"}, NEW k \in Keys, NEW c \in Classes,
           Send(kind, k, c)
    PROVE  ListingInv'
<1> DEFINE m == [kind |-> kind, seq |-> NextSeq(kind), key |-> k, class |-> c]
<1>1. sent \subseteq Messages /\ IsFiniteSet(sent)
  BY DEF ListingInv
<1>2. IsFiniteSet({x \in sent : x.kind = kind})
  BY <1>1, FS_Subset
<1>3. Cardinality({x \in sent : x.kind = kind}) \in Nat
  BY <1>2, FS_CardinalityType
<1>4. NextSeq(kind) \in ListingSeqs
  BY <1>3, ListingAssumption DEF NextSeq, Send, ListingSeqs
<1>5. m \in Messages
  BY <1>4 DEF Messages
<1>6. sent' = sent \cup {m}
  BY DEF Send
<1> HIDE DEF m
<1>7. sent' \subseteq Messages /\ IsFiniteSet(sent')
  BY <1>1, <1>5, <1>6, FS_AddElement
<1>8. /\ key' = key /\ lastSeq' = lastSeq /\ entry' = entry /\ handler' = handler
      /\ applied' = applied /\ told' = told /\ row' = row /\ listingFaults' = listingFaults
  BY DEF Send
<1> QED BY <1>7, <1>8, NoNewWriter DEF ListingInv, EnrolledKeyHeld

\* bumpSeq: the number exceeds every number spent before, so it is new.
LEMMA BumpStep ==
    ASSUME ListingInv, NEW h \in ListingHandlers, NEW m \in sent, Bump(h, m)
    PROVE  ListingInv'
<1>1. m \in Messages /\ m.kind \in {"listing", "heartbeat"} /\ m.seq \in ListingSeqs
  BY DEF ListingInv, Messages
<1>2. /\ handler \in [ListingHandlers -> Held]
      /\ lastSeq \in [{"listing", "heartbeat"} -> 0 .. MaxSeq]
      /\ applied \in [ListingSeqs -> 0 .. 1]
      /\ MaxSeq \in Nat
  BY ListingAssumption DEF ListingInv
<1>3. /\ Holding("bumped", m) \in Held
      /\ Holding("bumped", m).stage = "bumped" /\ Holding("bumped", m).msg = m
  BY <1>1 DEF Holding, Held
<1>4. /\ lastSeq[m.kind] < m.seq
      /\ lastSeq' = [lastSeq EXCEPT ![m.kind] = m.seq]
      /\ handler' = [handler EXCEPT ![h] = Holding("bumped", m)]
      /\ key' = key /\ entry' = entry /\ sent' = sent /\ applied' = applied /\ told' = told
      /\ row' = row /\ listingFaults' = listingFaults
  BY DEF Bump, Exceeds
<1>5. handler' \in [ListingHandlers -> Held]
  BY <1>2, <1>3, <1>4
<1>6. /\ lastSeq' \in [{"listing", "heartbeat"} -> 0 .. MaxSeq]
      /\ lastSeq["listing"] <= lastSeq'["listing"]
      /\ m.kind = "listing" => lastSeq["listing"] < m.seq /\ lastSeq'["listing"] = m.seq
  BY <1>1, <1>2, <1>4 DEF ListingSeqs
<1>7. \A g \in ListingHandlers : g # h => handler'[g] = handler[g] /\ (Writing(g)' <=> Writing(g))
  BY <1>2, <1>4 DEF Writing
<1>8. handler'[h].msg = m /\ (Writing(h)' <=> m.kind = "listing")
  BY <1>2, <1>3, <1>4 DEF Writing
<1>9. \A g \in ListingHandlers : Writing(g) =>
        handler[g].msg.seq \in ListingSeqs /\ handler[g].msg.seq <= lastSeq["listing"]
  BY <1>2, HeldFields DEF ListingInv, Writing, Messages
<1>10. \A s \in ListingSeqs : applied'[s] = 1 => s <= lastSeq'["listing"]
  BY <1>2, <1>4, <1>6 DEF ListingInv, ListingSeqs
<1>11. \A g \in ListingHandlers :
         Writing(g)' => /\ handler'[g].msg.seq <= lastSeq'["listing"]
                        /\ applied'[handler'[g].msg.seq] = 0
  <2>1. CASE m.kind = "listing"
    <3>1. applied[m.seq] = 0
      BY <1>1, <1>2, <1>6, <2>1 DEF ListingInv, ListingSeqs
    <3> QED BY <1>1, <1>2, <1>4, <1>6, <1>7, <1>8, <1>9, <2>1, <3>1 DEF ListingInv, ListingSeqs
  <2>2. CASE m.kind # "listing"
    BY <1>2, <1>4, <1>6, <1>7, <1>8, <1>9, <2>2 DEF ListingInv, ListingSeqs
  <2> QED BY <2>1, <2>2
<1>12. \A g \in ListingHandlers : g # h /\ Writing(g)' /\ Writing(h)' =>
         handler'[g].msg.seq # handler'[h].msg.seq
  BY <1>1, <1>2, <1>6, <1>7, <1>8, <1>9 DEF ListingSeqs
<1>13. \A f, g \in ListingHandlers :
         Writing(f)' /\ Writing(g)' /\ handler'[f].msg.seq = handler'[g].msg.seq => f = g
  BY <1>7, <1>12 DEF ListingInv
<1> QED BY <1>4, <1>5, <1>6, <1>10, <1>11, <1>13 DEF ListingInv, EnrolledKeyHeld

\* UpdateNodeCapabilities: the one handler that holds the number writes it.
LEMMA StoreStep ==
    ASSUME ListingInv, NEW h \in ListingHandlers, Store(h)
    PROVE  ListingInv'
<1> DEFINE s == handler[h].msg.seq
<1>1. handler \in [ListingHandlers -> Held] /\ applied \in [ListingSeqs -> 0 .. 1] /\ Writing(h)
  BY DEF ListingInv, Store, Writing
<1>2. s \in ListingSeqs /\ s <= lastSeq["listing"] /\ applied[s] = 0
  BY <1>1, HeldFields DEF ListingInv, Writing, Messages
<1>3. /\ applied' = [applied EXCEPT ![s] = applied[s] + 1]
      /\ handler' = [handler EXCEPT ![h] = [handler[h] EXCEPT !.stage = "stored"]]
      /\ key' = key /\ lastSeq' = lastSeq /\ entry' = entry /\ sent' = sent /\ told' = told
      /\ row' = [listed |-> s, class |-> nodeClassForComputeClass(handler[h].msg.class)]
      /\ listingFaults' = listingFaults
      /\ nodeClassForComputeClass(handler[h].msg.class) # "error"
  BY DEF Store, Step
<1>m. handler[h].msg \in Listable
  BY <1>1, <1>3, HeldFields, ClassKnown DEF Writing
<1>r. row' \in [listed : 0 .. MaxSeq, class : {"A", "B", "C"}]
  <2>1. s \in 0 .. MaxSeq
    BY <1>2, ListingAssumption DEF ListingSeqs
  <2> HIDE DEF s
  <2> QED BY <1>3, <1>m, <2>1 DEF Listable
<1>4. LET r == [handler[h] EXCEPT !.stage = "stored"] IN r \in Held /\ r.stage = "stored"
  BY <1>1, <1>m, HeldFields DEF Writing
<1>5. /\ handler' \in [ListingHandlers -> Held] /\ handler'[h].stage = "stored"
      /\ \A g \in ListingHandlers : g # h => handler'[g] = handler[g]
  BY <1>1, <1>3, <1>4
<1>6. /\ ~Writing(h)'
      /\ \A g \in ListingHandlers :
            Writing(g)' => g # h /\ Writing(g) /\ handler'[g] = handler[g] /\ handler[g].msg.seq # s
  BY <1>1, <1>5 DEF Writing, ListingInv
<1> HIDE DEF s
<1>7. /\ applied' \in [ListingSeqs -> 0 .. 1]
      /\ \A t \in ListingSeqs : t # s => applied'[t] = applied[t]
  BY <1>1, <1>2, <1>3
<1>8. \A t \in ListingSeqs : applied'[t] = 1 => t <= lastSeq'["listing"]
  BY <1>2, <1>3, <1>7 DEF ListingInv
<1>9. \A g \in ListingHandlers :
        Writing(g)' => /\ handler'[g].msg.seq <= lastSeq'["listing"]
                       /\ applied'[handler'[g].msg.seq] = 0
  <2> SUFFICES ASSUME NEW g \in ListingHandlers, Writing(g)'
               PROVE  /\ handler'[g].msg.seq <= lastSeq'["listing"]
                      /\ applied'[handler'[g].msg.seq] = 0
    OBVIOUS
  <2>1. handler[g].msg.seq \in ListingSeqs
    BY <1>1, <1>6, HeldFields DEF Writing, Messages
  <2> QED BY <1>3, <1>6, <1>7, <2>1 DEF ListingInv
<1>10. \A f, g \in ListingHandlers :
         Writing(f)' /\ Writing(g)' /\ handler'[f].msg.seq = handler'[g].msg.seq => f = g
  BY <1>6 DEF ListingInv
<1> QED BY <1>3, <1>r, <1>5, <1>7, <1>8, <1>9, <1>10 DEF ListingInv, EnrolledKeyHeld

\* The other steps of a handler, and those that end it.
LEMMA ServeSteps ==
    ASSUME ListingInv, NEW h \in ListingHandlers,
           \/ RefuseClass(h) \/ Get(h) \/ Register(h) \/ UpdateOptOut(h) \/ Beat(h) \/ Abort(h)
    PROVE  ListingInv'
<1>a. /\ handler \in [ListingHandlers -> Held] /\ handler[h] \in Held
      /\ ListingIdle \in Held /\ ListingIdle.stage = "idle"
      /\ entry = NoEntry \/ entry \in Entries
      /\ listingFaults \in 0 .. MaxListingFaults
      /\ MaxListingFaults \in Nat /\ MaxSeq \in Nat
  BY ListingAssumption DEF ListingInv, Held, ListingIdle
<1>b. ASSUME NEW new \in Held, new.stage # "bumped", handler' = [handler EXCEPT ![h] = new],
             entry' = NoEntry \/ entry' \in Entries, listingFaults' \in 0 .. MaxListingFaults,
             key' = key, told' = told, row' = row, sent' = sent, lastSeq' = lastSeq,
             applied' = applied
      PROVE  ListingInv'
  <2>1. /\ handler' \in [ListingHandlers -> Held]
        /\ \A g \in ListingHandlers : handler'[g] = handler[g] \/ handler'[g].stage # "bumped"
    BY <1>a, <1>b
  <2> QED BY <1>b, <2>1, NoNewWriter DEF ListingInv, EnrolledKeyHeld
<1>1. CASE RefuseClass(h) \/ Beat(h)
  <2>1. /\ handler' = [handler EXCEPT ![h] = ListingIdle]
        /\ key' = key /\ lastSeq' = lastSeq /\ row' = row /\ entry' = entry /\ sent' = sent
        /\ applied' = applied /\ told' = told /\ listingFaults' = listingFaults
    BY <1>1 DEF RefuseClass, Beat, ListingDone
  <2> QED BY <1>a, <1>b, <2>1
<1>2. CASE Abort(h)
  <2>1. listingFaults' \in 0 .. MaxListingFaults
    BY <1>a, <1>2 DEF Abort, ListingFault
  <2> QED BY <1>a, <1>b, <1>2, <2>1 DEF Abort, ListingDone
<1>3. CASE Get(h)
  <2> DEFINE i == IF entry = NoEntry THEN 0 ELSE entry.hints
             new == [stage |-> "got", msg |-> handler[h].msg, hints |-> i]
  <2>1. i \in 0 .. MaxSeq
    BY <1>a DEF Entries
  <2>2. handler[h].msg \in Listable
    BY <1>a, <1>3, HeldFields DEF Get
  <2> HIDE DEF i
  <2>3. new \in Held /\ new.stage # "bumped"
    BY <2>1, <2>2 DEF Held
  <2>4. handler' = [handler EXCEPT ![h] = new]
    BY <1>3, <1>a DEF Get, i
  <2> HIDE DEF new
  <2> QED BY <1>a, <1>b, <1>3, <2>3, <2>4 DEF Get
<1>4. CASE Register(h)
  <2>1. handler[h].stage = "got"
    BY <1>4 DEF Register
  <2>2. /\ handler[h].msg \in Listable /\ handler[h].hints \in 0 .. MaxSeq
        /\ [handler[h] EXCEPT !.stage = "registered"] \in Held
        /\ [handler[h] EXCEPT !.stage = "registered"].stage # "bumped"
    BY <1>a, <2>1, HeldFields
  <2>3. handler[h].msg.seq \in 0 .. MaxSeq
    BY <1>a, <2>2 DEF Listable, Messages, ListingSeqs
  <2>4. Merged(h) \in Entries
    BY <2>2, <2>3 DEF Merged, Entries, Listable
  <2>5. handler' = [handler EXCEPT ![h] = [handler[h] EXCEPT !.stage = "registered"]]
    BY <1>4 DEF Register, Step
  <2> QED BY <1>a, <1>b, <1>4, <2>2, <2>4, <2>5 DEF Register
<1>5. CASE UpdateOptOut(h)
  <2>1. handler[h].msg \in Listable
    BY <1>a, <1>5, HeldFields DEF UpdateOptOut
  <2>2. handler[h].msg.seq \in 0 .. MaxSeq
    BY <1>a, <2>1 DEF Listable, Messages, ListingSeqs
  <2>3. \A s \in 0 .. MaxSeq : entry \in Entries => [entry EXCEPT !.hints = s] \in Entries
    BY DEF Entries
  <2>4. entry' = NoEntry \/ entry' \in Entries
    BY <1>a, <1>5, <2>2, <2>3 DEF UpdateOptOut
  <2> QED BY <1>a, <1>b, <1>5, <2>4 DEF UpdateOptOut, ListingDone
<1> QED BY <1>1, <1>2, <1>3, <1>4, <1>5

LEMMA ListingStep == ListingInv /\ [ListingNext]_listingVars => ListingInv'
<1> SUFFICES ASSUME ListingInv, [ListingNext]_listingVars PROVE ListingInv'
  OBVIOUS
<1>1. CASE UNCHANGED listingVars
  <2>1. /\ key' = key /\ lastSeq' = lastSeq /\ row' = row /\ entry' = entry /\ sent' = sent
        /\ handler' = handler /\ applied' = applied /\ told' = told
        /\ listingFaults' = listingFaults
    BY <1>1 DEF listingVars
  <2> QED BY <2>1, NoNewWriter DEF ListingInv, EnrolledKeyHeld
<1>2. CASE ListingRestart
  <2>1. /\ handler' = [h \in ListingHandlers |-> ListingIdle]
        /\ ListingIdle \in Held /\ ListingIdle.stage # "bumped"
    BY <1>2 DEF ListingRestart, Held, ListingIdle
  <2>2. listingFaults' \in 0 .. MaxListingFaults
    BY <1>2, ListingAssumption DEF ListingRestart, ListingFault, ListingInv
  <2>3. /\ key' = key /\ lastSeq' = lastSeq /\ row' = row /\ entry' = NoEntry /\ sent' = sent
        /\ applied' = applied /\ told' = told
    BY <1>2 DEF ListingRestart
  <2>4. /\ handler' \in [ListingHandlers -> Held]
        /\ \A h \in ListingHandlers : handler'[h].stage # "bumped"
    BY <2>1
  <2> QED BY <2>2, <2>3, <2>4, NoNewWriter DEF ListingInv, EnrolledKeyHeld
<1> QED BY <1>1, <1>2, EnrolSteps, SendStep, BumpStep, StoreStep, ServeSteps
        DEF ListingNext, ServeStep

LEMMA ListingInductive == ListingSpec => []ListingInv
BY ListingStart, ListingStep, PTL DEF ListingSpec

\* bumpSeq makes every listing take effect at most once, for any number of
\* concurrent handlers and any duplication, delay or reordering of messages.
THEOREM ListedOnce == ListingSpec => []AppliedOnce
<1>1. ListingInv => AppliedOnce
  BY DEF ListingInv, AppliedOnce
<1> QED BY <1>1, ListingInductive, PTL

\* handleRegisterNodePubkey: of any enrolments that race, those answered 200
\* all presented the key that is in node_protocol_keys.
THEOREM FirstKeyWins == ListingSpec => []EnrolledKeyHeld
<1>1. ListingInv => EnrolledKeyHeld
  BY DEF ListingInv
<1> QED BY <1>1, ListingInductive, PTL

-----------------------------------------------------------------------------
(* Scores are numbers.  The largest core count among the candidates exists    *)
(* because there are finitely many; the argument takes a smallest set of      *)
(* nodes without a largest member.                                            *)

HasTop(T) == \E n \in T : \A m \in T : Profile[m].cores <= Profile[n].cores

LEMMA TopCores ==
    ASSUME NEW T \in SUBSET Nodes, T # {}
    PROVE  HasTop(T)
<1> DEFINE B == {U \in SUBSET Nodes : U # {} /\ ~HasTop(U)}
<1> SUFFICES ASSUME B # {} PROVE FALSE
  OBVIOUS
<1>1. IsFiniteSet(Nodes) /\ \A n \in Nodes : Profile[n].cores \in Int
  BY PlacementAssumption
<1>2. IsWellFoundedOn(StrictSubsetOrdering(Nodes), SUBSET Nodes)
  BY <1>1, FS_StrictSubsetOrderingWellFounded, FS_FiniteSubsetsOfFinite
<1>3. B \subseteq SUBSET Nodes
  OBVIOUS
<1> HIDE DEF B
<1>4. PICK U \in B : \A V \in B : ~(<<V, U>> \in StrictSubsetOrdering(Nodes))
  BY <1>2, <1>3, WFMin
<1>5. U \in SUBSET Nodes /\ U # {} /\ ~HasTop(U)
  BY <1>4 DEF B
<1>6. PICK x \in U : TRUE
  BY <1>5
<1>7. U \ {x} \in SUBSET Nodes /\ <<U \ {x}, U>> \in StrictSubsetOrdering(Nodes)
  BY <1>5, <1>6 DEF StrictSubsetOrdering
<1>8. U \ {x} \notin B
  BY <1>4, <1>7
<1>9. CASE U \ {x} = {}
  <2>1. U = {x} /\ Profile[x].cores \in Int
    BY <1>1, <1>5, <1>6, <1>9
  <2> QED BY <1>5, <2>1 DEF HasTop
<1>10. CASE U \ {x} # {}
  <2>1. PICK t \in U \ {x} : \A m \in U \ {x} : Profile[m].cores <= Profile[t].cores
    BY <1>7, <1>8, <1>10 DEF B, HasTop
  <2>2. \A m \in U : Profile[m].cores \in Int
    BY <1>1, <1>5
  <2>3. CASE Profile[x].cores <= Profile[t].cores
    BY <1>5, <2>1, <2>3 DEF HasTop
  <2>4. CASE Profile[t].cores < Profile[x].cores
    BY <1>5, <1>6, <2>1, <2>2, <2>4 DEF HasTop
  <2> QED BY <1>6, <2>1, <2>2, <2>3, <2>4
<1> QED BY <1>9, <1>10

LEMMA MaxInt ==
    ASSUME NEW S, NEW t \in S, t \in Int, \A y \in S : y <= t
    PROVE  Max(S) \in S /\ \A y \in S : y <= Max(S)
<1>1. \E x \in S : \A y \in S : x >= y
  OBVIOUS
<1>2. Max(S) \in S /\ \A y \in S : Max(S) >= y
  BY <1>1 DEF Max
<1> QED BY <1>2

\* capacityScore divides by a positive number.
LEMMA CapacityInt ==
    ASSUME NEW cands \in SUBSET Nodes, NEW n \in cands
    PROVE  capacityScore(n, cands) \in Int
<1> DEFINE S == {1} \cup {Profile[m].cores : m \in cands}
<1>1. \A m \in cands : Profile[m].cores \in Int
  BY PlacementAssumption
<1>2. PICK t \in cands : \A m \in cands : Profile[m].cores <= Profile[t].cores
  BY TopCores DEF HasTop
<1>3. \E x \in S : x \in Int /\ \A y \in S : y <= x
  <2>1. CASE Profile[t].cores >= 1
    BY <1>1, <1>2, <2>1
  <2>2. CASE Profile[t].cores < 1
    <3>1. \A m \in cands : Profile[m].cores <= 1
      BY <1>1, <1>2, <2>2
    <3> QED BY <3>1
  <2> QED BY <1>1, <2>1, <2>2
<1>4. 1 \in S /\ \A y \in S : y \in Int
  BY <1>1
<1>5. capacityScore(n, cands) = (Weight * Profile[n].cores) \div Max(S)
  BY DEF capacityScore
<1> HIDE DEF S
<1>6. Max(S) \in Int /\ Max(S) >= 1
  BY <1>3, <1>4, MaxInt
<1>7. Weight * Profile[n].cores \in Int
  BY <1>1 DEF Weight
<1> HIDE DEF S
<1> QED BY <1>5, <1>6, <1>7

LEMMA FreshnessInt ==
    ASSUME PlacementTypeOK, NEW n \in Nodes
    PROVE  freshnessScore(n) \in Int
<1> DEFINE x == Weight - (Weight * age[n]) \div 30
<1>1. age[n] \in Int
  BY DEF PlacementTypeOK, MaxAge
<1>2. x \in Int
  BY <1>1 DEF Weight
<1>3. freshnessScore(n) = Max({0, x})
  BY DEF freshnessScore
<1> HIDE DEF x
<1>4. CASE x <= 0
  BY <1>2, <1>3, <1>4, MaxInt
<1>5. CASE x > 0
  BY <1>2, <1>3, <1>5, MaxInt
<1> QED BY <1>2, <1>4, <1>5

LEMMA ScoresInt ==
    ASSUME PlacementTypeOK, NEW cands \in SUBSET Nodes, NEW n \in cands, NEW req
    PROVE  /\ Certified(n, cands) \in Int /\ localityScore(n, req) \in Int
           /\ idleScore(load[n]) \in Int /\ inflight[n] \in Int
<1>1. classScore(Profile[n].class) \in Int
  BY DEF classScore, Weight
<1>2. Certified(n, cands) \in Int
  BY <1>1, CapacityInt, FreshnessInt DEF Certified
<1>3. localityScore(n, req) \in Int
  BY DEF localityScore, Weight
<1>4. load[n].util \in Int /\ inflight[n] \in Int
  BY PlacementAssumption DEF PlacementTypeOK
<1>5. idleScore(load[n]) \in Int
  BY <1>4 DEF idleScore, Weight
<1> QED BY <1>2, <1>3, <1>4, <1>5

\* Between candidates with the same certified terms and locality, the one
\* taken is no worse in what is left: idleness less the work in flight.
LEMMA ChosenOverEqual ==
    ASSUME PlacementTypeOK, NEW req, NEW cands \in SUBSET Nodes, NEW k,
           NEW chosen \in Schedule(cands, k, req),
           NEW n \in chosen, NEW m \in cands \ chosen, SameTerms(n, m, cands, req)
    PROVE  idleScore(load[n]) - 30 * inflight[n] >= idleScore(load[m]) - 30 * inflight[m]
<1>1. n \in cands /\ m \in cands
  BY DEF Schedule, kSubset
<1>2. Score(n, cands, req) >= Score(m, cands, req)
  BY DEF Schedule
<1>3. /\ Certified(n, cands) \in Int /\ localityScore(n, req) \in Int
      /\ idleScore(load[n]) \in Int /\ inflight[n] \in Int
  BY <1>1, ScoresInt
<1>4. /\ Certified(m, cands) \in Int /\ localityScore(m, req) \in Int
      /\ idleScore(load[m]) \in Int /\ inflight[m] \in Int
  BY <1>1, ScoresInt
<1>5. loadPenalty(n) = 30 * inflight[n] /\ loadPenalty(m) = 30 * inflight[m]
  BY <1>3, <1>4 DEF loadPenalty, Weight
<1>6. /\ Certified(n, cands) = Certified(m, cands)
      /\ localityScore(n, req) = localityScore(m, req)
  BY DEF SameTerms
<1>7. Score(n, cands, req) = Certified(m, cands) + localityScore(m, req)
                             + idleScore(load[n]) - 30 * inflight[n]
  BY <1>5, <1>6 DEF Score
<1>8. Score(m, cands, req) = Certified(m, cands) + localityScore(m, req)
                             + idleScore(load[m]) - 30 * inflight[m]
  BY <1>5 DEF Score
<1> QED BY <1>2, <1>3, <1>4, <1>7, <1>8

LEMMA MatchesAreNodes ==
    ASSUME PlacementTypeOK, NEW req
    PROVE  FindMatch(req) \in SUBSET Nodes
BY DEF FindMatch, PlacementTypeOK

\* In every state of the registry, placements spread among equals.
LEMMA Spreading == PlacementTypeOK => SpreadsAmongEquals
<1> SUFFICES ASSUME PlacementTypeOK, NEW req \in PlacementRequests,
                    NEW chosen \in Schedule(FindMatch(req), PlacementTier, req),
                    NEW n \in chosen, NEW m \in FindMatch(req) \ chosen,
                    SameTerms(n, m, FindMatch(req), req), load[n] = load[m]
             PROVE  inflight[n] <= inflight[m]
  BY DEF SpreadsAmongEquals, Whenever
<1> DEFINE cands == FindMatch(req)
<1>1. cands \in SUBSET Nodes
  BY MatchesAreNodes
<1>2. n \in cands /\ m \in cands
  BY DEF Schedule, kSubset
<1> HIDE DEF cands
<1>3. idleScore(load[n]) - 30 * inflight[n] >= idleScore(load[m]) - 30 * inflight[m]
  BY <1>1, ChosenOverEqual DEF cands
<1>4. idleScore(load[n]) \in Int /\ inflight[n] \in Int /\ inflight[m] \in Int
  BY <1>1, <1>2, ScoresInt
<1> QED BY <1>3, <1>4

\* In every state of the registry, a silent node is taken before its equal
\* only when that one has no idleness to show.
LEMMA Silence == PlacementTypeOK => SilenceNeverOutranks
<1> SUFFICES ASSUME PlacementTypeOK, NEW req \in PlacementRequests,
                    NEW chosen \in Schedule(FindMatch(req), PlacementTier, req),
                    NEW n \in chosen, NEW m \in FindMatch(req) \ chosen,
                    SameTerms(n, m, FindMatch(req), req), inflight[n] = inflight[m],
                    ~PlacementFresh(load[n]), PlacementFresh(load[m]), ~load[m].active
             PROVE  load[m].util = 100
  BY DEF SilenceNeverOutranks, Whenever
<1> DEFINE cands == FindMatch(req)
<1>1. cands \in SUBSET Nodes
  BY MatchesAreNodes
<1>2. n \in cands /\ m \in cands
  BY DEF Schedule, kSubset
<1> HIDE DEF cands
<1>3. idleScore(load[n]) - 30 * inflight[n] >= idleScore(load[m]) - 30 * inflight[m]
  BY <1>1, ChosenOverEqual DEF cands
<1>4. inflight[n] \in Int /\ load[m].util \in 0 .. 100
  <2>1. inflight[n] \in Int
    BY <1>1, <1>2, ScoresInt
  <2>2. m \in Nodes
    BY <1>1, <1>2
  <2>3. load[m].util \in 0 .. 100
    BY <2>2 DEF PlacementTypeOK
  <2> QED BY <2>1, <2>3
<1>5. idleScore(load[n]) = 0
  BY DEF idleScore
<1>6. idleScore(load[m]) = 120 - (120 * load[m].util) \div 100
  BY <1>4 DEF idleScore, Weight
<1>7. 120 - (120 * load[m].util) \div 100 <= 0
  BY <1>3, <1>4, <1>5, <1>6
<1> QED BY <1>4, <1>7

-----------------------------------------------------------------------------
(* The registry keeps its types *)

Samples == [at : (0 .. loadSampleTTL + 1) \cup {NoSample}, util : 0 .. 100, active : BOOLEAN]

LEMMA Defaults ==
    /\ Unsampled \in Samples /\ AllIn \in OptOutFields /\ 0 \in 0 .. MaxAge
    /\ 0 \in 0 .. MaxInFlight /\ MaxInFlight \in Nat
BY PlacementAssumption DEF Unsampled, Samples, AllIn, OptOutFields, MaxAge

LEMMA PlacementStart == PlacementInit => PlacementTypeOK
BY Defaults DEF PlacementInit, PlacementTypeOK, Samples

LEMMA OneNodeSteps ==
    ASSUME PlacementTypeOK, NEW n \in Nodes,
           PlacementRegister(n) \/ ProtocolHeartbeat(n) \/ Release(n)
    PROVE  PlacementTypeOK'
<1>a. /\ online \subseteq Nodes /\ age \in [Nodes -> 0 .. MaxAge] /\ load \in [Nodes -> Samples]
      /\ out \in [Nodes -> OptOutFields] /\ inflight \in [Nodes -> 0 .. MaxInFlight]
  BY DEF PlacementTypeOK, Samples
<1>1. CASE PlacementRegister(n)
  <2>1. /\ online' \subseteq Nodes /\ age' \in [Nodes -> 0 .. MaxAge]
        /\ load' \in [Nodes -> Samples] /\ out' \in [Nodes -> OptOutFields]
        /\ inflight' \in [Nodes -> 0 .. MaxInFlight]
    BY <1>a, <1>1, Defaults DEF PlacementRegister
  <2> QED BY <2>1 DEF PlacementTypeOK, Samples
<1>2. CASE ProtocolHeartbeat(n)
  BY <1>a, <1>2, Defaults DEF ProtocolHeartbeat, PlacementTypeOK, Samples
<1>3. CASE Release(n)
  <2>1. inflight[n] \in 0 .. MaxInFlight /\ MaxInFlight \in Nat /\ inflight[n] > 0
    BY <1>a, <1>3, Defaults DEF Release
  <2>2. inflight[n] - 1 \in 0 .. MaxInFlight
    BY <2>1
  <2> QED BY <1>a, <1>3, <2>2 DEF Release, PlacementTypeOK, Samples
<1> QED BY <1>1, <1>2, <1>3

LEMMA HeartbeatTypes ==
    ASSUME PlacementTypeOK, NEW n \in Nodes, NEW o \in OptOutStates, NEW u \in Utils,
           NEW a \in BOOLEAN, PlacementHeartbeat(n, o, u, a)
    PROVE  PlacementTypeOK'
<1> DEFINE x == [at |-> 0, util |-> u, active |-> a]
<1>1. x \in Samples /\ o \in OptOutFields
  BY PlacementAssumption DEF Samples, loadSampleTTL
<1>2. /\ load' = [load EXCEPT ![n] = x] /\ out' = [out EXCEPT ![n] = o]
      /\ age' = [age EXCEPT ![n] = 0] /\ online' = online /\ inflight' = inflight
  BY DEF PlacementHeartbeat
<1> HIDE DEF x
<1> QED BY <1>1, <1>2, Defaults DEF PlacementTypeOK, Samples

LEMMA MinuteTypes ==
    ASSUME PlacementTypeOK, Minute
    PROVE  PlacementTypeOK'
<1>a. /\ online \subseteq Nodes /\ age \in [Nodes -> 0 .. MaxAge] /\ load \in [Nodes -> Samples]
      /\ out \in [Nodes -> OptOutFields] /\ inflight \in [Nodes -> 0 .. MaxInFlight]
  BY DEF PlacementTypeOK, Samples
<1>1. online' \subseteq Nodes /\ \A n \in online' : age[n] < MaxAge
  BY <1>a DEF Minute, Kept
<1>2. age' \in [Nodes -> 0 .. MaxAge]
  <2>1. \A n \in Nodes : (IF n \in online' THEN age[n] + 1 ELSE 0) \in 0 .. MaxAge
    BY <1>a, <1>1 DEF MaxAge
  <2> QED BY <2>1 DEF Minute
<1>3. load' \in [Nodes -> Samples]
  <2>1. ASSUME NEW n \in Nodes, PlacementFresh(load[n])
        PROVE  [load[n] EXCEPT !.at = load[n].at + 1] \in Samples
    <3>1. load[n] \in Samples
      BY <1>a
    <3>2. load[n].at \in 0 .. loadSampleTTL
      BY <2>1, <3>1 DEF Samples, PlacementFresh, loadSampleTTL
    <3>3. load[n].at + 1 \in 0 .. loadSampleTTL + 1
      BY <3>2 DEF loadSampleTTL
    <3> QED BY <3>1, <3>3 DEF Samples
  <2> QED BY <1>a, <2>1, Defaults DEF Minute
<1>4. out' \in [Nodes -> OptOutFields] /\ inflight' \in [Nodes -> 0 .. MaxInFlight]
  BY <1>a, Defaults DEF Minute
<1> QED BY <1>1, <1>2, <1>3, <1>4 DEF PlacementTypeOK, Samples

LEMMA PlaceTypes ==
    ASSUME PlacementTypeOK, NEW req, Place(req)
    PROVE  PlacementTypeOK'
<1>1. PICK chosen \in Schedule(FindMatch(req), PlacementTier, req) :
         /\ \A n \in chosen : inflight[n] < MaxInFlight
         /\ inflight' = [n \in Nodes |-> inflight[n] + IF n \in chosen THEN 1 ELSE 0]
  BY DEF Place
<1>2. \A n \in Nodes : inflight[n] \in 0 .. MaxInFlight
  BY DEF PlacementTypeOK
<1>3. \A n \in Nodes : inflight[n] + (IF n \in chosen THEN 1 ELSE 0) \in 0 .. MaxInFlight
  BY <1>1, <1>2, Defaults
<1>4. inflight' \in [Nodes -> 0 .. MaxInFlight]
  BY <1>1, <1>3
<1> QED BY <1>4 DEF Place, PlacementTypeOK

\* Whatever heartbeats, minutes and placements do to the registry, its entries
\* keep their types, and no entry outlives evictStale's maximum age.
THEOREM PlacementTyped == PlacementSpec => []PlacementTypeOK
<1>1. PlacementTypeOK /\ [PlacementNext]_placementVars => PlacementTypeOK'
  <2> SUFFICES ASSUME PlacementTypeOK, [PlacementNext]_placementVars PROVE PlacementTypeOK'
    OBVIOUS
  <2>1. CASE UNCHANGED placementVars
    BY <2>1 DEF placementVars, PlacementTypeOK
  <2> QED BY <2>1, OneNodeSteps, HeartbeatTypes, MinuteTypes, PlaceTypes DEF PlacementNext
<1> QED BY <1>1, PlacementStart, PTL DEF PlacementSpec

\* Whatever the registry has become, Schedule never takes of two nodes that
\* differ in their work alone the one with more of it.
THEOREM PlacementsSpread == PlacementSpec => []SpreadsAmongEquals
BY PlacementTyped, Spreading, PTL

\* Whatever the registry has become, a node without a fresh load sample is
\* not taken before an equal one that reports being idle.
THEOREM SilenceNoAdvantage == PlacementSpec => []SilenceNeverOutranks
BY PlacementTyped, Silence, PTL

=============================================================================
