---------------------------- MODULE NodeListing ----------------------------
(***************************************************************************)
(* The signed protocol of a node: enrolment of its verification key        *)
(* (handleRegisterNodePubkey), capability listings (Adapter.SubmitListing) *)
(* and heartbeats (Adapter.Heartbeat), each numbered by a sequence number  *)
(* that the coordinator lets only grow (bumpSeq).                          *)
(*                                                                         *)
(* Atomicity.  Every statement, and every call of the registry, is an      *)
(* action of its own: SubmitListing advances the number, then writes the   *)
(* node's row, then reads and replaces the registry entry, then its        *)
(* opt-out hints, without a transaction.  Messages are duplicated, delayed *)
(* and reordered: any message sent may be delivered at any time.           *)
(*                                                                         *)
(* Abstractions.  One node.  What a listing says (capacity, opt-in) is     *)
(* named by its number; a signature is the key it was made with.  The      *)
(* protocol client is not part of the repository: it numbers its messages  *)
(* upwards, and submits a new listing when its last message failed.        *)
(***************************************************************************)
EXTENDS Naturals, FiniteSets

CONSTANTS
    Keys,             \* ed25519 public keys presented for the node
    NoKey,            \* no row in node_protocol_keys
    NoEntry,          \* not in the registry
    Classes,          \* compute classes the node's listings carry
    ListingHandlers,  \* requests served at the same time
    MaxSeq,           \* bound: numbers the node uses
    ListingSeqLimit,  \* largest storable number, MaxInt64 in the code
    MaxListingFaults  \* bound: failed statements, crashes of a handler, restarts

ComputeClasses == {"server", "standard", "micro", "unknown"}

ASSUME ListingAssumption ==
    /\ NoKey \notin Keys
    /\ Classes \subseteq ComputeClasses
    /\ {MaxSeq, ListingSeqLimit, MaxListingFaults} \subseteq Nat

VARIABLES
    key,           \* node_protocol_keys.public_key
    lastSeq,       \* last_listing_seq and last_heartbeat_seq
    row,           \* the listing and class in the nodes row
    entry,         \* the registry's entry
    sent,          \* signed messages of the node
    handler,       \* requests in progress
    applied,       \* how often each listing was written to the nodes row
    told,          \* keys whose enrolment was answered 200
    listingFaults  \* failures so far

listingVars == <<key, lastSeq, row, entry, sent, handler, applied, told, listingFaults>>

-----------------------------------------------------------------------------
(* Data *)

ListingSeqs == 1 .. MaxSeq

Messages == [kind : {"listing", "heartbeat"}, seq : ListingSeqs, key : Keys, class : Classes]

nodeClassForComputeClass(c) ==
    CASE c = "server" -> "A" [] c = "standard" -> "B" [] c = "micro" -> "C"
      [] c = "unknown" -> "error"

Entries == [listed : 0 .. MaxSeq, class : {"A", "B", "C"}, hints : 0 .. MaxSeq]

\* What a handler holds: the message, or the key to be enrolled, and the copy
\* of the registry entry.
ListingIdle == [stage |-> "idle"]

Holding(stage, m) == [stage |-> stage, msg |-> m]

Step(h, stage) == handler' = [handler EXCEPT ![h].stage = stage]

ListingDone(h) == handler' = [handler EXCEPT ![h] = ListingIdle]

ListingFault == listingFaults < MaxListingFaults /\ listingFaults' = listingFaults + 1

-----------------------------------------------------------------------------
(* Enrolment: POST /nodes/pubkey *)

\* ON CONFLICT (node_id) DO NOTHING
Inserted(k) == IF key = NoKey THEN k ELSE key

EnrolInsert(h, k) ==
    /\ handler[h] = ListingIdle
    /\ key' = Inserted(k)
    /\ IF key = NoKey
       THEN told' = told \cup {k} /\ UNCHANGED handler
       ELSE handler' = [handler EXCEPT ![h] = Holding("compare", k)] /\ UNCHANGED told
    /\ UNCHANGED <<lastSeq, row, entry, sent, applied, listingFaults>>

\* Variant: a row that is there is taken for the same key.
SameKeyAlways(k) == TRUE

\* bytes.Equal(existingKey, key)
SameKey(k) == k = key

\* 200 when the key is identical, 409 otherwise.
EnrolCompare(h) ==
    /\ handler[h].stage = "compare"
    /\ told' = IF SameKey(handler[h].msg) THEN told \cup {handler[h].msg} ELSE told
    /\ ListingDone(h)
    /\ UNCHANGED <<key, lastSeq, row, entry, sent, applied, listingFaults>>

-----------------------------------------------------------------------------
(* The protocol client *)

NextSeq(kind) == 1 + Cardinality({m \in sent : m.kind = kind})

Send(kind, k, class) ==
    /\ NextSeq(kind) <= MaxSeq
    /\ sent' = sent \cup {[kind |-> kind, seq |-> NextSeq(kind), key |-> k, class |-> class]}
    /\ UNCHANGED <<key, lastSeq, row, entry, handler, applied, told, listingFaults>>

-----------------------------------------------------------------------------
(* The adapter *)

\* Variant: the number may be repeated.
ExceedsOrEquals(seq, last) == seq <= ListingSeqLimit /\ last <= seq

\* bumpSeq: the range check and the guard of the UPDATE.
Exceeds(seq, last) == seq <= ListingSeqLimit /\ last < seq

\* bind, nodeKey and Verify, then bumpSeq.  A message that fails any of them
\* changes nothing.
Bump(h, m) ==
    /\ handler[h] = ListingIdle
    /\ m.key = key
    /\ Exceeds(m.seq, lastSeq[m.kind])
    /\ lastSeq' = [lastSeq EXCEPT ![m.kind] = m.seq]
    /\ handler' = [handler EXCEPT ![h] = Holding("bumped", m)]
    /\ UNCHANGED <<key, row, entry, sent, applied, told, listingFaults>>

\* nodeClassForComputeClass refuses the class: the number is spent.
RefuseClass(h) ==
    /\ handler[h].stage = "bumped"
    /\ handler[h].msg.kind = "listing"
    /\ nodeClassForComputeClass(handler[h].msg.class) = "error"
    /\ ListingDone(h)
    /\ UNCHANGED <<key, lastSeq, row, entry, sent, applied, told, listingFaults>>

\* UpdateNodeCapabilities, and the upserts of the printers.
Store(h) ==
    LET m == handler[h].msg IN
    /\ handler[h].stage = "bumped"
    /\ m.kind = "listing"
    /\ nodeClassForComputeClass(m.class) # "error"
    /\ row' = [listed |-> m.seq, class |-> nodeClassForComputeClass(m.class)]
    /\ applied' = [applied EXCEPT ![m.seq] = @ + 1]
    /\ Step(h, "stored")
    /\ UNCHANGED <<key, lastSeq, entry, sent, told, listingFaults>>

\* registry.Get, or an entry built from the row.
Get(h) ==
    /\ handler[h].stage = "stored"
    /\ handler' = [handler EXCEPT ![h] =
          [stage |-> "got", msg |-> @.msg, hints |-> IF entry = NoEntry THEN 0 ELSE entry.hints]]
    /\ UNCHANGED <<key, lastSeq, row, entry, sent, applied, told, listingFaults>>

\* The copy, with the listing merged in.
Merged(h) ==
    [listed |-> handler[h].msg.seq, hints |-> handler[h].hints,
     class |-> nodeClassForComputeClass(handler[h].msg.class)]

\* registry.Register.
Register(h) ==
    /\ handler[h].stage = "got"
    /\ entry' = Merged(h)
    /\ Step(h, "registered")
    /\ UNCHANGED <<key, lastSeq, row, sent, applied, told, listingFaults>>

\* registry.UpdateOptOut; a node evicted meanwhile is passed over.
UpdateOptOut(h) ==
    /\ handler[h].stage = "registered"
    /\ entry' = IF entry = NoEntry THEN entry ELSE [entry EXCEPT !.hints = handler[h].msg.seq]
    /\ ListingDone(h)
    /\ UNCHANGED <<key, lastSeq, row, sent, applied, told, listingFaults>>

\* Heartbeat: without an entry an error, "submit a listing first".
Beat(h) ==
    /\ handler[h].stage = "bumped"
    /\ handler[h].msg.kind = "heartbeat"
    /\ ListingDone(h)
    /\ UNCHANGED <<key, lastSeq, row, entry, sent, applied, told, listingFaults>>

\* A statement fails, or the connection ends: the handler returns.
Abort(h) ==
    /\ handler[h] # ListingIdle
    /\ ListingFault
    /\ ListingDone(h)
    /\ UNCHANGED <<key, lastSeq, row, entry, sent, applied, told>>

\* The coordinator starts again.
ListingRestart ==
    /\ ListingFault
    /\ entry' = NoEntry
    /\ handler' = [h \in ListingHandlers |-> ListingIdle]
    /\ UNCHANGED <<key, lastSeq, row, sent, applied, told>>

-----------------------------------------------------------------------------

ListingInit ==
    /\ key = NoKey
    /\ lastSeq = [k \in {"listing", "heartbeat"} |-> 0]
    /\ row = [listed |-> 0, class |-> "C"]
    /\ entry = NoEntry
    /\ sent = {}
    /\ handler = [h \in ListingHandlers |-> ListingIdle]
    /\ applied = [s \in ListingSeqs |-> 0]
    /\ told = {}
    /\ listingFaults = 0

ServeStep(h) ==
    \/ EnrolCompare(h) \/ RefuseClass(h) \/ Store(h) \/ Get(h) \/ Register(h)
    \/ UpdateOptOut(h) \/ Beat(h)

\* The client submits a listing, of a class the coordinator knows, when it is
\* not listed and none is under way.
Relist ==
    /\ entry = NoEntry
    /\ \A h \in ListingHandlers : handler[h] = ListingIdle
    /\ \A m \in sent : m.kind = "listing" => ~Exceeds(m.seq, lastSeq.listing)
    /\ \E k \in told, c \in Classes \ {"unknown"} : Send("listing", k, c)

ListingNext ==
    \/ \E h \in ListingHandlers, k \in Keys : EnrolInsert(h, k)
    \/ \E kind \in {"listing", "heartbeat"}, k \in Keys, c \in Classes : Send(kind, k, c)
    \/ \E h \in ListingHandlers, m \in sent : Bump(h, m)
    \/ \E h \in ListingHandlers : ServeStep(h) \/ Abort(h)
    \/ ListingRestart

ListingSpec == ListingInit /\ [][ListingNext]_listingVars

\* A client that enrols once and lists itself again when it has to.
ClientNext ==
    \/ \E h \in ListingHandlers, k \in Keys : told = {} /\ EnrolInsert(h, k)
    \/ Relist
    \/ \E h \in ListingHandlers, m \in sent : Bump(h, m)
    \/ \E h \in ListingHandlers : ServeStep(h) \/ Abort(h)
    \/ ListingRestart

\* Requests get through in the end and handlers run on.
ClientSpec ==
    /\ ListingInit
    /\ [][ClientNext]_listingVars
    /\ WF_listingVars(\E h \in ListingHandlers, k \in Keys : told = {} /\ EnrolInsert(h, k))
    /\ WF_listingVars(Relist)
    /\ WF_listingVars(\E h \in ListingHandlers, m \in sent : Bump(h, m))
    /\ \A h \in ListingHandlers : WF_listingVars(ServeStep(h))

-----------------------------------------------------------------------------
(* Properties *)

\* The variables keep their types: no class outside the node_class enum
\* reaches the nodes row or the registry.
ListingTypeOK ==
    /\ key \in Keys \cup {NoKey}
    /\ lastSeq \in [{"listing", "heartbeat"} -> 0 .. MaxSeq]
    /\ row \in [listed : 0 .. MaxSeq, class : {"A", "B", "C"}]
    /\ entry \in Entries \cup {NoEntry}
    /\ sent \subseteq Messages
    /\ \A h \in ListingHandlers : handler[h].stage \in
          {"idle", "compare", "bumped", "stored", "got", "registered"}
    /\ applied \in [ListingSeqs -> Nat]
    /\ told \subseteq Keys
    /\ listingFaults \in 0 .. MaxListingFaults

\* A listing is applied at most once, however often and in whatever order the
\* network delivers it and wherever a handler stops: bumpSeq is one guarded
\* UPDATE, and it comes first.
AppliedOnce == \A s \in ListingSeqs : applied[s] <= 1

\* Everyone who was told "enrolled" presented the key the coordinator holds,
\* and will hold: first write wins, also between concurrent enrolments.
EnrolledKeyHeld == told \subseteq {key}

\* After restarts, failed statements and spent numbers, a client that lists
\* itself again with a higher number is in the registry for good.
ClientListed == <>[](entry # NoEntry)

\* Strict monotonicity as the reader of the row sees it: the listing in the
\* nodes row is never replaced by an older one.
RowNeverRollsBack == [][row.listed <= row'.listed]_listingVars

=============================================================================
