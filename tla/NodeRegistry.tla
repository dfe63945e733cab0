---------------------------- MODULE NodeRegistry ----------------------------
(***************************************************************************)
(* One node of the registry of online nodes: who put it there              *)
(* (handleClaimNode, handleRegisterNode), what keeps it there (the         *)
(* heartbeat loop of the agent) and what takes it away (evictStale, a      *)
(* restart of the orchestrator, whose registry starts empty).              *)
(*                                                                         *)
(* Abstractions.  Nodes do not interact here, so there is one.  An agent   *)
(* is a process holding the node's identity, configured with the member of *)
(* AGENT_PROVIDER_ID.  The age of an entry is whether it is past the five  *)
(* minutes of the eviction loop; an agent that beats every 30 s gets there *)
(* when its requests are lost, MaxOutages times.                           *)
(***************************************************************************)
EXTENDS Naturals

CONSTANTS
    Agents,       \* agent processes configured with the node's id
    Members,      \* participants
    Provider,     \* AGENT_PROVIDER_ID of each agent
    None,         \* no owner, no entry
    SecretSent,   \* agents whose requests reach /nodes/register with
                  \* X-Register-Secret; postJSON sets no such header and
                  \* nothing in the repository adds it: a deployment with
                  \* such agents is an assumption
    MaxOutages,   \* bound: times the entry ages past maxAge
    MaxRestarts,  \* bound: restarts of the orchestrator
    MaxErrors,    \* bound: registrations that fail in transit or on the database
    MaxChanges    \* bound: hardware changes

ASSUME RegistryAssumption ==
    /\ Provider \in [Agents -> Members]
    /\ None \notin Members
    /\ SecretSent \subseteq Agents
    /\ {MaxOutages, MaxRestarts, MaxErrors, MaxChanges} \subseteq Nat

VARIABLES
    owner,          \* nodes.participant_id
    registryEntry,  \* the registry's entry: owner and age, or None
    phase,          \* of each agent
    spent           \* outages, restarts, errors and hardware changes so far

registryVars == <<owner, registryEntry, phase, spent>>

\* start: the first Register.  loop: between ticks.  change: the Register
\* after a hardware change.  The S and C suffixes: its handler has written
\* the registry and not the database.
Phases == {"down", "start", "startS", "loop", "change", "changeC", "exited"}

RegistryKinds == {"outage", "restart", "error", "change"}

Bound(k) == CASE k = "outage" -> MaxOutages
              [] k = "restart" -> MaxRestarts
              [] k = "error" -> MaxErrors
              [] k = "change" -> MaxChanges

Spend(k) == spent[k] < Bound(k) /\ spent' = [spent EXCEPT ![k] = @ + 1]

RegistryFresh(m) == [owner |-> m, stale |-> FALSE]

Move(a, to) == phase' = [phase EXCEPT ![a] = to]

\* What a failed Register makes of the agent: StartHeartbeatLoop returns on
\* the first one and swallows the later ones.
AfterError(a) == IF phase[a] \in {"start", "startS"} THEN "exited" ELSE "loop"

-----------------------------------------------------------------------------

\* A claim creates the row and registers the node for the token's member.
Claim(m) ==
    /\ owner = None
    /\ owner' = m
    /\ registryEntry' = RegistryFresh(m)
    /\ UNCHANGED <<phase, spent>>

Start(a) ==
    /\ owner # None
    /\ phase[a] = "down"
    /\ Move(a, "start")
    /\ UNCHANGED <<owner, registryEntry, spent>>

\* The agent's process ends.
Stop(a) ==
    /\ phase[a] # "down"
    /\ Move(a, "down")
    /\ UNCHANGED <<owner, registryEntry, spent>>

\* Variant: the node's id where the member's belongs.
EntryOwnerAgent(a) == a

\* ParticipantID: req.ProviderID.
EntryOwner(a) == Provider[a]

\* POST /nodes/register up to registry.Register.
RegisterEntry(a) ==
    /\ phase[a] \in {"start", "change"}
    /\ a \in SecretSent
    /\ registryEntry' = RegistryFresh(EntryOwner(a))
    /\ Move(a, IF phase[a] = "start" THEN "startS" ELSE "changeC")
    /\ UNCHANGED <<owner, spent>>

\* 403 or 401: the request carries no register secret.
RegisterRefused(a) ==
    /\ phase[a] \in {"start", "change"}
    /\ a \notin SecretSent
    /\ Move(a, AfterError(a))
    /\ UNCHANGED <<owner, registryEntry, spent>>

\* Variant: the DO UPDATE has no WHERE and writes the owner.
UpsertOwnerAnyone(m) == m

\* nodes.participant_id after the guarded upsert.
UpsertOwner(m) == IF owner = None THEN m ELSE owner

\* The upsert, and 409 when the row is somebody else's.
RegisterUpsert(a) ==
    /\ phase[a] \in {"startS", "changeC"}
    /\ owner' = UpsertOwner(Provider[a])
    /\ Move(a, IF owner' = Provider[a] THEN "loop" ELSE AfterError(a))
    /\ UNCHANGED <<registryEntry, spent>>

\* The request or its answer is lost, or the database fails.
RegisterFail(a) ==
    /\ phase[a] \in {"start", "startS", "change", "changeC"}
    /\ Spend("error")
    /\ Move(a, AfterError(a))
    /\ UNCHANGED <<owner, registryEntry>>

\* Detect finds other hardware at a tick: Register, then Heartbeat.
HardwareChange(a) ==
    /\ phase[a] = "loop"
    /\ Spend("change")
    /\ Move(a, "change")
    /\ UNCHANGED <<owner, registryEntry>>

\* NodeRegistry.Heartbeat.
Touched == [registryEntry EXCEPT !.stale = FALSE]

\* handleHeartbeat; without an entry it answers 404 and the agent goes on.
Heartbeat(a) ==
    /\ phase[a] = "loop"
    /\ registryEntry # None
    /\ registryEntry' = Touched
    /\ UNCHANGED <<owner, phase, spent>>

\* Phases in which an agent sends nothing, or waits for its first Register.
Silent == {"down", "start", "exited"}

\* Five minutes without a heartbeat: none are sent, or they are lost.
Age ==
    /\ registryEntry # None
    /\ ~registryEntry.stale
    /\ \/ (\A a \in Agents : phase[a] \in Silent) /\ UNCHANGED spent
       \/ Spend("outage")
    /\ registryEntry' = [registryEntry EXCEPT !.stale = TRUE]
    /\ UNCHANGED <<owner, phase>>

Evictable == registryEntry # None /\ registryEntry.stale

evictStale ==
    /\ Evictable
    /\ registryEntry' = None
    /\ UNCHANGED <<owner, phase, spent>>

\* NewNodeRegistry; requests in progress fail.
Restart ==
    /\ Spend("restart")
    /\ registryEntry' = None
    /\ phase' = [a \in Agents |->
                   IF phase[a] \in {"startS", "changeC"} THEN AfterError(a) ELSE phase[a]]
    /\ UNCHANGED owner

-----------------------------------------------------------------------------

RegistryInit ==
    /\ owner = None
    /\ registryEntry = None
    /\ phase = [a \in Agents |-> "down"]
    /\ spent = [k \in RegistryKinds |-> 0]

RegistryNext ==
    \/ \E m \in Members : Claim(m)
    \/ \E a \in Agents :
          \/ Start(a)
          \/ Stop(a)
          \/ RegisterEntry(a)
          \/ RegisterRefused(a)
          \/ RegisterUpsert(a)
          \/ RegisterFail(a)
          \/ HardwareChange(a)
          \/ Heartbeat(a)
    \/ Age
    \/ evictStale
    \/ Restart

RegistrySpec == RegistryInit /\ [][RegistryNext]_registryVars

\* Tickers fire and requests get an answer; time passes for a silent node.
RegistryFairSpec ==
    /\ RegistrySpec
    /\ \A a \in Agents : WF_registryVars(RegisterEntry(a) \/ RegisterRefused(a))
    /\ \A a \in Agents : WF_registryVars(RegisterUpsert(a))
    /\ \A a \in Agents : WF_registryVars(Heartbeat(a))
    /\ WF_registryVars(Age /\ UNCHANGED spent)
    /\ WF_registryVars(evictStale)

-----------------------------------------------------------------------------
(* Properties *)

\* The variables keep their types: an entry of the registry names a member.
RegistryTypeOK ==
    /\ owner \in Members \cup {None}
    /\ registryEntry \in [owner : Members, stale : BOOLEAN] \cup {None}
    /\ phase \in [Agents -> Phases]
    /\ spent \in [RegistryKinds -> Nat]

\* Once a node has an owner no registration gives it another one, whichever
\* requests interleave: the DO UPDATE of handleRegisterNode is guarded.
OwnerKept == [][owner # None => owner' = owner]_registryVars

\* Between registrations the registry, which decides whose node gets a job,
\* names the owner of the row.
RegistryNamesOwner ==
    registryEntry # None /\ (\A a \in Agents : phase[a] \notin {"startS", "changeC"})
        => registryEntry.owner = owner

\* A node whose agents have stopped leaves the registry: evictStale.
SilentNodeEvicted ==
    [](<>[](\A a \in Agents : phase[a] \in {"down", "exited"}) => <>[](registryEntry = None))

\* A node whose agent keeps beating is in the registry, as long as the
\* orchestrator does not restart and no five minutes of beats are lost.
BeatingNodeOnline ==
    \A a \in Agents :
        <>[](phase[a] = "loop")
            => <>[](registryEntry # None \/ spent.restart > 0 \/ spent.outage > 0)

\* The same without the excuse: a restarted orchestrator learns of the node
\* from its next heartbeat.
BeatingNodeReturns == \A a \in Agents : <>[](phase[a] = "loop") => <>[](registryEntry # None)

\* StartHeartbeatLoop ends with its context only; errors are swallowed.
LoopKeepsRunning == \A a \in Agents : phase[a] # "exited"

=============================================================================
