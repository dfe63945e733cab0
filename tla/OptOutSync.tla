----------------------------- MODULE OptOutSync -----------------------------
(***************************************************************************)
(* What a member accepts on one node, and how it travels: the opt-out page *)
(* writes the database (handlePostOptOut), a heartbeat carries it to the   *)
(* registry and to the agent (handleHeartbeat, HeartbeatAgent.Heartbeat),  *)
(* the agent keeps it in a file; and, the other way, the printers of the   *)
(* machine travel to the database (ReportPrinters, Register).              *)
(*                                                                         *)
(* Atomicity.  handlePostOptOut is one transaction.  handleHeartbeat reads *)
(* the flags with the version in one statement, the printers in a second   *)
(* and the printers' hash in a third, here one step with the second: rows  *)
(* of node_printers are only added by the agent's own requests.  The agent *)
(* sends one heartbeat at a time; it, or its answer, may be lost.          *)
(*                                                                         *)
(* Abstractions.  The SHA-256 of the sorted printer ids is the set of ids. *)
(* opt_out_X = TRUE is the membership of X in cols.                        *)
(* The agent's heartbeat loop is taken to run: StartHeartbeatLoop ends     *)
(* when its first Register is refused, and this agent sends no register    *)
(* secret (NodeRegistry, SecretSent).                                      *)
(***************************************************************************)
EXTENDS Naturals, FiniteSets

CONSTANTS
    Categories,    \* of workload: compute, storage, printing
    Printers,      \* printer ids
    MaxPosts,      \* bound: saves of the opt-out page
    MaxPlugs,      \* bound: printers plugged in or out
    MaxSyncFaults  \* bound: lost requests, failed saves, restarts of the agent

ASSUME SyncAssumption == {MaxPosts, MaxPlugs, MaxSyncFaults} \subseteq Nat

VARIABLES
    cols,       \* opt_out_* columns that are TRUE
    version,    \* opt_out_version
    known,      \* rows of node_printers
    enabled,    \* those with enabled = TRUE
    saved,      \* what the member chose, per version
    syncEntry,  \* the registry's opt-out fields
    attached,   \* printers of the machine
    hw,         \* agent.hw.Printers
    store,      \* OptOutStore of the agent
    file,       \* opt-out.json
    beat,       \* the heartbeat under way
    plugs,      \* printers plugged in or out so far
    syncFaults  \* failures so far

syncVars == <<cols, version, known, enabled, saved, syncEntry, attached, hw, store,
          file, beat, plugs, syncFaults>>

portal == <<cols, version, enabled, saved>>
machine == <<attached, plugs>>
agent == <<store, file>>

-----------------------------------------------------------------------------
(* Data *)

Versions == 0 .. MaxPosts

\* DefaultOptOut: everything disabled.
DefaultOptOut == [version |-> 0, on |-> {}, printers |-> {}]

OptOuts == [version : Versions, on : SUBSET Categories, printers : SUBSET Printers]

\* accept: the toggles that are checked.  cols: the columns written for them.
PostedChoices == [accept : SUBSET Categories, cols : SUBSET Categories, printers : SUBSET Printers]

\* A NodeEntry as Register leaves it.
FreshEntry == [out |-> {}, printer |-> FALSE]

NoBeat == [stage |-> "none"]

Beats == {NoBeat}
    \cup [stage : {"sent"}, version : Versions, hash : SUBSET Printers]
    \cup [stage : {"read"}, version : Versions, hash : SUBSET Printers,
          db : Versions, cols : SUBSET Categories]
    \cup [stage : {"answered"}, push : BOOLEAN, optout : OptOuts, report : BOOLEAN]
    \cup [stage : {"report"}]

SyncFault == syncFaults < MaxSyncFaults /\ syncFaults' = syncFaults + 1

-----------------------------------------------------------------------------
(* The portal *)

\* opt_out.html: checked = participating = opt_out FALSE.
Columns(accept) == Categories \ accept

\* Rows the page does not list are left alone, ids without a row are ignored.
EnabledAfter(listed, on) == (enabled \ listed) \cup (on \cap known)

\* handlePostOptOut: listed is what the page shows, on its checked printers.
PostOptOut(accept, listed, on) ==
    /\ version < MaxPosts
    /\ on \subseteq listed
    /\ cols' = Columns(accept)
    /\ version' = version + 1
    /\ enabled' = EnabledAfter(listed, on)
    /\ saved' = [saved EXCEPT ![version + 1] =
                   [accept |-> accept, cols |-> cols', printers |-> enabled']]
    /\ UNCHANGED <<known, syncEntry, machine, hw, agent, beat, syncFaults>>

-----------------------------------------------------------------------------
(* The heartbeat *)

\* HeartbeatAgent.Heartbeat up to the request.
SendBeat ==
    /\ beat = NoBeat
    /\ beat' = [stage |-> "sent", version |-> store.version, hash |-> hw]
    /\ UNCHANGED <<portal, known, syncEntry, machine, hw, agent, syncFaults>>

\* The first SELECT of handleHeartbeat, and registry.UpdateOptOut.
ReadFlags ==
    /\ beat.stage = "sent"
    /\ beat' = [stage |-> "read", version |-> beat.version, hash |-> beat.hash,
                db |-> version, cols |-> cols]
    /\ syncEntry' = [out |-> cols, printer |-> enabled # {}]
    /\ UNCHANGED <<portal, known, machine, hw, agent, syncFaults>>

\* Variant: an update is pushed when the agent is two versions behind.
StaleByTwo(mine, db) == mine + 1 < db

\* req.OptOutVersion < dbVersion
Stale(mine, db) == mine < db

\* Variant: the push takes the toggles of the moment of the answer.
PushedLate(b) == [version |-> b.db, on |-> cols, printers |-> enabled]

\* The payload: opt_out_* columns under the names *_enabled, and the printers
\* of the second SELECT.
Pushed(b) == [version |-> b.db, on |-> b.cols, printers |-> enabled]

\* req.PrinterHash != dbHash
WantsReport(b) == b.hash # known

\* The second SELECT, the hash and the answer.
ReadPrinters ==
    /\ beat.stage = "read"
    /\ beat' = [stage |-> "answered", push |-> Stale(beat.version, beat.db),
                optout |-> Pushed(beat), report |-> WantsReport(beat)]
    /\ UNCHANGED <<portal, known, syncEntry, machine, hw, agent, syncFaults>>

\* The agent applies the answer: optOutStore.Set and SaveOptOutToFile.
SyncApply(kept) ==
    /\ beat.stage = "answered"
    /\ store' = IF beat.push THEN beat.optout ELSE store
    /\ file' = IF beat.push /\ kept THEN beat.optout ELSE file
    /\ beat' = IF beat.report THEN [stage |-> "report"] ELSE NoBeat
    /\ IF kept THEN UNCHANGED syncFaults ELSE SyncFault
    /\ UNCHANGED <<portal, known, syncEntry, machine, hw>>

\* ReportPrinters: an upsert per printer, which may stop in between; the flag
\* of a row that is there is kept.
ReportPrinters(done) ==
    /\ beat.stage = "report"
    /\ done \subseteq hw
    /\ IF done = hw THEN UNCHANGED syncFaults ELSE SyncFault
    /\ known' = known \cup done
    /\ beat' = NoBeat
    /\ UNCHANGED <<portal, syncEntry, machine, hw, agent>>

\* The request or the answer is lost, or a statement fails.
BeatLost ==
    /\ beat # NoBeat
    /\ SyncFault
    /\ beat' = NoBeat
    /\ UNCHANGED <<portal, known, syncEntry, machine, hw, agent>>

-----------------------------------------------------------------------------
(* The machine *)

Plug(p) ==
    /\ plugs < MaxPlugs
    /\ plugs' = plugs + 1
    /\ attached' = IF p \in attached THEN attached \ {p} ELSE attached \cup {p}
    /\ UNCHANGED <<portal, known, syncEntry, hw, agent, beat, syncFaults>>

\* A tick at which Detect finds other hardware: Register writes a fresh
\* registry entry, then the printers; its error is swallowed, whether the
\* request came through (reached) or a statement failed (done).
DetectAndRegister(reached, done) ==
    /\ beat = NoBeat
    /\ hw # attached
    /\ done \subseteq IF reached THEN attached ELSE {}
    /\ hw' = attached
    /\ known' = known \cup done
    /\ syncEntry' = IF reached THEN FreshEntry ELSE syncEntry
    /\ IF reached /\ done = attached THEN UNCHANGED syncFaults ELSE SyncFault
    /\ UNCHANGED <<portal, machine, agent, beat>>

\* The agent is started again: LoadOptOutFromFile, then Register.
RestartAgent ==
    /\ SyncFault
    /\ store' = file
    /\ hw' = attached
    /\ known' = known \cup attached
    /\ syncEntry' = FreshEntry
    /\ beat' = NoBeat
    /\ UNCHANGED <<portal, machine, file>>

-----------------------------------------------------------------------------

SyncInit ==
    /\ cols = {}
    /\ version = 0
    /\ known = {}
    /\ enabled = {}
    /\ saved = [v \in Versions |-> [accept |-> {}, cols |-> {}, printers |-> {}]]
    /\ syncEntry = FreshEntry
    /\ attached = {}
    /\ hw = {}
    /\ store = DefaultOptOut
    /\ file = DefaultOptOut
    /\ beat = NoBeat
    /\ plugs = 0
    /\ syncFaults = 0

SyncNext ==
    \/ \E accept \in SUBSET Categories, listed, on \in SUBSET Printers :
          PostOptOut(accept, listed, on)
    \/ SendBeat
    \/ ReadFlags
    \/ ReadPrinters
    \/ \E kept \in BOOLEAN : SyncApply(kept)
    \/ \E done \in SUBSET Printers : ReportPrinters(done)
    \/ BeatLost
    \/ \E p \in Printers : Plug(p)
    \/ \E reached \in BOOLEAN, done \in SUBSET Printers : DetectAndRegister(reached, done)
    \/ RestartAgent

SyncSpec == SyncInit /\ [][SyncNext]_syncVars

\* The heartbeat ticker of the agent fires, requests get an answer, and every
\* tick looks at the hardware first.
SyncFairSpec ==
    /\ SyncSpec
    /\ WF_syncVars(SendBeat)
    /\ WF_syncVars(ReadFlags)
    /\ WF_syncVars(ReadPrinters)
    /\ WF_syncVars(SyncApply(TRUE))
    /\ WF_syncVars(ReportPrinters(hw))
    /\ SF_syncVars(DetectAndRegister(TRUE, attached))

-----------------------------------------------------------------------------
(* Properties *)

\* The variables keep their types, and every enabled printer has a row in
\* node_printers: the UPDATE of handlePostOptOut makes none.
SyncTypeOK ==
    /\ cols \subseteq Categories
    /\ version \in Versions
    /\ enabled \subseteq known
    /\ known \subseteq Printers
    /\ saved \in [Versions -> PostedChoices]
    /\ syncEntry \in [out : SUBSET Categories, printer : BOOLEAN]
    /\ attached \subseteq Printers
    /\ hw \subseteq Printers
    /\ {store, file} \subseteq OptOuts
    /\ beat \in Beats
    /\ plugs \in 0 .. MaxPlugs
    /\ syncFaults \in 0 .. MaxSyncFaults

\* The flags the agent or its file holds under a version number are those
\* that were saved under it, whatever was posted, lost or restarted between:
\* version and flags are written in one UPDATE and read in one SELECT.
FlagsOfVersion ==
    \A oo \in {store, file} : oo.on = saved[oo.version].cols

\* The same for the printers: the bump and the printer updates of
\* handlePostOptOut are one transaction.
PrintersOfVersion ==
    \A oo \in {store, file} : oo.printers = saved[oo.version].printers

\* When the page is no longer edited the agent holds the last choice, and the
\* registry, which a registration resets, shows it to FindMatch; and the
\* printers of the machine have their rows in node_printers.
ChoiceArrives ==
    <>[](/\ store = [version |-> version, on |-> cols, printers |-> enabled]
         /\ syncEntry = [out |-> cols, printer |-> enabled # {}]
         /\ attached \subseteq known)

\* The re-report on a hash mismatch removes every difference between the
\* printers of the machine and those of node_printers.
PrintersReconciled == <>[](attached = known)

\* The agent, whose gate decides, accepts what the member accepts.
ConsentHonoured ==
    store.version > 0 => store.on = saved[store.version].accept

=============================================================================
