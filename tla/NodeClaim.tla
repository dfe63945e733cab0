----------------------------- MODULE NodeClaim -----------------------------
(***************************************************************************)
(* How a member's devices become nodes: the portal issues registration     *)
(* tokens (handleGenerateNodeToken), the installer's agent redeems one     *)
(* (ClaimNode against handleClaimNode) and keeps the answer in agent.conf. *)
(*                                                                         *)
(* Atomicity.  Neither handler uses a transaction: every SQL statement and *)
(* every call of spire-server is an action, and other requests run between *)
(* two of them.                                                            *)
(*                                                                         *)
(* Abstractions.  One member: the cap on tokens and the uniqueness of host *)
(* names are per member.  A device is its host name.  A join token is      *)
(* there or not.  What can fail is named by ClaimMayFail, and at most      *)
(* MaxClaimFaults failures happen.                                         *)
(***************************************************************************)
EXTENDS Naturals, FiniteSets, Sequences

CONSTANTS
    Devices,         \* the member's machines, by host name
    Tokens,          \* registration tokens that may be drawn
    Clicks,          \* concurrent requests of POST /node/token
    NoNode,          \* no node id
    ClaimMayFail,    \* what may fail, a subset of ClaimFaultKinds
    MaxClaimFaults,  \* bound: failures in one behaviour
    MaxNodes         \* bound: node ids the database generates

ClaimFaultKinds == {"spire", "delete", "mark", "timeout", "save", "expire"}

NodeIds == 1 .. MaxNodes

ASSUME ClaimAssumption ==
    /\ NoNode \notin NodeIds
    /\ ClaimMayFail \subseteq ClaimFaultKinds
    /\ MaxClaimFaults \in Nat
    /\ MaxNodes \in Nat

VARIABLES
    token,       \* node_registration_tokens
    rows,        \* nodes, with the token each was created for
    registry,    \* keys of the in-memory registry
    conf,        \* the node id in each device's agent.conf
    claims,      \* handlers of POST /nodes/claim
    click,       \* handlers of POST /node/token
    issued,      \* node ids generated
    claimFaults  \* failures so far

claimVars == <<token, rows, registry, conf, claims, click, issued, claimFaults>>

-----------------------------------------------------------------------------
(* Data *)

Unissued == [state |-> "none", live |-> FALSE, spire |-> FALSE, node |-> NoNode]

TokenRows == [state : {"none", "unused", "used"}, live : BOOLEAN,
              spire : BOOLEAN, node : NodeIds \cup {NoNode}]

\* asked: the device still waits for the answer.
Claims == [dev : Devices, tok : Tokens, asked : BOOLEAN,
           id : NodeIds \cup {NoNode},
           stage : {"checked", "inserted", "entered", "marked", "answered"}]

ClaimFault(kind) ==
    /\ kind \in ClaimMayFail
    /\ Len(claimFaults) < MaxClaimFaults
    /\ claimFaults' = Append(claimFaults, kind)

Valid(t) == token[t].state = "unused" /\ token[t].live

\* The handler c has moved on to d.
Becomes(c, d) == claims' = (claims \ {c}) \cup {d}

-----------------------------------------------------------------------------
(* The portal: POST /node/token *)

\* unusedCount is zero.
MayGenerate == \A t \in Tokens : ~Valid(t)

GenerateCount(k) ==
    /\ click[k] = "idle"
    /\ MayGenerate
    /\ click' = [click EXCEPT ![k] = "counted"]
    /\ UNCHANGED <<token, rows, registry, conf, claims, issued, claimFaults>>

GenerateInsert(k, t) ==
    /\ click[k] = "counted"
    /\ token[t] = Unissued
    /\ token' = [token EXCEPT ![t] = [Unissued EXCEPT !.state = "unused", !.live = TRUE]]
    /\ click' = [click EXCEPT ![k] = t]
    /\ UNCHANGED <<rows, registry, conf, claims, issued, claimFaults>>

\* spire-server token generate and the UPDATE that stores its answer; either
\* may fail, and the token then stays without a join token.
GenerateSpire(k) ==
    /\ click[k] \in Tokens
    /\ \/ token' = [token EXCEPT ![click[k]].spire = TRUE] /\ UNCHANGED claimFaults
       \/ ClaimFault("spire") /\ UNCHANGED token
    /\ click' = [click EXCEPT ![k] = "idle"]
    /\ UNCHANGED <<rows, registry, conf, claims, issued>>

\* Seven days pass.
Expire(t) ==
    /\ token[t].live
    /\ ClaimFault("expire")
    /\ token' = [token EXCEPT ![t].live = FALSE]
    /\ UNCHANGED <<rows, registry, conf, claims, click, issued>>

-----------------------------------------------------------------------------
(* The orchestrator: POST /nodes/claim *)

\* A device without agent.conf presents a token, and the SELECT finds it
\* valid; with an invalid one it exits and is started again.
ClaimCheck(d, t) ==
    /\ conf[d] = NoNode
    /\ \A c \in claims : c.dev = d => ~c.asked
    /\ Valid(t)
    /\ claims' = claims \cup {[dev |-> d, tok |-> t, asked |-> TRUE,
                               id |-> NoNode, stage |-> "checked"]}
    /\ UNCHANGED <<token, rows, registry, conf, click, issued, claimFaults>>

\* The INSERT, which uq_nodes_participant_hostname may refuse.
ClaimInsert(c) ==
    /\ c.stage = "checked"
    /\ IF \E r \in rows : r.host = c.dev
       THEN claims' = claims \ {c} /\ UNCHANGED <<rows, issued>>
       ELSE /\ issued < MaxNodes
            /\ issued' = issued + 1
            /\ rows' = rows \cup {[id |-> issued + 1, host |-> c.dev, tok |-> c.tok]}
            /\ Becomes(c, [c EXCEPT !.stage = "inserted", !.id = issued + 1])
    /\ UNCHANGED <<token, registry, conf, click, claimFaults>>

\* registerNodeSpireEntry: skipped without a join token.
ClaimSpire(c) ==
    /\ c.stage = "inserted"
    /\ Becomes(c, [c EXCEPT !.stage = "entered"])
    /\ UNCHANGED <<token, rows, registry, conf, click, issued, claimFaults>>

\* Variant: the rollback does not end the request.
RollBackAndGoOn(c) ==
    /\ rows' = {r \in rows : r.id # c.id}
    /\ Becomes(c, [c EXCEPT !.stage = "entered"])

\* The compensating DELETE, and the error answer.
RollBack(c) ==
    /\ rows' = {r \in rows : r.id # c.id}
    /\ claims' = claims \ {c}

ClaimSpireFail(c) ==
    /\ c.stage = "inserted"
    /\ token[c.tok].spire
    /\ ClaimFault("spire")
    /\ RollBack(c)
    /\ UNCHANGED <<token, registry, conf, click, issued>>

\* The DELETE fails as well: the row stays.
ClaimRollbackFail(c) ==
    /\ c.stage = "inserted"
    /\ token[c.tok].spire
    /\ ClaimFault("delete")
    /\ claims' = claims \ {c}
    /\ UNCHANGED <<token, rows, registry, conf, click, issued>>

\* Mark token consumed, whoever marked it before.
Marked(c) == [token EXCEPT ![c.tok].state = "used", ![c.tok].node = c.id]

ClaimMark(c) ==
    /\ c.stage = "entered"
    /\ token' = Marked(c)
    /\ Becomes(c, [c EXCEPT !.stage = "marked"])
    /\ UNCHANGED <<rows, registry, conf, click, issued, claimFaults>>

ClaimMarkFail(c) ==
    /\ c.stage = "entered"
    /\ ClaimFault("mark")
    /\ claims' = claims \ {c}
    /\ UNCHANGED <<token, rows, registry, conf, click, issued>>

ClaimRegister(c) ==
    /\ c.stage = "marked"
    /\ registry' = registry \cup {c.id}
    /\ Becomes(c, [c EXCEPT !.stage = "answered"])
    /\ UNCHANGED <<token, rows, conf, click, issued, claimFaults>>

-----------------------------------------------------------------------------
(* The device *)

\* The answer arrives and SaveConfig writes it.
ClaimAnswer(c) ==
    /\ c.stage = "answered"
    /\ claims' = claims \ {c}
    /\ conf' = IF c.asked THEN [conf EXCEPT ![c.dev] = c.id] ELSE conf
    /\ UNCHANGED <<token, rows, registry, click, issued, claimFaults>>

\* SaveConfig fails, or the machine stops before it: log.Fatalf.
SaveFail(c) ==
    /\ c.stage = "answered"
    /\ c.asked
    /\ ClaimFault("save")
    /\ claims' = claims \ {c}
    /\ UNCHANGED <<token, rows, registry, conf, click, issued>>

\* The 30 s of claimClient pass, or the answer is lost; the handler goes on.
ClaimTimeout(c) ==
    /\ c.asked
    /\ ClaimFault("timeout")
    /\ Becomes(c, [c EXCEPT !.asked = FALSE])
    /\ UNCHANGED <<token, rows, registry, conf, click, issued>>

-----------------------------------------------------------------------------

ClaimInit ==
    /\ token = [t \in Tokens |-> Unissued]
    /\ rows = {}
    /\ registry = {}
    /\ conf = [d \in Devices |-> NoNode]
    /\ claims = {}
    /\ click = [k \in Clicks |-> "idle"]
    /\ issued = 0
    /\ claimFaults = <<>>

ClaimStep(c) ==
    ClaimInsert(c) \/ ClaimSpire(c) \/ ClaimMark(c) \/ ClaimRegister(c) \/ ClaimAnswer(c)

Generate(k) ==
    GenerateCount(k) \/ (\E t \in Tokens : GenerateInsert(k, t)) \/ GenerateSpire(k)

ClaimNext ==
    \/ \E k \in Clicks : Generate(k)
    \/ \E t \in Tokens : Expire(t)
    \/ \E d \in Devices, t \in Tokens : ClaimCheck(d, t)
    \/ \E c \in claims :
          \/ ClaimStep(c)
          \/ ClaimSpireFail(c)
          \/ ClaimRollbackFail(c)
          \/ ClaimMarkFail(c)
          \/ SaveFail(c)
          \/ ClaimTimeout(c)

ClaimSpec == ClaimInit /\ [][ClaimNext]_claimVars

\* The member asks for a token when there is none and gives it to a device
\* that is started again until it has a configuration; handlers run on.
ClaimFairSpec ==
    /\ ClaimSpec
    /\ \A k \in Clicks : WF_claimVars(Generate(k))
    /\ \A d \in Devices : SF_claimVars(\E t \in Tokens : ClaimCheck(d, t))
    /\ \A d \in Devices : WF_claimVars(\E c \in claims : c.dev = d /\ ClaimStep(c))

-----------------------------------------------------------------------------
(* Properties *)

\* Rows, tokens and claims keep their types; a used token names a node id.
ClaimTypeOK ==
    /\ token \in [Tokens -> TokenRows]
    /\ rows \subseteq [id : NodeIds, host : Devices, tok : Tokens]
    /\ registry \subseteq NodeIds
    /\ conf \in [Devices -> NodeIds \cup {NoNode}]
    /\ claims \subseteq Claims
    /\ click \in [Clicks -> {"idle", "counted"} \cup Tokens]
    /\ issued \in 0 .. MaxNodes
    /\ claimFaults \in Seq(ClaimFaultKinds) /\ Len(claimFaults) <= MaxClaimFaults

\* What a device, the registry or a used token names is a node row that
\* exists and, for a device, carries its host name: the rollback of
\* handleClaimNode never takes a row away from someone who was told of it.
NamedRowsExist ==
    /\ \A d \in Devices :
          conf[d] # NoNode => \E r \in rows : r.id = conf[d] /\ r.host = d
    /\ \A n \in registry : \E r \in rows : r.id = n
    /\ \A t \in Tokens :
          token[t].state = "used" => \E r \in rows : r.id = token[t].node

\* handleClaimNode takes a single-use token: it creates one node.
TokenSingleUse ==
    \A r, s \in rows : r.tok = s.tok => r = s

\* handleGenerateNodeToken caps the unused tokens of a member at one.
OneUnusedToken ==
    \A t, u \in Tokens : Valid(t) /\ Valid(u) => t = u

\* A device without agent.conf claims a node in the end, though tokens expire
\* and spire-server fails at times, as long as nothing else goes wrong.
FirstRunClaims ==
    \A d \in Devices :
        <>(\/ conf[d] # NoNode
           \/ \E i \in DOMAIN claimFaults : claimFaults[i] \notin {"spire", "expire"})

=============================================================================
