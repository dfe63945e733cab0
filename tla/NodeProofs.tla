----------------------------- MODULE NodeProofs -----------------------------
(***************************************************************************)
(* Safety of what makes and describes a node: claims, owners, opt-outs and *)
(* resource profiles, for any sets of devices, tokens, agents and rows and *)
(* any bounds.                                                             *)
(***************************************************************************)
EXTENDS NodeClaim, NodeRegistry, OptOutSync, ResourceProfiles, FiniteSetTheorems, TLAPS

-----------------------------------------------------------------------------
(* Claims *)

ClaimStages == {"checked", "inserted", "entered", "marked", "answered"}

\* A handler that moves on keeps its request.
LEMMA StageMoves ==
    ASSUME NEW c \in Claims, NEW st \in ClaimStages
    PROVE  LET d == [c EXCEPT !.stage = st] IN
           /\ d \in Claims
           /\ d.stage = st /\ d.id = c.id /\ d.dev = c.dev
BY DEF Claims, ClaimStages

LEMMA IdDrawn ==
    ASSUME NEW c \in Claims, NEW n \in NodeIds
    PROVE  LET d == [c EXCEPT !.stage = "inserted", !.id = n] IN
           /\ d \in Claims
           /\ d.stage = "inserted" /\ d.id = n /\ d.dev = c.dev
BY DEF Claims

LEMMA StopsWaiting ==
    ASSUME NEW c \in Claims
    PROVE  LET d == [c EXCEPT !.asked = FALSE] IN
           /\ d \in Claims
           /\ d.stage = c.stage /\ d.id = c.id /\ d.dev = c.dev
BY DEF Claims

\* A failure is written down and stays within its bound.
LEMMA ClaimFaultType ==
    ASSUME ClaimTypeOK, NEW kind, ClaimFault(kind)
    PROVE  /\ claimFaults' \in Seq(ClaimFaultKinds)
           /\ Len(claimFaults') <= MaxClaimFaults
<1>1. kind \in ClaimFaultKinds /\ claimFaults \in Seq(ClaimFaultKinds)
  BY ClaimAssumption DEF ClaimFault, ClaimTypeOK
<1>2. /\ Len(claimFaults) < MaxClaimFaults
      /\ claimFaults' = Append(claimFaults, kind)
  BY DEF ClaimFault
<1>3. MaxClaimFaults \in Nat
  BY ClaimAssumption
<1> QED BY <1>1, <1>2, <1>3

\* The columns of node_registration_tokens.
LEMMA SpireStored ==
    ASSUME NEW f \in [Tokens -> TokenRows], NEW t \in Tokens
    PROVE  LET g == [f EXCEPT ![t].spire = TRUE] IN
           /\ g \in [Tokens -> TokenRows]
           /\ \A u \in Tokens : g[u].state = f[u].state /\ g[u].node = f[u].node
<1>1. f[t] \in TokenRows
  OBVIOUS
<1>2. LET r == [f[t] EXCEPT !.spire = TRUE] IN
        r \in TokenRows /\ r.state = f[t].state /\ r.node = f[t].node
  BY <1>1 DEF TokenRows
<1> QED BY <1>2

LEMMA LiveEnds ==
    ASSUME NEW f \in [Tokens -> TokenRows], NEW t \in Tokens
    PROVE  LET g == [f EXCEPT ![t].live = FALSE] IN
           /\ g \in [Tokens -> TokenRows]
           /\ \A u \in Tokens : g[u].state = f[u].state /\ g[u].node = f[u].node
<1>1. f[t] \in TokenRows
  OBVIOUS
<1>2. LET r == [f[t] EXCEPT !.live = FALSE] IN
        r \in TokenRows /\ r.state = f[t].state /\ r.node = f[t].node
  BY <1>1 DEF TokenRows
<1> QED BY <1>2

LEMMA UseStored ==
    ASSUME NEW r \in TokenRows, NEW n \in NodeIds \cup {NoNode}
    PROVE  LET q == [r EXCEPT !.state = "used", !.node = n] IN q \in TokenRows /\ q.node = n
BY DEF TokenRows

\* Someone was told of the node id n.
Told(n) ==
    \/ n \in registry
    \/ \E d \in Devices : conf[d] = n
    \/ \E t \in Tokens : token[t].state = "used" /\ token[t].node = n

\* Handlers past the INSERT have their row, no two of them the same one, and
\* nobody knows a row that may still be rolled back.
ClaimInv ==
    /\ \A r \in rows : r.id <= issued
    /\ \A c \in claims : c.stage # "checked" => \E r \in rows : r.id = c.id /\ r.host = c.dev
    /\ \A c, e \in claims : c.stage # "checked" /\ e.stage # "checked" /\ c.id = e.id => c = e
    /\ \A c \in claims : c.stage = "inserted" => ~Told(c.id)
    /\ NamedRowsExist

LEMMA ClaimStart == ClaimInit => ClaimTypeOK /\ ClaimInv
<1> SUFFICES ASSUME ClaimInit PROVE ClaimTypeOK /\ ClaimInv
  OBVIOUS
<1>1. Unissued \in TokenRows /\ Unissued.state = "none"
  BY DEF Unissued, TokenRows
<1>2. ClaimTypeOK
  BY <1>1, ClaimAssumption DEF ClaimInit, ClaimTypeOK
<1>3. \A t \in Tokens : token[t].state # "used"
  BY <1>1 DEF ClaimInit
<1> QED BY <1>2, <1>3 DEF ClaimInit, ClaimInv, NamedRowsExist

\* A step in which one handler moves on, or ends, without touching the rows.
LEMMA ClaimMoves ==
    ASSUME ClaimTypeOK, ClaimInv, NEW c \in claims, NEW d,
           claims' \subseteq (claims \ {c}) \cup {d},
           d.dev = c.dev, d.id = c.id,
           d.stage = "checked" <=> c.stage = "checked",
           d.stage = "inserted" => c.stage = "inserted",
           rows' = rows, issued' = issued,
           \A n : Told(n)' => \/ Told(n)
                              \/ n = c.id /\ c.stage \notin {"checked", "inserted"},
           NamedRowsExist'
    PROVE  ClaimInv'
<1>1. \A r \in rows' : r.id <= issued'
  BY DEF ClaimInv
<1>2. \A e \in claims' : e.stage # "checked" => \E r \in rows' : r.id = e.id /\ r.host = e.dev
  BY DEF ClaimInv
<1>3. \A e, f \in claims' : e.stage # "checked" /\ f.stage # "checked" /\ e.id = f.id => e = f
  BY DEF ClaimInv
<1>4. \A e \in claims' : e.stage = "inserted" => ~Told(e.id)'
  <2> SUFFICES ASSUME NEW e \in claims', e.stage = "inserted", Told(e.id)' PROVE FALSE
    OBVIOUS
  <2>1. CASE e = d
    <3>1. c.stage = "inserted" /\ ~Told(c.id)
      BY <2>1 DEF ClaimInv
    <3> QED BY <2>1, <3>1
  <2>2. CASE e # d
    <3>1. e \in claims /\ e # c /\ ~Told(e.id)
      BY <2>2 DEF ClaimInv
    <3>2. e.id = c.id /\ c.stage # "checked"
      BY <3>1
    <3> QED BY <3>1, <3>2 DEF ClaimInv
  <2> QED BY <2>1, <2>2
<1> QED BY <1>1, <1>2, <1>3, <1>4 DEF ClaimInv

\* Steps of the portal, and time: no node id appears, none is told.
LEMMA TokenSteps ==
    ASSUME ClaimTypeOK, ClaimInv,
           \/ \E k \in Clicks : Generate(k)
           \/ \E t \in Tokens : Expire(t)
           \/ UNCHANGED claimVars
    PROVE  ClaimTypeOK' /\ ClaimInv'
<1>a. ASSUME token' \in [Tokens -> TokenRows],
             \A t \in Tokens : token'[t].state = "used" =>
                 token[t].state = "used" /\ token'[t].node = token[t].node,
             rows' = rows, registry' = registry, conf' = conf, claims' = claims, issued' = issued
      PROVE  ClaimInv'
  <2>1. NamedRowsExist'
    BY <1>a DEF ClaimInv, NamedRowsExist
  <2>2. \A n : Told(n)' => Told(n)
    BY <1>a DEF Told
  <2>3. \A c \in claims : c.stage = "inserted" => ~Told(c.id)'
    BY <2>2 DEF ClaimInv
  <2> QED BY <1>a, <2>1, <2>3 DEF ClaimInv
<1>b. token \in [Tokens -> TokenRows] /\ click \in [Clicks -> {"idle", "counted"} \cup Tokens]
  BY DEF ClaimTypeOK
<1>1. ASSUME NEW k \in Clicks, GenerateCount(k) PROVE ClaimTypeOK' /\ ClaimInv'
  <2>1. ClaimTypeOK'
    BY <1>1 DEF GenerateCount, ClaimTypeOK
  <2> QED BY <1>1, <1>a, <1>b, <2>1 DEF GenerateCount
<1>2. ASSUME NEW k \in Clicks, NEW t \in Tokens, GenerateInsert(k, t)
      PROVE  ClaimTypeOK' /\ ClaimInv'
  <2>1. Unissued \in TokenRows
    BY DEF Unissued, TokenRows
  <2>2. LET r == [Unissued EXCEPT !.state = "unused", !.live = TRUE] IN
          r \in TokenRows /\ r.state = "unused"
    BY <2>1 DEF TokenRows
  <2>3. /\ token' \in [Tokens -> TokenRows]
        /\ token'[t].state = "unused"
        /\ \A u \in Tokens : u # t => token'[u] = token[u]
    BY <1>2, <1>b, <2>2 DEF GenerateInsert
  <2>4. ClaimTypeOK'
    BY <1>2, <2>3 DEF GenerateInsert, ClaimTypeOK
  <2> QED BY <1>2, <1>a, <2>3, <2>4 DEF GenerateInsert
<1>3. ASSUME NEW k \in Clicks, GenerateSpire(k) PROVE ClaimTypeOK' /\ ClaimInv'
  <2>1. /\ token' \in [Tokens -> TokenRows]
        /\ \A u \in Tokens : token'[u].state = token[u].state /\ token'[u].node = token[u].node
    <3>1. click[k] \in Tokens
      BY <1>3 DEF GenerateSpire
    <3>2. CASE token' = token
      BY <1>b, <3>2
    <3>3. CASE token' = [token EXCEPT ![click[k]].spire = TRUE]
      BY <1>b, <3>1, <3>3, SpireStored
    <3> QED BY <1>3, <3>2, <3>3 DEF GenerateSpire
  <2>2. claimFaults' \in Seq(ClaimFaultKinds) /\ Len(claimFaults') <= MaxClaimFaults
    BY <1>3, ClaimFaultType DEF GenerateSpire, ClaimTypeOK
  <2>3. click' \in [Clicks -> {"idle", "counted"} \cup Tokens]
    BY <1>3, <1>b DEF GenerateSpire
  <2>4. ClaimTypeOK'
    BY <1>3, <2>1, <2>2, <2>3 DEF GenerateSpire, ClaimTypeOK
  <2> QED BY <1>3, <1>a, <2>1, <2>4 DEF GenerateSpire
<1>4. ASSUME NEW t \in Tokens, Expire(t) PROVE ClaimTypeOK' /\ ClaimInv'
  <2>1. /\ token' \in [Tokens -> TokenRows]
        /\ \A u \in Tokens : token'[u].state = token[u].state /\ token'[u].node = token[u].node
    BY <1>4, <1>b, LiveEnds DEF Expire
  <2>2. claimFaults' \in Seq(ClaimFaultKinds) /\ Len(claimFaults') <= MaxClaimFaults
    BY <1>4, ClaimFaultType DEF Expire
  <2>3. ClaimTypeOK'
    BY <1>4, <2>1, <2>2 DEF Expire, ClaimTypeOK
  <2> QED BY <1>4, <1>a, <2>1, <2>3 DEF Expire
<1>5. CASE UNCHANGED claimVars
  <2>1. ClaimTypeOK'
    BY <1>5 DEF claimVars, ClaimTypeOK
  <2> QED BY <1>5, <1>a, <1>b, <2>1 DEF claimVars
<1> QED BY <1>1, <1>2, <1>3, <1>4, <1>5 DEF Generate

\* A new request: the SELECT finds the token.
LEMMA CheckStep ==
    ASSUME ClaimTypeOK, ClaimInv, NEW d \in Devices, NEW t \in Tokens, ClaimCheck(d, t)
    PROVE  ClaimTypeOK' /\ ClaimInv'
<1> DEFINE c == [dev |-> d, tok |-> t, asked |-> TRUE, id |-> NoNode, stage |-> "checked"]
<1>1. c \in Claims /\ c.stage = "checked"
  BY DEF Claims
<1>2. /\ claims' = claims \cup {c} /\ rows' = rows /\ issued' = issued
      /\ token' = token /\ registry' = registry /\ conf' = conf
      /\ click' = click /\ claimFaults' = claimFaults
  BY DEF ClaimCheck
<1> HIDE DEF c
<1>3. ClaimTypeOK'
  BY <1>1, <1>2 DEF ClaimTypeOK
<1>4. NamedRowsExist' /\ \A n : Told(n)' <=> Told(n)
  BY <1>2 DEF ClaimInv, NamedRowsExist, Told
<1>5. /\ \A r \in rows' : r.id <= issued'
      /\ \A e \in claims' : e.stage # "checked" => \E r \in rows' : r.id = e.id /\ r.host = e.dev
      /\ \A e, f \in claims' : e.stage # "checked" /\ f.stage # "checked" /\ e.id = f.id => e = f
      /\ \A e \in claims' : e.stage = "inserted" => ~Told(e.id)'
  BY <1>1, <1>2, <1>4 DEF ClaimInv
<1> QED BY <1>3, <1>4, <1>5 DEF ClaimInv

\* The INSERT draws an id nobody has seen.
LEMMA InsertStep ==
    ASSUME ClaimTypeOK, ClaimInv, NEW c \in claims, ClaimInsert(c)
    PROVE  ClaimTypeOK' /\ ClaimInv'
<1>c. c \in Claims /\ c.dev \in Devices /\ c.tok \in Tokens /\ c.stage = "checked"
  BY DEF ClaimTypeOK, Claims, ClaimInsert
<1>u. token' = token /\ registry' = registry /\ conf' = conf /\ click' = click
      /\ claimFaults' = claimFaults
  BY DEF ClaimInsert
<1>1. CASE \E r \in rows : r.host = c.dev
  <2>1. claims' = claims \ {c} /\ rows' = rows /\ issued' = issued
    BY <1>1 DEF ClaimInsert
  <2>2. ClaimTypeOK'
    BY <1>u, <2>1 DEF ClaimTypeOK
  <2>3. NamedRowsExist' /\ \A n : Told(n)' <=> Told(n)
    BY <1>u, <2>1 DEF ClaimInv, NamedRowsExist, Told
  <2>4. claims' \subseteq (claims \ {c}) \cup {c}
    BY <2>1
  <2> QED BY <2>1, <2>2, <2>3, <2>4, ClaimMoves
<1>2. CASE ~\E r \in rows : r.host = c.dev
  <2> DEFINE n == issued + 1
             new == [id |-> n, host |-> c.dev, tok |-> c.tok]
             e == [c EXCEPT !.stage = "inserted", !.id = n]
  <2>1. /\ issued < MaxNodes /\ issued' = n /\ rows' = rows \cup {new}
        /\ claims' = (claims \ {c}) \cup {e}
    BY <1>2 DEF ClaimInsert, Becomes
  <2>2. n \in NodeIds /\ n \in 0 .. MaxNodes /\ issued \in Nat /\ n > issued
    BY <2>1, ClaimAssumption DEF ClaimTypeOK, NodeIds
  <2>3. e \in Claims /\ e.stage = "inserted" /\ e.id = n /\ e.dev = c.dev
    BY <1>c, <2>2, IdDrawn
  <2>4. /\ new \in [id : NodeIds, host : Devices, tok : Tokens]
        /\ new.id = n /\ new.host = c.dev
    BY <1>c, <2>2
  <2> HIDE DEF n, new, e
  <2>5. ClaimTypeOK'
    BY <1>u, <2>1, <2>2, <2>3, <2>4 DEF ClaimTypeOK
  <2>6. \A r \in rows : r.id \in NodeIds /\ r.id <= issued
    BY DEF ClaimTypeOK, ClaimInv
  <2>7. \A r \in rows : r.id # n
    BY <2>2, <2>6 DEF NodeIds
  <2>8. n # NoNode
    BY <2>2, ClaimAssumption
  <2>9. ~Told(n)
    BY <2>7, <2>8 DEF ClaimInv, NamedRowsExist, Told
  <2>10. NamedRowsExist' /\ \A m : Told(m)' <=> Told(m)
    BY <1>u, <2>1 DEF ClaimInv, NamedRowsExist, Told
  <2>11. \A r \in rows' : r.id <= issued'
    BY <2>1, <2>2, <2>4, <2>6 DEF NodeIds
  <2>12. \A f \in claims' : f.stage # "checked" => \E r \in rows' : r.id = f.id /\ r.host = f.dev
    BY <2>1, <2>3, <2>4 DEF ClaimInv
  <2>13. \A f \in claims : f.stage # "checked" => f.id # n
    BY <2>7 DEF ClaimInv
  <2>14. \A f, g \in claims' :
            f.stage # "checked" /\ g.stage # "checked" /\ f.id = g.id => f = g
    BY <2>1, <2>3, <2>13 DEF ClaimInv
  <2>15. \A f \in claims' : f.stage = "inserted" => ~Told(f.id)'
    BY <2>1, <2>3, <2>9, <2>10 DEF ClaimInv
  <2> QED BY <2>5, <2>10, <2>11, <2>12, <2>14, <2>15 DEF ClaimInv
<1> QED BY <1>1, <1>2

\* The compensating DELETE takes a row that nobody was told of.
LEMMA RollBackStep ==
    ASSUME ClaimTypeOK, ClaimInv, NEW c \in claims, ClaimSpireFail(c)
    PROVE  ClaimTypeOK' /\ ClaimInv'
<1>1. /\ c.stage = "inserted"
      /\ rows' = {r \in rows : r.id # c.id} /\ claims' = claims \ {c}
      /\ token' = token /\ registry' = registry /\ conf' = conf /\ click' = click
      /\ issued' = issued
  BY DEF ClaimSpireFail, RollBack
<1>2. claimFaults' \in Seq(ClaimFaultKinds) /\ Len(claimFaults') <= MaxClaimFaults
  BY ClaimFaultType DEF ClaimSpireFail
<1>3. ClaimTypeOK'
  BY <1>1, <1>2 DEF ClaimTypeOK
<1>4. \A n : Told(n)' <=> Told(n)
  BY <1>1 DEF Told
<1>5. ~Told(c.id)
  BY <1>1 DEF ClaimInv
<1>6. NamedRowsExist'
  BY <1>1, <1>5 DEF ClaimInv, NamedRowsExist, Told
<1>7. \A e \in claims' : e.stage # "checked" => \E r \in rows' : r.id = e.id /\ r.host = e.dev
  BY <1>1 DEF ClaimInv
<1> QED BY <1>1, <1>3, <1>4, <1>6, <1>7 DEF ClaimInv

\* The steps that move a handler on, and those that end it early.
LEMMA HandlerSteps ==
    ASSUME ClaimTypeOK, ClaimInv, NEW c \in claims,
           \/ ClaimSpire(c) \/ ClaimMark(c) \/ ClaimRegister(c) \/ ClaimAnswer(c)
           \/ ClaimRollbackFail(c) \/ ClaimMarkFail(c) \/ SaveFail(c) \/ ClaimTimeout(c)
    PROVE  ClaimTypeOK' /\ ClaimInv'
<1>c. c \in Claims /\ c.dev \in Devices /\ c.tok \in Tokens /\ c.id \in NodeIds \cup {NoNode}
  BY DEF ClaimTypeOK, Claims
<1>r. c.stage # "checked" => \E r \in rows : r.id = c.id /\ r.host = c.dev
  BY DEF ClaimInv
<1>n. NamedRowsExist
  BY DEF ClaimInv
<1>i. c.stage # "checked" => c.id \in NodeIds
  BY <1>r DEF ClaimTypeOK
<1>e. claims \ {c} \subseteq (claims \ {c}) \cup {c}
  OBVIOUS
<1>1. CASE ClaimSpire(c)
  <2> DEFINE d == [c EXCEPT !.stage = "entered"]
  <2>1. d \in Claims /\ d.stage = "entered" /\ d.id = c.id /\ d.dev = c.dev
    BY <1>c, StageMoves DEF ClaimStages
  <2>2. /\ claims' = (claims \ {c}) \cup {d} /\ c.stage = "inserted"
        /\ token' = token /\ registry' = registry /\ conf' = conf /\ rows' = rows
        /\ issued' = issued /\ click' = click /\ claimFaults' = claimFaults
    BY <1>1 DEF ClaimSpire, Becomes
  <2> HIDE DEF d
  <2>3. ClaimTypeOK'
    BY <2>1, <2>2 DEF ClaimTypeOK
  <2>4. NamedRowsExist' /\ \A n : Told(n)' <=> Told(n)
    BY <1>n, <2>2 DEF NamedRowsExist, Told
  <2> QED BY <2>1, <2>2, <2>3, <2>4, ClaimMoves
<1>2. CASE ClaimMark(c)
  <2> DEFINE d == [c EXCEPT !.stage = "marked"]
  <2>1. d \in Claims /\ d.stage = "marked" /\ d.id = c.id /\ d.dev = c.dev
    BY <1>c, StageMoves DEF ClaimStages
  <2>2. /\ claims' = (claims \ {c}) \cup {d} /\ c.stage = "entered"
        /\ registry' = registry /\ conf' = conf /\ rows' = rows
        /\ issued' = issued /\ click' = click /\ claimFaults' = claimFaults
    BY <1>2 DEF ClaimMark, Becomes
  <2> HIDE DEF d
  <2>3. token' = [token EXCEPT ![c.tok] =
                    [token[c.tok] EXCEPT !.state = "used", !.node = c.id]]
    BY <1>2, <1>c DEF ClaimMark, Marked, ClaimTypeOK
  <2>4. /\ token' \in [Tokens -> TokenRows] /\ token'[c.tok].node = c.id
        /\ \A u \in Tokens : u # c.tok => token'[u] = token[u]
    <3>1. token \in [Tokens -> TokenRows]
      BY DEF ClaimTypeOK
    <3>2. LET q == [token[c.tok] EXCEPT !.state = "used", !.node = c.id] IN
            q \in TokenRows /\ q.node = c.id
      BY <1>c, <3>1, UseStored
    <3> QED BY <1>c, <2>3, <3>1, <3>2
  <2>5. ClaimTypeOK'
    BY <2>1, <2>2, <2>4 DEF ClaimTypeOK
  <2>6. NamedRowsExist'
    BY <1>n, <1>r, <2>2, <2>4 DEF NamedRowsExist
  <2>7. \A n : Told(n)' => Told(n) \/ n = c.id
    BY <2>2, <2>4 DEF Told
  <2> QED BY <2>1, <2>2, <2>5, <2>6, <2>7, ClaimMoves
<1>3. CASE ClaimRegister(c)
  <2> DEFINE d == [c EXCEPT !.stage = "answered"]
  <2>1. d \in Claims /\ d.stage = "answered" /\ d.id = c.id /\ d.dev = c.dev
    BY <1>c, StageMoves DEF ClaimStages
  <2>2. /\ claims' = (claims \ {c}) \cup {d} /\ c.stage = "marked"
        /\ registry' = registry \cup {c.id} /\ conf' = conf /\ rows' = rows
        /\ token' = token /\ issued' = issued /\ click' = click /\ claimFaults' = claimFaults
    BY <1>3 DEF ClaimRegister, Becomes
  <2> HIDE DEF d
  <2>3. ClaimTypeOK'
    BY <1>i, <2>1, <2>2 DEF ClaimTypeOK
  <2>4. NamedRowsExist'
    BY <1>n, <1>r, <2>2 DEF NamedRowsExist
  <2>5. \A n : Told(n)' => Told(n) \/ n = c.id
    BY <2>2 DEF Told
  <2> QED BY <2>1, <2>2, <2>3, <2>4, <2>5, ClaimMoves
<1>4. CASE ClaimAnswer(c)
  <2>1. /\ claims' = claims \ {c} /\ c.stage = "answered"
        /\ registry' = registry /\ rows' = rows
        /\ token' = token /\ issued' = issued /\ click' = click /\ claimFaults' = claimFaults
    BY <1>4 DEF ClaimAnswer
  <2>2. \A d \in Devices : conf'[d] = conf[d] \/ (d = c.dev /\ conf'[d] = c.id)
    BY <1>4 DEF ClaimAnswer, ClaimTypeOK
  <2>3. conf' \in [Devices -> NodeIds \cup {NoNode}]
    BY <1>4, <1>c DEF ClaimAnswer, ClaimTypeOK
  <2>4. ClaimTypeOK'
    BY <2>1, <2>3 DEF ClaimTypeOK
  <2>5. NamedRowsExist'
    <3>1. \A d \in Devices :
             conf'[d] # NoNode => \E r \in rows : r.id = conf'[d] /\ r.host = d
      BY <1>n, <1>r, <2>1, <2>2 DEF NamedRowsExist
    <3>2. /\ \A n \in registry : \E r \in rows : r.id = n
          /\ \A t \in Tokens :
                token[t].state = "used" => \E r \in rows : r.id = token[t].node
      BY <1>n DEF NamedRowsExist
    <3> QED BY <2>1, <3>1, <3>2 DEF NamedRowsExist
  <2>6. \A n : Told(n)' => Told(n) \/ n = c.id
    BY <2>1, <2>2 DEF Told
  <2> QED BY <1>e, <2>1, <2>4, <2>5, <2>6, ClaimMoves
<1>5. CASE ClaimRollbackFail(c) \/ ClaimMarkFail(c) \/ SaveFail(c)
  <2>1. /\ claims' = claims \ {c}
        /\ registry' = registry /\ rows' = rows /\ conf' = conf
        /\ token' = token /\ issued' = issued /\ click' = click
    BY <1>5 DEF ClaimRollbackFail, ClaimMarkFail, SaveFail
  <2>2. claimFaults' \in Seq(ClaimFaultKinds) /\ Len(claimFaults') <= MaxClaimFaults
    BY <1>5, ClaimFaultType DEF ClaimRollbackFail, ClaimMarkFail, SaveFail
  <2>3. ClaimTypeOK'
    BY <2>1, <2>2 DEF ClaimTypeOK
  <2>4. NamedRowsExist' /\ \A n : Told(n)' <=> Told(n)
    BY <1>n, <2>1 DEF NamedRowsExist, Told
  <2> QED BY <1>e, <2>1, <2>3, <2>4, ClaimMoves
<1>6. CASE ClaimTimeout(c)
  <2> DEFINE d == [c EXCEPT !.asked = FALSE]
  <2>1. d \in Claims /\ d.stage = c.stage /\ d.id = c.id /\ d.dev = c.dev
    BY <1>c, StopsWaiting
  <2>2. /\ claims' = (claims \ {c}) \cup {d}
        /\ registry' = registry /\ conf' = conf /\ rows' = rows
        /\ token' = token /\ issued' = issued /\ click' = click
    BY <1>6 DEF ClaimTimeout, Becomes
  <2> HIDE DEF d
  <2>3. claimFaults' \in Seq(ClaimFaultKinds) /\ Len(claimFaults') <= MaxClaimFaults
    BY <1>6, ClaimFaultType DEF ClaimTimeout
  <2>4. ClaimTypeOK'
    BY <2>1, <2>2, <2>3 DEF ClaimTypeOK
  <2>5. NamedRowsExist' /\ \A n : Told(n)' <=> Told(n)
    BY <1>n, <2>2 DEF NamedRowsExist, Told
  <2> QED BY <2>1, <2>2, <2>4, <2>5, ClaimMoves
<1> QED BY <1>1, <1>2, <1>3, <1>4, <1>5, <1>6

\* handleClaimNode has no transaction and rolls back by hand, yet nobody is
\* ever left with a node id whose row the rollback took: whatever fails and
\* however claims interleave, what a device, the registry or a used token
\* names is a row, for a device one with its host name.
THEOREM RollbackHarmless == ClaimSpec => []NamedRowsExist
<1>1. ClaimTypeOK /\ ClaimInv /\ [ClaimNext]_claimVars => ClaimTypeOK' /\ ClaimInv'
  BY TokenSteps, CheckStep, InsertStep, RollBackStep, HandlerSteps DEF ClaimNext, ClaimStep
<1>2. ClaimInv => NamedRowsExist
  BY DEF ClaimInv
<1> QED BY <1>1, <1>2, ClaimStart, PTL DEF ClaimSpec

-----------------------------------------------------------------------------
(* Owners *)

\* The WHERE of the DO UPDATE in handleRegisterNode, and the claim that only
\* makes rows, leave a node with its first owner.
THEOREM OwnerFirst == RegistrySpec => OwnerKept
<1>1. [RegistryNext]_registryVars => [owner # None => owner' = owner]_registryVars
  <2> SUFFICES ASSUME RegistryNext, owner # None PROVE owner' = owner
    OBVIOUS
  <2> QED BY DEF RegistryNext, Claim, Start, Stop, RegisterEntry, RegisterRefused, RegisterUpsert,
             UpsertOwner, RegisterFail, HardwareChange, Heartbeat, Age, evictStale, Restart
<1> QED BY <1>1, PTL DEF RegistrySpec, OwnerKept

-----------------------------------------------------------------------------
(* Opt-outs *)

\* These flags were saved under version v.
SavedAs(v, flags) == v \in 0 .. version /\ flags = saved[v].cols

\* The row is its last save; an answer under way, the agent and its file hold
\* flags under the version they were saved with.
SyncInv ==
    /\ version \in Versions
    /\ saved = [v \in Versions |-> saved[v]]
    /\ SavedAs(version, cols)
    /\ SavedAs(store.version, store.on)
    /\ SavedAs(file.version, file.on)
    /\ beat.stage = "read" => SavedAs(beat.db, beat.cols)
    /\ beat.stage = "answered" => SavedAs(beat.optout.version, beat.optout.on)

LEMMA SyncStart == SyncInit => SyncInv
<1> SUFFICES ASSUME SyncInit PROVE SyncInv
  OBVIOUS
<1>1. version = 0 /\ 0 \in Versions /\ 0 \in 0 .. 0
  BY SyncAssumption DEF SyncInit, Versions
<1>2. saved = [v \in Versions |-> saved[v]] /\ saved[0].cols = {}
  BY <1>1 DEF SyncInit
<1>3. cols = {} /\ store.version = 0 /\ store.on = {} /\ file.version = 0 /\ file.on = {}
  BY DEF SyncInit, DefaultOptOut
<1>4. beat.stage = "none"
  BY DEF SyncInit, NoBeat
<1> QED BY <1>1, <1>2, <1>3, <1>4 DEF SyncInv, SavedAs

\* A save is made under a new number: what was saved stays saved.
LEMMA PostStep ==
    ASSUME SyncInv, NEW accept, NEW listed, NEW on, PostOptOut(accept, listed, on)
    PROVE  SyncInv'
<1>1. version \in Versions /\ version + 1 \in Versions /\ version' = version + 1
  BY SyncAssumption DEF SyncInv, PostOptOut, Versions
<1>2. /\ saved' = [v \in Versions |-> saved'[v]]
      /\ saved'[version + 1].cols = cols'
      /\ \A v \in 0 .. version : saved'[v] = saved[v]
  <2> DEFINE new == [accept |-> accept, cols |-> cols', printers |-> enabled']
  <2>1. saved' = [saved EXCEPT ![version + 1] = new]
    BY DEF PostOptOut
  <2>2. new.cols = cols'
    OBVIOUS
  <2>3. \A v \in 0 .. version : v # version + 1 /\ v \in Versions
    BY <1>1, SyncAssumption DEF Versions
  <2> HIDE DEF new
  <2> QED BY <1>1, <2>1, <2>2, <2>3 DEF SyncInv
<1>3. \A v, flags : SavedAs(v, flags) => SavedAs(v, flags)'
  BY <1>1, <1>2 DEF SavedAs, Versions
<1>4. SavedAs(version, cols)'
  BY <1>1, <1>2, SyncAssumption DEF SavedAs, Versions
<1>5. store' = store /\ file' = file /\ beat' = beat
  BY DEF PostOptOut, agent
<1> QED BY <1>1, <1>2, <1>3, <1>4, <1>5 DEF SyncInv

LEMMA SyncStep == SyncInv /\ [SyncNext]_syncVars => SyncInv'
<1> SUFFICES ASSUME SyncInv, [SyncNext]_syncVars PROVE SyncInv'
  OBVIOUS
<1>a. ASSUME version' = version, saved' = saved, cols' = cols,
             SavedAs(store'.version, store'.on), SavedAs(file'.version, file'.on),
             beat'.stage = "read" => SavedAs(beat'.db, beat'.cols),
             beat'.stage = "answered" => SavedAs(beat'.optout.version, beat'.optout.on)
      PROVE  SyncInv'
  BY <1>a DEF SyncInv, SavedAs
<1>b. /\ SavedAs(store.version, store.on) /\ SavedAs(file.version, file.on)
      /\ SavedAs(version, cols)
      /\ beat.stage = "read" => SavedAs(beat.db, beat.cols)
      /\ beat.stage = "answered" => SavedAs(beat.optout.version, beat.optout.on)
      /\ NoBeat.stage = "none"
  BY DEF SyncInv, NoBeat
<1>1. CASE UNCHANGED syncVars
  BY <1>a, <1>b, <1>1 DEF syncVars
<1>2. CASE SendBeat
  BY <1>a, <1>b, <1>2 DEF SendBeat, portal, agent
<1>3. CASE ReadFlags
  BY <1>a, <1>b, <1>3 DEF ReadFlags, portal, agent
<1>4. CASE ReadPrinters
  BY <1>a, <1>b, <1>4 DEF ReadPrinters, Pushed, portal, agent
<1>5. ASSUME NEW kept \in BOOLEAN, SyncApply(kept) PROVE SyncInv'
  <2>1. beat'.stage \in {"none", "report"}
    BY <1>b, <1>5 DEF SyncApply
  <2>2. \A oo \in {store', file'} : oo \in {store, file} \/ (beat.stage = "answered" /\ oo = beat.optout)
    BY <1>5 DEF SyncApply
  <2> QED BY <1>a, <1>b, <1>5, <2>1, <2>2 DEF SyncApply, portal
<1>6. ASSUME NEW done, ReportPrinters(done) PROVE SyncInv'
  BY <1>a, <1>b, <1>6 DEF ReportPrinters, portal, agent
<1>7. CASE BeatLost
  BY <1>a, <1>b, <1>7 DEF BeatLost, portal, agent
<1>8. ASSUME NEW p, Plug(p) PROVE SyncInv'
  BY <1>a, <1>b, <1>8 DEF Plug, portal, agent
<1>9. ASSUME NEW reached, NEW done, DetectAndRegister(reached, done) PROVE SyncInv'
  BY <1>a, <1>b, <1>9 DEF DetectAndRegister, portal, agent
<1>10. CASE RestartAgent
  BY <1>a, <1>b, <1>10 DEF RestartAgent, portal
<1> QED BY <1>1, <1>2, <1>3, <1>4, <1>5, <1>6, <1>7, <1>8, <1>9, <1>10, PostStep DEF SyncNext

\* A version number identifies its flags end to end: the row, the answer of
\* handleHeartbeat, the agent and opt-out.json never hold one save's flags
\* under another save's number.
THEOREM VersionNamesFlags == SyncSpec => []FlagsOfVersion
<1>1. SyncInv => FlagsOfVersion
  BY DEF SyncInv, SavedAs, FlagsOfVersion
<1> QED BY <1>1, SyncStart, SyncStep, PTL DEF SyncSpec

-----------------------------------------------------------------------------
(* Resource profiles *)

\* One default row at most; once there was one, it is there or a request is
\* between clearing it and inserting the next.
ProfileInv ==
    /\ profile \in [Rows -> {"none", "plain", "default"}]
    /\ saving \in [ProfileRequests -> {"idle", "plain", "clear", "cleared"}]
    /\ \A x, y \in Rows : profile[x] = "default" /\ profile[y] = "default" => x = y
    /\ chosen => \/ \E x \in Rows : profile[x] = "default"
                 \/ \E r \in ProfileRequests : saving[r] = "cleared"

LEMMA ProfileStart == ProfileInit => ProfileInv
BY DEF ProfileInit, ProfileInv

\* The request that cleared the default inserts one or meets one.
LEMMA InsertKeeps ==
    ASSUME ProfileInv, NEW r \in ProfileRequests, NEW x \in Rows, InsertProfile(r, x)
    PROVE  ProfileInv'
<1>1. saving' = [saving EXCEPT ![r] = "idle"] /\ profile[x] = "none"
  BY DEF InsertProfile
<1>2. CASE saving[r] = "plain"
  <2>1. profile' = [profile EXCEPT ![x] = "plain"] /\ (chosen' => chosen)
    BY <1>2 DEF InsertProfile
  <2>2. \A y \in Rows : profile'[y] = "default" <=> profile[y] = "default"
    BY <1>1, <2>1 DEF ProfileInv
  <2> QED BY <1>1, <1>2, <2>1, <2>2 DEF ProfileInv
<1>3. CASE saving[r] = "cleared"
  <2>1. CASE Admits
    <3>1. profile' = [profile EXCEPT ![x] = "default"] /\ \A y \in Rows : profile[y] # "default"
      BY <1>3, <2>1 DEF InsertProfile, Admits, Defaults
    <3> QED BY <1>1, <3>1 DEF ProfileInv
  <2>2. CASE ~Admits
    <3>1. profile' = profile /\ \E y \in Rows : profile[y] = "default"
      BY <1>3, <2>2 DEF InsertProfile, Admits, Defaults
    <3> QED BY <1>1, <3>1 DEF ProfileInv
  <2> QED BY <2>1, <2>2
<1> QED BY <1>2, <1>3 DEF InsertProfile

LEMMA ProfileStep ==
    ASSUME "cleared" \notin FailAt, ProfileInv, [ProfileNext]_profileVars
    PROVE  ProfileInv'
<1>1. CASE UNCHANGED profileVars
  BY <1>1 DEF profileVars, ProfileInv
<1>2. ASSUME NEW r \in ProfileRequests, NEW isDefault \in BOOLEAN, ProfileSubmit(r, isDefault)
      PROVE  ProfileInv'
  <2>1. /\ profile' = profile /\ chosen' = chosen /\ saving[r] = "idle"
        /\ saving' = [saving EXCEPT ![r] = IF isDefault THEN "clear" ELSE "plain"]
    BY <1>2 DEF ProfileSubmit
  <2>2. saving' \in [ProfileRequests -> {"idle", "plain", "clear", "cleared"}]
    BY <2>1 DEF ProfileInv
  <2>3. \A q \in ProfileRequests : saving[q] = "cleared" => saving'[q] = "cleared"
    BY <2>1 DEF ProfileInv
  <2> QED BY <2>1, <2>2, <2>3 DEF ProfileInv
<1>3. ASSUME NEW r \in ProfileRequests, ClearDefault(r) PROVE ProfileInv'
  BY <1>3 DEF ClearDefault, ProfileInv
<1>4. ASSUME NEW r \in ProfileRequests, ProfileRequestFails(r) PROVE ProfileInv'
  BY <1>4 DEF ProfileRequestFails, ProfileInv
<1> QED BY <1>1, <1>2, <1>3, <1>4, InsertKeeps DEF ProfileNext

\* As long as no request dies between its two statements, a node that was
\* given a default profile has one again whenever no request is in between,
\* for any number of concurrent requests: uq_resource_profiles_node_default
\* refuses the second insert and not the first.
THEOREM DefaultStays ==
    ASSUME "cleared" \notin FailAt
    PROVE  ProfileSpec => []DefaultKept
<1>1. ProfileInv => DefaultKept
  <2> SUFFICES ASSUME ProfileInv, chosen, \A r \in ProfileRequests : saving[r] # "cleared"
               PROVE  Cardinality(Defaults) = 1
    BY DEF DefaultKept
  <2>1. PICK x \in Rows : profile[x] = "default"
    BY DEF ProfileInv
  <2>2. Defaults = {x}
    BY <2>1 DEF ProfileInv, Defaults
  <2> QED BY <2>2, FS_Singleton
<1>2. ProfileInv /\ [ProfileNext]_profileVars => ProfileInv'
  BY ProfileStep
<1> QED BY <1>1, <1>2, ProfileStart, PTL DEF ProfileSpec

=============================================================================
