---------------------------- MODULE OperatorAuth ----------------------------
(***************************************************************************)
(* How an active operator's transmissions are honoured: the OperatorAuth   *)
(* middleware (keys, anti-replay, usage accounting with lazy expiry) with  *)
(* several requests in flight, signed key rotation, and the kill switches  *)
(* of the governance console.                                              *)
(*                                                                         *)
(* Atomicity.  Transactions run at READ COMMITTED.  CheckAndAdvance is one *)
(* action: its first statement claims the nonce and its second locks the   *)
(* window.  RecordUsageAndExpire reads the number of active keys in a      *)
(* statement of its own and locks only the rows it then updates: two       *)
(* actions.  RegisterReplacementKey reads the key map without a lock: two  *)
(* actions.  A request may end in an error before any of its statements.   *)
(*                                                                         *)
(* Abstractions.  A signature is the pair of keys that made it, a key is   *)
(* the number of the generation it was made in.  A transmission outside    *)
(* the five-minute window is one that is not received.  All keys are of    *)
(* one algorithm, the only one handleRegisterKeys accepts.                 *)
(***************************************************************************)
EXTENDS ReplayWindow, FiniteSets

CONSTANTS
    Handlers,       \* requests the server handles at a time
    Indices,        \* key indices, 0 .. KeyIndexCount - 1
    MinActiveKeys,  \* the floor of lazy expiry
    Threshold,      \* operator_keys.expiration_threshold
    Nonces,         \* nonces the operator uses
    Transmissions,  \* transmissions the operator may send, any number of times
    MaxRotations    \* bound: rotations in one behaviour

Generations == 0 .. MaxRotations

ASSUME AuthAssumption ==
    /\ IsFiniteSet(Indices)
    /\ MinActiveKeys \in Nat
    /\ Threshold \in Nat \ {0}
    /\ MaxRotations \in Nat
    /\ Transmissions \subseteq
           [seq : Seqs, nonce : Nonces, keys : SUBSET (Indices \X Generations)]

VARIABLES
    authStatus,  \* operators.status
    keyState,    \* state of the newest row at each index
    keyGen,      \* the key in that row
    usage,       \* its usage_count
    nonces,      \* operator_nonces
    seqHigh,     \* operator_replay.seq_high
    seqWindow,   \* operator_replay.seq_window
    req,         \* what each handler is doing
    swaps,       \* rotations verified and not yet written
    authIssued,  \* generations handed out
    times        \* history: how often each number passed CheckAndAdvance

keyVars == <<authStatus, keyState, keyGen, usage>>
replayVars == <<nonces, seqHigh, seqWindow, times>>
authVars == <<authStatus, keyState, keyGen, usage, nonces, seqHigh, seqWindow, req,
          swaps, authIssued, times>>

-----------------------------------------------------------------------------
(* Data *)

KeyStates == {"active", "expired", "revoked"}

AuthRequests == [stage : {"idle"}] \cup
            [stage : {"verified", "fresh"}, tx : Transmissions] \cup
            [stage : {"counted"}, tx : Transmissions, count : Nat]

AuthIdle == [stage |-> "idle"]

Rotations == [index : Indices, gen : Generations,
              keys : SUBSET (Indices \X Generations)]

ActiveKeys == {i \in Indices : keyState[i] = "active"}

\* The protocol's Verify: two signatures by active keys at two indices.
Verifies(keys) ==
    /\ \E k, l \in keys : k[1] # l[1] /\ keys = {k, l}
    /\ \A k \in keys : k[1] \in ActiveKeys /\ keyGen[k[1]] = k[2]

UsedIndices(tx) == {k[1] : k \in tx.keys}

\* The keys whose use by tx reaches the threshold.
Crossing(tx) == {i \in UsedIndices(tx) \cap ActiveKeys : usage[i] + 1 >= Threshold}

\* The sets of keys the loop of RecordUsageAndExpire may expire when it
\* started from count active keys: as many of the crossing ones as the floor
\* leaves, in the order of the transmission's indices.
Expires(tx, count) ==
    {S \in SUBSET Crossing(tx) :
        Cardinality(S) = IF count <= MinActiveKeys THEN 0
                         ELSE IF count - MinActiveKeys < Cardinality(Crossing(tx))
                              THEN count - MinActiveKeys
                              ELSE Cardinality(Crossing(tx))}

-----------------------------------------------------------------------------
(* The middleware *)

\* Header, freshness, GetActiveKeyMap and Verify.
Receive(h, tx) ==
    /\ req[h] = AuthIdle
    /\ authStatus = "active"
    /\ Verifies(tx.keys)
    /\ req' = [req EXCEPT ![h] = [stage |-> "verified", tx |-> tx]]
    /\ UNCHANGED <<keyVars, replayVars, swaps, authIssued>>

\* The insert into operator_nonces does not violate its primary key.
NewNonce(tx) == tx.nonce \notin nonces

CheckAndAdvance(h) ==
    /\ req[h].stage = "verified"
    /\ LET tx == req[h].tx
           high == Uint64(seqHigh)
       IN \/ /\ NewNonce(tx)
             /\ Fresh(high, seqWindow, tx.seq)
             /\ nonces' = nonces \cup {tx.nonce}
             /\ seqHigh' = Int64(NewHigh(high, seqWindow, tx.seq))
             /\ seqWindow' = NewWindow(high, seqWindow, tx.seq)
             /\ times' = [times EXCEPT ![tx.seq] = @ + 1]
             /\ req' = [req EXCEPT ![h] = [stage |-> "fresh", tx |-> tx]]
          \/ /\ ~(NewNonce(tx) /\ Fresh(high, seqWindow, tx.seq))
             /\ req' = [req EXCEPT ![h] = AuthIdle]
             /\ UNCHANGED replayVars
    /\ UNCHANGED <<keyVars, swaps, authIssued>>

\* RecordUsageAndExpire counts the active keys.
CountKeys(h) ==
    /\ req[h].stage = "fresh"
    /\ req' = [req EXCEPT ![h] = [stage |-> "counted", tx |-> req[h].tx,
                                  count |-> Cardinality(ActiveKeys)]]
    /\ UNCHANGED <<keyVars, replayVars, swaps, authIssued>>

\* usage_count after the two UPDATEs.
Used(tx) ==
    [i \in Indices |-> IF i \in UsedIndices(tx) \cap ActiveKeys
                       THEN usage[i] + 1 ELSE usage[i]]

\* Its UPDATEs and its commit; then the request is served.
RecordUsage(h) ==
    /\ req[h].stage = "counted"
    /\ usage' = Used(req[h].tx)
    /\ \E gone \in Expires(req[h].tx, req[h].count) :
          keyState' = [i \in Indices |-> IF i \in gone THEN "expired" ELSE keyState[i]]
    /\ req' = [req EXCEPT ![h] = AuthIdle]
    /\ UNCHANGED <<authStatus, keyGen, replayVars, swaps, authIssued>>

\* A database error, a deadlock between two accountings, a closed connection.
Fail(h) ==
    /\ req[h] # AuthIdle
    /\ req' = [req EXCEPT ![h] = AuthIdle]
    /\ UNCHANGED <<keyVars, replayVars, swaps, authIssued>>

-----------------------------------------------------------------------------
(* Rotation and the governance console *)

\* RegisterReplacementKey up to the verified signature; the operator signs
\* with two keys it knows to be current and adds a key never used before.
RotationVerify(i, keys) ==
    /\ authStatus = "active"
    /\ authIssued < MaxRotations
    /\ Verifies(keys)
    /\ authIssued' = authIssued + 1
    /\ swaps' = swaps \cup {[index |-> i, gen |-> authIssued + 1, keys |-> keys]}
    /\ UNCHANGED <<keyVars, replayVars, req>>

\* It retires the old row and inserts the new one.
RotationSwap(r) ==
    /\ r \in swaps
    /\ swaps' = swaps \ {r}
    /\ keyState' = [keyState EXCEPT ![r.index] = "active"]
    /\ keyGen' = [keyGen EXCEPT ![r.index] = r.gen]
    /\ usage' = [usage EXCEPT ![r.index] = 0]
    /\ UNCHANGED <<authStatus, replayVars, req, authIssued>>

\* An error, or the new row violates uq_opkeys_active.
RotationFail(r) ==
    /\ r \in swaps
    /\ swaps' = swaps \ {r}
    /\ UNCHANGED <<keyVars, replayVars, req, authIssued>>

AuthRevoke ==
    /\ authStatus' = "revoked"
    /\ UNCHANGED <<keyState, keyGen, usage, replayVars, req, swaps, authIssued>>

Disconnect ==
    /\ authStatus' = "revoked"
    /\ keyState' = [i \in Indices |-> IF i \in ActiveKeys THEN "revoked"
                                      ELSE keyState[i]]
    /\ UNCHANGED <<keyGen, usage, replayVars, req, swaps, authIssued>>

-----------------------------------------------------------------------------

\* An operator just activated.
AuthInit ==
    /\ authStatus = "active"
    /\ keyState = [i \in Indices |-> "active"]
    /\ keyGen = [i \in Indices |-> 0]
    /\ usage = [i \in Indices |-> 0]
    /\ nonces = {}
    /\ seqHigh = 0
    /\ seqWindow = ZeroWindow
    /\ req = [h \in Handlers |-> AuthIdle]
    /\ swaps = {}
    /\ authIssued = 0
    /\ times = [s \in Seqs |-> 0]

AuthNext ==
    \/ \E h \in Handlers :
          \/ \E tx \in Transmissions : Receive(h, tx)
          \/ CheckAndAdvance(h)
          \/ CountKeys(h)
          \/ RecordUsage(h)
          \/ Fail(h)
    \/ \E i \in Indices, keys \in SUBSET (ActiveKeys \X Generations) :
          RotationVerify(i, keys)
    \/ \E r \in swaps : RotationSwap(r) \/ RotationFail(r)
    \/ AuthRevoke
    \/ Disconnect

AuthSpec == AuthInit /\ [][AuthNext]_authVars

-----------------------------------------------------------------------------
(* Properties *)

\* The variables keep their types: seq_high is a BIGINT that stands for a
\* uint64, and seq_window keeps its width.
AuthTypeOK ==
    /\ authStatus \in {"active", "revoked"}
    /\ keyState \in [Indices -> KeyStates]
    /\ keyGen \in [Indices -> Generations]
    /\ usage \in [Indices -> Nat]
    /\ nonces \subseteq Nonces
    /\ seqHigh \in Int
    /\ Uint64(seqHigh) \in Seqs
    /\ seqWindow \in Windows
    /\ req \in [Handlers -> AuthRequests]
    /\ swaps \subseteq Rotations
    /\ authIssued \in Generations
    /\ times \in [Seqs -> Nat]

Accepted == {s \in Seqs : times[s] > 0}

\* A sequence number passes the check at most once, however many copies of
\* however many transmissions are in flight.
AcceptedOnce == \A s \in Seqs : times[s] <= 1

\* The bit vector and the highest number stand for the set of accepted
\* numbers: what advanceWindow answers is what a set of all accepted numbers,
\* cut at the window's width, would answer.  A number that was not accepted
\* and is not too old is never refused.
WindowExact ==
    \A s \in Seqs :
        Fresh(Uint64(seqHigh), seqWindow, s) <=>
            /\ s \notin Accepted
            /\ \A t \in Accepted : t - s < WindowBits

\* The lazy expiry of RecordUsageAndExpire leaves an operator the keys it needs
\* to sign and to rotate.
FloorHeld ==
    authStatus = "active" => Cardinality(ActiveKeys) >= MinActiveKeys

\* RegisterReplacementKey writes the new key of an active operator while the
\* keys that authorised it are still current.
RotationAuthorised ==
    [][\A r \in swaps :
          /\ authStatus = "active"
          /\ keyGen'[r.index] = r.gen
          /\ keyGen[r.index] # r.gen
          => Verifies(r.keys)]_authVars

=============================================================================
