-------------------------------- MODULE Fees --------------------------------
(***************************************************************************)
(* The coordinator's fee declarations: signed and published on the         *)
(* governance surface, one row of fee_declarations each, and read back as  *)
(* the current one.                                                        *)
(*                                                                         *)
(* PublishFeeDeclaration at READ COMMITTED: the SELECT ... LIMIT 1 FOR     *)
(* UPDATE fixes its row from the snapshot it starts with, waits for a      *)
(* publisher that holds that row, and then goes on with that same row, for *)
(* the other one inserted a new row and did not change this one.  The      *)
(* first declaration has no row to lock.  So: a read, a comparison, an     *)
(* insert.                                                                 *)
(*                                                                         *)
(* EffectiveAt is in units of a nanosecond; the column keeps microseconds. *)
(***************************************************************************)
EXTENDS Integers, FiniteSets

CONSTANTS
    Publishers,   \* publish requests handled at a time
    FeeSeqLimit,  \* sequence numbers are uint64: FeeSeqLimit is 2^64
    Instants,     \* effective_at values requested
    Grain         \* nanoseconds in a microsecond

ASSUME FeesAssumption ==
    /\ FeeSeqLimit \in Nat \ {0}
    /\ Instants \subseteq Nat
    /\ Grain \in Nat \ {0}

VARIABLES
    decls,  \* fee_declarations
    pub     \* what each publish request is doing

feeVars == <<decls, pub>>

FeeSeqs == 0 .. FeeSeqLimit - 1

Declarations == [seq : FeeSeqs, at : Nat]

NoDecl == [seq |-> -1, at |-> -1]

\* int64(decl.Seq) satisfies the column's CHECK (seq >= 0).
Storable(seq) == 2 * seq < FeeSeqLimit

\* What the timestamptz column keeps of an instant.
FeeStored(at) == at - (at % Grain)

\* ORDER BY seq DESC LIMIT 1.
CurrentFeeDeclaration ==
    IF decls = {} THEN NoDecl
    ELSE CHOOSE d \in decls : \A e \in decls : e.seq <= d.seq

FeeIdle == [stage |-> "idle"]

Publications ==
    {FeeIdle} \cup [stage : {"read", "compared"}, decl : Declarations,
                 cur : Declarations \cup {NoDecl}]

\* The request is signed and its SELECT takes its snapshot.
PublishRead(p, d) ==
    /\ pub[p] = FeeIdle
    /\ pub' = [pub EXCEPT ![p] = [stage |-> "read", decl |-> d,
                                  cur |-> CurrentFeeDeclaration]]
    /\ UNCHANGED decls

\* Another publisher holds the lock on row d.
LockedByOther(p, d) ==
    /\ d # NoDecl
    /\ \E q \in Publishers \ {p} : pub[q].stage = "compared" /\ pub[q].cur = d

\* A first declaration is accepted as it is.
Later(d, cur) == cur = NoDecl \/ (d.seq > cur.seq /\ d.at > cur.at)

\* The row is locked and compared with.
PublishCompare(p) ==
    /\ pub[p].stage = "read"
    /\ ~LockedByOther(p, pub[p].cur)
    /\ pub' = [pub EXCEPT ![p] =
                  IF Later(pub[p].decl, pub[p].cur)
                  THEN [pub[p] EXCEPT !.stage = "compared"] ELSE FeeIdle]
    /\ UNCHANGED decls

\* Variant: a number is used again.
InsertableAgain(d) == Storable(d.seq)

\* The row satisfies the CHECK and the unique (coordinator_id, seq).
Insertable(d) == Storable(d.seq) /\ \A e \in decls : e.seq # d.seq

PublishInsert(p) ==
    /\ pub[p].stage = "compared"
    /\ LET d == pub[p].decl
       IN decls' = IF Insertable(d)
                   THEN decls \cup {[seq |-> d.seq, at |-> FeeStored(d.at)]}
                   ELSE decls
    /\ pub' = [pub EXCEPT ![p] = FeeIdle]

\* A database error or a closed connection.
PublishFail(p) ==
    /\ pub[p] # FeeIdle
    /\ pub' = [pub EXCEPT ![p] = FeeIdle]
    /\ UNCHANGED decls

FeeInit ==
    /\ decls = {}
    /\ pub = [p \in Publishers |-> FeeIdle]

FeeNext ==
    \E p \in Publishers :
        \/ \E d \in [seq : FeeSeqs, at : Instants] : PublishRead(p, d)
        \/ PublishCompare(p)
        \/ PublishInsert(p)
        \/ PublishFail(p)

FeeSpec == FeeInit /\ [][FeeNext]_feeVars

-----------------------------------------------------------------------------
(* Properties *)

\* A stored declaration has a number that its column can hold, and
\* publications are in one of their stages.
FeeTypeOK ==
    /\ decls \subseteq {d \in Declarations : Storable(d.seq)}
    /\ pub \in [Publishers -> Publications]

\* Terms never change for work already offered: a later declaration does not
\* take effect before an earlier one.
NonRetroactive ==
    \A d, e \in decls : d.seq < e.seq => d.at <= e.at

\* The declaration readers are served never gives way to one with a lower
\* number, nor to another one with the same number.
CurrentAdvances ==
    [][CurrentFeeDeclaration' = CurrentFeeDeclaration
       \/ CurrentFeeDeclaration'.seq > CurrentFeeDeclaration.seq]_feeVars

\* A later declaration takes effect strictly later.
StrictlyLater ==
    \A d, e \in decls : d.seq < e.seq => d.at < e.at

=============================================================================
