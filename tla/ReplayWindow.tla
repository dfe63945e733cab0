---------------------------- MODULE ReplayWindow ----------------------------
(***************************************************************************)
(* The anti-replay window an operator's sequence numbers are checked with: *)
(* the highest number accepted so far and a bit vector in which bit i says *)
(* that the number i below it was accepted.                                *)
(***************************************************************************)
EXTENDS Integers

CONSTANTS
    WindowBits,  \* seqWindowBits, 256 in the code
    SeqLimit     \* sequence numbers are uint64: SeqLimit is 2^64

ASSUME WindowAssumption ==
    /\ WindowBits \in Nat \ {0}
    /\ SeqLimit \in Nat \ {0}

Seqs == 0 .. SeqLimit - 1

Positions == 0 .. WindowBits - 1

Windows == [Positions -> BOOLEAN]

\* A new row: 32 zero bytes.
ZeroWindow == [i \in Positions |-> FALSE]

\* The column seq_high is a signed 64-bit integer: what int64(n) stores and
\* uint64(n) reads back.
Int64(n) == IF 2 * n < SeqLimit THEN n ELSE n - SeqLimit

Uint64(n) == IF n >= 0 THEN n ELSE n + SeqLimit

\* Variant: the old highest number stays at position 0.
shiftRightLate(w, n) ==
    [i \in Positions |-> i + 1 >= n /\ i + 1 - n \in Positions /\ w[i + 1 - n]]

\* What was at position i is now at position i + n, or dropped.
shiftRight(w, n) == [i \in Positions |-> i >= n /\ w[i - n]]

\* Nothing was accepted yet.
Virgin(high, w) == high = 0 /\ ~w[0]

\* Variant: a number at the low edge of the window is accepted.
FreshBelow(high, w, seq) ==
    \/ Virgin(high, w)
    \/ seq > high
    \/ seq < high /\ (high - seq \in Positions => ~w[high - seq])

\* advanceWindow answers ok.
Fresh(high, w, seq) ==
    \/ Virgin(high, w)
    \/ seq > high
    \/ seq < high /\ high - seq < WindowBits /\ ~w[high - seq]

\* The highest number advanceWindow returns for a fresh one.
NewHigh(high, w, seq) == IF Virgin(high, w) \/ seq > high THEN seq ELSE high

\* The window it returns.  A virgin window and one that slides by its whole
\* width keep the new number's bit only.
NewWindow(high, w, seq) ==
    IF Virgin(high, w) \/ seq >= high + WindowBits
    THEN [ZeroWindow EXCEPT ![0] = TRUE]
    ELSE IF seq > high
         THEN [shiftRight(w, seq - high) EXCEPT ![0] = TRUE]
         ELSE [w EXCEPT ![high - seq] = TRUE]

=============================================================================
