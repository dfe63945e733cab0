---------------------------- MODULE AccessProofs ----------------------------
(***************************************************************************)
(* The anti-replay window is exact, for every width of the window, every   *)
(* range of sequence numbers and any number of requests in flight; and the *)
(* limiter of logins counts what it should, for any limit.                 *)
(***************************************************************************)
EXTENDS OperatorAuth, LoginLimiter, FiniteSetTheorems, TLAPS

-----------------------------------------------------------------------------
(* The window *)

High == Uint64(seqHigh)

\* What of the state the window is about keeps its type.
WindowType ==
    /\ seqHigh \in Int
    /\ High \in Seqs
    /\ seqWindow \in Windows
    /\ times \in [Seqs -> Nat]
    /\ req \in [Handlers -> AuthRequests]

\* The bits stand for the accepted numbers: nothing was accepted above the
\* highest, which was accepted itself unless nothing was, and a number within
\* the window was accepted exactly when its bit is set.
Mirrors(high, w, t) ==
    /\ Virgin(high, w) => \A s \in Seqs : t[s] = 0
    /\ ~Virgin(high, w) => w[0]
    /\ \A s \in Seqs : s > high => t[s] = 0
    /\ \A i \in Positions : i <= high => (w[i] <=> t[high - i] > 0)
    /\ \A s \in Seqs : t[s] <= 1

WindowInv == WindowType /\ Mirrors(High, seqWindow, times)

-----------------------------------------------------------------------------

\* A number survives the column: int64 and back.
LEMMA RoundTrip == \A n \in Seqs : Int64(n) \in Int /\ Uint64(Int64(n)) = n
BY WindowAssumption DEF Seqs, Int64, Uint64

\* The bits of a slid window.
LEMMA SlidBits ==
    ASSUME NEW w \in Windows, NEW n \in Nat, NEW i \in Positions \ {0}
    PROVE  [shiftRight(w, n) EXCEPT ![0] = TRUE][i] <=> i >= n /\ w[i - n]
BY DEF shiftRight

\* What advanceWindow returns is a highest number and a window again.
LEMMA AdvanceType ==
    ASSUME NEW high \in Seqs, NEW w \in Windows, NEW seq \in Seqs
    PROVE  /\ NewHigh(high, w, seq) \in Seqs
           /\ NewWindow(high, w, seq) \in Windows
<1>1. NewHigh(high, w, seq) \in Seqs
  BY DEF NewHigh
<1>2. ZeroWindow \in Windows
  BY DEF ZeroWindow, Windows
<1>3. \A n \in Nat : shiftRight(w, n) \in Windows
  BY DEF shiftRight, Windows
<1>4. seq > high => seq - high \in Nat
  BY WindowAssumption DEF Seqs
<1>5. NewWindow(high, w, seq) \in Windows
  BY <1>2, <1>3, <1>4 DEF NewWindow, Windows
<1> QED BY <1>1, <1>5

\* A number that advanceWindow calls fresh was never accepted.
LEMMA FreshUnseen ==
    ASSUME NEW high \in Seqs, NEW w \in Windows, NEW t \in [Seqs -> Nat], NEW seq \in Seqs,
           Mirrors(high, w, t), Fresh(high, w, seq)
    PROVE  t[seq] = 0
<1>1. CASE Virgin(high, w)
  BY <1>1 DEF Mirrors
<1>2. CASE seq > high
  BY <1>2 DEF Mirrors
<1>3. CASE seq < high /\ high - seq < WindowBits /\ ~w[high - seq]
  <2>1. high - seq \in Positions /\ high - seq <= high /\ high - (high - seq) = seq
    BY <1>3, WindowAssumption DEF Seqs, Positions
  <2>2. ~(t[seq] > 0)
    BY <1>3, <2>1 DEF Mirrors
  <2> QED BY <2>2
<1> QED BY <1>1, <1>2, <1>3 DEF Fresh

\* Accepting a fresh number moves window and history together: the case that
\* nothing was accepted before, the case that the window slides (by its width
\* or less), and the case that a bit below the highest number is set.
LEMMA AdvanceMirrors ==
    ASSUME NEW high \in Seqs, NEW w \in Windows, NEW t \in [Seqs -> Nat], NEW seq \in Seqs,
           Mirrors(high, w, t), Fresh(high, w, seq)
    PROVE  Mirrors(NewHigh(high, w, seq), NewWindow(high, w, seq),
                   [t EXCEPT ![seq] = @ + 1])
<1> DEFINE h1 == NewHigh(high, w, seq)
           w1 == NewWindow(high, w, seq)
           t1 == [t EXCEPT ![seq] = @ + 1]
<1>1. t[seq] = 0
  BY FreshUnseen
<1>2. t1[seq] = 1 /\ \A s \in Seqs : s # seq => t1[s] = t[s]
  BY <1>1
<1>3. \A s \in Seqs : t1[s] <= 1
  BY <1>2 DEF Mirrors
<1>4. high \in Nat /\ seq \in Nat /\ 0 \in Positions /\ Positions \subseteq Nat
  BY WindowAssumption DEF Seqs, Positions
<1>5. w1[0] /\ ~Virgin(h1, w1)
  <2>1. CASE seq > high \/ Virgin(high, w)
    BY <2>1, <1>4 DEF NewWindow, Windows, ZeroWindow, shiftRight, Virgin
  <2>2. CASE seq < high /\ ~Virgin(high, w)
    <3>1. w[0] /\ h1 = high /\ w1 = [w EXCEPT ![high - seq] = TRUE]
      BY <2>2, <1>4, WindowAssumption DEF NewWindow, NewHigh, Mirrors
    <3>2. w1[0]
      BY <3>1, <1>4, <2>2 DEF Windows
    <3> QED BY <3>2 DEF Virgin
  <2> QED BY <2>1, <2>2 DEF Fresh, Virgin
<1>6. \A s \in Seqs : s > h1 => t1[s] = 0
  BY <1>2, <1>4 DEF Mirrors, NewHigh, Seqs
<1>7. ASSUME NEW i \in Positions, i <= h1
      PROVE  w1[i] <=> t1[h1 - i] > 0
  <2>1. h1 - i \in Seqs /\ i \in Nat
    BY <1>4, <1>7, WindowAssumption DEF NewHigh, Seqs
  <2>2. CASE Virgin(high, w)
    <3>1. h1 = seq /\ w1 = [ZeroWindow EXCEPT ![0] = TRUE]
      BY <2>2 DEF NewHigh, NewWindow
    <3>2. w1[i] <=> i = 0
      BY <3>1, <1>4 DEF ZeroWindow
    <3>3. t1[h1 - i] > 0 <=> h1 - i = seq
      BY <2>1, <2>2, <1>2 DEF Mirrors
    <3> QED BY <3>1, <3>2, <3>3, <2>1, <1>4
  <2>3. CASE ~Virgin(high, w) /\ seq > high
    <3>1. h1 = seq
      BY <2>3 DEF NewHigh
    <3>2. CASE i = 0
      BY <3>1, <3>2, <1>2, <1>4, <1>5
    <3>3. CASE i > 0 /\ i < seq - high
      <4>1. ~w1[i]
        <5>1. CASE seq >= high + WindowBits
          <6>1. w1 = [ZeroWindow EXCEPT ![0] = TRUE]
            BY <5>1 DEF NewWindow
          <6> QED BY <6>1, <3>3, <1>4 DEF ZeroWindow
        <5>2. CASE ~(seq >= high + WindowBits)
          <6>1. w1 = [shiftRight(w, seq - high) EXCEPT ![0] = TRUE]
            BY <5>2, <2>3 DEF NewWindow
          <6>2. i \in Positions \ {0} /\ seq - high \in Nat /\ ~(i >= seq - high)
            BY <2>1, <2>3, <3>3, <1>4
          <6> QED BY <6>1, <6>2, SlidBits
        <5> QED BY <5>1, <5>2
      <4>2. h1 - i > high /\ h1 - i # seq
        BY <3>1, <3>3, <2>1, <1>4
      <4> QED BY <4>1, <4>2, <2>1, <1>2 DEF Mirrors
    <3>4. CASE i > 0 /\ i >= seq - high
      <4>1. i - (seq - high) \in Positions /\ i - (seq - high) <= high
        BY <3>1, <3>4, <2>1, <2>3, <1>4, <1>7, WindowAssumption DEF Positions
      <4>2. seq < high + WindowBits
        BY <3>4, <2>1, <1>4, WindowAssumption DEF Positions
      <4>3. w1[i] <=> w[i - (seq - high)]
        <5>1. w1 = [shiftRight(w, seq - high) EXCEPT ![0] = TRUE]
          BY <2>3, <4>2, <1>4, WindowAssumption DEF NewWindow
        <5>2. i \in Positions \ {0} /\ seq - high \in Nat
          BY <2>1, <2>3, <3>4, <1>4
        <5> QED BY <5>1, <5>2, <3>4, SlidBits
      <4>4. high - (i - (seq - high)) = h1 - i /\ h1 - i # seq
        BY <3>1, <3>4, <2>1, <1>4
      <4> QED BY <4>1, <4>3, <4>4, <2>1, <1>2 DEF Mirrors
    <3> QED BY <3>2, <3>3, <3>4, <2>1, <1>4
  <2>4. CASE ~Virgin(high, w) /\ seq < high
    <3>1. h1 = high /\ high - seq \in Positions
      BY <2>4, <1>4, WindowAssumption DEF NewHigh, Fresh, Positions
    <3>2. w1 = [w EXCEPT ![high - seq] = TRUE]
      BY <2>4, <1>4, WindowAssumption DEF NewWindow
    <3>3. CASE i = high - seq
      <4>1. w1[i]
        BY <3>1, <3>2, <3>3 DEF Windows
      <4>2. h1 - i = seq
        BY <3>1, <3>3, <1>4
      <4> QED BY <4>1, <4>2, <1>2
    <3>4. CASE i # high - seq
      <4>1. w1[i] <=> w[i]
        BY <3>2, <3>4 DEF Windows
      <4>2. h1 - i # seq
        BY <3>1, <3>4, <2>1, <1>4
      <4> QED BY <4>1, <4>2, <3>1, <2>1, <1>2, <1>7 DEF Mirrors
    <3> QED BY <3>3, <3>4
  <2> QED BY <2>2, <2>3, <2>4, <1>4 DEF Fresh
<1> HIDE DEF h1, w1, t1
<1>8. Mirrors(h1, w1, t1)
  BY <1>3, <1>5, <1>6, <1>7 DEF Mirrors
<1> QED BY <1>8 DEF h1, w1, t1

-----------------------------------------------------------------------------

\* A request that was verified carries a transmission the operator made.
LEMMA VerifiedRequest ==
    ASSUME NEW r \in AuthRequests, r.stage \in {"verified", "fresh", "counted"}
    PROVE  r.tx \in Transmissions
BY DEF AuthRequests

\* The replay check is one transaction: it advances the window and counts the
\* number, or leaves both alone.
LEMMA CheckKeepsWindow ==
    ASSUME WindowInv, NEW h \in Handlers, CheckAndAdvance(h)
    PROVE  WindowInv'
<1> DEFINE tx == req[h].tx
<1>1. req[h] \in AuthRequests /\ req[h].stage = "verified"
  BY DEF WindowInv, WindowType, CheckAndAdvance
<1>2. tx \in Transmissions
  BY <1>1, VerifiedRequest
<1>3. tx.seq \in Seqs
  BY <1>2, AuthAssumption
<1>4. AuthIdle \in AuthRequests /\ [stage |-> "fresh", tx |-> tx] \in AuthRequests
  BY <1>2 DEF AuthIdle, AuthRequests
<1>5. req' \in [Handlers -> AuthRequests]
  BY <1>4 DEF WindowInv, WindowType, CheckAndAdvance
<1>6. CASE UNCHANGED replayVars
  BY <1>5, <1>6 DEF WindowInv, WindowType, Mirrors, replayVars, High
<1>7. CASE /\ Fresh(High, seqWindow, tx.seq)
           /\ seqHigh' = Int64(NewHigh(High, seqWindow, tx.seq))
           /\ seqWindow' = NewWindow(High, seqWindow, tx.seq)
           /\ times' = [times EXCEPT ![tx.seq] = @ + 1]
  <2>1. /\ NewHigh(High, seqWindow, tx.seq) \in Seqs
        /\ seqWindow' \in Windows
    BY <1>3, <1>7, AdvanceType DEF WindowInv, WindowType
  <2>2. seqHigh' \in Int /\ High' = NewHigh(High, seqWindow, tx.seq)
    BY <1>7, <2>1, RoundTrip DEF High
  <2>3. times' \in [Seqs -> Nat]
    BY <1>3, <1>7 DEF WindowInv, WindowType
  <2>4. Mirrors(NewHigh(High, seqWindow, tx.seq), NewWindow(High, seqWindow, tx.seq),
                [times EXCEPT ![tx.seq] = @ + 1])
    BY <1>3, <1>7, AdvanceMirrors DEF WindowInv, WindowType
  <2>5. Mirrors(High', seqWindow', times')
    BY <1>7, <2>2, <2>4
  <2>6. Mirrors(High, seqWindow, times)'
    BY <2>5 DEF Mirrors, Virgin, Positions, Seqs
  <2> QED BY <1>5, <2>1, <2>2, <2>3, <2>6 DEF WindowInv, WindowType
<1> QED BY <1>6, <1>7 DEF CheckAndAdvance, High, replayVars

\* No other step touches the window, and requests keep their form.
LEMMA OthersKeepWindow ==
    ASSUME WindowInv, req' \in [Handlers -> AuthRequests], UNCHANGED replayVars
    PROVE  WindowInv'
BY DEF WindowInv, WindowType, Mirrors, replayVars, High

\* The invariant is inductive.
LEMMA WindowInductive ==
    /\ AuthInit => WindowInv
    /\ WindowInv /\ [AuthNext]_authVars => WindowInv'
<1>1. AuthInit => WindowInv
  <2> SUFFICES ASSUME AuthInit PROVE WindowInv
    OBVIOUS
  <2>1. High = 0 /\ 0 \in Seqs /\ seqHigh \in Int
    BY WindowAssumption DEF AuthInit, High, Uint64, Seqs
  <2>2. seqWindow \in Windows /\ times \in [Seqs -> Nat]
    BY DEF AuthInit, ZeroWindow, Windows
  <2>3. req \in [Handlers -> AuthRequests]
    BY DEF AuthInit, AuthIdle, AuthRequests
  <2>4. \A i \in Positions : i <= 0 => i = 0
    BY WindowAssumption DEF Positions
  <2>5. 0 \in Positions
    BY WindowAssumption DEF Positions
  <2>6. Mirrors(0, seqWindow, times)
    BY <2>1, <2>4, <2>5 DEF AuthInit, Mirrors, Virgin, ZeroWindow
  <2> QED BY <2>1, <2>2, <2>3, <2>6 DEF WindowInv, WindowType
<1>2. WindowInv /\ [AuthNext]_authVars => WindowInv'
  <2> SUFFICES ASSUME WindowInv, [AuthNext]_authVars PROVE WindowInv'
    OBVIOUS
  <2>0. req \in [Handlers -> AuthRequests]
    BY DEF WindowInv, WindowType
  <2>1. ASSUME NEW h \in Handlers, NEW tx \in Transmissions, Receive(h, tx)
        PROVE  WindowInv'
    <3>1. [stage |-> "verified", tx |-> tx] \in AuthRequests
      BY DEF AuthRequests
    <3> QED BY <2>0, <2>1, <3>1, OthersKeepWindow DEF Receive
  <2>2. ASSUME NEW h \in Handlers, CheckAndAdvance(h)
        PROVE  WindowInv'
    BY <2>2, CheckKeepsWindow
  <2>3. ASSUME NEW h \in Handlers, CountKeys(h)
        PROVE  WindowInv'
    <3>1. Cardinality(ActiveKeys) \in Nat
      BY AuthAssumption, FS_CardinalityType, FS_Subset DEF ActiveKeys
    <3>2. req[h].tx \in Transmissions
      BY <2>0, <2>3, VerifiedRequest DEF CountKeys
    <3>3. [stage |-> "counted", tx |-> req[h].tx, count |-> Cardinality(ActiveKeys)]
             \in AuthRequests
      BY <3>1, <3>2 DEF AuthRequests
    <3> QED BY <2>0, <2>3, <3>3, OthersKeepWindow DEF CountKeys
  <2>4. ASSUME NEW h \in Handlers, RecordUsage(h) \/ Fail(h)
        PROVE  WindowInv'
    <3>1. AuthIdle \in AuthRequests
      BY DEF AuthIdle, AuthRequests
    <3> QED BY <2>0, <2>4, <3>1, OthersKeepWindow DEF RecordUsage, Fail
  <2>5. ASSUME NEW i \in Indices, NEW keys, RotationVerify(i, keys)
        PROVE  WindowInv'
    BY <2>0, <2>5, OthersKeepWindow DEF RotationVerify
  <2>6. ASSUME NEW r \in swaps, RotationSwap(r) \/ RotationFail(r)
        PROVE  WindowInv'
    BY <2>0, <2>6, OthersKeepWindow DEF RotationSwap, RotationFail
  <2>7. CASE AuthRevoke \/ Disconnect
    BY <2>0, <2>7, OthersKeepWindow DEF AuthRevoke, Disconnect
  <2>8. CASE UNCHANGED authVars
    BY <2>0, <2>8, OthersKeepWindow DEF authVars, replayVars
  <2> QED BY <2>1, <2>2, <2>3, <2>4, <2>5, <2>6, <2>7, <2>8 DEF AuthNext
<1> QED BY <1>1, <1>2

\* No sequence number passes CheckAndAdvance twice, whatever is replayed,
\* reordered or rotated, for every width of the window.
THEOREM NoReplay == AuthSpec => []AcceptedOnce
<1>1. WindowInv => AcceptedOnce
  BY DEF WindowInv, Mirrors, AcceptedOnce
<1> QED BY <1>1, WindowInductive, PTL DEF AuthSpec

\* advanceWindow answers as a set of all accepted numbers would that forgets
\* what lies a window's width below the highest: it refuses no number that
\* is neither accepted nor too old.
THEOREM ExactWindow == AuthSpec => []WindowExact
<1>1. WindowInv => WindowExact
  <2> SUFFICES ASSUME WindowInv, NEW s \in Seqs
               PROVE  Fresh(High, seqWindow, s) <=>
                          s \notin Accepted /\ \A t \in Accepted : t - s < WindowBits
    BY DEF WindowExact, High
  <2>1. High \in Nat /\ s \in Nat /\ Seqs \subseteq Nat /\ 0 \in Positions
    BY WindowAssumption DEF WindowInv, WindowType, Seqs, Positions
  <2>2. CASE Virgin(High, seqWindow)
    BY <2>2 DEF WindowInv, Mirrors, Fresh, Accepted
  <2>3. CASE ~Virgin(High, seqWindow)
    <3>1. High \in Accepted /\ \A t \in Accepted : t <= High
      BY <2>1, <2>3 DEF WindowInv, WindowType, Mirrors, Accepted
    <3>2. CASE s > High
      BY <2>1, <3>1, <3>2, WindowAssumption DEF Fresh
    <3>3. CASE s = High
      BY <2>1, <2>3, <3>1, <3>3 DEF Fresh
    <3>4. CASE s < High /\ High - s >= WindowBits
      BY <2>1, <2>3, <3>1, <3>4, WindowAssumption DEF Fresh
    <3>5. CASE s < High /\ High - s < WindowBits
      <4>1. High - s \in Positions /\ High - s <= High /\ High - (High - s) = s
        BY <2>1, <3>5, WindowAssumption DEF Positions
      <4>2. seqWindow[High - s] <=> s \in Accepted
        BY <4>1 DEF WindowInv, Mirrors, Accepted
      <4>3. \A t \in Accepted : t - s < WindowBits
        BY <2>1, <3>1, <3>5, WindowAssumption DEF Accepted
      <4> QED BY <2>1, <2>3, <3>5, <4>2, <4>3 DEF Fresh
    <3> QED BY <2>1, <3>2, <3>3, <3>4, <3>5, WindowAssumption
  <2> QED BY <2>2, <2>3
<1> QED BY <1>1, WindowInductive, PTL DEF AuthSpec

-----------------------------------------------------------------------------
(* The login limiter, with the logins of an address one after the other *)

LoginRecords == [count : 0 .. maxAttempts, start : 0 .. MaxWindows]

LoginStages == [at : {"idle", "delete", "check", "refused", "store"}, new : LoginRecords]

\* The failures a record stands for.
Told(record) == IF record.start < windows THEN 0 ELSE record.count

\* Between logins the record tells the failures; a login that is about to
\* store holds the record that does; and only a record that is over or below
\* the limit lets a login through to the credentials.
LoginInv ==
    /\ rec \in LoginRecords /\ rec.start <= windows
    /\ rec = LoginNoRecord \/ rec.count >= 1
    /\ loginRequest \in [LoginRequests -> LoginStages]
    /\ windows \in 0 .. MaxWindows /\ failures \in 0 .. maxAttempts
    /\ (\A r \in LoginRequests : loginRequest[r].at # "store") => failures = Told(rec)
    /\ \A r \in LoginRequests :
          /\ loginRequest[r].at = "delete" => Over(rec)
          /\ loginRequest[r].at \in {"check", "store"} => Over(rec) \/ rec.count < maxAttempts
          /\ loginRequest[r].at = "store" => /\ loginRequest[r].new.start <= windows
                                            /\ loginRequest[r].new.count >= 1
                                            /\ failures = Told(loginRequest[r].new)

LEMMA NoRecordTyped ==
    /\ LoginNoRecord \in LoginRecords /\ LoginNoRecord.count = 0 /\ LoginNoRecord.start = 0
    /\ LoginIdle \in LoginStages /\ LoginIdle.at = "idle"
    /\ maxAttempts \in Nat /\ maxAttempts > 0 /\ MaxWindows \in Nat
BY LoginAssumption DEF LoginNoRecord, LoginRecords, LoginIdle, LoginStages

LEMMA LoginStart == LoginInit => LoginInv
<1> SUFFICES ASSUME LoginInit PROVE LoginInv
  OBVIOUS
<1>1. /\ rec = LoginNoRecord /\ failures = 0 /\ windows = 0
      /\ loginRequest \in [LoginRequests -> LoginStages]
      /\ \A r \in LoginRequests : loginRequest[r].at = "idle"
  BY NoRecordTyped DEF LoginInit
<1> QED BY <1>1, NoRecordTyped DEF LoginInv, Told

\* What a record that starts in the present counts.
LEMMA FreshRecord ==
    ASSUME LoginInv
    PROVE  LET x == [count |-> 1, start |-> windows]
           IN  x \in LoginRecords /\ x.start = windows /\ x.count = 1
BY NoRecordTyped DEF LoginInv, LoginRecords

LEMMA CountedRecord ==
    ASSUME LoginInv, rec # LoginNoRecord, Over(rec) \/ rec.count < maxAttempts,
           failures = Told(rec)
    PROVE  /\ Counted(rec) \in LoginRecords /\ Counted(rec).start <= windows
           /\ Counted(rec).count >= 1 /\ failures + 1 = Told(Counted(rec))
           /\ failures + 1 <= maxAttempts
<1>1. CASE Over(rec)
  BY <1>1, FreshRecord, NoRecordTyped DEF Counted, Over, LoginInv, Told
<1>2. CASE ~Over(rec)
  <2>1. Counted(rec) = [rec EXCEPT !.count = rec.count + 1]
    BY <1>2 DEF Counted
  <2>2. /\ rec.count \in 0 .. maxAttempts /\ rec.start \in 0 .. MaxWindows
        /\ windows \in 0 .. MaxWindows /\ rec.start <= windows /\ ~(rec.start < windows)
        /\ rec.count < maxAttempts
    BY <1>2 DEF LoginInv, LoginRecords, Over
  <2>3. rec.count + 1 \in 0 .. maxAttempts /\ failures = rec.count
    BY <2>2, NoRecordTyped DEF Told
  <2>4. /\ Counted(rec) \in LoginRecords /\ Counted(rec).count = rec.count + 1
        /\ Counted(rec).start = rec.start
    BY <2>1, <2>3 DEF LoginInv, LoginRecords
  <2> QED BY <2>2, <2>3, <2>4, NoRecordTyped DEF Told
<1> QED BY <1>1, <1>2

\* A login moves to a stage in which it holds nothing to store.
LEMMA LoginMoves ==
    ASSUME LoginInv, \A q, r \in LoginRequests : q = r, NEW r \in LoginRequests,
           NEW s \in LoginStages, loginRequest' = [loginRequest EXCEPT ![r] = s],
           s.at # "store", windows' = windows,
           rec' \in LoginRecords, rec'.start <= windows,
           rec' = LoginNoRecord \/ rec'.count >= 1,
           failures' \in 0 .. maxAttempts, failures' = Told(rec'),
           s.at = "delete" => Over(rec'),
           s.at = "check" => Over(rec') \/ rec'.count < maxAttempts
    PROVE  LoginInv'
<1>1. \A q \in LoginRequests : loginRequest'[q] = s
  BY DEF LoginInv
<1>2. loginRequest' \in [LoginRequests -> LoginStages]
  BY DEF LoginInv
<1>3. Told(rec)' = Told(rec') /\ Over(rec)' = Over(rec')
  BY DEF Told, Over
<1>4. windows' \in 0 .. MaxWindows
  BY DEF LoginInv
<1> QED BY <1>1, <1>2, <1>3, <1>4 DEF LoginInv

LEMMA LoginStep ==
    ASSUME LoginInv, \A q, r \in LoginRequests : q = r, NEW r \in LoginRequests,
           AllowLoad(r) \/ Handle(r)
    PROVE  LoginInv'
<1>t. /\ loginRequest[r] \in LoginStages /\ rec \in LoginRecords
      /\ rec.count \in 0 .. maxAttempts /\ rec.start <= windows
      /\ rec.start \in 0 .. MaxWindows /\ windows \in 0 .. MaxWindows
      /\ failures \in 0 .. maxAttempts /\ (rec = LoginNoRecord \/ rec.count >= 1)
  BY DEF LoginInv, LoginRecords
<1>n. Told(LoginNoRecord) = 0
  BY NoRecordTyped DEF Told
<1>s. loginRequest[r].at # "store" => failures = Told(rec)
  BY DEF LoginInv
<1>a. ASSUME NEW st \in {"idle", "delete", "check", "refused", "store"}
      PROVE  /\ [loginRequest[r] EXCEPT !.at = st] \in LoginStages
             /\ [loginRequest[r] EXCEPT !.at = st].at = st
  BY <1>t DEF LoginStages
<1>1. CASE AllowLoad(r)
  <2> DEFINE st == IF rec = LoginNoRecord THEN "check"
                   ELSE IF Over(rec) THEN "delete"
                   ELSE IF BelowLimit THEN "check" ELSE "refused"
             s == [loginRequest[r] EXCEPT !.at = st]
  <2>1. st \in {"delete", "check", "refused"}
    OBVIOUS
  <2>2. st = "delete" => Over(rec)
    OBVIOUS
  <2>3. st = "check" => rec.count < maxAttempts
    BY NoRecordTyped DEF BelowLimit
  <2>4. /\ loginRequest' = [loginRequest EXCEPT ![r] = s]
        /\ rec' = rec /\ failures' = failures /\ windows' = windows
    BY <1>1 DEF AllowLoad
  <2>5. failures = Told(rec)
    BY <1>1, <1>s, NoRecordTyped DEF AllowLoad
  <2> HIDE DEF st
  <2>6. s \in LoginStages /\ s.at = st
    BY <1>a, <2>1
  <2> HIDE DEF s
  <2> QED BY <1>t, <2>1, <2>2, <2>3, <2>4, <2>5, <2>6, LoginMoves
<1>2. CASE AllowDelete(r)
  <2> DEFINE s == [loginRequest[r] EXCEPT !.at = "check"]
  <2>1. /\ loginRequest' = [loginRequest EXCEPT ![r] = s] /\ loginRequest[r].at = "delete"
        /\ rec' = LoginNoRecord /\ failures' = failures /\ windows' = windows
    BY <1>2 DEF AllowDelete
  <2>2. failures = 0
    BY <1>s, <2>1 DEF LoginInv, Over, Told
  <2>3. s \in LoginStages /\ s.at = "check"
    BY <1>a
  <2> HIDE DEF s
  <2>4. /\ rec' \in LoginRecords /\ rec'.start <= windows /\ rec'.count < maxAttempts
        /\ failures' \in 0 .. maxAttempts /\ failures' = Told(rec')
    BY <1>t, <1>n, <2>1, <2>2, NoRecordTyped
  <2> QED BY <2>1, <2>3, <2>4, LoginMoves
<1>3. CASE Refuse(r)
  <2>1. /\ loginRequest' = [loginRequest EXCEPT ![r] = LoginIdle]
        /\ rec' = rec /\ failures' = failures /\ windows' = windows /\ failures = Told(rec)
    BY <1>3, <1>s DEF Refuse
  <2> QED BY <1>t, <2>1, LoginMoves, NoRecordTyped
<1>4. CASE FailureLoad(r)
  <2>1. /\ loginRequest[r].at = "check" /\ failures' = failures + 1 /\ windows' = windows
        /\ failures = Told(rec)
    BY <1>4, <1>s DEF FailureLoad
  <2>2. CASE rec = LoginNoRecord
    <3>1. /\ loginRequest' = [loginRequest EXCEPT ![r] = LoginIdle]
          /\ rec' = [count |-> 1, start |-> windows]
      BY <1>4, <2>2 DEF FailureLoad
    <3>2. rec' \in LoginRecords /\ rec'.start = windows /\ rec'.count = 1
      BY <3>1, FreshRecord
    <3>3. failures' = 1 /\ Told(rec') = 1 /\ failures' \in 0 .. maxAttempts
      BY <1>t, <1>n, <2>1, <2>2, <3>2, NoRecordTyped DEF Told
    <3>4. rec'.start <= windows /\ rec'.count >= 1
      BY <1>t, <3>2
    <3> QED BY <2>1, <3>1, <3>2, <3>3, <3>4, LoginMoves, NoRecordTyped
  <2>3. CASE rec # LoginNoRecord
    <3> DEFINE x == Counted(rec)
               s == [at |-> "store", new |-> x]
    <3>1. /\ loginRequest' = [loginRequest EXCEPT ![r] = s] /\ rec' = rec
      BY <1>4, <2>3 DEF FailureLoad
    <3>2. Over(rec) \/ rec.count < maxAttempts
      BY <2>1 DEF LoginInv
    <3>3. /\ x \in LoginRecords /\ x.start <= windows /\ x.count >= 1
          /\ failures + 1 = Told(x) /\ failures + 1 <= maxAttempts
      BY <2>1, <2>3, <3>2, CountedRecord
    <3> HIDE DEF x
    <3>4. s \in LoginStages /\ s.at = "store" /\ s.new = x
      BY <3>3 DEF LoginStages
    <3> HIDE DEF s
    <3>5. \A q \in LoginRequests : loginRequest'[q] = s
      BY <3>1 DEF LoginInv
    <3>6. loginRequest' \in [LoginRequests -> LoginStages]
      BY <3>1, <3>4 DEF LoginInv
    <3>7. Over(rec)' = Over(rec) /\ failures' = Told(x)
      BY <2>1, <3>1, <3>3 DEF Over
    <3>8. \A q \in LoginRequests : Told(loginRequest[q].new)' = Told(x)
      BY <2>1, <3>4, <3>5 DEF Told
    <3>9. failures' \in 0 .. maxAttempts
      BY <1>t, <2>1, <3>3, NoRecordTyped
    <3> QED BY <1>t, <2>1, <3>1, <3>2, <3>3, <3>4, <3>5, <3>6, <3>7, <3>8, <3>9 DEF LoginInv
  <2> QED BY <2>2, <2>3
<1>5. CASE FailureStore(r)
  <2>1. /\ loginRequest' = [loginRequest EXCEPT ![r] = LoginIdle] /\ loginRequest[r].at = "store"
        /\ rec' = loginRequest[r].new /\ failures' = failures /\ windows' = windows
    BY <1>5 DEF FailureStore
  <2>2. /\ rec' \in LoginRecords /\ rec'.start <= windows /\ rec'.count >= 1
        /\ failures = Told(loginRequest[r].new)
    BY <1>t, <2>1 DEF LoginInv, LoginStages
  <2>3. failures' = Told(rec')
    BY <2>1, <2>2
  <2> QED BY <1>t, <2>1, <2>2, <2>3, LoginMoves, NoRecordTyped
<1>6. CASE Succeed(r)
  <2>1. /\ loginRequest' = [loginRequest EXCEPT ![r] = LoginIdle]
        /\ rec' = LoginNoRecord /\ failures' = 0 /\ windows' = windows
    BY <1>6 DEF Succeed, Reset
  <2>2. /\ rec' \in LoginRecords /\ rec'.start <= windows
        /\ failures' \in 0 .. maxAttempts /\ failures' = Told(rec')
    BY <1>t, <1>n, <2>1, NoRecordTyped
  <2> QED BY <2>1, <2>2, LoginMoves, NoRecordTyped
<1> QED BY <1>1, <1>2, <1>3, <1>4, <1>5, <1>6 DEF Handle

\* The end of a window takes the failures with it, and whatever a login is
\* still to store counts for the window that is over.
LEMMA WindowStep ==
    ASSUME LoginInv, WindowPasses
    PROVE  LoginInv'
<1>1. /\ rec' = rec /\ loginRequest' = loginRequest /\ failures' = 0
      /\ windows' = windows + 1 /\ windows < MaxWindows /\ rec # LoginNoRecord
  BY DEF WindowPasses
<1>2. /\ windows \in 0 .. MaxWindows /\ rec.start \in 0 .. MaxWindows /\ rec.start <= windows
      /\ rec \in LoginRecords
  BY DEF LoginInv, LoginRecords
<1>3. windows' \in 0 .. MaxWindows /\ rec'.start < windows' /\ failures' \in 0 .. maxAttempts
  BY <1>1, <1>2, NoRecordTyped
<1>4. Over(rec)' /\ Told(rec)' = 0
  BY <1>1, <1>3 DEF Over, Told
<1>5. ASSUME NEW r \in LoginRequests, loginRequest[r].at = "store"
      PROVE  /\ loginRequest'[r].new.start <= windows' /\ loginRequest'[r].new.count >= 1
             /\ Told(loginRequest[r].new)' = 0
  <2>1. loginRequest[r].new.start \in 0 .. MaxWindows /\ loginRequest[r].new.start <= windows
    BY <1>5 DEF LoginInv, LoginStages, LoginRecords
  <2>2. loginRequest'[r] = loginRequest[r] /\ loginRequest[r].new.count >= 1
    BY <1>1, <1>5 DEF LoginInv
  <2>3. loginRequest[r].new.start < windows'
    BY <1>1, <1>2, <2>1
  <2>4. Told(loginRequest[r].new)' = 0
    BY <2>2, <2>3 DEF Told
  <2>5. loginRequest[r].new.start <= windows'
    BY <1>1, <1>2, <2>1
  <2> QED BY <2>2, <2>4, <2>5
<1> QED BY <1>1, <1>2, <1>3, <1>4, <1>5 DEF LoginInv

LEMMA LoginAlways ==
    ASSUME \A q, r \in LoginRequests : q = r
    PROVE  LoginSpec => []LoginInv
<1>1. LoginInv /\ [LoginNext]_loginVars => LoginInv'
  <2> SUFFICES ASSUME LoginInv, [LoginNext]_loginVars PROVE LoginInv'
    OBVIOUS
  <2>1. CASE UNCHANGED loginVars
    BY <2>1 DEF loginVars, LoginInv, Told, Over
  <2> QED BY <2>1, LoginStep, WindowStep DEF LoginNext
<1> QED BY <1>1, LoginStart, PTL DEF LoginSpec

\* When the logins of an address come one after the other, the limiter lets
\* at most maxAttempts of them fail in a window, and its counts and stages
\* keep their ranges.
THEOREM LoginTyped ==
    ASSUME \A q, r \in LoginRequests : q = r
    PROVE  LoginSpec => []LoginTypeOK
<1>1. LoginInv => LoginTypeOK
  BY DEF LoginInv, LoginTypeOK, LoginRecords, LoginStages
<1> QED BY <1>1, LoginAlways, PTL

\* When the logins of an address come one after the other, its record counts
\* exactly the failures since the window opened or the last login succeeded.
THEOREM FailuresCounted ==
    ASSUME \A q, r \in LoginRequests : q = r
    PROVE  LoginSpec => []CountExact
<1>1. LoginInv => CountExact
  BY NoRecordTyped DEF LoginInv, CountExact, Told, Over, LoginRecords
<1> QED BY <1>1, LoginAlways, PTL

\* When the logins of an address come one after the other, it is blocked only
\* after maxAttempts failures; RecordFailure's separate Load and Store make
\* the hypothesis necessary.
THEOREM BlockedForFailures ==
    ASSUME \A q, r \in LoginRequests : q = r
    PROVE  LoginSpec => []NotBlockedEarly
<1>1. LoginInv => NotBlockedEarly
  <2> SUFFICES ASSUME LoginInv, Blocked PROVE failures >= maxAttempts
    BY DEF NotBlockedEarly
  <2>1. ~Over(rec) /\ rec.count >= maxAttempts /\ rec # LoginNoRecord
    BY DEF Blocked
  <2>2. /\ rec.count \in 0 .. maxAttempts /\ rec.start \in 0 .. MaxWindows
        /\ windows \in 0 .. MaxWindows /\ ~(rec.start < windows)
    BY <2>1 DEF LoginInv, LoginRecords, Over
  <2>3. \A r \in LoginRequests : loginRequest[r].at # "store"
    BY <2>1, <2>2, NoRecordTyped DEF LoginInv
  <2>4. failures = rec.count
    BY <2>2, <2>3 DEF LoginInv, Told
  <2> QED BY <2>1, <2>4
<1> QED BY <1>1, LoginAlways, PTL

=============================================================================
