-------------------------- MODULE OnboardingProofs --------------------------
(***************************************************************************)
(* Operator onboarding, for any number of applicant sessions, codes,       *)
(* keysets, runs and submissions: what verifies the address, what          *)
(* activates the operator, and that verdicts are final.                    *)
(***************************************************************************)
EXTENDS Onboarding, TLAPS

(* The e-mail gate *)

\* The row's code was made for the row's session, has failed as often as the
\* row's attempts say, and has not verified anything.
RowHonest ==
    emailRow # NoRow =>
        /\ emailRow \in EmailRows
        /\ emailRow.code \in 1 .. Len(issuedTo)
        /\ issuedTo[emailRow.code] = emailRow.session
        /\ wrong[emailRow.code] = emailRow.attempts
        /\ \A n \in 1 .. Len(consumed) : consumed[n][1] # emailRow.code

EmailInv ==
    /\ emailRow = NoRow \/ emailRow \in EmailRows
    /\ issuing \subseteq Sessions
    /\ issuedTo \in Seq(Sessions)
    /\ Len(issuedTo) <= MaxCodes
    /\ unsent \subseteq 1 .. Len(issuedTo)
    /\ inbox \subseteq 1 .. Len(issuedTo)
    /\ emailVerified \in BOOLEAN
    /\ wrong \in [Codes -> Nat]
    /\ consumed \in Seq(Codes \X Sessions)
    /\ \A c \in Codes : c > Len(issuedTo) => wrong[c] = 0
    /\ \A n \in 1 .. Len(consumed) : consumed[n][1] \in 1 .. Len(issuedTo)
    /\ RowHonest
    /\ CodeHonoured

LEMMA EmailStart == EmailInit => EmailInv
<1> SUFFICES ASSUME EmailInit PROVE EmailInv
  OBVIOUS
<1>1. /\ emailRow = NoRow /\ issuing = {} /\ issuedTo = <<>> /\ unsent = {} /\ inbox = {}
      /\ emailVerified = FALSE /\ wrong = [c \in Codes |-> 0] /\ consumed = <<>>
  BY DEF EmailInit
<1>2. Len(issuedTo) = 0 /\ Len(consumed) = 0 /\ MaxCodes \in Nat
  BY <1>1, VerificationAssumption
<1>3. issuedTo \in Seq(Sessions) /\ consumed \in Seq(Codes \X Sessions)
  BY <1>1
<1>4. wrong \in [Codes -> Nat] /\ \A c \in Codes : wrong[c] = 0
  BY <1>1
<1>5. 1 .. Len(consumed) = {}
  BY <1>2
<1>6. RowHonest
  BY <1>1 DEF RowHonest
<1>7. CodeHonoured
  BY <1>5 DEF CodeHonoured
<1>8. Len(issuedTo) <= MaxCodes
  BY <1>2
<1> QED BY <1>1, <1>3, <1>4, <1>5, <1>6, <1>7, <1>8 DEF EmailInv

\* A step that makes no code, counts nothing and verifies nothing, and leaves
\* the row's code, session and attempts or deletes it.
LEMMA QuietEmailStep ==
    ASSUME EmailInv, issuedTo' = issuedTo, wrong' = wrong, consumed' = consumed,
           issuing' \subseteq Sessions, emailVerified' = emailVerified,
           unsent' \subseteq 1 .. Len(issuedTo), inbox' \subseteq 1 .. Len(issuedTo),
           \/ emailRow' = emailRow
           \/ emailRow' = NoRow
           \/ /\ emailRow # NoRow /\ emailRow' \in EmailRows
              /\ emailRow'.code = emailRow.code
              /\ emailRow'.session = emailRow.session
              /\ emailRow'.attempts = emailRow.attempts
    PROVE  EmailInv'
<1>1. RowHonest'
  BY DEF EmailInv, RowHonest
<1>2. CodeHonoured'
  BY DEF EmailInv, CodeHonoured
<1> QED BY <1>1, <1>2 DEF EmailInv

LEMMA UpsertKeeps ==
    ASSUME EmailInv, NEW s \in Sessions, IssueUpsert(s)
    PROVE  EmailInv'
<1> DEFINE code == Len(issuedTo) + 1
           row == [code |-> code, session |-> s, attempts |-> 0, age |-> "cooling"]
<1>1. /\ emailRow' = row /\ issuedTo' = Append(issuedTo, s)
      /\ issuing' = issuing \ {s} /\ unsent' = unsent \cup {code}
      /\ inbox' = inbox /\ emailVerified' = emailVerified /\ wrong' = wrong
      /\ consumed' = consumed /\ Len(issuedTo) < MaxCodes
  BY DEF IssueUpsert
<1>2. Len(issuedTo) \in Nat /\ code \in Codes /\ MaxCodes \in Nat
      /\ VerificationMaxAttempts \in Nat
  BY <1>1, VerificationAssumption DEF EmailInv, Codes
<1>3. /\ row \in EmailRows /\ row.code = code /\ row.session = s /\ row.attempts = 0
  BY <1>2 DEF EmailRows, Ages
<1>4. /\ issuedTo' \in Seq(Sessions) /\ Len(issuedTo') = code /\ issuedTo'[code] = s
      /\ \A i \in 1 .. Len(issuedTo) : issuedTo'[i] = issuedTo[i]
  BY <1>1 DEF EmailInv
<1>5. wrong[code] = 0
  BY <1>2 DEF EmailInv
<1>6. \A n \in 1 .. Len(consumed) :
         consumed[n][1] \in 1 .. Len(issuedTo) /\ consumed[n][1] # code
  BY <1>2 DEF EmailInv
<1>7. code \in 1 .. Len(issuedTo') /\ 1 .. Len(issuedTo) \subseteq 1 .. Len(issuedTo')
  BY <1>2, <1>4
<1> HIDE DEF row
<1>8. RowHonest'
  BY <1>1, <1>3, <1>4, <1>5, <1>6, <1>7 DEF RowHonest
<1>9. CodeHonoured'
  BY <1>1, <1>4, <1>6 DEF EmailInv, CodeHonoured
<1>10. \A c \in Codes : c > Len(issuedTo') => wrong'[c] = 0
  BY <1>1, <1>2, <1>4 DEF EmailInv, Codes
<1>11. unsent' \subseteq 1 .. Len(issuedTo') /\ inbox' \subseteq 1 .. Len(issuedTo')
  BY <1>1, <1>7 DEF EmailInv
<1>12. \A n \in 1 .. Len(consumed') : consumed'[n][1] \in 1 .. Len(issuedTo')
  BY <1>1, <1>6, <1>7
<1>13. Len(issuedTo') <= MaxCodes
  BY <1>1, <1>2, <1>4
<1> QED BY <1>1, <1>3, <1>4, <1>8, <1>9, <1>10, <1>11, <1>12, <1>13 DEF EmailInv

LEMMA WrongKeeps ==
    ASSUME EmailInv, NEW s \in Sessions, NEW c, CheckWrong(s, c)
    PROVE  EmailInv'
<1> DEFINE code == emailRow.code
           row == [emailRow EXCEPT !.attempts = emailRow.attempts + 1]
<1>1. /\ emailRow # NoRow /\ emailRow.attempts < VerificationMaxAttempts
      /\ emailRow' = row /\ wrong' = [wrong EXCEPT ![code] = wrong[code] + 1]
      /\ issuing' = issuing /\ issuedTo' = issuedTo /\ unsent' = unsent /\ inbox' = inbox
      /\ emailVerified' = emailVerified /\ consumed' = consumed
  BY DEF CheckWrong, Checkable, Live
<1>2. /\ emailRow \in EmailRows /\ code \in 1 .. Len(issuedTo)
      /\ issuedTo[code] = emailRow.session /\ wrong[code] = emailRow.attempts
      /\ \A n \in 1 .. Len(consumed) : consumed[n][1] # code
  BY <1>1 DEF EmailInv, RowHonest
<1>3. code \in Codes /\ Len(issuedTo) \in Nat /\ VerificationMaxAttempts \in Nat
  BY <1>2, VerificationAssumption DEF EmailRows, EmailInv
<1>4. emailRow.attempts + 1 \in 0 .. VerificationMaxAttempts
  BY <1>1, <1>2, <1>3 DEF EmailRows
<1>5. /\ row \in EmailRows /\ row.code = code /\ row.session = emailRow.session
      /\ row.attempts = emailRow.attempts + 1
  BY <1>2, <1>4 DEF EmailRows
<1>6. /\ wrong' \in [Codes -> Nat] /\ wrong'[code] = emailRow.attempts + 1
      /\ \A d \in Codes : d # code => wrong'[d] = wrong[d]
  BY <1>1, <1>2, <1>3 DEF EmailInv
<1> HIDE DEF row, code
<1>7. RowHonest'
  BY <1>1, <1>2, <1>5, <1>6 DEF RowHonest
<1>8. \A n \in 1 .. Len(consumed) : consumed[n][1] \in Codes /\ consumed[n][1] # code
  BY <1>2 DEF EmailInv
<1>9. CodeHonoured'
  BY <1>1, <1>6, <1>8 DEF EmailInv, CodeHonoured
<1>10. \A d \in Codes : d > Len(issuedTo) => wrong'[d] = 0
  BY <1>2, <1>3, <1>6 DEF EmailInv, Codes
<1> QED BY <1>1, <1>5, <1>6, <1>7, <1>9, <1>10 DEF EmailInv

LEMMA RightKeeps ==
    ASSUME EmailInv, NEW s \in Sessions, NEW c, CheckRight(s, c)
    PROVE  EmailInv'
<1> DEFINE N == Len(consumed)
           pair == <<c, s>>
<1>1. /\ emailRow # NoRow /\ emailRow.session = s /\ emailRow.code = c
      /\ emailRow.attempts < VerificationMaxAttempts
      /\ emailRow' = NoRow /\ consumed' = Append(consumed, pair) /\ emailVerified' = TRUE
      /\ issuing' = issuing /\ issuedTo' = issuedTo /\ unsent' = unsent /\ inbox' = inbox
      /\ wrong' = wrong
  BY DEF CheckRight, Checkable, Live
<1>2. /\ emailRow \in EmailRows /\ c \in 1 .. Len(issuedTo)
      /\ issuedTo[c] = s /\ wrong[c] < VerificationMaxAttempts
      /\ \A n \in 1 .. N : consumed[n][1] # c
  BY <1>1 DEF EmailInv, RowHonest
<1>3. c \in Codes /\ pair \in Codes \X Sessions /\ pair[1] = c /\ pair[2] = s
  BY <1>1, <1>2 DEF EmailRows
<1>4. consumed \in Seq(Codes \X Sessions) /\ N \in Nat
  BY DEF EmailInv
<1> HIDE DEF pair
<1>5. /\ consumed' \in Seq(Codes \X Sessions) /\ Len(consumed') = N + 1
      /\ consumed'[N + 1] = pair /\ \A n \in 1 .. N : consumed'[n] = consumed[n]
  BY <1>1, <1>3, <1>4
<1>6. \A n \in 1 .. N + 1 : n \in 1 .. N \/ n = N + 1
  BY <1>4
<1> HIDE DEF N
<1>7. \A n \in 1 .. Len(consumed') : consumed'[n][1] \in 1 .. Len(issuedTo)
  BY <1>2, <1>3, <1>5, <1>6 DEF EmailInv, N
<1>8. RowHonest'
  BY <1>1 DEF RowHonest
<1>9. ASSUME NEW n \in 1 .. N + 1
      PROVE  /\ issuedTo[consumed'[n][1]] = consumed'[n][2]
             /\ wrong[consumed'[n][1]] < VerificationMaxAttempts
  <2>1. CASE n \in 1 .. N
    BY <1>5, <2>1 DEF EmailInv, CodeHonoured, N
  <2>2. CASE n = N + 1
    BY <1>2, <1>3, <1>5, <2>2
  <2> QED BY <1>6, <2>1, <2>2
<1>10. ASSUME NEW n \in 1 .. N + 1, NEW m \in 1 .. N + 1, consumed'[m][1] = consumed'[n][1]
       PROVE  m = n
  <2>1. CASE n \in 1 .. N /\ m \in 1 .. N
    BY <1>5, <1>10, <2>1 DEF EmailInv, CodeHonoured, N
  <2>2. CASE n = N + 1 /\ m \in 1 .. N
    BY <1>2, <1>3, <1>5, <1>10, <2>2
  <2>3. CASE n \in 1 .. N /\ m = N + 1
    BY <1>2, <1>3, <1>5, <1>10, <2>3
  <2> QED BY <1>6, <2>1, <2>2, <2>3
<1>11. CodeHonoured'
  BY <1>1, <1>5, <1>9, <1>10 DEF CodeHonoured
<1> QED BY <1>1, <1>5, <1>7, <1>8, <1>11 DEF EmailInv

LEMMA EmailStepKeeps ==
    ASSUME EmailInv, EmailStep
    PROVE  EmailInv'
<1>1. ASSUME NEW s \in Sessions, IssueCheck(s) PROVE EmailInv'
  BY <1>1, QuietEmailStep DEF IssueCheck, EmailInv
<1>2. ASSUME NEW s \in Sessions, IssueUpsert(s) PROVE EmailInv'
  BY <1>2, UpsertKeeps
<1>3. ASSUME NEW c \in Codes, SendCode(c) PROVE EmailInv'
  <2>1. c \in 1 .. Len(issuedTo)
    BY <1>3 DEF SendCode, EmailInv
  <2>2. unsent' \subseteq 1 .. Len(issuedTo) /\ inbox' \subseteq 1 .. Len(issuedTo)
    BY <1>3, <2>1 DEF SendCode, EmailInv
  <2> QED BY <1>3, <2>2, QuietEmailStep DEF SendCode, EmailInv
<1>4. CASE EmailAge
  <2> DEFINE age == IF emailRow.age = "cooling" THEN "live" ELSE "expired"
             row == [emailRow EXCEPT !.age = age]
  <2>1. emailRow # NoRow /\ emailRow' = row
    BY <1>4 DEF EmailAge, Live
  <2>2. emailRow \in EmailRows
    BY <2>1 DEF EmailInv
  <2>3. /\ row \in EmailRows /\ row.code = emailRow.code
        /\ row.session = emailRow.session /\ row.attempts = emailRow.attempts
    BY <2>2 DEF EmailRows, Ages
  <2> HIDE DEF row
  <2> QED BY <1>4, <2>1, <2>3, QuietEmailStep DEF EmailAge, EmailInv
<1>5. ASSUME NEW s \in Sessions, NEW c, CheckExpired(s, c) PROVE EmailInv'
  BY <1>5, QuietEmailStep DEF CheckExpired, EmailInv
<1>6. ASSUME NEW s \in Sessions, NEW c, CheckWrong(s, c) PROVE EmailInv'
  BY <1>6, WrongKeeps
<1> QED BY <1>1, <1>2, <1>3, <1>4, <1>5, <1>6 DEF EmailStep

LEMMA EmailStutters ==
    ASSUME EmailInv, UNCHANGED emailVars
    PROVE  EmailInv'
<1>1. /\ emailRow' = emailRow /\ issuing' = issuing /\ issuedTo' = issuedTo
      /\ unsent' = unsent /\ inbox' = inbox /\ emailVerified' = emailVerified
      /\ wrong' = wrong /\ consumed' = consumed
  BY DEF emailVars
<1> QED BY <1>1, QuietEmailStep DEF EmailInv

\* However sessions ask for codes, check them and let them expire, a code
\* that verified the address was presented once, by the session it was made
\* for, before VerificationMaxAttempts wrong checks.
THEOREM CodesHonoured == EmailSpec => []CodeHonoured
<1>1. EmailInv /\ [EmailNext]_emailVars => EmailInv'
  BY EmailStepKeeps, RightKeeps, EmailStutters DEF EmailNext
<1>2. EmailInv => CodeHonoured
  BY DEF EmailInv
<1> QED BY <1>1, <1>2, EmailStart, PTL DEF EmailSpec

-----------------------------------------------------------------------------
(* Conformance and activation *)

RunRows == [status : {"none", "running", "passed", "failed"},
            hash : Hashes, result : [Suites -> Results]]

\* A submission that will bind a hash has read three passed suites.
ReadPassed(p) == submit[p].pc \in {"hash", "bind"} => AllPassed(submit[p].run)

\* The operator's hash is the hash of a run whose suites are all passed.
HashBound == passHash # NoKeys => \E r \in Runs : confRun[r].hash = passHash /\ AllPassed(r)

GateInv ==
    /\ keyset \in Hashes /\ passHash \in Hashes
    /\ confRun \in [Runs -> RunRows]
    /\ submit \in [Submitters -> Submissions]
    /\ \A p \in Submitters : ReadPassed(p)
    /\ HashBound

\* Verdicts are kept and runs keep their hashes.
RunsKept ==
    /\ confRun' \in [Runs -> RunRows]
    /\ \A r \in Runs : \A s \in Suites :
          confRun[r].result[s] # "none" => confRun'[r].result[s] = confRun[r].result[s]

HashesKept == \A r \in Runs : confRun'[r].hash = confRun[r].hash

LEMMA PassedKept ==
    ASSUME RunsKept, NEW r \in Runs, AllPassed(r)
    PROVE  AllPassed(r)'
BY DEF RunsKept, AllPassed

\* Verdicts and hashes of runs are kept, or a passed run gets the operator's hash.
LEMMA GateMoves ==
    ASSUME GateInv, RunsKept, keyset' \in Hashes, passHash' \in Hashes,
           submit' \in [Submitters -> Submissions],
           \A p \in Submitters : submit'[p] = submit[p] \/ ReadPassed(p)',
           \/ HashesKept /\ passHash' \in {passHash, NoKeys}
           \/ \E r \in Runs : AllPassed(r) /\ confRun'[r].hash = passHash'
    PROVE  GateInv'
<1>1. ASSUME NEW p \in Submitters, submit'[p] = submit[p] PROVE ReadPassed(p)'
  <2> SUFFICES ASSUME submit[p].pc \in {"hash", "bind"} PROVE AllPassed(submit[p].run)'
               /\ submit'[p].run = submit[p].run
    BY <1>1 DEF ReadPassed, AllPassed
  <2>1. AllPassed(submit[p].run)
    BY DEF GateInv, ReadPassed
  <2>2. submit[p].run \in Runs
    BY DEF GateInv, Submissions, Done
  <2> QED BY <1>1, <2>1, <2>2, PassedKept DEF RunsKept, AllPassed
<1>2. HashBound'
  <2>1. CASE HashesKept /\ passHash' \in {passHash, NoKeys}
    BY <2>1, PassedKept DEF GateInv, HashBound, HashesKept
  <2>2. ASSUME NEW r \in Runs, AllPassed(r), confRun'[r].hash = passHash' PROVE HashBound'
    BY <2>2, PassedKept DEF HashBound
  <2> QED BY <2>1, <2>2
<1> QED BY <1>1, <1>2 DEF GateInv, RunsKept

\* A step that leaves the runs alone.
LEMMA SameRuns ==
    ASSUME GateInv, confRun' = confRun
    PROVE  RunsKept /\ HashesKept
BY DEF GateInv, RunsKept, HashesKept

\* One run gets another status and verdict of an ungraded suite.
LEMMA RunWritten ==
    ASSUME GateInv, NEW r \in Runs, NEW row \in RunRows,
           confRun' = [confRun EXCEPT ![r] = row],
           \A s \in Suites : confRun[r].result[s] # "none" => row.result[s] = confRun[r].result[s]
    PROVE  /\ RunsKept
           /\ confRun'[r] = row
           /\ row.hash = confRun[r].hash => HashesKept
<1>1. confRun \in [Runs -> RunRows]
  BY DEF GateInv
<1>2. /\ confRun' \in [Runs -> RunRows] /\ confRun'[r] = row
      /\ \A q \in Runs : q # r => confRun'[q] = confRun[q]
  BY <1>1
<1>3. RunsKept
  BY <1>2 DEF RunsKept
<1>4. row.hash = confRun[r].hash => HashesKept
  BY <1>2 DEF HashesKept
<1> QED BY <1>2, <1>3, <1>4

\* A status column is written.
LEMMA StatusWritten ==
    ASSUME GateInv, NEW r \in Runs, NEW st \in {"none", "running", "passed", "failed"},
           confRun' = [confRun EXCEPT ![r].status = st]
    PROVE  RunsKept /\ HashesKept
<1> DEFINE row == [confRun[r] EXCEPT !.status = st]
<1>1. confRun[r] \in RunRows /\ confRun \in [Runs -> RunRows]
  BY DEF GateInv
<1>2. /\ row \in RunRows /\ row.hash = confRun[r].hash /\ row.result = confRun[r].result
  BY <1>1 DEF RunRows
<1>3. confRun' = [confRun EXCEPT ![r] = row]
  BY <1>1
<1> HIDE DEF row
<1> QED BY <1>2, <1>3, RunWritten

\* A suite that has no verdict gets one.
LEMMA SuiteGraded ==
    ASSUME GateInv, NEW r \in Runs, NEW s \in Suites, NEW v \in Results,
           confRun[r].result[s] = "none",
           confRun' = [confRun EXCEPT ![r].result[s] = v]
    PROVE  RunsKept /\ HashesKept
<1> DEFINE res == [confRun[r].result EXCEPT ![s] = v]
           row == [confRun[r] EXCEPT !.result = res]
<1>1. confRun[r] \in RunRows /\ confRun \in [Runs -> RunRows]
  BY DEF GateInv
<1>2. confRun[r].result \in [Suites -> Results]
  BY <1>1 DEF RunRows
<1>3. /\ res \in [Suites -> Results]
      /\ \A t \in Suites : confRun[r].result[t] # "none" => res[t] = confRun[r].result[t]
  BY <1>2
<1>4. confRun' = [confRun EXCEPT ![r] = row]
  BY <1>1
<1> HIDE DEF res
<1>5. row \in RunRows /\ row.hash = confRun[r].hash /\ row.result = res
  BY <1>1, <1>3 DEF RunRows
<1> HIDE DEF row
<1>6. \A t \in Suites : confRun[r].result[t] # "none" => row.result[t] = confRun[r].result[t]
  BY <1>3, <1>5
<1> QED BY <1>4, <1>5, <1>6, RunWritten

\* One submission is put where it has read nothing, or three passed suites.
LEMMA SubmissionMoves ==
    ASSUME GateInv, RunsKept, HashesKept, keyset' \in Hashes, passHash' = passHash,
           NEW p \in Submitters, NEW x \in Submissions, submit' = [submit EXCEPT ![p] = x],
           x.pc \in {"hash", "bind"} => AllPassed(x.run)
    PROVE  GateInv'
<1>1. /\ submit' \in [Submitters -> Submissions] /\ submit'[p] = x
      /\ \A q \in Submitters : q # p => submit'[q] = submit[q]
  BY DEF GateInv
<1>2. ReadPassed(p)'
  <2>1. CASE x.pc \in {"hash", "bind"}
    <3>1. x.run \in Runs
      BY <2>1 DEF Submissions, Done
    <3> QED BY <1>1, <2>1, <3>1 DEF RunsKept, AllPassed, ReadPassed
  <2>2. CASE x.pc \notin {"hash", "bind"}
    BY <1>1, <2>2 DEF ReadPassed
  <2> QED BY <2>1, <2>2
<1>3. passHash' \in Hashes
  BY DEF GateInv
<1> QED BY <1>1, <1>2, <1>3, GateMoves

\* A step that leaves submissions and runs alone.
LEMMA AccountMoves ==
    ASSUME GateInv, confRun' = confRun, submit' = submit, keyset' \in Hashes,
           passHash' \in {passHash, NoKeys}
    PROVE  GateInv' /\ RunsKept
<1>1. passHash' \in Hashes /\ submit' \in [Submitters -> Submissions]
  BY DEF GateInv, Hashes
<1>2. RunsKept /\ HashesKept
  BY SameRuns
<1>3. \A p \in Submitters : submit'[p] = submit[p]
  OBVIOUS
<1> QED BY <1>1, <1>2, <1>3, GateMoves

\* Who is active after a step was so before or met AutoActivate's conditions.
Activates == onboarding' = "active" => onboarding = "active" \/ MayActivate

LEMMA AutoActivates ==
    ASSUME AutoActivate
    PROVE  Activates
BY DEF AutoActivate, Activates

Carrying == {"A", "B", "C", "read", "hash", "activate"}

\* A submission that grades or finalizes has a run, keys and parts.
LEMMA SubmissionShape ==
    ASSUME GateInv, NEW p \in Submitters, submit[p].pc \in Carrying
    PROVE  /\ submit[p] \in [pc : Carrying, run : Runs, keys : Keysets, parts : Parts \cup {{}}]
           /\ submit[p].run \in Runs
BY DEF GateInv, Submissions, Done, Carrying

\* Goto moves such a submission on, having read three passed suites if need be.
LEMMA GotoKeeps ==
    ASSUME GateInv, RunsKept, HashesKept, keyset' \in Hashes, passHash' = passHash,
           NEW p \in Submitters, submit[p].pc \in Carrying, NEW pc \in Carrying, Goto(p, pc),
           pc = "hash" => AllPassed(submit[p].run)
    PROVE  GateInv'
<1> DEFINE x == [submit[p] EXCEPT !.pc = pc]
<1>1. /\ submit[p] \in [pc : Carrying, run : Runs, keys : Keysets, parts : Parts \cup {{}}]
  BY SubmissionShape
<1>2. /\ x \in [pc : Carrying, run : Runs, keys : Keysets, parts : Parts \cup {{}}]
      /\ x.pc = pc /\ x.run = submit[p].run
  BY <1>1
<1>3. submit' = [submit EXCEPT ![p] = x]
  BY DEF Goto, GateInv
<1> HIDE DEF x
<1>4. x \in Submissions
  BY <1>2 DEF Submissions, Carrying
<1>5. x.pc \in {"hash", "bind"} => AllPassed(x.run)
  BY <1>2 DEF Carrying
<1> QED BY <1>3, <1>4, <1>5, SubmissionMoves

LEMMA GradeKeeps ==
    ASSUME GateInv, NEW p \in Submitters, NEW s \in {"A", "B"}, NEW next \in {"B", "C"},
           GradeSuite(p, s, next)
    PROVE  GateInv' /\ RunsKept
<1>1. /\ submit[p].pc = s /\ Goto(p, next) /\ keyset' = keyset /\ passHash' = passHash
  BY DEF GradeSuite, acctVars
<1>2. submit[p].pc \in Carrying /\ next \in Carrying /\ next # "hash" /\ s \in Suites
  BY <1>1 DEF Carrying, Suites
<1>3. submit[p].run \in Runs /\ keyset' \in Hashes
  BY <1>1, <1>2, SubmissionShape DEF GateInv
<1>4. CASE s \in submit[p].parts /\ Gradable(submit[p].run, s)
  <2> DEFINE v == IF Passes(p) THEN "pass" ELSE "fail"
  <2>1. confRun' = [confRun EXCEPT ![submit[p].run].result[s] = v]
    BY <1>4 DEF GradeSuite
  <2>2. v \in Results
    BY DEF Results
  <2> HIDE DEF v
  <2>3. RunsKept /\ HashesKept
    BY <1>2, <1>3, <1>4, <2>1, <2>2, SuiteGraded DEF Gradable
  <2> QED BY <1>1, <1>2, <1>3, <2>3, GotoKeeps
<1>5. CASE ~(s \in submit[p].parts /\ Gradable(submit[p].run, s))
  <2>1. confRun' = confRun
    BY <1>5 DEF GradeSuite, runVars
  <2> QED BY <1>1, <1>2, <1>3, <2>1, SameRuns, GotoKeeps
<1> QED BY <1>4, <1>5

LEMMA GradeCKeeps ==
    ASSUME GateInv, NEW p \in Submitters, GradeSuiteC(p)
    PROVE  GateInv' /\ RunsKept
<1>1. /\ submit[p].pc = "C" /\ Goto(p, "read") /\ keyset' = keyset /\ passHash' = passHash
  BY DEF GradeSuiteC, acctVars
<1>2. submit[p].pc \in Carrying /\ "read" \in Carrying /\ "C" \in Suites
  BY <1>1 DEF Carrying, Suites
<1>3. submit[p].run \in Runs /\ keyset' \in Hashes
  BY <1>1, <1>2, SubmissionShape DEF GateInv
<1>4. CASE confRun[submit[p].run].result["C"] = "none"
  <2> DEFINE v == IF runSuiteCScratch THEN "pass" ELSE "fail"
  <2>1. confRun' = [confRun EXCEPT ![submit[p].run].result["C"] = v]
    BY <1>4 DEF GradeSuiteC
  <2>2. v \in Results
    BY DEF Results
  <2> HIDE DEF v
  <2>3. RunsKept /\ HashesKept
    BY <1>2, <1>3, <1>4, <2>1, <2>2, SuiteGraded
  <2> QED BY <1>1, <1>2, <1>3, <2>3, GotoKeeps
<1>5. CASE confRun[submit[p].run].result["C"] # "none"
  <2>1. confRun' = confRun
    BY <1>5 DEF GradeSuiteC
  <2> QED BY <1>1, <1>2, <1>3, <2>1, SameRuns, GotoKeeps
<1> QED BY <1>4, <1>5

LEMMA FinalizeReadKeeps ==
    ASSUME GateInv, NEW p \in Submitters, FinalizeRead(p)
    PROVE  GateInv' /\ RunsKept
<1>1. /\ submit[p].pc = "read" /\ keyset' = keyset /\ passHash' = passHash
      /\ confRun' = confRun
  BY DEF FinalizeRead, acctVars, runVars
<1>2. submit[p].pc \in Carrying /\ "hash" \in Carrying
  BY <1>1 DEF Carrying
<1>3. submit[p].run \in Runs /\ keyset' \in Hashes /\ RunsKept /\ HashesKept
  BY <1>1, <1>2, SubmissionShape, SameRuns DEF GateInv
<1>4. CASE AllPassed(submit[p].run)
  <2>1. Goto(p, "hash")
    BY <1>4 DEF FinalizeRead
  <2> QED BY <1>1, <1>2, <1>3, <1>4, <2>1, GotoKeeps
<1>5. CASE ~AllPassed(submit[p].run)
  <2> DEFINE pc == IF \E s \in Suites : confRun[submit[p].run].result[s] = "none"
                   THEN "running" ELSE "failed"
             x == [pc |-> pc, run |-> submit[p].run]
  <2>1. submit' = [submit EXCEPT ![p] = x]
    BY <1>5 DEF FinalizeRead
  <2>2. pc \in {"running", "failed"}
    OBVIOUS
  <2> HIDE DEF pc
  <2>3. x \in Submissions /\ x.pc \notin {"hash", "bind"}
    BY <1>3, <2>2 DEF Submissions
  <2> HIDE DEF x
  <2> QED BY <1>1, <1>3, <2>1, <2>3, SubmissionMoves
<1> QED BY <1>4, <1>5

LEMMA FinalizeUnpassedKeeps ==
    ASSUME GateInv, NEW p \in Submitters, FinalizeUnpassed(p)
    PROVE  GateInv' /\ RunsKept
<1>1. /\ submit[p].pc \in {"running", "failed"} /\ keyset' = keyset /\ passHash' = passHash
      /\ confRun' = [confRun EXCEPT ![submit[p].run].status = submit[p].pc]
      /\ submit' = [submit EXCEPT ![p] = Done]
  BY DEF FinalizeUnpassed, acctVars
<1>2. submit[p].run \in Runs /\ keyset' \in Hashes
  BY <1>1 DEF GateInv, Submissions, Done
<1>3. RunsKept /\ HashesKept
  BY <1>1, <1>2, StatusWritten
<1>4. Done \in Submissions /\ Done.pc \notin {"hash", "bind"}
  BY DEF Submissions, Done
<1> QED BY <1>1, <1>2, <1>3, <1>4, SubmissionMoves

LEMMA FinalizeHashKeeps ==
    ASSUME GateInv, NEW p \in Submitters, FinalizeHash(p)
    PROVE  GateInv' /\ RunsKept
<1>1. /\ submit[p].pc = "hash" /\ keyset' = keyset /\ passHash' = passHash
      /\ confRun' = confRun
  BY DEF FinalizeHash, acctVars, runVars
<1>2. submit[p].pc \in Carrying
  BY <1>1 DEF Carrying
<1>3. /\ submit[p].run \in Runs /\ keyset' \in Hashes /\ keyset \in Hashes
      /\ RunsKept /\ HashesKept /\ AllPassed(submit[p].run)
  BY <1>1, <1>2, SubmissionShape, SameRuns DEF GateInv, ReadPassed
<1>4. CASE keyset = NoKeys
  <2>1. submit' = [submit EXCEPT ![p] = Done]
    BY <1>4 DEF FinalizeHash
  <2>2. Done \in Submissions /\ Done.pc \notin {"hash", "bind"}
    BY DEF Submissions, Done
  <2> QED BY <1>1, <1>3, <2>1, <2>2, SubmissionMoves
<1>5. CASE keyset # NoKeys
  <2> DEFINE x == [pc |-> "bind", run |-> submit[p].run, hash |-> keyset]
  <2>1. submit' = [submit EXCEPT ![p] = x]
    BY <1>5 DEF FinalizeHash
  <2>2. x \in Submissions /\ x.run = submit[p].run
    BY <1>3, <1>5 DEF Submissions, Hashes
  <2> HIDE DEF x
  <2> QED BY <1>1, <1>3, <2>1, <2>2, SubmissionMoves
<1> QED BY <1>4, <1>5

LEMMA FinalizeBindKeeps ==
    ASSUME GateInv, NEW p \in Submitters, FinalizeBind(p)
    PROVE  GateInv' /\ RunsKept
<1> DEFINE r == submit[p].run
           h == submit[p].hash
           row == [confRun[r] EXCEPT !.status = "passed", !.hash = h]
           x == [pc |-> "activate", run |-> r, keys |-> h, parts |-> {}]
<1>1. /\ submit[p].pc = "bind" /\ keyset' = keyset /\ passHash' = h
      /\ confRun' = [confRun EXCEPT ![r].status = "passed", ![r].hash = h]
      /\ submit' = [submit EXCEPT ![p] = x]
  BY DEF FinalizeBind
<1>2. r \in Runs /\ h \in Keysets
  BY <1>1 DEF GateInv, Submissions, Done
<1>3. h \in Hashes /\ keyset' \in Hashes /\ AllPassed(r)
  BY <1>1, <1>2 DEF GateInv, ReadPassed, Hashes
<1>4. confRun[r] \in RunRows /\ confRun \in [Runs -> RunRows]
  BY <1>2 DEF GateInv
<1>5. confRun' = [confRun EXCEPT ![r] = row]
  BY <1>1, <1>2, <1>4
<1>6. x \in Submissions /\ x.pc = "activate"
  BY <1>2 DEF Submissions
<1> HIDE DEF r, h, x
<1>7. row \in RunRows /\ row.hash = h /\ row.result = confRun[r].result
  BY <1>3, <1>4 DEF RunRows
<1> HIDE DEF row
<1>8. RunsKept /\ confRun'[r] = row
  BY <1>2, <1>5, <1>7, RunWritten
<1>9. /\ submit' \in [Submitters -> Submissions] /\ submit'[p] = x
      /\ \A q \in Submitters : q # p => submit'[q] = submit[q]
  BY <1>1, <1>6 DEF GateInv
<1>10. ReadPassed(p)'
  BY <1>6, <1>9 DEF ReadPassed
<1>11. AllPassed(r) /\ confRun'[r].hash = passHash' /\ passHash' \in Hashes
  BY <1>1, <1>3, <1>7, <1>8
<1> QED BY <1>2, <1>3, <1>8, <1>9, <1>10, <1>11, GateMoves

LEMMA SubmitStepKeeps ==
    ASSUME GateInv, NEW p \in Submitters, SubmitStep(p)
    PROVE  GateInv' /\ RunsKept /\ Activates
<1>1. CASE SubmitActivate(p)
  <2>1. /\ submit' = [submit EXCEPT ![p] = Done] /\ keyset' = keyset /\ passHash' = passHash
        /\ confRun' = confRun
    BY <1>1 DEF SubmitActivate, runVars
  <2>2. Done \in Submissions /\ Done.pc \notin {"hash", "bind"}
    BY DEF Submissions, Done
  <2>3. RunsKept /\ HashesKept /\ keyset' \in Hashes
    BY <2>1, SameRuns DEF GateInv
  <2> QED BY <1>1, <2>1, <2>2, <2>3, AutoActivates, SubmissionMoves DEF SubmitActivate
<1>2. CASE ~SubmitActivate(p)
  <2>1. onboarding' = onboarding
    BY <1>2 DEF SubmitStep, GradeSuite, GradeSuiteC, FinalizeRead, FinalizeUnpassed,
                FinalizeHash, FinalizeBind, acctVars
  <2>2. GateInv' /\ RunsKept
    BY <1>2, GradeKeeps, GradeCKeeps, FinalizeReadKeeps, FinalizeUnpassedKeeps,
       FinalizeHashKeeps, FinalizeBindKeeps DEF SubmitStep
  <2> QED BY <2>1, <2>2 DEF Activates
<1> QED BY <1>1, <1>2

LEMMA OnboardingStep ==
    ASSUME GateInv, [OnboardingNext]_onboardingVars
    PROVE  GateInv' /\ RunsKept /\ Activates
<1>a. ASSUME confRun' = confRun, submit' = submit, keyset' \in Hashes,
             passHash' \in {passHash, NoKeys}, Activates
      PROVE  GateInv' /\ RunsKept /\ Activates
  BY <1>a, AccountMoves
<1>b. keyset \in Hashes /\ NoKeys \in Hashes
  BY DEF GateInv, Hashes
<1>1. CASE UNCHANGED onboardingVars
  <2>1. /\ confRun' = confRun /\ submit' = submit /\ keyset' = keyset
        /\ passHash' = passHash /\ onboarding' = onboarding
    BY <1>1 DEF onboardingVars
  <2> QED BY <1>a, <1>b, <2>1 DEF Activates
<1>2. CASE Apply
  BY <1>2, <1>a, <1>b DEF Apply, Activates, runVars
<1>3. ASSUME NEW ks \in Keysets, AddKeys(ks) PROVE GateInv' /\ RunsKept /\ Activates
  BY <1>3, <1>a DEF AddKeys, Activates, Hashes, runVars
<1>4. CASE Revoke
  BY <1>4, <1>a, <1>b DEF Revoke, Activates, runVars
<1>5. CASE EmailStep /\ UNCHANGED <<acctVars, runVars, submit, activating, deaths>>
  BY <1>5, <1>a, <1>b DEF Activates, acctVars, runVars
<1>6. ASSUME NEW s \in Sessions, NEW c \in inbox, VerifyCheckRight(s, c)
      PROVE  GateInv' /\ RunsKept /\ Activates
  BY <1>6, <1>a, <1>b DEF VerifyCheckRight, Activates, acctVars, runVars
<1>7. CASE VerifyActivate
  BY <1>7, <1>a, <1>b, AutoActivates DEF VerifyActivate, runVars
<1>8. ASSUME NEW r \in Runs, StartConformanceRun(r) PROVE GateInv' /\ RunsKept /\ Activates
  <2>1. /\ confRun' = [confRun EXCEPT ![r].status = "running"] /\ submit' = submit
        /\ keyset' = keyset /\ passHash' = passHash /\ onboarding' = onboarding
    BY <1>8 DEF StartConformanceRun, acctVars
  <2>2. RunsKept /\ HashesKept
    BY <2>1, StatusWritten
  <2>3. /\ keyset' \in Hashes /\ passHash' \in Hashes
        /\ submit' \in [Submitters -> Submissions]
        /\ \A p \in Submitters : submit'[p] = submit[p]
    BY <2>1 DEF GateInv
  <2>4. GateInv'
    BY <2>1, <2>2, <2>3, GateMoves
  <2> QED BY <2>1, <2>2, <2>4 DEF Activates
<1>9. ASSUME NEW p \in Submitters, NEW r \in Runs, NEW parts \in Parts, Submit(p, r, parts)
      PROVE  GateInv' /\ RunsKept /\ Activates
  <2> DEFINE x == [pc |-> "A", run |-> r, keys |-> keyset, parts |-> parts]
  <2>1. /\ submit' = [submit EXCEPT ![p] = x] /\ keyset # NoKeys /\ confRun' = confRun
        /\ keyset' = keyset /\ passHash' = passHash /\ onboarding' = onboarding
    BY <1>9 DEF Submit, acctVars, runVars
  <2>2. x \in Submissions /\ x.pc \notin {"hash", "bind"}
    BY <1>b, <2>1 DEF Submissions, Hashes
  <2> HIDE DEF x
  <2>3. RunsKept /\ HashesKept
    BY <2>1, SameRuns
  <2> QED BY <1>b, <2>1, <2>2, <2>3, SubmissionMoves DEF Activates
<1>10. ASSUME NEW p \in Submitters, SubmitFail(p) PROVE GateInv' /\ RunsKept /\ Activates
  <2>1. /\ submit' = [submit EXCEPT ![p] = Done] /\ confRun' = confRun
        /\ keyset' = keyset /\ passHash' = passHash /\ onboarding' = onboarding
    BY <1>10 DEF SubmitFail, acctVars, runVars
  <2>2. Done \in Submissions /\ Done.pc \notin {"hash", "bind"}
    BY DEF Submissions, Done
  <2>3. RunsKept /\ HashesKept
    BY <2>1, SameRuns
  <2> QED BY <1>b, <2>1, <2>2, <2>3, SubmissionMoves DEF Activates
<1> QED BY <1>1, <1>2, <1>3, <1>4, <1>5, <1>6, <1>7, <1>8, <1>9, <1>10, SubmitStepKeeps
        DEF OnboardingNext

LEMMA GateStart == OnboardingInit => GateInv
<1> SUFFICES ASSUME OnboardingInit PROVE GateInv
  OBVIOUS
<1>1. NoRun \in RunRows
  BY DEF NoRun, RunRows, Hashes, Results
<1>2. Done \in Submissions /\ Done.pc = "done"
  BY DEF Submissions, Done
<1>3. NoKeys \in Hashes
  BY DEF Hashes
<1> QED BY <1>1, <1>2, <1>3 DEF OnboardingInit, GateInv, ReadPassed, HashBound

\* However key changes, submissions, gradings, finalizations, checks of the
\* code and requests that die interleave, AutoActivate makes an operator
\* active only with a verified address and with the keys whose hash a run
\* with three passed suites recorded.
THEOREM OnlyEarnedActivation == OnboardingSpec => ActivationEarned
<1>1. GateInv /\ [OnboardingNext]_onboardingVars
      => /\ GateInv'
         /\ [onboarding' = "active" /\ onboarding # "active"
             => /\ emailVerified
                /\ status = "active"
                /\ \E r \in Runs : confRun[r].hash = keyset /\ AllPassed(r)]_onboardingVars
  BY OnboardingStep DEF Activates, MayActivate, GateInv, HashBound
<1> QED BY <1>1, GateStart, PTL DEF OnboardingSpec, ActivationEarned

\* However submissions for the same runs interleave, a challenge that was
\* graded keeps its verdict: a consumed challenge is not graded again.
THEOREM VerdictsFinal == OnboardingSpec => VerdictFinal
<1>1. GateInv /\ [OnboardingNext]_onboardingVars
      => /\ GateInv'
         /\ [\A r \in Runs, s \in Suites :
                confRun[r].result[s] # "none"
                   => confRun'[r].result[s] = confRun[r].result[s]]_onboardingVars
  BY OnboardingStep DEF RunsKept
<1> QED BY <1>1, GateStart, PTL DEF OnboardingSpec, VerdictFinal

\* The e-mail gate keeps its promise inside the onboarding as well, whatever
\* the account and the harness do meanwhile.
THEOREM CodesHonouredWithin == OnboardingSpec => []CodeHonoured
<1>1. EmailInv /\ [OnboardingNext]_onboardingVars => EmailInv'
  <2> SUFFICES ASSUME EmailInv, [OnboardingNext]_onboardingVars PROVE EmailInv'
    OBVIOUS
  <2>1. ASSUME NEW s \in Sessions, NEW c \in inbox, VerifyCheckRight(s, c) PROVE EmailInv'
    BY <2>1, RightKeeps DEF VerifyCheckRight
  <2>2. CASE EmailStep
    BY <2>2, EmailStepKeeps
  <2>3. CASE UNCHANGED emailVars
    BY <2>3, EmailStutters
  <2>4. \/ EmailStep \/ UNCHANGED emailVars
        \/ \E s \in Sessions, c \in inbox : VerifyCheckRight(s, c)
    BY DEF OnboardingNext, onboardingVars, Apply, AddKeys, Revoke, VerifyActivate,
           StartConformanceRun, Submit, SubmitStep, SubmitFail, GradeSuite, GradeSuiteC,
           FinalizeRead, FinalizeUnpassed, FinalizeHash, FinalizeBind, SubmitActivate
  <2> QED BY <2>1, <2>2, <2>3, <2>4
<1>2. EmailInv => CodeHonoured
  BY DEF EmailInv
<1>3. OnboardingInit => EmailInv
  BY EmailStart DEF OnboardingInit
<1> QED BY <1>1, <1>2, <1>3, PTL DEF OnboardingSpec

=============================================================================
