------------------------- MODULE EmailVerification --------------------------
(***************************************************************************)
(* The e-mail gate of operator onboarding: issuing and checking the code   *)
(* of one applicant operator, asked for by several applicant sessions.     *)
(*                                                                         *)
(* IssueEmailCode reads the row of operator_verifications without a lock   *)
(* and writes it later: two actions.  CheckEmailCode locks the row: one.   *)
(* Codes are numbered in the order they are made; two codes are taken to   *)
(* be different.  Whoever reads the registered inbox may present a code in *)
(* any session.                                                            *)
(***************************************************************************)
EXTENDS Naturals, FiniteSets, Sequences

CONSTANTS
    Sessions,                 \* applicant sessions
    VerificationMaxAttempts,  \* wrong checks a code survives
    MaxCodes                  \* bound: codes in one behaviour

Codes == 1 .. MaxCodes

WrongCode == 0

ASSUME VerificationAssumption ==
    /\ VerificationMaxAttempts \in Nat \ {0}
    /\ MaxCodes \in Nat

VARIABLES
    emailRow,       \* the row of operator_verifications, or NoRow
    issuing,        \* sessions that passed IssueEmailCode's checks
    issuedTo,       \* history: the session each code was made for
    unsent,         \* codes stored and not yet handed to the Notifier
    inbox,          \* codes the registered address received
    emailVerified,  \* operators.email_verified
    wrong,          \* history: wrong checks counted against each code
    consumed        \* history: the accepted checks, as code and session

emailVars == <<emailRow, issuing, issuedTo, unsent, inbox, emailVerified, wrong, consumed>>

NoRow == [code |-> WrongCode]

\* The age of a code against VerificationResendCooldown and VerificationCodeTTL.
Ages == {"cooling", "live", "expired"}

EmailRows == [code : Codes, session : Sessions, attempts : 0 .. VerificationMaxAttempts,
         age : Ages]

Live == emailRow # NoRow /\ emailRow.age # "expired"

\* Neither ErrVerificationSessionActive nor ErrVerificationRateLimited.
MayIssue(s) == ~(Live /\ (emailRow.session # s \/ emailRow.age = "cooling"))

IssueCheck(s) ==
    /\ s \notin issuing
    /\ Len(issuedTo) < MaxCodes
    /\ MayIssue(s)
    /\ issuing' = issuing \cup {s}
    /\ UNCHANGED <<emailRow, issuedTo, unsent, inbox, emailVerified, wrong, consumed>>

\* The upsert: a new code, no attempts, this session.
IssueUpsert(s) ==
    LET code == Len(issuedTo) + 1
    IN /\ s \in issuing
       /\ Len(issuedTo) < MaxCodes
       /\ issuing' = issuing \ {s}
       /\ emailRow' = [code |-> code, session |-> s, attempts |-> 0, age |-> "cooling"]
       /\ issuedTo' = Append(issuedTo, s)
       /\ unsent' = unsent \cup {code}
       /\ UNCHANGED <<inbox, emailVerified, wrong, consumed>>

\* handleVerifyStart hands the stored code to the Notifier, which may fail.
SendCode(c) ==
    /\ c \in unsent
    /\ unsent' = unsent \ {c}
    /\ inbox' \in {inbox, inbox \cup {c}}
    /\ UNCHANGED <<emailRow, issuing, issuedTo, emailVerified, wrong, consumed>>

\* The cooldown ends, then the code expires.
EmailAge ==
    /\ Live
    /\ emailRow' = [emailRow EXCEPT !.age = IF @ = "cooling" THEN "live" ELSE "expired"]
    /\ UNCHANGED <<issuing, issuedTo, unsent, inbox, emailVerified, wrong, consumed>>

CheckExpired(s, c) ==
    /\ emailRow # NoRow
    /\ emailRow.age = "expired"
    /\ emailRow' = NoRow
    /\ UNCHANGED <<issuing, issuedTo, unsent, inbox, emailVerified, wrong, consumed>>

\* Variant: a code is good in any session.
CheckableAnySession(s) == Live /\ emailRow.attempts < VerificationMaxAttempts

\* The bound session checks a live code that has attempts left.
Checkable(s) ==
    /\ Live
    /\ emailRow.session = s
    /\ emailRow.attempts < VerificationMaxAttempts

CheckWrong(s, c) ==
    /\ Checkable(s)
    /\ emailRow.code # c
    /\ emailRow' = [emailRow EXCEPT !.attempts = @ + 1]
    /\ wrong' = [wrong EXCEPT ![emailRow.code] = @ + 1]
    /\ UNCHANGED <<issuing, issuedTo, unsent, inbox, emailVerified, consumed>>

CheckRight(s, c) ==
    /\ Checkable(s)
    /\ emailRow.code = c
    /\ emailVerified' = TRUE
    /\ emailRow' = NoRow
    /\ consumed' = Append(consumed, <<c, s>>)
    /\ UNCHANGED <<issuing, issuedTo, unsent, inbox, wrong>>

EmailInit ==
    /\ emailRow = NoRow
    /\ issuing = {}
    /\ issuedTo = <<>>
    /\ unsent = {}
    /\ inbox = {}
    /\ emailVerified = FALSE
    /\ wrong = [c \in Codes |-> 0]
    /\ consumed = <<>>

\* Every step but a check that succeeds.
EmailStep ==
    \/ \E s \in Sessions : IssueCheck(s) \/ IssueUpsert(s)
    \/ \E c \in Codes : SendCode(c)
    \/ EmailAge
    \/ \E s \in Sessions, c \in inbox \cup {WrongCode} :
          CheckExpired(s, c) \/ CheckWrong(s, c)

EmailNext ==
    \/ EmailStep
    \/ \E s \in Sessions, c \in inbox : CheckRight(s, c)

EmailSpec == EmailInit /\ [][EmailNext]_emailVars

-----------------------------------------------------------------------------
(* Properties *)

\* The variables keep their types: a row of operator_verifications has the
\* columns of its table, and only codes that were made are mailed.
EmailTypeOK ==
    /\ emailRow \in EmailRows \cup {NoRow}
    /\ issuing \subseteq Sessions
    /\ issuedTo \in Seq(Sessions)
    /\ unsent \cup inbox \subseteq 1 .. Len(issuedTo)
    /\ emailVerified \in BOOLEAN
    /\ wrong \in [Codes -> Nat]
    /\ consumed \in Seq(Codes \X Sessions)

\* Every code that verified the address was presented once, by the session it
\* was made for, before that code had used up its wrong checks.
CodeHonoured ==
    \A n \in 1 .. Len(consumed) :
        /\ issuedTo[consumed[n][1]] = consumed[n][2]
        /\ wrong[consumed[n][1]] < VerificationMaxAttempts
        /\ \A m \in 1 .. Len(consumed) :
              consumed[m][1] = consumed[n][1] => m = n

\* The code of a live row is replaced for the session it is bound to only.
LiveCodeKept ==
    [][Live /\ emailRow' # NoRow /\ emailRow'.code # emailRow.code
       => emailRow'.session = emailRow.session]_emailVars

=============================================================================
