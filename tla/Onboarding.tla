----------------------------- MODULE Onboarding -----------------------------
(***************************************************************************)
(* How one operator becomes active: application, registration of its keys, *)
(* the e-mail gate, the conformance harness with several submissions in    *)
(* flight, and activation as soon as both gates are closed.                *)
(*                                                                         *)
(* Atomicity.  AddKeys and AutoActivate hold the operator's row from their *)
(* first statement: one action each.  Grading locks its challenge: one.    *)
(* FinalizeRun locks nothing before it writes, so its read of the results, *)
(* its read of the keys and its writes are three actions.                  *)
(*                                                                         *)
(* Abstractions.  Seven keys are one keyset, its hash is the keyset.  A    *)
(* submission carries answers computed correctly and signed with the       *)
(* keyset the operator had when it made them.                              *)
(***************************************************************************)
EXTENDS EmailVerification, SuiteC

CONSTANTS
    Keysets,           \* keysets the operator may register
    NoKeys,            \* no active keys, no hash
    Runs,              \* run ids
    Submitters,        \* submissions handled at a time
    Parts,             \* the challenges a submission answers, sets of suites
    MaxDeaths          \* bound: requests that die between two of their steps

ASSUME OnboardingAssumption ==
    /\ NoKeys \notin Keysets
    /\ Parts \subseteq SUBSET {"A", "B"}
    /\ MaxDeaths \in Nat

VARIABLES
    onboarding,     \* operators.onboarding_state, "none" before the application
    status,         \* operators.status
    keyset,         \* the active keys
    passHash,       \* operators.conformance_keyset_hash
    confRun,        \* conformance_runs with the results of their challenges
    tested,         \* history: the keys a suite of a run was passed with
    submit,         \* what each submission is doing
    activating,     \* a verify/check request is about to call AutoActivate
    deaths          \* requests that died so far

acctVars == <<onboarding, status, keyset, passHash>>
runVars == <<confRun, tested>>
onboardingVars == <<emailVars, onboarding, status, keyset, passHash, confRun, tested,
                    submit, activating, deaths>>

Suites == {"A", "B", "C"}
Hashes == Keysets \cup {NoKeys}
Results == {"none", "pass", "fail"}

NoRun == [status |-> "none", hash |-> NoKeys, result |-> [s \in Suites |-> "none"]]

Done == [pc |-> "done"]

Submissions ==
    {Done} \cup
    [pc : {"A", "B", "C", "read", "hash", "activate"}, run : Runs, keys : Keysets,
     parts : Parts \cup {{}}] \cup
    [pc : {"running", "failed"}, run : Runs] \cup
    [pc : {"bind"}, run : Runs, hash : Keysets]

AllPassed(r) == \A s \in Suites : confRun[r].result[s] = "pass"

-----------------------------------------------------------------------------
(* The account *)

Apply ==
    /\ onboarding = "none"
    /\ onboarding' = "pending"
    /\ UNCHANGED <<emailVars, status, keyset, passHash, runVars, submit, activating, deaths>>

AddKeys(ks) ==
    /\ onboarding = "pending"
    /\ keyset' = ks
    /\ passHash' = NoKeys
    /\ UNCHANGED <<emailVars, onboarding, status, runVars, submit, activating, deaths>>

\* Variant: the current keys are not compared with the hash.
MayActivateAnyKeys ==
    /\ onboarding = "pending"
    /\ status = "active"
    /\ emailVerified
    /\ passHash # NoKeys
    /\ keyset # NoKeys

\* AutoActivate's preconditions, for an operator that is not active.
MayActivate ==
    /\ onboarding = "pending"
    /\ status = "active"
    /\ emailVerified
    /\ passHash # NoKeys
    /\ keyset # NoKeys
    /\ keyset = passHash

AutoActivate == onboarding' = IF MayActivate THEN "active" ELSE onboarding

\* Disconnect; Revoke leaves the keys.
Revoke ==
    /\ onboarding # "none"
    /\ status' = "revoked"
    /\ keyset' \in {keyset, NoKeys}
    /\ UNCHANGED <<emailVars, onboarding, passHash, runVars, submit, activating, deaths>>

-----------------------------------------------------------------------------
(* The e-mail gate *)

VerifyCheckRight(s, c) ==
    /\ CheckRight(s, c)
    /\ activating' = TRUE
    /\ UNCHANGED <<acctVars, runVars, submit, deaths>>

VerifyActivate ==
    /\ activating
    /\ activating' = FALSE
    /\ AutoActivate
    /\ UNCHANGED <<emailVars, status, keyset, passHash, runVars, submit, deaths>>

-----------------------------------------------------------------------------
(* The conformance harness *)

StartConformanceRun(r) ==
    /\ keyset # NoKeys
    /\ confRun[r] = NoRun
    /\ confRun' = [confRun EXCEPT ![r].status = "running"]
    /\ UNCHANGED <<emailVars, acctVars, tested, submit, activating, deaths>>

\* A submission with the answers to some of the run's challenges.
Submit(p, r, parts) ==
    /\ submit[p] = Done
    /\ confRun[r] # NoRun
    /\ keyset # NoKeys
    /\ submit' = [submit EXCEPT ![p] = [pc |-> "A", run |-> r, keys |-> keyset,
                                        parts |-> parts]]
    /\ UNCHANGED <<emailVars, acctVars, runVars, activating, deaths>>

Goto(p, pc) == submit' = [submit EXCEPT ![p].pc = pc]

\* Variant: a consumed challenge is graded again.
GradableAgain(r, s) == TRUE

\* A consumed challenge keeps its result.
Gradable(r, s) == confRun[r].result[s] = "none"

\* GradeSuiteA and GradeSuiteB: the answers verify under the active keys.
Passes(p) == submit[p].keys = keyset

GradeSuite(p, s, next) ==
    LET r == submit[p].run
    IN /\ submit[p].pc = s
       /\ IF s \in submit[p].parts /\ Gradable(r, s)
          THEN /\ confRun' = [confRun EXCEPT ![r].result[s] = IF Passes(p) THEN "pass" ELSE "fail"]
               /\ tested' = [tested EXCEPT ![r][s] = submit[p].keys]
          ELSE UNCHANGED runVars
       /\ Goto(p, next)
       /\ UNCHANGED <<emailVars, acctVars, activating, deaths>>

\* A second grading that started before the first one's insert was visible
\* fails on the unique index; that is SubmitFail.
GradeSuiteC(p) ==
    LET r == submit[p].run
    IN /\ submit[p].pc = "C"
       /\ IF confRun[r].result["C"] = "none"
          THEN confRun' = [confRun EXCEPT ![r].result["C"] = IF runSuiteCScratch THEN "pass" ELSE "fail"]
          ELSE confRun' = confRun
       /\ Goto(p, "read")
       /\ UNCHANGED <<emailVars, acctVars, tested, activating, deaths>>

\* FinalizeRun reads the results.
FinalizeRead(p) ==
    LET r == submit[p].run
    IN /\ submit[p].pc = "read"
       /\ IF AllPassed(r) THEN Goto(p, "hash")
          ELSE submit' = [submit EXCEPT ![p] =
                            [pc |-> IF \E s \in Suites : confRun[r].result[s] = "none"
                                    THEN "running" ELSE "failed",
                             run |-> r]]
       /\ UNCHANGED <<emailVars, acctVars, runVars, activating, deaths>>

FinalizeUnpassed(p) ==
    /\ submit[p].pc \in {"running", "failed"}
    /\ confRun' = [confRun EXCEPT ![submit[p].run].status = submit[p].pc]
    /\ submit' = [submit EXCEPT ![p] = Done]
    /\ UNCHANGED <<emailVars, acctVars, tested, activating, deaths>>

\* It reads the active keys; without seven of them it fails.
FinalizeHash(p) ==
    /\ submit[p].pc = "hash"
    /\ submit' = [submit EXCEPT ![p] =
                     IF keyset = NoKeys THEN Done
                     ELSE [pc |-> "bind", run |-> submit[p].run, hash |-> keyset]]
    /\ UNCHANGED <<emailVars, acctVars, runVars, activating, deaths>>

\* It binds the hash to the run and to the operator.
FinalizeBind(p) ==
    /\ submit[p].pc = "bind"
    /\ confRun' = [confRun EXCEPT ![submit[p].run].status = "passed",
                          ![submit[p].run].hash = submit[p].hash]
    /\ passHash' = submit[p].hash
    /\ submit' = [submit EXCEPT ![p] = [pc |-> "activate", run |-> submit[p].run,
                                        keys |-> submit[p].hash, parts |-> {}]]
    /\ UNCHANGED <<emailVars, onboarding, status, keyset, tested, activating, deaths>>

SubmitActivate(p) ==
    /\ submit[p].pc = "activate"
    /\ AutoActivate
    /\ submit' = [submit EXCEPT ![p] = Done]
    /\ UNCHANGED <<emailVars, status, keyset, passHash, runVars, activating, deaths>>

\* A database error or a restart ends the request.
SubmitFail(p) ==
    /\ deaths < MaxDeaths
    /\ deaths' = deaths + 1
    /\ submit[p] # Done
    /\ submit' = [submit EXCEPT ![p] = Done]
    /\ UNCHANGED <<emailVars, acctVars, runVars, activating>>

-----------------------------------------------------------------------------

OnboardingInit ==
    /\ EmailInit
    /\ onboarding = "none"
    /\ status = "active"
    /\ keyset = NoKeys
    /\ passHash = NoKeys
    /\ confRun = [r \in Runs |-> NoRun]
    /\ tested = [r \in Runs |-> [s \in {"A", "B"} |-> NoKeys]]
    /\ submit = [p \in Submitters |-> Done]
    /\ activating = FALSE
    /\ deaths = 0

SubmitStep(p) ==
    \/ GradeSuite(p, "A", "B")
    \/ GradeSuite(p, "B", "C")
    \/ GradeSuiteC(p)
    \/ FinalizeRead(p)
    \/ FinalizeUnpassed(p)
    \/ FinalizeHash(p)
    \/ FinalizeBind(p)
    \/ SubmitActivate(p)

OnboardingNext ==
    \/ Apply
    \/ \E ks \in Keysets : AddKeys(ks)
    \/ Revoke
    \/ /\ onboarding # "none"
       /\ EmailStep
       /\ UNCHANGED <<acctVars, runVars, submit, activating, deaths>>
    \/ \E s \in Sessions, c \in inbox : VerifyCheckRight(s, c)
    \/ VerifyActivate
    \/ \E r \in Runs : StartConformanceRun(r)
    \/ \E p \in Submitters, r \in Runs, parts \in Parts : Submit(p, r, parts)
    \/ \E p \in Submitters : SubmitStep(p) \/ SubmitFail(p)

OnboardingSpec == OnboardingInit /\ [][OnboardingNext]_onboardingVars

\* A request the server has begun is carried on.
OnboardingFairSpec ==
    /\ OnboardingSpec
    /\ WF_onboardingVars(VerifyActivate)
    /\ \A p \in Submitters : WF_onboardingVars(SubmitStep(p))

-----------------------------------------------------------------------------
(* Properties *)

\* The variables keep their types: operators, keysets, runs and verdicts are
\* values their columns admit.
OnboardingTypeOK ==
    /\ EmailTypeOK
    /\ onboarding \in {"none", "pending", "active"}
    /\ status \in {"active", "revoked"}
    /\ keyset \in Hashes
    /\ passHash \in Hashes
    /\ confRun \in [Runs -> [status : {"none", "running", "passed", "failed"},
                             hash : Hashes, result : [Suites -> Results]]]
    /\ tested \in [Runs -> [{"A", "B"} -> Hashes]]
    /\ submit \in [Submitters -> Submissions]
    /\ activating \in BOOLEAN
    /\ deaths \in 0 .. MaxDeaths

\* An operator becomes active with a verified address, with the keys that a
\* run recorded, and with that run's three suites passed.
ActivationEarned ==
    [][onboarding' = "active" /\ onboarding # "active"
       => /\ emailVerified
          /\ status = "active"
          /\ \E r \in Runs : confRun[r].hash = keyset /\ AllPassed(r)]_onboardingVars

\* A graded challenge keeps its verdict, whoever submits again.
VerdictFinal ==
    [][\A r \in Runs, s \in Suites :
          confRun[r].result[s] # "none"
             => confRun'[r].result[s] = confRun[r].result[s]]_onboardingVars

\* Once both gates are closed, in either order, the operator becomes active
\* unless it is revoked, changes its keys or a request dies first.
GatesActivate == (MayActivate /\ deaths = 0) ~> (~MayActivate \/ deaths > 0)

\* The keys an operator becomes active with are the ones its run tested.
ActivatedKeysTested ==
    [][onboarding' = "active" /\ onboarding # "active"
       => \E r \in Runs : \A s \in {"A", "B"} : tested[r][s] = keyset]_onboardingVars

\* A run stays passed while all its challenges are.
PassedRunKept ==
    [][\A r \in Runs : confRun[r].status = "passed" /\ AllPassed(r)
                       => confRun'[r].status = "passed"]_onboardingVars

=============================================================================
