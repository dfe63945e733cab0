---------------------------- MODULE LoginLimiter ----------------------------
(***************************************************************************)
(* handleLogin and the limiter in front of it: failed logins of a client   *)
(* address are counted in a window that opens with the first of them, and  *)
(* a successful login clears the record.                                   *)
(*                                                                         *)
(* Atomicity.  The record sits in a sync.Map: each Load, LoadOrStore,      *)
(* Store and Delete is an action, and requests of one address overlap      *)
(* between them.                                                           *)
(*                                                                         *)
(* Abstractions.  One address.  Time is the number of windows that have    *)
(* passed; a record of an earlier one is over.  A form without email or    *)
(* password changes nothing.                                               *)
(***************************************************************************)
EXTENDS Naturals

CONSTANTS
    LoginRequests,  \* logins of the address that can be under way at once
    maxAttempts,
    MaxWindows      \* bound: windows that run out

ASSUME LoginAssumption == maxAttempts \in Nat \ {0} /\ MaxWindows \in Nat

VARIABLES
    rec,           \* the attemptRecord of the address
    loginRequest,  \* where each login is, and the record it is about to store
    failures,      \* failed logins since the window opened or a login succeeded
    windows        \* windows that have passed

loginVars == <<rec, loginRequest, failures, windows>>

LoginNoRecord == [count |-> 0, start |-> 0]

LoginIdle == [at |-> "idle", new |-> LoginNoRecord]

Over(record) == record # LoginNoRecord /\ record.start < windows

BelowLimit == rec.count < maxAttempts

\* Allow: Load, and what follows from it.
AllowLoad(r) ==
    /\ loginRequest[r] = LoginIdle
    /\ loginRequest' = [loginRequest EXCEPT ![r].at =
                      IF rec = LoginNoRecord THEN "check"
                      ELSE IF Over(rec) THEN "delete"
                      ELSE IF BelowLimit THEN "check" ELSE "refused"]
    /\ UNCHANGED <<rec, failures, windows>>

AllowDelete(r) ==
    /\ loginRequest[r].at = "delete"
    /\ rec' = LoginNoRecord
    /\ loginRequest' = [loginRequest EXCEPT ![r].at = "check"]
    /\ UNCHANGED <<failures, windows>>

Refuse(r) ==
    /\ loginRequest[r].at = "refused"
    /\ loginRequest' = [loginRequest EXCEPT ![r] = LoginIdle]
    /\ UNCHANGED <<rec, failures, windows>>

\* A window that has passed starts afresh.
Counted(loaded) ==
    IF Over(loaded) THEN [count |-> 1, start |-> windows] ELSE [loaded EXCEPT !.count = @ + 1]

\* The credentials are wrong: RecordFailure's LoadOrStore.
FailureLoad(r) ==
    /\ loginRequest[r].at = "check"
    /\ rec' = IF rec = LoginNoRecord THEN [count |-> 1, start |-> windows] ELSE rec
    /\ loginRequest' = [loginRequest EXCEPT ![r] = IF rec = LoginNoRecord THEN LoginIdle
                                         ELSE [at |-> "store", new |-> Counted(rec)]]
    /\ failures' = failures + 1
    /\ UNCHANGED windows

FailureStore(r) ==
    /\ loginRequest[r].at = "store"
    /\ rec' = loginRequest[r].new
    /\ loginRequest' = [loginRequest EXCEPT ![r] = LoginIdle]
    /\ UNCHANGED <<failures, windows>>

Reset == LoginNoRecord

\* The credentials are right.
Succeed(r) ==
    /\ loginRequest[r].at = "check"
    /\ rec' = Reset
    /\ failures' = 0
    /\ loginRequest' = [loginRequest EXCEPT ![r] = LoginIdle]
    /\ UNCHANGED windows

\* The 15 minutes of the window run out.
WindowPasses ==
    /\ rec # LoginNoRecord /\ ~Over(rec)
    /\ windows < MaxWindows
    /\ windows' = windows + 1
    /\ failures' = 0
    /\ UNCHANGED <<rec, loginRequest>>

LoginInit ==
    /\ rec = LoginNoRecord
    /\ loginRequest = [r \in LoginRequests |-> LoginIdle]
    /\ failures = 0 /\ windows = 0

Handle(r) == AllowDelete(r) \/ Refuse(r) \/ FailureLoad(r) \/ FailureStore(r) \/ Succeed(r)

LoginNext ==
    \/ \E r \in LoginRequests : AllowLoad(r) \/ Handle(r)
    \/ WindowPasses

LoginSpec == LoginInit /\ [][LoginNext]_loginVars

-----------------------------------------------------------------------------
(* Properties *)

Blocked == rec # LoginNoRecord /\ ~Over(rec) /\ rec.count >= maxAttempts

\* Counts and stages are in range, and logins one after the other never fail
\* more than maxAttempts times in a window.
LoginTypeOK ==
    /\ rec \in [count : 0 .. maxAttempts, start : 0 .. MaxWindows]
    /\ loginRequest \in [LoginRequests -> [at : {"idle", "delete", "check", "refused", "store"},
                                 new : [count : 0 .. maxAttempts, start : 0 .. MaxWindows]]]
    /\ failures \in 0 .. maxAttempts
    /\ windows \in 0 .. MaxWindows

\* While no login is half way through RecordFailure, the record counts exactly
\* the failures since the window opened or the last login succeeded.
CountExact ==
    (\A r \in LoginRequests : loginRequest[r].at # "store") /\ ~Over(rec) => rec.count = failures

\* An address is blocked only after maxAttempts failures since its window
\* opened and since its last successful login, however logins overlap.
NotBlockedEarly == Blocked => failures >= maxAttempts
=============================================================================
