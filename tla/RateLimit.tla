----------------------------- MODULE RateLimit ------------------------------
(***************************************************************************)
(* The throttle in front of the public operator endpoints: a bucket of     *)
(* 401s per client address that refills with time, is looked at before a   *)
(* request is served and charged after it was answered 401.                *)
(*                                                                         *)
(* Atomicity.  allow and penalize each hold the mutex; the handler runs    *)
(* between them, and requests of the same address overlap.                 *)
(*                                                                         *)
(* Abstractions.  Time passes in seconds.  A token is Unit parts, of which *)
(* one is refilled per second (refill = 1/Unit).  Whether the wrapped      *)
(* handler answers 401 is a property of the request.                       *)
(***************************************************************************)
EXTENDS Naturals, FiniteSetsExt

CONSTANTS
    Addresses,
    Requests,  \* requests that can be under way at once
    Burst,     \* tokens of a full bucket
    Unit       \* seconds to refill one token

ASSUME LimitAssumption == {Burst, Unit} \subseteq Nat \ {0}

Full == Burst * Unit

VARIABLES
    bucket,  \* parts in each address's bucket, and seconds since lastSeen
    request  \* where each request is

limitVars == <<bucket, request>>

LimitIdle == [at |-> "idle", ip |-> CHOOSE a \in Addresses : TRUE, good |-> TRUE]

\* refillLocked: elapsed time is credited up to the burst.
Refilled(b) == Min({Full, b.parts + b.elapsed})

Arrive(r, ip, good) ==
    /\ request[r].at = "idle"
    /\ request' = [request EXCEPT ![r] = [at |-> "arrived", ip |-> ip, good |-> good]]
    /\ UNCHANGED bucket

\* The bucket is looked at, refilled but not charged.
allow(r) ==
    LET ip == request[r].ip
        parts == Refilled(bucket[ip])
    IN  /\ request[r].at = "arrived"
        /\ bucket' = [bucket EXCEPT ![ip] = [parts |-> parts, elapsed |-> 0]]
        /\ request' = [request EXCEPT ![r].at = IF parts >= Unit THEN "serving" ELSE "throttled"]

\* Variant: every served request is charged.
ChargedAlways(r) == TRUE

\* rec.status is 401.
LimitCharged(r) == ~request[r].good

\* next.ServeHTTP, then penalize after a 401.
Serve(r) ==
    LET ip == request[r].ip
        parts == Refilled(bucket[ip])
    IN  /\ request[r].at = "serving"
        /\ bucket' = IF LimitCharged(r)
                     THEN [bucket EXCEPT ![ip] = [elapsed |-> 0,
                              parts |-> IF parts >= Unit THEN parts - Unit ELSE 0]]
                     ELSE bucket
        /\ request' = [request EXCEPT ![r] = LimitIdle]

\* The 429 went out.
Answer(r) ==
    /\ request[r].at = "throttled"
    /\ request' = [request EXCEPT ![r] = LimitIdle]
    /\ UNCHANGED bucket

\* Beyond Full seconds a bucket is full whatever it held.
Second ==
    /\ bucket' = [a \in Addresses |-> [bucket[a] EXCEPT !.elapsed = Min({Full, @ + 1})]]
    /\ UNCHANGED request

LimitInit ==
    /\ bucket = [a \in Addresses |-> [parts |-> Full, elapsed |-> 0]]
    /\ request = [r \in Requests |-> LimitIdle]

LimitHandle(r) == allow(r) \/ Serve(r) \/ Answer(r)

LimitNext ==
    \/ \E r \in Requests, ip \in Addresses, good \in BOOLEAN : Arrive(r, ip, good)
    \/ \E r \in Requests : LimitHandle(r)
    \/ Second

LimitSpec == LimitInit /\ [][LimitNext]_limitVars

\* The clock moves on; requests are handled.
LimitFairSpec ==
    /\ LimitSpec
    /\ WF_limitVars(Second)
    /\ \A r \in Requests : WF_limitVars(LimitHandle(r))

-----------------------------------------------------------------------------
(* Properties *)

\* A bucket never holds more than the burst, and a request is where it can be.
LimitTypeOK ==
    /\ bucket \in [Addresses -> [parts : 0 .. Full, elapsed : 0 .. Full]]
    /\ request \in [Requests -> [at : {"idle", "arrived", "serving", "throttled"},
                                 ip : Addresses, good : BOOLEAN]]

\* The budget of an address, whenever it is next looked at, shrinks by at most
\* one token at a time and only because a request from that address was
\* answered 401: neither the look of allow nor another address costs it any.
OnlyFailuresCharge ==
    [][\A a \in Addresses :
        Refilled(bucket'[a]) < Refilled(bucket[a]) =>
            /\ Refilled(bucket[a]) <= Refilled(bucket'[a]) + Unit
            /\ \E r \in Requests : /\ request[r].at = "serving" /\ request'[r].at = "idle"
                                   /\ request[r].ip = a /\ ~request[r].good]_limitVars

\* Never a lockout: however often an address asks and fails, it has a token
\* again and again.
Recovers == \A a \in Addresses : []<>(Refilled(bucket[a]) >= Unit)

\* A request that the wrapped handler would answer successfully is never
\* answered 429 by Wrap.
SuccessNeverThrottled ==
    \A r \in Requests : request[r].at = "throttled" => ~request[r].good
=============================================================================
