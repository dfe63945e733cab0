-------------------------- MODULE ResourceProfiles --------------------------
(***************************************************************************)
(* The resource profiles of a node and which of them is its default:       *)
(* handleAddProfile clears the old default and inserts the new row in two  *)
(* statements, and uq_resource_profiles_node_default admits one default    *)
(* row per node.  Requests of several browser tabs run concurrently.       *)
(*                                                                         *)
(* Abstractions.  One node, whose owner is the member.  The caps of a      *)
(* profile are left out; a form outside their ranges changes nothing.      *)
(***************************************************************************)
EXTENDS Naturals, FiniteSets

CONSTANTS
    Rows,             \* profile rows that may be inserted
    ProfileRequests,  \* concurrent requests of POST /provider/profile
    FailAt,           \* where a request may fail: before its only statement
                      \* ("plain"), before the first ("clear") or the second of two
    MaxProfileFaults  \* bound: requests that fail

ASSUME ProfileAssumption == FailAt \subseteq {"plain", "clear", "cleared"} /\ MaxProfileFaults \in Nat

VARIABLES
    profile,      \* state of each row: "none", "plain" or "default"
    saving,  \* where each request is: "idle", "plain", "clear" or "cleared"
    chosen,          \* a default profile has been stored before
    profileFaults

profileVars == <<profile, saving, chosen, profileFaults>>

Defaults == {x \in Rows : profile[x] = "default"}

\* The form passed validation and the node is the member's.
ProfileSubmit(r, isDefault) ==
    /\ saving[r] = "idle"
    /\ saving' = [saving EXCEPT ![r] = IF isDefault THEN "clear" ELSE "plain"]
    /\ UNCHANGED <<profile, chosen, profileFaults>>

\* Variant: the default is cleared for every new profile.
ClearDefaultAlways(r) ==
    /\ saving[r] \in {"plain", "clear"}
    /\ profile' = [x \in Rows |-> IF profile[x] = "default" THEN "plain" ELSE profile[x]]
    /\ saving' = [saving EXCEPT ![r] = IF @ = "clear" THEN "cleared" ELSE @]
    /\ UNCHANGED <<chosen, profileFaults>>

ClearDefault(r) ==
    /\ saving[r] = "clear"
    /\ profile' = [x \in Rows |-> IF profile[x] = "default" THEN "plain" ELSE profile[x]]
    /\ saving' = [saving EXCEPT ![r] = "cleared"]
    /\ UNCHANGED <<chosen, profileFaults>>

\* uq_resource_profiles_node_default.
Admits == Defaults = {}

\* A second default row is a unique violation: the request answers 500.
InsertProfile(r, x) ==
    /\ saving[r] \in {"plain", "cleared"}
    /\ profile[x] = "none"
    /\ LET state == IF saving[r] = "plain" THEN "plain" ELSE "default"
           ok == state = "plain" \/ Admits
       IN  /\ profile' = IF ok THEN [profile EXCEPT ![x] = state] ELSE profile
           /\ chosen' = (chosen \/ (ok /\ state = "default"))
    /\ saving' = [saving EXCEPT ![r] = "idle"]
    /\ UNCHANGED profileFaults

\* The database refuses a statement or the member closes the tab.
ProfileRequestFails(r) ==
    /\ saving[r] \in FailAt
    /\ profileFaults < MaxProfileFaults
    /\ profileFaults' = profileFaults + 1
    /\ saving' = [saving EXCEPT ![r] = "idle"]
    /\ UNCHANGED <<profile, chosen>>

ProfileInit ==
    /\ profile = [x \in Rows |-> "none"]
    /\ saving = [r \in ProfileRequests |-> "idle"]
    /\ chosen = FALSE
    /\ profileFaults = 0

ProfileNext ==
    \E r \in ProfileRequests :
        \/ \E isDefault \in BOOLEAN : ProfileSubmit(r, isDefault)
        \/ ClearDefault(r)
        \/ \E x \in Rows : InsertProfile(r, x)
        \/ ProfileRequestFails(r)

ProfileSpec == ProfileInit /\ [][ProfileNext]_profileVars

-----------------------------------------------------------------------------
\* Rows and requests are in one of their states, and ComputeMetering's join on
\* is_default meets at most one row of the node.
ProfileTypeOK ==
    /\ profile \in [Rows -> {"none", "plain", "default"}]
    /\ saving \in [ProfileRequests -> {"idle", "plain", "clear", "cleared"}]
    /\ chosen \in BOOLEAN /\ profileFaults \in 0 .. MaxProfileFaults
    /\ Cardinality(Defaults) <= 1

\* A node that was given a default profile has exactly one whenever no request
\* is half way through handleAddProfile, whatever order the two statements of
\* concurrent requests run in.
DefaultKept ==
    chosen /\ (\A r \in ProfileRequests : saving[r] # "cleared") => Cardinality(Defaults) = 1
=============================================================================
