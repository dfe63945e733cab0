------------------------------- MODULE System -------------------------------
(***************************************************************************)
(* The components other than the jobs themselves, side by side: operators, *)
(* nodes, the portal's money and profiles, placement, instrumentation and  *)
(* the two limiters.                                                       *)
(*                                                                         *)
(* In these models the components have no variable in common; what one     *)
(* needs of another is an input of its own actions.  A behaviour of all of *)
(* them is then an interleaving of one behaviour of each, and a property   *)
(* of one component holds in it when it holds in that component's share.   *)
(* So the components need not be interleaved with each other: focus picks  *)
(* the one that moves, and every interleaving within it is explored.       *)
(***************************************************************************)
EXTENDS OperatorAuth, Onboarding, Fees, NodeClaim, NodeRegistry, OptOutSync,
        NodeListing, Placement, Ledger, ResourceProfiles, StripeOnboarding,
        SoundingSink, Instrument, RateLimit, LoginLimiter

CONSTANT Components   \* those that are explored

VARIABLE focus        \* the one that moves

\* NodeListing and StripeOnboarding are there twice: with any client, and with
\* the client that keeps at it.  So is the e-mail gate: alone, and as a gate of
\* the onboarding.
AllComponents ==
    {"auth", "email", "onboarding", "fees", "claim", "registry", "sync", "listing",
     "client", "placement", "ledger", "profiles", "stripe", "patient", "sink",
     "instrument", "limit", "login"}

ASSUME SystemAssumption == Components \subseteq AllComponents

systemVars ==
    <<focus, authVars, onboardingVars, feeVars, claimVars, registryVars, syncVars,
      listingVars, placementVars, ledgerVars, profileVars, stripeVars, sinkVars,
      instrumentVars, limitVars, loginVars>>

SystemInit ==
    /\ focus \in Components
    /\ AuthInit /\ OnboardingInit /\ FeeInit
    /\ ClaimInit /\ RegistryInit /\ SyncInit /\ ListingInit
    /\ PlacementInit /\ LedgerInit /\ ProfileInit /\ StripeInit
    /\ SinkInit /\ InstrumentInit /\ LimitInit /\ LoginInit

-----------------------------------------------------------------------------
(* A step moves the component in focus and leaves the others as they are *)

OthersStay ==
    /\ UNCHANGED focus
    /\ IF focus = "auth" THEN TRUE ELSE UNCHANGED authVars
    /\ IF focus \in {"email", "onboarding"} THEN TRUE ELSE UNCHANGED onboardingVars
    /\ IF focus = "fees" THEN TRUE ELSE UNCHANGED feeVars
    /\ IF focus = "claim" THEN TRUE ELSE UNCHANGED claimVars
    /\ IF focus = "registry" THEN TRUE ELSE UNCHANGED registryVars
    /\ IF focus = "sync" THEN TRUE ELSE UNCHANGED syncVars
    /\ IF focus \in {"listing", "client"} THEN TRUE ELSE UNCHANGED listingVars
    /\ IF focus = "placement" THEN TRUE ELSE UNCHANGED placementVars
    /\ IF focus = "ledger" THEN TRUE ELSE UNCHANGED ledgerVars
    /\ IF focus = "profiles" THEN TRUE ELSE UNCHANGED profileVars
    /\ IF focus \in {"stripe", "patient"} THEN TRUE ELSE UNCHANGED stripeVars
    /\ IF focus = "sink" THEN TRUE ELSE UNCHANGED sinkVars
    /\ IF focus = "instrument" THEN TRUE ELSE UNCHANGED instrumentVars
    /\ IF focus = "limit" THEN TRUE ELSE UNCHANGED limitVars
    /\ IF focus = "login" THEN TRUE ELSE UNCHANGED loginVars

\* These components may come to rest: codes, tokens, jobs, accounts or events
\* run out.  The others always have a step.
MayRest ==
    {"email", "onboarding", "claim", "client", "ledger", "profiles", "stripe", "patient",
     "sink", "login"}

\* Bound: as a gate of the onboarding the mailed code is the first one, of one
\* session, fresh and not mistyped.  How codes are replaced, age and are
\* mistyped in several sessions, "email" explores.
FirstCode ==
    /\ Cardinality(issuing) + Len(issuedTo) <= 1
    /\ issuing \cup {issuedTo[i] : i \in DOMAIN issuedTo} \subseteq {CHOOSE s \in Sessions : TRUE}
    /\ emailRow # NoRow => emailRow.attempts = 0 /\ emailRow.age = "cooling"

\* Bound: the key that rotates is the one most transmissions are signed with.
OneKeyRotates == \A r \in swaps : r.index = 1

\* Bound: messages the network may repeat and reorder.
FewMessages == Cardinality(sent) <= 2

SystemNext ==
    \/ focus = "auth" /\ AuthNext /\ OneKeyRotates' /\ OthersStay
    \/ /\ focus = "email" /\ EmailNext /\ OthersStay
       /\ UNCHANGED <<acctVars, runVars, submit, activating, deaths>>
    \/ focus = "onboarding" /\ OnboardingNext /\ FirstCode' /\ OthersStay
    \/ focus = "fees" /\ FeeNext /\ OthersStay
    \/ focus = "claim" /\ ClaimNext /\ OthersStay
    \/ focus = "registry" /\ RegistryNext /\ OthersStay
    \/ focus = "sync" /\ SyncNext /\ OthersStay
    \/ focus = "listing" /\ ListingNext /\ FewMessages' /\ OthersStay
    \/ focus = "client" /\ ClientNext /\ OthersStay
    \/ focus = "placement" /\ PlacementNext /\ OthersStay
    \/ focus = "ledger" /\ LedgerNext /\ OthersStay
    \/ focus = "profiles" /\ ProfileNext /\ OthersStay
    \/ focus = "stripe" /\ StripeNext /\ OthersStay
    \/ focus = "patient" /\ PatientNext /\ OthersStay
    \/ focus = "sink" /\ SinkNext /\ OthersStay
    \/ focus = "instrument" /\ InstrumentNext /\ OthersStay
    \/ focus = "limit" /\ LimitNext /\ OthersStay
    \/ focus = "login" /\ LoginNext /\ OthersStay
    \/ focus \in MayRest /\ UNCHANGED systemVars

-----------------------------------------------------------------------------
(* Fairness: what each component's own fair specification asks, of the one *)
(* in focus                                                                *)

ClaimFairness ==
    /\ \A k \in Clicks : WF_claimVars(focus = "claim" /\ Generate(k))
    /\ \A d \in Devices :
          /\ SF_claimVars(focus = "claim" /\ \E t \in Tokens : ClaimCheck(d, t))
          /\ WF_claimVars(focus = "claim" /\ \E c \in claims : c.dev = d /\ ClaimStep(c))

RegistryFairness ==
    /\ \A a \in Agents :
          /\ WF_registryVars(focus = "registry" /\ (RegisterEntry(a) \/ RegisterRefused(a)))
          /\ WF_registryVars(focus = "registry" /\ RegisterUpsert(a))
          /\ WF_registryVars(focus = "registry" /\ Heartbeat(a))
    /\ WF_registryVars(focus = "registry" /\ Age /\ UNCHANGED spent)
    /\ WF_registryVars(focus = "registry" /\ evictStale)

SyncFairness ==
    /\ WF_syncVars(focus = "sync" /\ SendBeat)
    /\ WF_syncVars(focus = "sync" /\ ReadFlags)
    /\ WF_syncVars(focus = "sync" /\ ReadPrinters)
    /\ WF_syncVars(focus = "sync" /\ SyncApply(TRUE))
    /\ WF_syncVars(focus = "sync" /\ ReportPrinters(hw))
    /\ SF_syncVars(focus = "sync" /\ DetectAndRegister(TRUE, attached))

ClientFairness ==
    /\ WF_listingVars(focus = "client" /\ told = {}
                      /\ \E h \in ListingHandlers, k \in Keys : EnrolInsert(h, k))
    /\ WF_listingVars(focus = "client" /\ Relist)
    /\ WF_listingVars(focus = "client" /\ \E h \in ListingHandlers, m \in sent : Bump(h, m))
    /\ \A h \in ListingHandlers : WF_listingVars(focus = "client" /\ ServeStep(h))

LedgerFairness ==
    /\ WF_ledgerVars(focus = "ledger" /\ Releaser)
    /\ \A j \in Jobs : /\ WF_ledgerVars(focus = "ledger" /\ LedgerAge(j))
                       /\ WF_ledgerVars(focus = "ledger" /\ ComputeMetering(j))

PatientFairness ==
    /\ SF_stripeVars(focus = "patient" /\ Resubmit)
    /\ WF_stripeVars(focus = "patient" /\ FinishStored)
    /\ SF_stripeVars(focus = "patient" /\ ComeBack)
    /\ \A t \in Tabs : WF_stripeVars(focus = "patient" /\ Request(t))

SinkFairness == WF_sinkVars(focus = "sink" /\ run)

LimitFairness ==
    /\ WF_limitVars(focus = "limit" /\ Second)
    /\ \A r \in Requests : WF_limitVars(focus = "limit" /\ LimitHandle(r))

\* SystemSpec has the fairness that the liveness of choices and payouts rests
\* on, ServedSystemSpec that of payouts and registrations; LiveSpec has that of
\* the other components.
SystemSpec == SystemInit /\ [][SystemNext]_systemVars /\ SyncFairness /\ LedgerFairness

ServedSystemSpec ==
    SystemInit /\ [][SystemNext]_systemVars /\ LedgerFairness /\ RegistryFairness

LiveSpec ==
    /\ SystemInit
    /\ [][SystemNext]_systemVars
    /\ ClaimFairness /\ RegistryFairness /\ ClientFairness /\ PatientFairness
    /\ SinkFairness /\ LimitFairness

-----------------------------------------------------------------------------

\* The variables of the component that moves keep their types.
SystemTypeOK ==
    /\ focus = "auth" => AuthTypeOK
    /\ focus \in {"email", "onboarding"} => OnboardingTypeOK
    /\ focus = "fees" => FeeTypeOK
    /\ focus = "claim" => ClaimTypeOK
    /\ focus = "registry" => RegistryTypeOK
    /\ focus = "sync" => SyncTypeOK
    /\ focus \in {"listing", "client"} => ListingTypeOK
    /\ focus = "placement" => PlacementTypeOK
    /\ focus = "ledger" => LedgerTypeOK
    /\ focus = "profiles" => ProfileTypeOK
    /\ focus \in {"stripe", "patient"} => StripeTypeOK
    /\ focus = "sink" => SinkTypeOK
    /\ focus = "limit" => LimitTypeOK
    /\ focus = "login" => LoginTypeOK

\* The opt-out page: when it is no longer edited the agent and the registry
\* hold the last choice, and the printers of the machine are known.
ChoiceInTheEnd == focus = "sync" => ChoiceArrives

\* The claim of a device that is started until it has a configuration.
ClaimedInTheEnd == focus = "claim" => FirstRunClaims

\* handlePostListing and the registry, for a client that keeps at it: after
\* restarts, failed statements and spent numbers it is listed for good.
ListedInTheEnd == focus = "client" => ClientListed

\* The Stripe onboarding of a member who keeps at it ends with the member
\* complete, though single calls fail and leave an account behind.
CompleteInTheEnd == focus = "patient" => PatientCompletes

\* An address that the limiter throttled has a token again and again.
RecoversInTheEnd == focus = "limit" => Recovers

\* With one submission under way at a time, stripe_onboarding_complete speaks
\* about the account the payout releaser will use.
CompleteAccountStored == focus = "patient" => CompleteForStored

=============================================================================
