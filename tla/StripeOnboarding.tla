-------------------------- MODULE StripeOnboarding --------------------------
(***************************************************************************)
(* How a member becomes a provider who can be paid: the onboarding form    *)
(* creates a connected account at Stripe and sends the member to Stripe's  *)
(* pages; the return page and the account.updated webhook learn from       *)
(* Stripe that the account is ready.                                       *)
(*                                                                         *)
(* Atomicity.  Each SQL statement and each call of Stripe is an action.    *)
(* Requests of one member run concurrently (several tabs, a second         *)
(* submit), and Stripe changes accounts by itself between two of them.     *)
(*                                                                         *)
(* Abstractions.  One member, who passed the form's checks.  An account is *)
(* what CheckOnboardingStatus asks of it: transfers active, requirements   *)
(* pending.  Stripe itself is external.                                    *)
(***************************************************************************)
EXTENDS Naturals

CONSTANTS
    Tabs,              \* concurrent requests of one member
    NoAccount,         \* stripe_account_id is NULL
    MaxAccounts,       \* bound: accounts created
    MaxStripeChanges,  \* bound: times Stripe asks for more on an account
    MaxDeliveries,     \* bound: deliveries of one account.updated event
    MaxStripeFaults    \* bound: statements and calls that fail

Accounts == 1 .. MaxAccounts

\* The tables of the schema after migration 011 that this module touches.
Tables == {"participants"}

ASSUME StripeAssumption ==
    /\ NoAccount \notin Accounts
    /\ {MaxAccounts, MaxStripeChanges, MaxDeliveries, MaxStripeFaults} \subseteq Nat

VARIABLES
    member,   \* the participants row
    acct,     \* Stripe's accounts
    links,    \* accounts whose onboarding link the member was sent to
    tab,      \* requests
    events,   \* deliveries of account.updated still to come, by account
    created,  \* accounts created so far
    changes,  \* times Stripe asked for more
    stripeFaults

stripeVars == <<member, acct, links, tab, events, created, changes, stripeFaults>>

-----------------------------------------------------------------------------
(* Data *)

StripeIdle == [at |-> "idle", id |-> NoAccount]

\* Variant: an account that can be retrieved counts as ready.
ReadyIfExists(a) == acct[a].exists

\* CheckOnboardingStatus: TransfersActive and not RequirementsPending.
Ready(a) == acct[a].transfers /\ ~acct[a].pending

\* The onboarding page redirects a member who is complete to the provision page.
SeesForm == ~(member.disclosure /\ member.complete)

-----------------------------------------------------------------------------
(* POST /provider/onboarding *)

\* The form was rendered before, so the handler does not look at complete.
AcceptDisclosure(t) ==
    /\ tab[t] = StripeIdle
    /\ member' = [member EXCEPT !.disclosure = TRUE]
    /\ tab' = [tab EXCEPT ![t].at = "accepted"]
    /\ UNCHANGED <<acct, links, events, created, changes, stripeFaults>>

CreateConnectedAccount(t) ==
    /\ tab[t].at = "accepted"
    /\ created < MaxAccounts
    /\ created' = created + 1
    /\ acct' = [acct EXCEPT ![created'].exists = TRUE]
    /\ tab' = [tab EXCEPT ![t] = [at |-> "created", id |-> created']]
    /\ UNCHANGED <<member, links, events, changes, stripeFaults>>

\* stripe_account_id is overwritten.
Stored(a) == a

StoreAccount(t) ==
    /\ tab[t].at = "created"
    /\ member' = [member EXCEPT !.account = Stored(tab[t].id)]
    /\ tab' = [tab EXCEPT ![t].at = "stored"]
    /\ UNCHANGED <<acct, links, events, created, changes, stripeFaults>>

CreateOnboardingLink(t) ==
    /\ tab[t].at = "stored"
    /\ links' = links \cup {tab[t].id}
    /\ tab' = [tab EXCEPT ![t] = StripeIdle]
    /\ UNCHANGED <<member, acct, events, created, changes, stripeFaults>>

-----------------------------------------------------------------------------
(* Stripe *)

\* The member completes Stripe's pages for an account.
Finish(a) ==
    /\ a \in links
    /\ ~Ready(a)
    /\ acct' = [acct EXCEPT ![a].transfers = TRUE, ![a].pending = FALSE]
    /\ events' = [events EXCEPT ![a] = MaxDeliveries]
    /\ UNCHANGED <<member, links, tab, created, changes, stripeFaults>>

\* New requirements fall due on a live account.
RequireMore(a) ==
    /\ Ready(a)
    /\ changes < MaxStripeChanges
    /\ changes' = changes + 1
    /\ acct' = [acct EXCEPT ![a].pending = TRUE]
    /\ events' = [events EXCEPT ![a] = MaxDeliveries]
    /\ UNCHANGED <<member, links, tab, created, stripeFaults>>

\* onAccountUpdated: a statement on a table that is not there fails, the
\* webhook answers 400 and Stripe delivers the event again, MaxDeliveries
\* times in all.
onAccountUpdated(a) ==
    /\ events[a] > 0
    /\ member' = IF "providers" \in Tables /\ member.account = a
                 THEN [member EXCEPT !.complete = acct[a].transfers] ELSE member
    /\ events' = [events EXCEPT ![a] = IF "providers" \in Tables THEN 0 ELSE @ - 1]
    /\ UNCHANGED <<acct, links, tab, created, changes, stripeFaults>>

-----------------------------------------------------------------------------
(* GET /provider/onboarding/return *)

\* Stripe redirects the member there, or the member opens the page.
Return(t) ==
    /\ tab[t] = StripeIdle
    /\ tab' = [tab EXCEPT ![t].at = "return"]
    /\ UNCHANGED <<member, acct, links, events, created, changes, stripeFaults>>

ReturnRead(t) ==
    /\ tab[t].at = "return"
    /\ tab' = [tab EXCEPT ![t] = IF member.account = NoAccount THEN StripeIdle
                                 ELSE [at |-> "read", id |-> member.account]]
    /\ UNCHANGED <<member, acct, links, events, created, changes, stripeFaults>>

ReturnCheck(t) ==
    /\ tab[t].at = "read"
    /\ tab' = [tab EXCEPT ![t] = IF Ready(@.id) THEN [@ EXCEPT !.at = "ready"] ELSE StripeIdle]
    /\ UNCHANGED <<member, acct, links, events, created, changes, stripeFaults>>

ReturnWrite(t) ==
    /\ tab[t].at = "ready"
    /\ member' = [member EXCEPT !.complete = TRUE]
    /\ tab' = [tab EXCEPT ![t] = StripeIdle]
    /\ UNCHANGED <<acct, links, events, created, changes, stripeFaults>>

\* Stripe or the database answers with an error, and the request ends there:
\* the member is back at the form.
RequestFails(t) ==
    /\ tab[t] # StripeIdle
    /\ stripeFaults < MaxStripeFaults
    /\ stripeFaults' = stripeFaults + 1
    /\ tab' = [tab EXCEPT ![t] = StripeIdle]
    /\ UNCHANGED <<member, acct, links, events, created, changes>>

-----------------------------------------------------------------------------
StripeInit ==
    /\ member = [disclosure |-> FALSE, account |-> NoAccount, complete |-> FALSE]
    /\ acct = [a \in Accounts |-> [exists |-> FALSE, transfers |-> FALSE, pending |-> FALSE]]
    /\ links = {}
    /\ tab = [t \in Tabs |-> StripeIdle]
    /\ events = [a \in Accounts |-> 0]
    /\ created = 0 /\ changes = 0 /\ stripeFaults = 0

Request(t) ==
    \/ CreateConnectedAccount(t) \/ StoreAccount(t) \/ CreateOnboardingLink(t)
    \/ ReturnRead(t) \/ ReturnCheck(t) \/ ReturnWrite(t)

StripeNext ==
    \/ \E t \in Tabs : AcceptDisclosure(t) \/ Return(t) \/ Request(t) \/ RequestFails(t)
    \/ \E a \in Accounts : Finish(a) \/ RequireMore(a) \/ onAccountUpdated(a)

StripeSpec == StripeInit /\ [][StripeNext]_stripeVars

\* The requests run to their end and Stripe delivers its events; the member
\* may stop at any point.
ServedSpec ==
    /\ StripeSpec
    /\ \A t \in Tabs : WF_stripeVars(Request(t))
    /\ \A a \in Accounts : WF_stripeVars(onAccountUpdated(a))

\* A member who keeps at it: submits the form again only when the last
\* submission brought no link, completes the stored account at Stripe, and
\* comes back to the return page when that is done.
Resubmit ==
    /\ SeesForm /\ member.account \notin links
    /\ \A u \in Tabs : tab[u].at \notin {"accepted", "created", "stored"}
    /\ \E t \in Tabs : AcceptDisclosure(t)

FinishStored == member.account \in Accounts /\ Finish(member.account)

ComeBack ==
    /\ ~member.complete /\ member.account \in Accounts /\ Ready(member.account)
    /\ \E t \in Tabs : Return(t)

PatientNext ==
    \/ Resubmit \/ FinishStored
    \/ \E t \in Tabs : Return(t) \/ Request(t) \/ RequestFails(t)
    \/ \E a \in Accounts : onAccountUpdated(a)

PatientSpec ==
    /\ StripeInit /\ [][PatientNext]_stripeVars
    /\ SF_stripeVars(Resubmit) /\ WF_stripeVars(FinishStored) /\ SF_stripeVars(ComeBack)
    /\ \A t \in Tabs : WF_stripeVars(Request(t))

-----------------------------------------------------------------------------
(* Properties *)

\* The variables keep their types, and the member is only ever sent to Stripe
\* for an account that exists.
StripeTypeOK ==
    /\ member \in [disclosure : BOOLEAN, account : Accounts \cup {NoAccount}, complete : BOOLEAN]
    /\ acct \in [Accounts -> [exists : BOOLEAN, transfers : BOOLEAN, pending : BOOLEAN]]
    /\ links \subseteq {a \in Accounts : acct[a].exists}
    /\ tab \in [Tabs -> [at : {"idle", "accepted", "created", "stored", "return", "read", "ready"},
                         id : Accounts \cup {NoAccount}]]
    /\ events \in [Accounts -> 0 .. MaxDeliveries]
    /\ created \in 0 .. MaxAccounts
    /\ changes \in 0 .. MaxStripeChanges /\ stripeFaults \in 0 .. MaxStripeFaults

\* stripe_onboarding_complete is earned: the disclosure was accepted before,
\* and some account of the member had its transfers active, in whatever order
\* submissions, returns and Stripe's own changes ran.
CompleteEarned ==
    member.complete => member.disclosure /\ \E a \in Accounts : acct[a].transfers

\* With one submission under way at a time, the flag speaks about the account
\* the payout releaser will use: the stored account finished onboarding.
CompleteForStored ==
    member.complete => member.account # NoAccount /\ acct[member.account].transfers

\* A member who keeps at it becomes complete, though single calls fail and a
\* failed submission leaves an account behind.
PatientCompletes == <>member.complete

\* onAccountUpdated syncs the stored account's status: when Stripe activates
\* the stored account, the member becomes complete even if the return page is
\* never reached.
WebhookSyncs ==
    \A a \in Accounts :
        (member.account = a /\ Ready(a) /\ events[a] > 0)
            ~> (member.complete \/ member.account # a \/ ~Ready(a))
=============================================================================
