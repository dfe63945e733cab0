---------------------------- MODULE PortalProofs ----------------------------
(***************************************************************************)
(* Safety of Stripe onboarding, of fee declarations and of the throttle of *)
(* operator requests, for any number of tabs, publishers and addresses.    *)
(***************************************************************************)
EXTENDS StripeOnboarding, Fees, RateLimit, FiniteSetTheorems, TLAPS

-----------------------------------------------------------------------------
(* Stripe onboarding *)

MemberRows == [disclosure : BOOLEAN, account : Accounts \cup {NoAccount}, complete : BOOLEAN]

AccountRows == [exists : BOOLEAN, transfers : BOOLEAN, pending : BOOLEAN]

TabStates == [at : {"idle", "accepted", "created", "stored", "return", "read", "ready"},
              id : Accounts \cup {NoAccount}]

\* What a request has behind it when it is where it is.
Sound(r) ==
    /\ r.at \in {"accepted", "created", "stored", "read", "ready"} => member.disclosure
    /\ r.at \in {"created", "stored", "read", "ready"} => r.id \in Accounts
    /\ r.at = "ready" => acct[r.id].transfers

SoundTab(t) == Sound(tab[t])

\* An account is stored only after the disclosure, and a return page that is
\* about to write the flag has seen the transfers of its account active.
StripeInv ==
    /\ member \in MemberRows
    /\ acct \in [Accounts -> AccountRows]
    /\ tab \in [Tabs -> TabStates]
    /\ created \in 0 .. MaxAccounts
    /\ member.account # NoAccount => member.disclosure
    /\ \A t \in Tabs : SoundTab(t)
    /\ CompleteEarned

LEMMA StripeStart == StripeInit => StripeInv
<1> SUFFICES ASSUME StripeInit PROVE StripeInv
  OBVIOUS
<1>1. StripeIdle \in TabStates /\ StripeIdle.at = "idle"
  BY DEF StripeIdle, TabStates
<1>2. /\ member \in MemberRows /\ ~member.complete /\ member.account = NoAccount
      /\ acct \in [Accounts -> AccountRows]
      /\ created \in 0 .. MaxAccounts
  BY StripeAssumption DEF StripeInit, MemberRows, AccountRows
<1> QED BY <1>1, <1>2 DEF StripeInit, StripeInv, SoundTab, Sound, CompleteEarned

\* A step of one request, or of Stripe, that takes nothing back.
LEMMA StripeMoves ==
    ASSUME StripeInv,
           member' \in MemberRows, member.disclosure => member'.disclosure,
           member'.account # NoAccount => member'.disclosure,
           acct' \in [Accounts -> AccountRows],
           \A a \in Accounts : acct[a].transfers => acct'[a].transfers,
           tab' \in [Tabs -> TabStates],
           \A t \in Tabs : tab'[t] = tab[t] \/ SoundTab(t)',
           created' \in 0 .. MaxAccounts,
           CompleteEarned'
    PROVE  StripeInv'
<1>1. \A t \in Tabs : tab'[t] = tab[t] => SoundTab(t)'
  BY DEF StripeInv, SoundTab, Sound
<1> QED BY <1>1 DEF StripeInv

\* The steps of Stripe itself: transfers are only ever activated.
LEMMA StripeOwnSteps ==
    ASSUME StripeInv, NEW a \in Accounts,
           Finish(a) \/ RequireMore(a) \/ onAccountUpdated(a)
    PROVE  StripeInv'
<1>1. /\ member' = member /\ tab' = tab /\ created' = created
  BY DEF Finish, RequireMore, onAccountUpdated, Tables
<1>2. acct[a] \in AccountRows /\ acct \in [Accounts -> AccountRows]
  BY DEF StripeInv
<1>3. LET f == [acct[a] EXCEPT !.transfers = TRUE, !.pending = FALSE]
          r == [acct[a] EXCEPT !.pending = TRUE]
      IN  /\ f \in AccountRows /\ f.transfers
          /\ r \in AccountRows /\ (r.transfers <=> acct[a].transfers)
  BY <1>2 DEF AccountRows
<1>4. \/ acct' = acct
      \/ acct' = [acct EXCEPT ![a] = [acct[a] EXCEPT !.transfers = TRUE, !.pending = FALSE]]
      \/ acct' = [acct EXCEPT ![a] = [acct[a] EXCEPT !.pending = TRUE]]
  BY <1>2 DEF Finish, RequireMore, onAccountUpdated
<1>5. /\ acct' \in [Accounts -> AccountRows]
      /\ \A b \in Accounts : acct[b].transfers => acct'[b].transfers
  BY <1>2, <1>3, <1>4
<1>6. CompleteEarned'
  BY <1>1, <1>5 DEF StripeInv, CompleteEarned
<1> QED BY <1>1, <1>5, <1>6, StripeMoves DEF StripeInv

\* The steps that write the participants row or make an account.
LEMMA StripeWriteSteps ==
    ASSUME StripeInv, NEW t \in Tabs,
           \/ AcceptDisclosure(t) \/ CreateConnectedAccount(t)
           \/ StoreAccount(t) \/ ReturnWrite(t)
    PROVE  StripeInv'
<1>a. /\ member \in MemberRows /\ acct \in [Accounts -> AccountRows]
      /\ tab \in [Tabs -> TabStates] /\ tab[t] \in TabStates /\ Sound(tab[t])
      /\ StripeIdle \in TabStates /\ StripeIdle.at = "idle"
      /\ CompleteEarned /\ created \in 0 .. MaxAccounts
      /\ member.account # NoAccount => member.disclosure
  BY DEF StripeInv, SoundTab, StripeIdle, TabStates
<1>1. CASE AcceptDisclosure(t)
  <2>1. /\ member' = [member EXCEPT !.disclosure = TRUE]
        /\ tab' = [tab EXCEPT ![t] = [tab[t] EXCEPT !.at = "accepted"]]
        /\ acct' = acct /\ created' = created
    BY <1>1 DEF AcceptDisclosure
  <2>2. /\ member' \in MemberRows /\ member'.disclosure
        /\ (member'.complete <=> member.complete)
    BY <1>a, <2>1 DEF MemberRows
  <2>3. LET r == [tab[t] EXCEPT !.at = "accepted"] IN r \in TabStates /\ r.at = "accepted"
    BY <1>a DEF TabStates
  <2>4. /\ tab' \in [Tabs -> TabStates] /\ tab'[t].at = "accepted"
        /\ \A u \in Tabs : u # t => tab'[u] = tab[u]
    BY <1>a, <2>1, <2>3
  <2>5. SoundTab(t)'
    BY <2>2, <2>4 DEF SoundTab, Sound
  <2>6. CompleteEarned'
    BY <1>a, <2>1, <2>2 DEF CompleteEarned
  <2> QED BY <1>a, <2>1, <2>2, <2>4, <2>5, <2>6, StripeMoves
<1>2. CASE CreateConnectedAccount(t)
  <2> DEFINE n == created + 1
             new == [at |-> "created", id |-> n]
  <2>1. /\ created' = n /\ created < MaxAccounts /\ tab[t].at = "accepted"
        /\ tab' = [tab EXCEPT ![t] = new] /\ member' = member
        /\ acct' = [acct EXCEPT ![n] = [acct[n] EXCEPT !.exists = TRUE]]
    BY <1>2 DEF CreateConnectedAccount
  <2>2. n \in Accounts /\ n \in 0 .. MaxAccounts
    BY <1>a, <2>1, StripeAssumption DEF Accounts
  <2>3. acct[n] \in AccountRows
    BY <1>a, <2>2
  <2>4. LET r == [acct[n] EXCEPT !.exists = TRUE] IN
          r \in AccountRows /\ (r.transfers <=> acct[n].transfers)
    BY <2>3 DEF AccountRows
  <2>5. new \in TabStates /\ new.at = "created" /\ new.id = n
    BY <2>2 DEF TabStates
  <2> HIDE DEF n, new
  <2>6. /\ acct' \in [Accounts -> AccountRows]
        /\ \A a \in Accounts : acct'[a].transfers <=> acct[a].transfers
    BY <1>a, <2>1, <2>4
  <2>7. /\ tab' \in [Tabs -> TabStates] /\ tab'[t] = new
        /\ \A u \in Tabs : u # t => tab'[u] = tab[u]
    BY <1>a, <2>1, <2>5
  <2>8. SoundTab(t)'
    BY <1>a, <2>1, <2>2, <2>5, <2>7 DEF SoundTab, Sound
  <2>9. CompleteEarned'
    BY <1>a, <2>1, <2>6 DEF CompleteEarned
  <2> QED BY <1>a, <2>1, <2>2, <2>6, <2>7, <2>8, <2>9, StripeMoves
<1>3. CASE StoreAccount(t)
  <2>1. /\ member' = [member EXCEPT !.account = tab[t].id] /\ tab[t].at = "created"
        /\ tab' = [tab EXCEPT ![t] = [tab[t] EXCEPT !.at = "stored"]]
        /\ acct' = acct /\ created' = created
    BY <1>3 DEF StoreAccount, Stored
  <2>2. tab[t].id \in Accounts /\ member.disclosure
    BY <1>a, <2>1 DEF Sound
  <2>3. /\ member' \in MemberRows /\ (member'.disclosure <=> member.disclosure)
        /\ (member'.complete <=> member.complete)
    BY <1>a, <2>1, <2>2 DEF MemberRows
  <2>4. LET r == [tab[t] EXCEPT !.at = "stored"] IN
          r \in TabStates /\ r.at = "stored" /\ r.id = tab[t].id
    BY <1>a DEF TabStates
  <2>5. /\ tab' \in [Tabs -> TabStates] /\ tab'[t].at = "stored" /\ tab'[t].id = tab[t].id
        /\ \A u \in Tabs : u # t => tab'[u] = tab[u]
    BY <1>a, <2>1, <2>4
  <2>6. SoundTab(t)'
    BY <2>2, <2>3, <2>5 DEF SoundTab, Sound
  <2>7. CompleteEarned'
    BY <1>a, <2>1, <2>3 DEF CompleteEarned
  <2> QED BY <1>a, <2>1, <2>2, <2>3, <2>5, <2>6, <2>7, StripeMoves
<1>4. CASE ReturnWrite(t)
  <2>1. /\ member' = [member EXCEPT !.complete = TRUE] /\ tab[t].at = "ready"
        /\ tab' = [tab EXCEPT ![t] = StripeIdle]
        /\ acct' = acct /\ created' = created
    BY <1>4 DEF ReturnWrite
  <2>2. tab[t].id \in Accounts /\ member.disclosure /\ acct[tab[t].id].transfers
    BY <1>a, <2>1 DEF Sound
  <2>3. /\ member' \in MemberRows /\ (member'.disclosure <=> member.disclosure)
        /\ member'.account = member.account
    BY <1>a, <2>1 DEF MemberRows
  <2>4. /\ tab' \in [Tabs -> TabStates] /\ tab'[t].at = "idle"
        /\ \A u \in Tabs : u # t => tab'[u] = tab[u]
    BY <1>a, <2>1
  <2>5. SoundTab(t)'
    BY <2>4 DEF SoundTab, Sound
  <2>6. CompleteEarned'
    BY <2>1, <2>2, <2>3 DEF CompleteEarned
  <2> QED BY <1>a, <2>1, <2>3, <2>4, <2>5, <2>6, StripeMoves
<1> QED BY <1>1, <1>2, <1>3, <1>4

\* The steps that only move a request on.
LEMMA StripeReadSteps ==
    ASSUME StripeInv, NEW t \in Tabs,
           \/ CreateOnboardingLink(t) \/ Return(t) \/ ReturnRead(t) \/ ReturnCheck(t)
           \/ RequestFails(t)
    PROVE  StripeInv'
<1>a. /\ member \in MemberRows /\ acct \in [Accounts -> AccountRows]
      /\ tab \in [Tabs -> TabStates] /\ tab[t] \in TabStates /\ Sound(tab[t])
      /\ StripeIdle \in TabStates /\ StripeIdle.at = "idle" /\ StripeIdle.id = NoAccount
      /\ CompleteEarned /\ created \in 0 .. MaxAccounts
      /\ member.account # NoAccount => member.disclosure
  BY DEF StripeInv, SoundTab, StripeIdle, TabStates
<1>b. ASSUME NEW r \in TabStates, Sound(r), tab' = [tab EXCEPT ![t] = r]
      PROVE  StripeInv'
  <2>1. member' = member /\ acct' = acct /\ created' = created
    BY DEF CreateOnboardingLink, Return, ReturnRead, ReturnCheck, RequestFails
  <2>2. /\ tab' \in [Tabs -> TabStates] /\ tab'[t] = r
        /\ \A u \in Tabs : u # t => tab'[u] = tab[u]
    BY <1>a, <1>b
  <2>3. SoundTab(t)'
    BY <1>b, <2>1, <2>2 DEF SoundTab, Sound
  <2>4. CompleteEarned'
    BY <1>a, <2>1 DEF CompleteEarned
  <2> QED BY <1>a, <2>1, <2>2, <2>3, <2>4, StripeMoves
<1>c. Sound(StripeIdle)
  BY <1>a DEF Sound
<1>1. CASE CreateOnboardingLink(t) \/ RequestFails(t)
  BY <1>a, <1>b, <1>c, <1>1 DEF CreateOnboardingLink, RequestFails
<1>2. CASE Return(t)
  <2>1. LET r == [tab[t] EXCEPT !.at = "return"] IN r \in TabStates /\ r.at = "return"
    BY <1>a DEF TabStates
  <2>2. Sound([tab[t] EXCEPT !.at = "return"])
    BY <2>1 DEF Sound
  <2> QED BY <1>b, <1>2, <2>1, <2>2 DEF Return
<1>3. CASE ReturnRead(t)
  <2>1. CASE member.account = NoAccount
    BY <1>a, <1>b, <1>c, <1>3, <2>1 DEF ReturnRead
  <2>2. CASE member.account # NoAccount
    <3> DEFINE r == [at |-> "read", id |-> member.account]
    <3>1. member.account \in Accounts
      BY <1>a, <2>2 DEF MemberRows
    <3>2. r \in TabStates /\ r.at = "read" /\ r.id \in Accounts
      BY <3>1 DEF TabStates
    <3>3. tab' = [tab EXCEPT ![t] = r]
      BY <1>3, <2>2 DEF ReturnRead
    <3> HIDE DEF r
    <3>4. Sound(r)
      BY <1>a, <2>2, <3>2 DEF Sound
    <3> QED BY <1>b, <3>2, <3>3, <3>4
  <2> QED BY <2>1, <2>2
<1>4. CASE ReturnCheck(t)
  <2>1. CASE ~Ready(tab[t].id)
    BY <1>a, <1>b, <1>c, <1>4, <2>1 DEF ReturnCheck
  <2>2. CASE Ready(tab[t].id)
    <3>1. LET r == [tab[t] EXCEPT !.at = "ready"] IN
            r \in TabStates /\ r.at = "ready" /\ r.id = tab[t].id
      BY <1>a DEF TabStates
    <3>2. tab[t].at = "read" /\ acct[tab[t].id].transfers
      BY <1>4, <2>2 DEF ReturnCheck, Ready
    <3>3. Sound([tab[t] EXCEPT !.at = "ready"])
      BY <1>a, <3>1, <3>2 DEF Sound
    <3>4. tab' = [tab EXCEPT ![t] = [tab[t] EXCEPT !.at = "ready"]]
      BY <1>a, <1>4, <2>2 DEF ReturnCheck
    <3> QED BY <1>b, <3>1, <3>3, <3>4
  <2> QED BY <2>1, <2>2
<1> QED BY <1>1, <1>2, <1>3, <1>4

\* However submissions of several tabs, returns from Stripe, lost answers and
\* Stripe's own changes interleave, stripe_onboarding_complete is set only
\* after the disclosure and after some account had its transfers active.
THEOREM CompletionEarned == StripeSpec => []CompleteEarned
<1>1. StripeInv /\ [StripeNext]_stripeVars => StripeInv'
  <2> SUFFICES ASSUME StripeInv, [StripeNext]_stripeVars PROVE StripeInv'
    OBVIOUS
  <2>1. CASE UNCHANGED stripeVars
    <3>1. member' = member /\ acct' = acct /\ tab' = tab /\ created' = created
      BY <2>1 DEF stripeVars
    <3>2. CompleteEarned'
      BY <3>1 DEF StripeInv, CompleteEarned
    <3> QED BY <3>1, <3>2, StripeMoves DEF StripeInv
  <2> QED BY <2>1, StripeOwnSteps, StripeWriteSteps, StripeReadSteps DEF StripeNext, Request
<1>2. StripeInv => CompleteEarned
  BY DEF StripeInv
<1> QED BY <1>1, <1>2, StripeStart, PTL DEF StripeSpec

-----------------------------------------------------------------------------
(* Fee declarations *)

\* Numbers are unique, and one of them is the highest.
FeeInv ==
    /\ \A d \in decls : d.seq \in FeeSeqs
    /\ \A d, e \in decls : d.seq = e.seq => d = e
    /\ decls # {} => \E d \in decls : \A e \in decls : e.seq <= d.seq
    /\ pub \in [Publishers -> Publications]

\* The row the SELECT finds when there is one: the highest number.
LEMMA CurrentIsTop ==
    ASSUME FeeInv, NEW d \in decls, \A e \in decls : e.seq <= d.seq
    PROVE  CurrentFeeDeclaration = d
<1>1. \E c \in decls : \A e \in decls : e.seq <= c.seq
  OBVIOUS
<1>2. CurrentFeeDeclaration = CHOOSE c \in decls : \A e \in decls : e.seq <= c.seq
  BY DEF CurrentFeeDeclaration
<1>3. /\ CurrentFeeDeclaration \in decls
      /\ \A e \in decls : e.seq <= CurrentFeeDeclaration.seq
  BY <1>1, <1>2
<1>4. CurrentFeeDeclaration.seq <= d.seq /\ d.seq <= CurrentFeeDeclaration.seq
  BY <1>3
<1>5. CurrentFeeDeclaration.seq = d.seq
  BY <1>3, <1>4 DEF FeeInv, FeeSeqs
<1> QED BY <1>3, <1>5 DEF FeeInv

\* An insertion keeps a highest number, and what is current either stays or
\* has a higher number.
LEMMA InsertAdvances ==
    ASSUME FeeInv, FeeInv', NEW d, d.seq \in FeeSeqs, \A e \in decls : e.seq # d.seq,
           decls' = decls \cup {d}
    PROVE  \/ CurrentFeeDeclaration' = CurrentFeeDeclaration
           \/ CurrentFeeDeclaration'.seq > CurrentFeeDeclaration.seq
<1>a. ASSUME NEW c \in decls', \A e \in decls' : e.seq <= c.seq
      PROVE  CurrentFeeDeclaration' = c
  <2>1. \E x \in decls' : \A e \in decls' : e.seq <= x.seq
    BY <1>a
  <2>2. CurrentFeeDeclaration' = CHOOSE x \in decls' : \A e \in decls' : e.seq <= x.seq
    BY <1>a DEF CurrentFeeDeclaration
  <2>3. /\ CurrentFeeDeclaration' \in decls'
        /\ \A e \in decls' : e.seq <= CurrentFeeDeclaration'.seq
    BY <2>1, <2>2
  <2>4. CurrentFeeDeclaration'.seq = c.seq
    BY <1>a, <2>3 DEF FeeInv, FeeSeqs
  <2> QED BY <1>a, <2>3, <2>4 DEF FeeInv
<1>1. CASE decls = {}
  <2>1. CurrentFeeDeclaration.seq = -1
    BY <1>1 DEF CurrentFeeDeclaration, NoDecl
  <2>2. d \in decls' /\ \A e \in decls' : e.seq <= d.seq
    BY <1>1 DEF FeeSeqs
  <2>3. CurrentFeeDeclaration' = d
    BY <1>a, <2>2
  <2> QED BY <2>1, <2>3 DEF FeeSeqs
<1>2. CASE decls # {}
  <2>1. PICK c \in decls : \A e \in decls : e.seq <= c.seq
    BY <1>2 DEF FeeInv
  <2>2. CurrentFeeDeclaration = c
    BY <2>1, CurrentIsTop
  <2>3. c.seq \in FeeSeqs
    BY DEF FeeInv
  <2>4. CASE d.seq <= c.seq
    <3>1. \A e \in decls' : e.seq <= c.seq
      BY <2>1, <2>4
    <3> QED BY <1>a, <2>2, <3>1
  <2>5. CASE d.seq > c.seq
    <3>1. \A e \in decls' : e.seq <= d.seq
      BY <2>1, <2>3, <2>5 DEF FeeSeqs, FeeInv
    <3>2. CurrentFeeDeclaration' = d
      BY <1>a, <3>1
    <3> QED BY <2>2, <2>5, <3>2
  <2> QED BY <2>3, <2>4, <2>5 DEF FeeSeqs
<1> QED BY <1>1, <1>2

\* What the SELECT returns is a row of the table or none.
LEMMA CurrentTyped ==
    ASSUME FeeTypeOK, FeeInv
    PROVE  CurrentFeeDeclaration \in Declarations \cup {NoDecl}
<1>1. CASE decls = {}
  BY <1>1 DEF CurrentFeeDeclaration
<1>2. CASE decls # {}
  <2>1. PICK c \in decls : \A e \in decls : e.seq <= c.seq
    BY <1>2 DEF FeeInv
  <2> QED BY <2>1, CurrentIsTop DEF FeeTypeOK
<1> QED BY <1>1, <1>2

\* Truncation to the column's grain stays a natural number.
LEMMA StoredNat ==
    ASSUME NEW at \in Nat
    PROVE  FeeStored(at) \in Nat
<1>1. Grain \in Nat /\ Grain > 0
  BY FeesAssumption
<1>2. at \div Grain \in Nat
  BY <1>1
<1>3. at = Grain * (at \div Grain) + (at % Grain)
  BY <1>1
<1>4. Grain * (at \div Grain) \in Nat
  BY <1>1, <1>2
<1>5. at % Grain \in Nat
  BY <1>1
<1>6. at - (at % Grain) = Grain * (at \div Grain)
  BY <1>3, <1>4, <1>5
<1> QED BY <1>4, <1>6 DEF FeeStored

\* A step that leaves the table alone and puts one publication in a stage.
LEMMA PublicationMoves ==
    ASSUME FeeTypeOK, FeeInv, decls' = decls,
           NEW p \in Publishers, NEW x \in Publications, pub' = [pub EXCEPT ![p] = x]
    PROVE  FeeTypeOK' /\ FeeInv' /\ CurrentFeeDeclaration' = CurrentFeeDeclaration
<1>1. pub' \in [Publishers -> Publications]
  BY DEF FeeInv
<1>2. FeeTypeOK'
  BY <1>1 DEF FeeTypeOK
<1>3. FeeInv'
  BY <1>1 DEF FeeInv
<1> QED BY <1>2, <1>3 DEF CurrentFeeDeclaration

LEMMA FeeStep ==
    ASSUME FeeTypeOK, FeeInv, [FeeNext]_feeVars
    PROVE  /\ FeeTypeOK' /\ FeeInv'
           /\ \/ CurrentFeeDeclaration' = CurrentFeeDeclaration
              \/ CurrentFeeDeclaration'.seq > CurrentFeeDeclaration.seq
<1>1. CASE UNCHANGED feeVars
  <2>1. decls' = decls /\ pub' = pub
    BY <1>1 DEF feeVars
  <2>2. FeeTypeOK' /\ FeeInv'
    BY <2>1 DEF FeeTypeOK, FeeInv
  <2> QED BY <2>1, <2>2 DEF CurrentFeeDeclaration
<1>2. ASSUME NEW p \in Publishers, NEW d \in [seq : FeeSeqs, at : Instants], PublishRead(p, d)
      PROVE  FeeTypeOK' /\ FeeInv' /\ CurrentFeeDeclaration' = CurrentFeeDeclaration
  <2> DEFINE cur == CurrentFeeDeclaration
             x == [stage |-> "read", decl |-> d, cur |-> cur]
  <2>1. d \in Declarations
    BY <1>2, FeesAssumption DEF Declarations
  <2>2. cur \in Declarations \cup {NoDecl}
    BY CurrentTyped
  <2>3. pub' = [pub EXCEPT ![p] = x] /\ decls' = decls
    BY <1>2 DEF PublishRead
  <2> HIDE DEF cur
  <2>4. x \in Publications
    BY <2>1, <2>2 DEF Publications
  <2> HIDE DEF x
  <2> QED BY <2>3, <2>4, PublicationMoves
<1>3. ASSUME NEW p \in Publishers, PublishCompare(p)
      PROVE  FeeTypeOK' /\ FeeInv' /\ CurrentFeeDeclaration' = CurrentFeeDeclaration
  <2> DEFINE x == IF Later(pub[p].decl, pub[p].cur)
                  THEN [pub[p] EXCEPT !.stage = "compared"] ELSE FeeIdle
  <2>1. pub' = [pub EXCEPT ![p] = x] /\ decls' = decls /\ pub[p].stage = "read"
    BY <1>3 DEF PublishCompare
  <2>2. pub[p] \in [stage : {"read", "compared"}, decl : Declarations,
                    cur : Declarations \cup {NoDecl}]
    BY <2>1 DEF FeeInv, Publications, FeeIdle
  <2>3. x \in Publications
    BY <2>2 DEF Publications
  <2> HIDE DEF x
  <2> QED BY <2>1, <2>3, PublicationMoves
<1>4. ASSUME NEW p \in Publishers, PublishFail(p)
      PROVE  FeeTypeOK' /\ FeeInv' /\ CurrentFeeDeclaration' = CurrentFeeDeclaration
  BY <1>4, PublicationMoves DEF PublishFail, Publications
<1>5. ASSUME NEW p \in Publishers, PublishInsert(p)
      PROVE  /\ FeeTypeOK' /\ FeeInv'
             /\ \/ CurrentFeeDeclaration' = CurrentFeeDeclaration
                \/ CurrentFeeDeclaration'.seq > CurrentFeeDeclaration.seq
  <2> DEFINE d == pub[p].decl
             row == [seq |-> d.seq, at |-> FeeStored(d.at)]
  <2>1. pub' = [pub EXCEPT ![p] = FeeIdle] /\ pub[p].stage = "compared"
    BY <1>5 DEF PublishInsert
  <2>2. d \in Declarations
    BY <2>1 DEF FeeInv, Publications, FeeIdle
  <2>3. pub' \in [Publishers -> Publications] /\ FeeIdle \in Publications
    BY <2>1 DEF FeeInv, Publications
  <2>4. CASE ~Insertable(d)
    <3>1. decls' = decls
      BY <1>5, <2>4 DEF PublishInsert
    <3> QED BY <2>1, <2>3, <3>1, PublicationMoves
  <2>5. CASE Insertable(d)
    <3>1. decls' = decls \cup {row}
      BY <1>5, <2>5 DEF PublishInsert
    <3>2. d.seq \in FeeSeqs /\ d.at \in Nat
      BY <2>2 DEF Declarations
    <3>3. FeeStored(d.at) \in Nat
      BY <3>2, StoredNat
    <3>4. row \in Declarations /\ row.seq = d.seq
      BY <3>2, <3>3 DEF Declarations
    <3>5. Storable(row.seq) /\ \A e \in decls : e.seq # row.seq
      BY <2>5, <3>4 DEF Insertable
    <3> HIDE DEF row, d
    <3>6. row.seq \in FeeSeqs
      BY <3>2, <3>4
    <3>7. FeeTypeOK'
      BY <2>3, <3>1, <3>4, <3>5 DEF FeeTypeOK
    <3>8. /\ \A e \in decls' : e.seq \in FeeSeqs
          /\ \A e, f \in decls' : e.seq = f.seq => e = f
      BY <3>1, <3>5, <3>6 DEF FeeInv
    <3>9. \E t \in decls' : \A e \in decls' : e.seq <= t.seq
      <4>1. CASE decls = {}
        BY <3>1, <3>6, <4>1 DEF FeeSeqs
      <4>2. CASE decls # {}
        <5>1. PICK c \in decls : \A e \in decls : e.seq <= c.seq
          BY <4>2 DEF FeeInv
        <5>2. \A e \in decls' : e.seq \in Int
          BY <3>8 DEF FeeSeqs
        <5>3. CASE row.seq <= c.seq
          BY <3>1, <5>1, <5>3
        <5>4. CASE c.seq < row.seq
          BY <3>1, <5>1, <5>2, <5>4
        <5> QED BY <3>1, <5>2, <5>3, <5>4
      <4> QED BY <4>1, <4>2
    <3>10. FeeInv'
      BY <2>3, <3>8, <3>9 DEF FeeInv
    <3> QED BY <3>1, <3>5, <3>6, <3>7, <3>10, InsertAdvances
  <2> QED BY <2>4, <2>5
<1> QED BY <1>1, <1>2, <1>3, <1>4, <1>5 DEF FeeNext

\* However publishers interleave, the declaration that
\* CurrentFeeDeclaration returns is only ever replaced by one with a higher
\* number.
THEOREM FeesAdvance == FeeSpec => CurrentAdvances
<1>1. FeeInit => FeeTypeOK /\ FeeInv
  BY DEF FeeInit, FeeTypeOK, FeeInv, Publications
<1>2. FeeTypeOK /\ FeeInv /\ [FeeNext]_feeVars
      => /\ (FeeTypeOK /\ FeeInv)'
         /\ [\/ CurrentFeeDeclaration' = CurrentFeeDeclaration
             \/ CurrentFeeDeclaration'.seq > CurrentFeeDeclaration.seq]_feeVars
  BY FeeStep
<1> QED BY <1>1, <1>2, PTL DEF FeeSpec, CurrentAdvances

-----------------------------------------------------------------------------
(* Rate limit *)

LEMMA MinOfTwo ==
    ASSUME NEW a \in Nat, NEW b \in Nat
    PROVE  Min({a, b}) = IF a <= b THEN a ELSE b
<1>1. \E m \in {a, b} : \A y \in {a, b} : m <= y
  BY a <= b \/ b <= a
<1>2. Min({a, b}) \in {a, b} /\ \A y \in {a, b} : Min({a, b}) <= y
  BY <1>1 DEF Min
<1> QED BY <1>2

LEMMA FullNat == Full \in Nat /\ Unit \in Nat
<1>1. Burst \in Nat /\ Unit \in Nat
  BY LimitAssumption
<1> QED BY <1>1 DEF Full

LEMMA RefilledIs ==
    ASSUME NEW b \in [parts : 0 .. Full, elapsed : 0 .. Full]
    PROVE  /\ Refilled(b) = IF Full <= b.parts + b.elapsed THEN Full ELSE b.parts + b.elapsed
           /\ Refilled(b) \in 0 .. Full
<1>1. Full \in Nat /\ b.parts \in Nat /\ b.elapsed \in Nat
  BY FullNat
<1>2. Refilled(b) = IF Full <= b.parts + b.elapsed THEN Full ELSE b.parts + b.elapsed
  BY <1>1, MinOfTwo DEF Refilled
<1> QED BY <1>1, <1>2

LimitInv ==
    /\ bucket \in [Addresses -> [parts : 0 .. Full, elapsed : 0 .. Full]]
    /\ request \in [Requests -> [at : {"idle", "arrived", "serving", "throttled"},
                                 ip : Addresses \cup {LimitIdle.ip}, good : BOOLEAN]]
    /\ \A r \in Requests : request[r].at # "idle" => request[r].ip \in Addresses

\* One address's bucket is written: its budget, when it is next looked at, is
\* what was written.
LEMMA BucketWritten ==
    ASSUME LimitInv, NEW ip \in Addresses, NEW n \in 0 .. Full,
           bucket' = [bucket EXCEPT ![ip] = [parts |-> n, elapsed |-> 0]]
    PROVE  /\ bucket' \in [Addresses -> [parts : 0 .. Full, elapsed : 0 .. Full]]
           /\ Refilled(bucket'[ip]) = n
           /\ \A a \in Addresses : a # ip => bucket'[a] = bucket[a]
<1> DEFINE b == [parts |-> n, elapsed |-> 0]
<1>1. Full \in Nat
  BY FullNat
<1>2. b \in [parts : 0 .. Full, elapsed : 0 .. Full] /\ b.parts = n /\ b.elapsed = 0
  BY <1>1
<1>3. bucket' = [bucket EXCEPT ![ip] = b]
  OBVIOUS
<1> HIDE DEF b
<1>4. Refilled(b) = IF Full <= n + 0 THEN Full ELSE n + 0
  BY <1>2, RefilledIs
<1>5. Refilled(b) = n
  BY <1>1, <1>4
<1> QED BY <1>2, <1>3, <1>5 DEF LimitInv

\* What a step may take from the budget of an address.
ChargeOK(a) ==
    Refilled(bucket'[a]) < Refilled(bucket[a]) =>
        /\ Refilled(bucket[a]) <= Refilled(bucket'[a]) + Unit
        /\ \E r \in Requests : /\ request[r].at = "serving" /\ request'[r].at = "idle"
                               /\ request[r].ip = a /\ ~request[r].good

LEMMA SameBudget ==
    ASSUME LimitInv, NEW a \in Addresses, Refilled(bucket'[a]) >= Refilled(bucket[a]),
           bucket' \in [Addresses -> [parts : 0 .. Full, elapsed : 0 .. Full]]
    PROVE  ChargeOK(a)
<1>1. Refilled(bucket[a]) \in 0 .. Full /\ Refilled(bucket'[a]) \in 0 .. Full
  BY RefilledIs DEF LimitInv
<1> QED BY <1>1, FullNat DEF ChargeOK

\* One request moves on.
LEMMA RequestMoves ==
    ASSUME LimitInv, NEW r \in Requests, NEW ip \in Addresses, NEW good \in BOOLEAN,
           NEW at \in {"idle", "arrived", "serving", "throttled"},
           bucket' \in [Addresses -> [parts : 0 .. Full, elapsed : 0 .. Full]],
           \/ request' = request
           \/ request' = [request EXCEPT ![r] = LimitIdle]
           \/ request' = [request EXCEPT ![r] = [at |-> at, ip |-> ip, good |-> good]]
    PROVE  LimitInv'
<1> DEFINE S == [at : {"idle", "arrived", "serving", "throttled"},
                 ip : Addresses \cup {LimitIdle.ip}, good : BOOLEAN]
           x == [at |-> at, ip |-> ip, good |-> good]
<1>1. LimitIdle \in S /\ LimitIdle.at = "idle"
  BY DEF LimitIdle
<1>2. x \in S /\ x.ip = ip
  OBVIOUS
<1>3. request \in [Requests -> S]
  BY DEF LimitInv
<1>4. \/ request' = request \/ request' = [request EXCEPT ![r] = LimitIdle]
      \/ request' = [request EXCEPT ![r] = x]
  OBVIOUS
<1> HIDE DEF S, x
<1>5. request' \in [Requests -> S]
  BY <1>1, <1>2, <1>3, <1>4
<1>6. \A q \in Requests : request'[q] \in {request[q], LimitIdle, x}
  BY <1>3, <1>4
<1>7. \A q \in Requests : request'[q].at # "idle" => request'[q].ip \in Addresses
  BY <1>1, <1>2, <1>6 DEF LimitInv
<1> QED BY <1>5, <1>7 DEF LimitInv, S

LEMMA LimitStep ==
    ASSUME LimitInv, [LimitNext]_limitVars
    PROVE  LimitInv' /\ \A a \in Addresses : ChargeOK(a)
<1> DEFINE B == [parts : 0 .. Full, elapsed : 0 .. Full]
<1>a. ASSUME bucket' = bucket PROVE \A a \in Addresses : ChargeOK(a)
  <2>1. bucket' \in [Addresses -> B]
    BY <1>a DEF LimitInv
  <2>2. \A a \in Addresses : Refilled(bucket[a]) \in 0 .. Full
    BY RefilledIs DEF LimitInv
  <2>3. \A a \in Addresses : Refilled(bucket'[a]) >= Refilled(bucket[a])
    BY <1>a, <2>2, FullNat
  <2> QED BY <2>1, <2>3, SameBudget
<1>1. CASE UNCHANGED limitVars
  <2>1. bucket' = bucket /\ request' = request
    BY <1>1 DEF limitVars
  <2>2. LimitInv'
    BY <2>1 DEF LimitInv
  <2> QED BY <1>a, <2>1, <2>2
<1>2. ASSUME NEW r \in Requests, NEW ip \in Addresses, NEW good \in BOOLEAN, Arrive(r, ip, good)
      PROVE  LimitInv' /\ \A a \in Addresses : ChargeOK(a)
  <2>1. /\ bucket' = bucket
        /\ request' = [request EXCEPT ![r] = [at |-> "arrived", ip |-> ip, good |-> good]]
    BY <1>2 DEF Arrive
  <2>2. bucket' \in [Addresses -> B]
    BY <2>1 DEF LimitInv
  <2> QED BY <1>a, <2>1, <2>2, RequestMoves
<1>3. ASSUME NEW r \in Requests, LimitHandle(r)
      PROVE  LimitInv' /\ \A a \in Addresses : ChargeOK(a)
  <2> DEFINE ip == request[r].ip
             n == Refilled(bucket[ip])
  <2>1. request[r].at # "idle" /\ ip \in Addresses /\ request[r].good \in BOOLEAN
    BY <1>3 DEF LimitHandle, allow, Serve, Answer, LimitInv
  <2>2. n \in 0 .. Full
    BY <2>1, RefilledIs DEF LimitInv
  <2>3. CASE allow(r)
    <3> DEFINE at == IF n >= Unit THEN "serving" ELSE "throttled"
               x == [at |-> at, ip |-> ip, good |-> request[r].good]
    <3>1. /\ bucket' = [bucket EXCEPT ![ip] = [parts |-> n, elapsed |-> 0]]
          /\ request' = [request EXCEPT ![r].at = at]
      BY <2>3 DEF allow
    <3>2. at \in {"idle", "arrived", "serving", "throttled"}
      OBVIOUS
    <3> HIDE DEF at
    <3>3. [request[r] EXCEPT !.at = at] = x
      BY DEF LimitInv
    <3>4. request' = [request EXCEPT ![r] = x]
      BY <3>1, <3>3
    <3> HIDE DEF n
    <3>5. /\ bucket' \in [Addresses -> B] /\ Refilled(bucket'[ip]) = n
          /\ \A a \in Addresses : a # ip => bucket'[a] = bucket[a]
      BY <2>1, <2>2, <3>1, BucketWritten
    <3>6. LimitInv'
      BY <2>1, <3>2, <3>4, <3>5, RequestMoves
    <3>7. \A a \in Addresses : Refilled(bucket[a]) \in 0 .. Full
      BY RefilledIs DEF LimitInv
    <3>8. \A a \in Addresses : Refilled(bucket'[a]) = Refilled(bucket[a])
      BY <3>5 DEF n
    <3>9. \A a \in Addresses : Refilled(bucket'[a]) >= Refilled(bucket[a])
      BY <3>7, <3>8, FullNat
    <3> QED BY <3>5, <3>6, <3>9, SameBudget
  <2>4. CASE Serve(r)
    <3>1. request' = [request EXCEPT ![r] = LimitIdle] /\ request[r].at = "serving"
      BY <2>4 DEF Serve
    <3>2. CASE ~LimitCharged(r)
      <4>1. bucket' = bucket
        BY <2>4, <3>2 DEF Serve
      <4>2. bucket' \in [Addresses -> B]
        BY <4>1 DEF LimitInv
      <4> QED BY <1>a, <2>1, <3>1, <4>1, <4>2, RequestMoves
    <3>3. CASE LimitCharged(r)
      <4> DEFINE m == IF n >= Unit THEN n - Unit ELSE 0
      <4>1. bucket' = [bucket EXCEPT ![ip] = [parts |-> m, elapsed |-> 0]]
        BY <2>4, <3>3 DEF Serve
      <4> HIDE DEF n
      <4>2. m \in 0 .. Full /\ n <= m + Unit
        BY <2>2, FullNat
      <4> HIDE DEF m
      <4>3. /\ bucket' \in [Addresses -> B] /\ Refilled(bucket'[ip]) = m
            /\ \A a \in Addresses : a # ip => bucket'[a] = bucket[a]
        BY <2>1, <4>1, <4>2, BucketWritten
      <4>4. LimitInv'
        BY <2>1, <3>1, <4>3, RequestMoves
      <4>5. request'[r].at = "idle" /\ ~request[r].good
        BY <3>1, <3>3 DEF LimitCharged, LimitInv, LimitIdle
      <4>6. ChargeOK(ip)
        BY <3>1, <4>2, <4>3, <4>5 DEF ChargeOK, n
      <4>7. ASSUME NEW a \in Addresses, a # ip PROVE ChargeOK(a)
        <5>1. Refilled(bucket[a]) \in 0 .. Full
          BY RefilledIs DEF LimitInv
        <5>2. Refilled(bucket'[a]) >= Refilled(bucket[a])
          BY <4>3, <4>7, <5>1, FullNat
        <5> QED BY <4>3, <5>2, SameBudget
      <4> QED BY <4>4, <4>6, <4>7
    <3> QED BY <3>2, <3>3
  <2>5. CASE Answer(r)
    <3>1. request' = [request EXCEPT ![r] = LimitIdle] /\ bucket' = bucket
      BY <2>5 DEF Answer
    <3>2. bucket' \in [Addresses -> B]
      BY <3>1 DEF LimitInv
    <3> QED BY <1>a, <2>1, <3>1, <3>2, RequestMoves
  <2> QED BY <1>3, <2>3, <2>4, <2>5 DEF LimitHandle
<1>4. CASE Second
  <2>1. request' = request
    BY <1>4 DEF Second
  <2>2. ASSUME NEW a \in Addresses
        PROVE  bucket'[a] \in B /\ Refilled(bucket'[a]) >= Refilled(bucket[a])
    <3> DEFINE b == bucket[a]
               e == Min({Full, b.elapsed + 1})
               c == [b EXCEPT !.elapsed = e]
    <3>1. bucket'[a] = c
      BY <1>4 DEF Second
    <3>2. b \in B /\ b.parts \in 0 .. Full /\ b.elapsed \in 0 .. Full
      BY DEF LimitInv
    <3>3. e = IF Full <= b.elapsed + 1 THEN Full ELSE b.elapsed + 1
      BY <3>2, FullNat, MinOfTwo
    <3>4. e \in 0 .. Full /\ e >= b.elapsed
      BY <3>2, <3>3, FullNat
    <3> HIDE DEF b, e
    <3>5. c \in B /\ c.parts = b.parts /\ c.elapsed = e
      BY <3>2, <3>4
    <3> HIDE DEF c
    <3>6. Refilled(c) = IF Full <= b.parts + e THEN Full ELSE b.parts + e
      BY <3>5, RefilledIs
    <3>7. Refilled(b) = IF Full <= b.parts + b.elapsed THEN Full ELSE b.parts + b.elapsed
      BY <3>2, RefilledIs
    <3>8. Refilled(c) >= Refilled(b)
      BY <3>2, <3>4, <3>6, <3>7, FullNat
    <3> QED BY <3>1, <3>5, <3>8 DEF b
  <2>3. bucket' \in [Addresses -> B]
    BY <1>4, <2>2 DEF Second
  <2>4. LimitInv'
    BY <2>1, <2>3 DEF LimitInv
  <2> QED BY <2>2, <2>3, <2>4, SameBudget
<1> QED BY <1>1, <1>2, <1>3, <1>4 DEF LimitNext

\* However requests of several addresses overlap and time passes, the budget
\* of an address loses at most one token at a time, and only because penalize
\* ran for a request from that address that was answered 401.
THEOREM ChargedForFailures == LimitSpec => OnlyFailuresCharge
<1>1. LimitInit => LimitInv
  <2>1. Full \in Nat
    BY FullNat
  <2> QED BY <2>1 DEF LimitInit, LimitInv, LimitIdle
<1>2. LimitInv /\ [LimitNext]_limitVars
      => LimitInv' /\ [\A a \in Addresses : ChargeOK(a)]_limitVars
  BY LimitStep
<1> QED BY <1>1, <1>2, PTL DEF LimitSpec, OnlyFailuresCharge, ChargeOK

=============================================================================
