------------------------- MODULE Services_accounts --------------------------
(***************************************************************************)
(* Theorems about the parts of Services that keep the account, its clients *)
(* and what belongs to them: for any number of processes, agents, clients, *)
(* forms and events.  The names of a part's lemmas begin with the part.  Each *)
(* part has an inductive invariant, one lemma for each action that keeps it, *)
(* and theorems about its own specification; PartsRun carries them over to *)
(* ServicesSpec.                                                           *)
(***************************************************************************)
EXTENDS Services, Sequences, TLAPS

\* A behaviour of the services is a behaviour of every part.
THEOREM PartsRun ==
  ServicesSpec => /\ Spec
                  /\ Tokens!Spec /\ Accounts!Spec /\ Tenants!Spec /\ Credentials!Spec
                  /\ SiteAudit!Spec /\ Lighthouse!Spec /\ Inventory!Spec
                  /\ PageIntents!Spec /\ Requests!Spec
<1>1. ServicesInit => /\ Init
                      /\ Tokens!Init /\ Accounts!Init /\ Tenants!Init /\ Credentials!Init
                      /\ SiteAudit!Init /\ Lighthouse!Init /\ Inventory!Init
                      /\ PageIntents!Init /\ Requests!Init
  BY DEF ServicesInit
<1>2. [ServicesNext]_allVars => [Next]_(vars) /\ [Tokens!Next]_(Tokens!vars)
  BY DEF ServicesNext, allVars, tVars, Tokens!vars
<1>3. [ServicesNext]_allVars => [Accounts!Next]_(Accounts!vars) /\ [Tenants!Next]_(Tenants!vars)
  BY DEF ServicesNext, allVars, aVars, nVars, Accounts!vars, Tenants!vars
<1>4. [ServicesNext]_allVars =>
        [Credentials!Next]_(Credentials!vars) /\ [SiteAudit!Next]_(SiteAudit!vars)
  BY DEF ServicesNext, allVars, kVars, rVars, Credentials!vars, SiteAudit!vars
<1>5. [ServicesNext]_allVars =>
        [Lighthouse!Next]_(Lighthouse!vars) /\ [Inventory!Next]_(Inventory!vars)
  BY DEF ServicesNext, allVars, lVars, vVars, Lighthouse!vars, Inventory!vars
<1>6. [ServicesNext]_allVars =>
        [PageIntents!Next]_(PageIntents!vars) /\ [Requests!Next]_(Requests!vars)
  BY DEF ServicesNext, allVars, pVars, qVars, PageIntents!vars, Requests!vars
<1>. QED
  BY <1>1, <1>2, <1>3, <1>4, <1>5, <1>6, PTL
  DEF ServicesSpec, Spec, Tokens!Spec, Accounts!Spec, Tenants!Spec, Credentials!Spec,
      SiteAudit!Spec, Lighthouse!Spec, Inventory!Spec, PageIntents!Spec, Requests!Spec

-----------------------------------------------------------------------------
(* The account (billing.py, enforce.py, migrations.py, public.py).         *)

\* A hook updates a row only once there is one.
AccountUpdatedExists == \A w \in Webs : aHooks[w] # None /\ aHooks[w].at = "updating"
  => aSub # None

AccountPersonType == aUser \in Accounts!Users \cup {None} /\ aSub \in Accounts!Subs \cup {None}
  /\ aClients \in Nat
AccountStripeType  == aStripe \in [1..MaxPurchases -> Accounts!Bought \cup {None}]
AccountEventType   == aEvents \subseteq Accounts!Event /\ aSent \in 0..MaxEvents
AccountHookType    == aHooks \in [Webs -> Accounts!Hook \cup {None}] /\ aPassed \subseteq Webs
AccountCountType   == aFailures \in 0..MaxFailures /\ aLast \in 0..MaxEvents
/\ aMuddled \in BOOLEAN

AccountIInv == AccountPersonType /\ AccountStripeType /\ AccountEventType /\ AccountHookType
  /\ AccountCountType /\ AccountUpdatedExists

-----------------------------------------------------------------------------
(* Stripe and its events.                                                  *)

LEMMA AccountSendsType ==
  ASSUME Accounts!ConstantsAssumption, AccountEventType, NEW plan \in Accounts!Priced,
         NEW status \in Accounts!Statuses,
         NEW kinds \in Seq({"completed", "changed", "deleted", "failed"}),
         Accounts!Sends(kinds, plan, status)
  PROVE  AccountEventType'
<1>1. Len(kinds) \in Nat /\ DOMAIN kinds = 1..Len(kinds)
  OBVIOUS
<1>2. aSent' \in 0..MaxEvents
  BY <1>1 DEF Accounts!Sends, AccountEventType, Accounts!ConstantsAssumption
<1>3. ASSUME NEW k \in DOMAIN kinds
      PROVE  [n |-> aSent + k, kind |-> kinds[k], plan |-> plan, status |-> status]
               \in Accounts!Event
  <2>1. aSent + k \in 1..MaxEvents
    BY <1>1 DEF Accounts!Sends, AccountEventType, Accounts!ConstantsAssumption
  <2>2. kinds[k] \in {"completed", "changed", "deleted", "failed"}
    BY <1>1
  <2>. QED
    BY <2>1, <2>2 DEF Accounts!Event
<1>4. aEvents' \subseteq Accounts!Event
  BY <1>3 DEF Accounts!Sends, Accounts!Numbered, AccountEventType
<1>. QED
  BY <1>2, <1>4 DEF AccountEventType

LEMMA AccountStripeSteps ==
  ASSUME Accounts!ConstantsAssumption, AccountIInv, NEW i \in 1..MaxPurchases,
         \/ Accounts!Ends(i)
         \/ \E plan \in Accounts!Priced : Accounts!Purchase(i, plan)
         \/ \E status \in Accounts!Statuses : Accounts!BillingChanges(i, status)
  PROVE  AccountIInv'
<1>. USE DEF AccountIInv
<1>1. /\ UNCHANGED <<aUser, aSub, aClients, aPassed, aHooks, aFailures, aLast>>
      /\ aMuddled' \in BOOLEAN
  BY DEF Accounts!Ends, Accounts!Purchase, Accounts!BillingChanges, AccountCountType
<1>2. AccountPersonType' /\ AccountHookType' /\ AccountCountType' /\ AccountUpdatedExists'
  BY <1>1 DEF AccountPersonType, AccountHookType, AccountCountType, AccountUpdatedExists
<1>3. aStripe[i] \in Accounts!Bought \cup {None}
  BY DEF AccountStripeType
<1>4. CASE Accounts!Ends(i)
  <2>1. aStripe[i] \in Accounts!Bought
    BY <1>3, <1>4 DEF Accounts!Ends, Accounts!Open
  <2>2. AccountStripeType'
    BY <1>4, <2>1 DEF Accounts!Ends, AccountStripeType, Accounts!Bought
  <2>3. AccountEventType'
    <3>1. aStripe[i].plan \in Accounts!Priced /\ "active" \in Accounts!Statuses
      BY <2>1 DEF Accounts!Bought, Accounts!Statuses
    <3>2. <<"deleted">> \in Seq({"completed", "changed", "deleted", "failed"})
      OBVIOUS
    <3>. QED
      BY <1>4, <3>1, <3>2, AccountSendsType DEF Accounts!Ends
  <2>. QED
    BY <1>2, <2>2, <2>3
<1>5. ASSUME NEW plan \in Accounts!Priced, Accounts!Purchase(i, plan) PROVE AccountIInv'
  <2>1. [plan |-> plan, status |-> "active"] \in Accounts!Bought
    BY DEF Accounts!Bought, Accounts!Statuses
  <2>2. AccountStripeType'
    BY <1>5, <2>1 DEF Accounts!Purchase, AccountStripeType
  <2>3. AccountEventType'
    <3>1. <<"completed", "changed">> \in Seq({"completed", "changed", "deleted", "failed"})
      OBVIOUS
    <3>2. "active" \in Accounts!Statuses
      BY DEF Accounts!Statuses
    <3>. QED
      BY <1>5, <3>1, <3>2, AccountSendsType DEF Accounts!Purchase
  <2>. QED
    BY <1>2, <2>2, <2>3
<1>6. ASSUME NEW status \in Accounts!Statuses, Accounts!BillingChanges(i, status)
      PROVE  AccountIInv'
  <2>1. aStripe[i] \in Accounts!Bought
    BY <1>3, <1>6 DEF Accounts!BillingChanges, Accounts!Open
  <2>2. AccountStripeType'
    BY <1>6, <2>1 DEF Accounts!BillingChanges, AccountStripeType, Accounts!Bought
  <2>3. AccountEventType'
    <3>1. /\ <<"failed", "changed">> \in Seq({"completed", "changed", "deleted", "failed"})
          /\ <<"changed">> \in Seq({"completed", "changed", "deleted", "failed"})
      OBVIOUS
    <3>2. aStripe[i].plan \in Accounts!Priced
      BY <2>1 DEF Accounts!Bought
    <3>. QED
      BY <1>6, <3>1, <3>2, AccountSendsType DEF Accounts!BillingChanges
  <2>. QED
    BY <1>2, <2>2, <2>3
<1>. QED
  BY <1>4, <1>5, <1>6

-----------------------------------------------------------------------------
(* The account.                                                            *)

LEMMA AccountAccountSteps ==
  ASSUME Accounts!ConstantsAssumption, AccountIInv,
         \/ Accounts!WizardComplete \/ Accounts!ActivateTrial \/ Accounts!TrialEnds
            \/ Accounts!CancelPlan \/ Accounts!DeleteClient
         \/ \E w \in Webs : Accounts!CreateChecks(w) \/ Accounts!CreateInserts(w)
  PROVE  AccountIInv'
<1>. USE DEF AccountIInv
<1>1. UNCHANGED <<aSub, Accounts!stripeVars>>
  BY DEF Accounts!WizardComplete, Accounts!ActivateTrial, Accounts!TrialEnds,
     Accounts!CancelPlan, Accounts!DeleteClient, Accounts!CreateChecks,
         Accounts!CreateInserts, Accounts!stripeVars
<1>2. aPassed' \subseteq Webs
  BY DEF Accounts!WizardComplete, Accounts!ActivateTrial, Accounts!TrialEnds,
     Accounts!CancelPlan, Accounts!DeleteClient, Accounts!CreateChecks,
         Accounts!CreateInserts, AccountHookType
<1>3. aClients' \in Nat
  BY DEF Accounts!WizardComplete, Accounts!ActivateTrial, Accounts!TrialEnds,
     Accounts!CancelPlan, Accounts!DeleteClient, Accounts!CreateChecks,
         Accounts!CreateInserts, AccountPersonType
<1>4. aUser' \in Accounts!Users \cup {None}
  <2>1. CASE Accounts!WizardComplete \/ Accounts!ActivateTrial
    BY <2>1 DEF Accounts!WizardComplete, Accounts!ActivateTrial, Accounts!Users
  <2>2. CASE Accounts!TrialEnds \/ Accounts!CancelPlan
    BY <2>2 DEF Accounts!TrialEnds, Accounts!CancelPlan, AccountPersonType, Accounts!Users
  <2>3. CASE Accounts!DeleteClient \/ \E w \in Webs : Accounts!CreateChecks(w)
             \/ Accounts!CreateInserts(w)
    BY <2>3
    DEF Accounts!DeleteClient, Accounts!CreateChecks, Accounts!CreateInserts, AccountPersonType
  <2>. QED
    BY <2>1, <2>2, <2>3
<1>. QED
  BY <1>1, <1>2, <1>3, <1>4
  DEF Accounts!stripeVars, AccountPersonType, AccountStripeType, AccountEventType,
      AccountHookType, AccountCountType, AccountUpdatedExists

-----------------------------------------------------------------------------
(* The webhook.                                                            *)

\* Whatever an event writes is a row.
LEMMA AccountRecordedType ==
  ASSUME NEW e \in Accounts!Event, aSub \in Accounts!Subs
  PROVE  Accounts!Recorded(e) \in Accounts!Subs
<1>1. CASE e.kind = "completed"
  BY <1>1 DEF Accounts!Recorded, Accounts!Event, Accounts!Subs, Accounts!Plans,
     Accounts!Priced, Accounts!Statuses
<1>2. CASE e.kind = "changed"
  BY <1>2 DEF Accounts!Recorded, Accounts!Event, Accounts!Subs, Accounts!Plans,
     Accounts!Priced, Accounts!Statuses
<1>3. CASE e.kind = "deleted"
  BY <1>3 DEF Accounts!Recorded, Accounts!Event, Accounts!Subs, Accounts!Plans,
     Accounts!Priced, Accounts!Statuses
<1>4. CASE e.kind = "failed"
  BY <1>4 DEF Accounts!Recorded, Accounts!Event, Accounts!Subs, Accounts!Plans,
     Accounts!Priced, Accounts!Statuses
<1>. QED
  BY <1>1, <1>2, <1>3, <1>4 DEF Accounts!Event

LEMMA AccountWebhookSteps ==
  ASSUME Accounts!ConstantsAssumption, AccountIInv, NEW w \in Webs,
         \/ Accounts!Ensures(w) \/ Accounts!Inserts(w) \/ Accounts!Updates(w)
            \/ Accounts!HookFails(w)
         \/ \E e \in aEvents : Accounts!Delivered(w, e)
  PROVE  AccountIInv'
<1>. USE DEF AccountIInv
<1>1. UNCHANGED <<aUser, aClients, aPassed, aStripe, aSent>>
  BY DEF Accounts!Ensures, Accounts!Inserts, Accounts!Updates, Accounts!HookFails,
     Accounts!Delivered
<1>2. aEvents' \subseteq aEvents
  BY DEF Accounts!Ensures, Accounts!Inserts, Accounts!Updates, Accounts!HookFails,
     Accounts!Delivered
<1>3. aFailures' \in 0..MaxFailures /\ aMuddled' \in BOOLEAN
  <2>1. aMuddled' \in BOOLEAN
    BY Zenon DEF Accounts!Ensures, Accounts!Inserts, Accounts!Updates, Accounts!HookFails,
       Accounts!Delivered, AccountCountType
  <2>2. aFailures' = aFailures \/ Accounts!Fails
    BY DEF Accounts!Ensures, Accounts!Inserts, Accounts!Updates, Accounts!HookFails,
       Accounts!Delivered
  <2>. QED
    BY <2>1, <2>2 DEF Accounts!Fails, AccountCountType, Accounts!ConstantsAssumption
<1>4. aHooks[w] # None => aHooks[w] \in Accounts!Hook
  BY DEF AccountHookType
<1>5. AccountStripeType' /\ AccountEventType'
  BY <1>1, <1>2 DEF AccountStripeType, AccountEventType
<1>6. ASSUME aLast' \in 0..MaxEvents, aSub' \in Accounts!Subs \cup {None},
             aSub # None => aSub' # None,
             NEW h \in Accounts!Hook \cup {None}, aHooks' = [aHooks EXCEPT ![w] = h],
             h # None => (h.at = "updating" => aSub' # None)
      PROVE  AccountIInv'
  <2>1. AccountPersonType' /\ AccountCountType'
    BY <1>1, <1>3, <1>6 DEF AccountPersonType, AccountCountType
  <2>2. AccountHookType'
    BY <1>1, <1>6 DEF AccountHookType
  <2>3. AccountUpdatedExists'
    BY <1>6 DEF AccountUpdatedExists, AccountHookType
  <2>. QED
    BY <1>5, <2>1, <2>2, <2>3
<1>7. ASSUME NEW e \in aEvents, Accounts!Delivered(w, e) PROVE AccountIInv'
  <2>1. [at |-> "ensuring", event |-> e] \in Accounts!Hook
    BY DEF Accounts!Hook, AccountEventType
  <2>. QED
    BY <1>6, <1>7, <2>1 DEF Accounts!Delivered, AccountPersonType, AccountCountType
<1>8. CASE Accounts!Ensures(w)
  <2>1. PICK h \in Accounts!Hook : aHooks' = [aHooks EXCEPT ![w] = h] /\ (h.at = "updating"
                                     => aSub # None)
    <3>1. aHooks[w] \in Accounts!Hook
      BY <1>4, <1>8 DEF Accounts!Ensures
    <3>2. /\ [aHooks[w] EXCEPT !.at = "inserting"] \in Accounts!Hook
          /\ [aHooks[w] EXCEPT !.at = "inserting"].at = "inserting"
          /\ [aHooks[w] EXCEPT !.at = "updating"] \in Accounts!Hook
      BY <3>1 DEF Accounts!Hook
    <3>3. CASE aSub = None
      <4>1. aHooks' = [aHooks EXCEPT ![w] = [aHooks[w] EXCEPT !.at = "inserting"]]
        BY <1>8, <3>3 DEF Accounts!Ensures
      <4>. QED
        BY <3>2, <4>1
    <3>4. CASE aSub # None
      <4>1. aHooks' = [aHooks EXCEPT ![w] = [aHooks[w] EXCEPT !.at = "updating"]]
        BY <1>8, <3>4 DEF Accounts!Ensures
      <4>. QED
        BY <3>2, <3>4, <4>1
    <3>. QED
      BY <3>3, <3>4
  <2>. QED
    BY <1>6, <1>8, <2>1 DEF Accounts!Ensures, AccountPersonType, AccountCountType
<1>9. CASE Accounts!Inserts(w)
  <2>1. [plan |-> "free", status |-> "inactive"] \in Accounts!Subs
    BY DEF Accounts!Subs, Accounts!Plans
  <2>2. [aHooks[w] EXCEPT !.at = "updating"] \in Accounts!Hook
    BY <1>4, <1>9 DEF Accounts!Inserts, Accounts!Hook
  <2>3. CASE aSub = None
    <3>1. aSub' \in Accounts!Subs /\ aSub' # None
      BY <1>9, <2>1, <2>3 DEF Accounts!Inserts, Accounts!ConstantsAssumption
    <3>2. aHooks' = [aHooks EXCEPT ![w] = [aHooks[w] EXCEPT !.at = "updating"]]
      BY <1>9, <2>3 DEF Accounts!Inserts
    <3>. QED
      BY <1>6, <1>9, <2>2, <3>1, <3>2 DEF Accounts!Inserts, AccountCountType
  <2>4. CASE aSub # None
    BY <1>6, <1>9, <2>4 DEF Accounts!Inserts, AccountPersonType, AccountCountType
  <2>. QED
    BY <2>3, <2>4
<1>10. CASE Accounts!Updates(w)
  <2>1. aHooks[w] \in Accounts!Hook /\ aHooks[w].event \in Accounts!Event
    BY <1>4, <1>10 DEF Accounts!Updates, Accounts!Hook
  <2>2. aSub \in Accounts!Subs
    BY <1>10 DEF Accounts!Updates, AccountUpdatedExists, AccountPersonType
  <2>3. aSub' \in Accounts!Subs /\ aSub' # None
    BY <1>10, <2>1, <2>2, AccountRecordedType DEF Accounts!Updates, Accounts!ConstantsAssumption
  <2>4. aLast' \in 0..MaxEvents
    BY <1>10, <2>1
    DEF Accounts!Updates, AccountCountType, Accounts!Event, Accounts!ConstantsAssumption
  <2>. QED
    BY <1>6, <1>10, <2>3, <2>4 DEF Accounts!Updates
<1>11. CASE Accounts!HookFails(w)
  BY <1>6, <1>11 DEF Accounts!HookFails, AccountPersonType, AccountCountType
<1>. QED
  BY <1>7, <1>8, <1>9, <1>10, <1>11

-----------------------------------------------------------------------------
LEMMA AccountInitHolds == ASSUME Accounts!ConstantsAssumption, Accounts!Init PROVE AccountIInv
<1>1. AccountPersonType /\ AccountStripeType /\ AccountEventType /\ AccountHookType
      /\ AccountCountType
  <2>1. AccountPersonType /\ AccountHookType
    BY DEF Accounts!Init, AccountPersonType, AccountHookType
  <2>2. AccountStripeType
    BY DEF Accounts!Init, AccountStripeType
  <2>3. 0 \in 0..MaxEvents /\ 0 \in 0..MaxFailures
    BY DEF Accounts!ConstantsAssumption
  <2>4. AccountEventType /\ AccountCountType
    BY <2>3 DEF Accounts!Init, AccountEventType, AccountCountType
  <2>. QED
    BY <2>1, <2>2, <2>4
<1>2. AccountUpdatedExists
  BY DEF Accounts!Init, AccountUpdatedExists
<1>. QED
  BY <1>1, <1>2 DEF AccountIInv

LEMMA AccountStepKeeps ==
  ASSUME Accounts!ConstantsAssumption, AccountIInv, [Accounts!Next]_(Accounts!vars)
  PROVE  AccountIInv'
<1>1. CASE UNCHANGED Accounts!vars
  BY <1>1
  DEF Accounts!vars, AccountIInv, AccountPersonType, AccountStripeType, AccountEventType,
      AccountHookType, AccountCountType, AccountUpdatedExists
<1>. QED
  BY <1>1, AccountStripeSteps, AccountAccountSteps, AccountWebhookSteps DEF Accounts!Next

\* The types, for events in any order and as many as there are (billing.py).
THEOREM AccountTypeCorrect ==
  ASSUME Accounts!ConstantsAssumption
  PROVE  Accounts!Spec => []Accounts!TypeOK
<1>1. Accounts!Init => AccountIInv
  BY AccountInitHolds
<1>2. AccountIInv /\ [Accounts!Next]_(Accounts!vars) => AccountIInv'
  BY AccountStepKeeps
<1>3. AccountIInv => Accounts!TypeOK
  BY DEF AccountIInv, AccountPersonType, AccountStripeType, AccountEventType, AccountHookType,
     AccountCountType, Accounts!TypeOK, Accounts!Users, Accounts!Subs
<1>. QED
  BY <1>1, <1>2, <1>3, PTL DEF Accounts!Spec

-----------------------------------------------------------------------------
(* What the trigger permits is within the plan that Python resolves.       *)

LEMMA AccountSamePlan ==
  ASSUME Accounts!ConstantsAssumption, Accounts!TypeOK, aUser # None, Accounts!Permitted
  PROVE  aClients < Accounts!LimitOf(Accounts!EffectivePlan)
<1>1. aUser \in Accounts!Users /\ aSub \in Accounts!Subs \cup {None}
  BY DEF Accounts!TypeOK, Accounts!Users, Accounts!Subs
<1>2. CASE Accounts!Subscribed
  <2>1. aSub.plan \in Accounts!Plans
    BY <1>1, <1>2 DEF Accounts!Subscribed, Accounts!Subs
  <2>. QED
    BY <1>2, <2>1 DEF Accounts!Permitted, Accounts!EffectivePlan, Accounts!LimitOf
<1>3. CASE ~Accounts!Subscribed
  <2>1. CASE aUser.plan = "trial" /\ aUser.trial = "running"
    BY <1>3, <2>1 DEF Accounts!Permitted, Accounts!EffectivePlan, Accounts!OwnPlan,
       Accounts!LimitOf, Accounts!Plans
  <2>2. CASE aUser.plan = "trial" /\ aUser.trial # "running"
    BY <1>3, <2>2 DEF Accounts!Permitted, Accounts!EffectivePlan, Accounts!OwnPlan,
       Accounts!LimitOf, Accounts!Plans, Accounts!Priced
  <2>3. CASE aUser.plan = "free"
    BY <1>3, <2>3 DEF Accounts!Permitted, Accounts!EffectivePlan, Accounts!OwnPlan,
       Accounts!LimitOf, Accounts!Plans, Accounts!Priced
  <2>4. CASE aUser.plan = "cancelled"
    BY <1>3, <2>4 DEF Accounts!Permitted, Accounts!EffectivePlan, Accounts!OwnPlan,
       Accounts!LimitOf, Accounts!Plans, Accounts!Priced
  <2>. QED
    BY <1>1, <2>1, <2>2, <2>3, <2>4 DEF Accounts!Users
<1>. QED
  BY <1>2, <1>3

\* However requests and changes of plan interleave, a client is added only below
\* the limit of the plan the account has then: the trigger of migrations.py
\* resolves the plan that get_user_plan resolves.
THEOREM AccountPlanHolds ==
  ASSUME Accounts!ConstantsAssumption
  PROVE  Accounts!Spec => Accounts!ClientsWithinPlan
<1>1. ASSUME Accounts!TypeOK, [Accounts!Next]_(Accounts!vars), aClients' > aClients,
             aUser # None
      PROVE  aClients < Accounts!LimitOf(Accounts!EffectivePlan)
  <2>1. aClients \in Nat
    BY <1>1 DEF Accounts!TypeOK
  <2>2. CASE UNCHANGED aClients
    BY <1>1, <2>1, <2>2
  <2>3. CASE Accounts!WizardComplete \/ Accounts!DeleteClient
    BY <1>1, <2>1, <2>3 DEF Accounts!WizardComplete, Accounts!DeleteClient
  <2>4. ASSUME NEW w \in Webs, Accounts!CreateInserts(w)
        PROVE  aClients < Accounts!LimitOf(Accounts!EffectivePlan)
    <3>1. Accounts!Permitted
      BY <1>1, <2>1, <2>4 DEF Accounts!CreateInserts
    <3>. QED
      BY <1>1, <3>1, AccountSamePlan
  <2>. QED
    BY <1>1, <2>2, <2>3, <2>4
    DEF Accounts!Next, Accounts!vars, Accounts!ActivateTrial, Accounts!TrialEnds,
        Accounts!CancelPlan, Accounts!CreateChecks, Accounts!Ends, Accounts!Purchase,
        Accounts!BillingChanges, Accounts!Ensures, Accounts!Inserts, Accounts!Updates,
        Accounts!HookFails, Accounts!Delivered
<1>2. Accounts!TypeOK /\ [Accounts!Next]_(Accounts!vars) =>
        [aClients' > aClients /\ aUser # None
          => aClients < Accounts!LimitOf(Accounts!EffectivePlan)]_(Accounts!vars)
  BY <1>1
<1>. QED
  BY <1>2, AccountTypeCorrect, PTL DEF Accounts!Spec, Accounts!ClientsWithinPlan

-----------------------------------------------------------------------------
(* The row of subscriptions follows Stripe.  While no event was lost, came *)
(* after a later one or was of a second subscription, each event that was  *)
(* sent is pending or no later than the last one written; the latest event *)
(* tells what Stripe has; so once it is written, the row says so.          *)

AccountPending == aEvents \cup {aHooks[w].event : w \in {v \in Webs : aHooks[v] # None}}

\* What an event says is what Stripe has.
AccountTelling(e) ==
  IF e.kind = "deleted" THEN \A i \in 1..MaxPurchases : ~Accounts!Open(i)
  ELSE /\ e.kind = "changed"
       /\ \E i \in 1..MaxPurchases :
            Accounts!Open(i) /\ aStripe[i].plan = e.plan /\ aStripe[i].status = e.status

\* What the row says is what Stripe has.
AccountServed ==
  /\ aSub # None
  /\ \/ aSub.status \notin Accounts!Live /\ \A i \in 1..MaxPurchases : ~Accounts!Open(i)
     \/ \E i \in 1..MaxPurchases :
          Accounts!Open(i) /\ aSub.plan = aStripe[i].plan /\ aSub.status = aStripe[i].status

AccountNumbers == aLast <= aSent /\ \A e \in AccountPending : e.n <= aSent
AccountBeginning == aSent = 0 => aSub = None /\ \A i \in 1..MaxPurchases : aStripe[i] = None
AccountOneOpen == \A i, j \in 1..MaxPurchases : Accounts!Open(i) /\ Accounts!Open(j) => i = j
AccountNoneLost == \A n \in 1..aSent : n <= aLast \/ \E e \in AccountPending : e.n = n
AccountLatestTells == \A e \in AccountPending : e.n = aSent => AccountTelling(e)
AccountLastServes == aLast = aSent /\ aSent > 0 => AccountServed

AccountPaidInv ==
  /\ AccountNumbers /\ AccountBeginning
  /\ ~aMuddled => AccountOneOpen /\ AccountNoneLost /\ AccountLatestTells /\ AccountLastServes

LEMMA AccountPendingType == ASSUME AccountIInv PROVE AccountPending \subseteq Accounts!Event
BY DEF AccountIInv, AccountEventType, AccountHookType, Accounts!Hook, AccountPending

\* An event or two are sent, of which the last tells what Stripe has now.
LEMMA AccountSentKeeps ==
  ASSUME Accounts!ConstantsAssumption, AccountIInv, AccountPaidInv, NEW plan, NEW status,
         NEW kinds \in Seq({"completed", "changed", "deleted", "failed"}),
         Accounts!Sends(kinds, plan, status), Len(kinds) > 0, UNCHANGED <<aSub, aHooks, aLast>>,
         NEW latest, latest = [n |-> aSent', kind |-> kinds[Len(kinds)], plan |-> plan,
                               status |-> status],
         ~aMuddled' => ~aMuddled /\ AccountOneOpen' /\ AccountTelling(latest)'
  PROVE  AccountPaidInv'
<1>1. /\ Len(kinds) \in Nat \ {0} /\ DOMAIN kinds = 1..Len(kinds)
      /\ aSent \in Nat /\ aLast \in Nat /\ aSent' = aSent + Len(kinds)
  BY DEF Accounts!Sends, AccountIInv, AccountEventType, AccountCountType
<1>2. \A e : e \in AccountPending' <=>
               \/ e \in AccountPending
               \/ \E k \in 1..Len(kinds) :
                    e = [n |-> aSent + k, kind |-> kinds[k], plan |-> plan, status |-> status]
  BY <1>1 DEF AccountPending, Accounts!Sends, Accounts!Numbered
<1>3. aSent' > aSent /\ aLast' = aLast /\ aLast < aSent'
  BY <1>1 DEF AccountPaidInv, AccountNumbers
<1>4. AccountNumbers'
  <2>1. \A e \in AccountPending : e.n \in Nat /\ e.n <= aSent
    BY AccountPendingType DEF Accounts!Event, AccountPaidInv, AccountNumbers
  <2>. QED
    BY <1>1, <1>2, <1>3, <2>1 DEF AccountNumbers
<1>5. AccountBeginning' /\ AccountLastServes'
  BY <1>1, <1>3 DEF AccountBeginning, AccountLastServes
<1>6. ASSUME ~aMuddled' PROVE AccountNoneLost' /\ AccountLatestTells'
  <2>1. ASSUME NEW n \in 1..aSent'
        PROVE  n <= aLast' \/ \E e \in AccountPending' : e.n = n
    <3>1. CASE n <= aSent
      BY <1>1, <1>2, <1>3, <1>6, <3>1 DEF AccountPaidInv, AccountNoneLost
    <3>2. CASE n > aSent
      <4>1. n - aSent \in 1..Len(kinds) /\ aSent + (n - aSent) = n
        BY <1>1, <3>2
      <4>2. PICK k \in 1..Len(kinds) : aSent + k = n
        BY <4>1
      <4>3. [n |-> aSent + k, kind |-> kinds[k], plan |-> plan, status |-> status]
              \in AccountPending'
        BY <1>2
      <4>. QED
        BY <4>2, <4>3
    <3>. QED
      BY <1>1, <3>1, <3>2
  <2>2. ASSUME NEW e \in AccountPending', e.n = aSent' PROVE e = latest
    <3>1. e \notin AccountPending
      BY <1>1, <1>3, <2>2 DEF AccountPaidInv, AccountNumbers
    <3>2. PICK k \in 1..Len(kinds) :
            e = [n |-> aSent + k, kind |-> kinds[k], plan |-> plan, status |-> status]
      BY <1>2, <3>1
    <3>3. e.n = aSent + k
      BY <3>2
    <3>4. k = Len(kinds)
      <4>1. aSent + k = aSent + Len(kinds)
        BY <1>1, <2>2, <3>3
      <4>2. aSent \in Nat /\ k \in Nat /\ Len(kinds) \in Nat
        BY <1>1
      <4>. QED
        BY <4>1, <4>2
    <3>. QED
      BY <1>1, <3>2, <3>4
  <2>3. ASSUME NEW e \in AccountPending', e.n = aSent' PROVE AccountTelling(e)'
    BY <1>6, <2>2, <2>3
  <2>. QED
    BY <2>1, <2>3 DEF AccountNoneLost, AccountLatestTells
<1>. QED
  BY <1>4, <1>5, <1>6 DEF AccountPaidInv

LEMMA AccountStripeServes ==
  ASSUME Accounts!ConstantsAssumption, AccountIInv, AccountPaidInv, NEW i \in 1..MaxPurchases,
         \/ Accounts!Ends(i)
         \/ \E plan \in Accounts!Priced : Accounts!Purchase(i, plan)
         \/ \E status \in Accounts!Statuses : Accounts!BillingChanges(i, status)
  PROVE  AccountPaidInv'
<1>1. aStripe \in [1..MaxPurchases -> Accounts!Bought \cup {None}]
      /\ UNCHANGED <<aSub, aHooks, aLast>>
  BY
  DEF AccountIInv, AccountStripeType, Accounts!Ends, Accounts!Purchase, Accounts!BillingChanges
<1>2. ~aMuddled => AccountOneOpen
  BY DEF AccountPaidInv
<1>3. CASE Accounts!Ends(i)
  <2>1. /\ Accounts!Sends(<<"deleted">>, aStripe[i].plan, "active") /\ aMuddled' = aMuddled
           /\ Accounts!Open(i)
        /\ aStripe' = [aStripe EXCEPT ![i].status = "canceled"]
    BY <1>3 DEF Accounts!Ends
  <2>2. ASSUME NEW j \in 1..MaxPurchases, Accounts!Open(j)' PROVE Accounts!Open(j) /\ j # i
    BY <1>1, <2>1, <2>2 DEF Accounts!Open, Accounts!Bought
  <2>3. PICK latest : latest = [n |-> aSent', kind |-> "deleted", plan |-> aStripe[i].plan,
                                status |-> "active"]
    OBVIOUS
  <2>4. ASSUME ~aMuddled' PROVE AccountOneOpen' /\ AccountTelling(latest)'
    <3>1. ASSUME NEW j \in 1..MaxPurchases PROVE ~Accounts!Open(j)'
      BY <1>2, <2>1, <2>2, <2>4, <3>1 DEF AccountOneOpen
    <3>. QED
      BY <2>3, <3>1 DEF AccountOneOpen, AccountTelling
  <2>5. PICK kinds : kinds = <<"deleted">>
    OBVIOUS
  <2>6. kinds \in Seq({"completed", "changed", "deleted", "failed"}) /\ Len(kinds) > 0
        /\ kinds[Len(kinds)] = "deleted"
    BY <2>5
  <2>7. Accounts!Sends(kinds, aStripe[i].plan, "active") /\ latest =
          [n |-> aSent', kind |-> kinds[Len(kinds)], plan |-> aStripe[i].plan,
           status |-> "active"]
    BY <2>1, <2>3, <2>5, <2>6
  <2>8. ~aMuddled' => ~aMuddled /\ AccountOneOpen' /\ AccountTelling(latest)'
    BY <2>1, <2>4
  <2>. QED
    BY <1>1, <2>6, <2>7, <2>8, AccountSentKeeps, Zenon
<1>4. ASSUME NEW plan \in Accounts!Priced, Accounts!Purchase(i, plan) PROVE AccountPaidInv'
  <2>1. /\ Accounts!Sends(<<"completed", "changed">>, plan, "active")
        /\ aStripe' = [aStripe EXCEPT ![i] = [plan |-> plan, status |-> "active"]]
        /\ aMuddled' = (aMuddled \/ \E j \in 1..MaxPurchases : Accounts!Open(j))
    BY <1>4 DEF Accounts!Purchase
  <2>2. aStripe'[i] = [plan |-> plan, status |-> "active"] /\ aStripe'[i] # None
    <3>1. [plan |-> plan, status |-> "active"] \in Accounts!Bought
      BY DEF Accounts!Bought, Accounts!Statuses
    <3>. QED
      BY <1>1, <2>1, <3>1 DEF Accounts!ConstantsAssumption
  <2>3. Accounts!Open(i)' /\ aStripe'[i].plan = plan /\ aStripe'[i].status = "active"
    BY <2>2 DEF Accounts!Open
  <2>4. PICK latest : latest = [n |-> aSent', kind |-> "changed", plan |-> plan,
                                status |-> "active"]
    OBVIOUS
  <2>5. ASSUME ~aMuddled' PROVE ~aMuddled /\ AccountOneOpen' /\ AccountTelling(latest)'
    <3>1. ~aMuddled /\ \A j \in 1..MaxPurchases : ~Accounts!Open(j)
      BY <2>1, <2>5, Zenon
    <3>2. ASSUME NEW j \in 1..MaxPurchases, j # i PROVE ~Accounts!Open(j)'
      BY <1>1, <2>1, <3>1, <3>2 DEF Accounts!Open
    <3>3. AccountOneOpen'
      BY <3>2 DEF AccountOneOpen
    <3>. QED
      BY <2>3, <2>4, <3>1, <3>3 DEF AccountTelling
  <2>6. PICK kinds : kinds = <<"completed", "changed">>
    OBVIOUS
  <2>7. kinds \in Seq({"completed", "changed", "deleted", "failed"}) /\ Len(kinds) > 0
        /\ kinds[Len(kinds)] = "changed"
    BY <2>6
  <2>8. Accounts!Sends(kinds, plan, "active") /\ latest =
          [n |-> aSent', kind |-> kinds[Len(kinds)], plan |-> plan, status |-> "active"]
    BY <2>1, <2>4, <2>6, <2>7
  <2>. QED
    BY <1>1, <2>5, <2>7, <2>8, AccountSentKeeps, Zenon
<1>5. ASSUME NEW status \in Accounts!Statuses, Accounts!BillingChanges(i, status)
      PROVE  AccountPaidInv'
  <2>1. PICK kinds : kinds = IF status = "past_due" THEN <<"failed", "changed">>
                             ELSE <<"changed">>
    OBVIOUS
  <2>2. /\ Accounts!Sends(kinds, aStripe[i].plan, status) /\ Accounts!Open(i)
           /\ aMuddled' = aMuddled
        /\ aStripe' = [aStripe EXCEPT ![i].status = status]
    BY <1>5, <2>1 DEF Accounts!BillingChanges
  <2>3. kinds \in Seq({"completed", "changed", "deleted", "failed"}) /\ Len(kinds) > 0
        /\ kinds[Len(kinds)] = "changed"
    <3>1. CASE status = "past_due"
      <4>1. kinds = <<"failed", "changed">>
        BY <2>1, <3>1
      <4>. QED
        BY <4>1
    <3>2. CASE status # "past_due"
      <4>1. kinds = <<"changed">>
        BY <2>1, <3>2
      <4>. QED
        BY <4>1
    <3>. QED
      BY <3>1, <3>2
  <2>4. aStripe[i] \in Accounts!Bought
    BY <1>1, <2>2 DEF Accounts!Open
  <2>5. /\ aStripe'[i] = [aStripe[i] EXCEPT !.status = status]
        /\ \A j \in 1..MaxPurchases : j # i => aStripe'[j] = aStripe[j]
    BY <1>1, <2>2
  <2>6. /\ [aStripe[i] EXCEPT !.status = status] \in Accounts!Bought
        /\ [aStripe[i] EXCEPT !.status = status].status = status
        /\ [aStripe[i] EXCEPT !.status = status].plan = aStripe[i].plan
    BY <2>4 DEF Accounts!Bought
  <2>7. Accounts!Open(i)' /\ aStripe'[i].plan = aStripe[i].plan /\ aStripe'[i].status = status
    BY <2>5, <2>6 DEF Accounts!Open, Accounts!ConstantsAssumption, Accounts!Statuses
  <2>8. ASSUME NEW j \in 1..MaxPurchases, Accounts!Open(j)' PROVE Accounts!Open(j)
    BY <2>2, <2>5, <2>8 DEF Accounts!Open
  <2>9. PICK latest : latest = [n |-> aSent', kind |-> "changed", plan |-> aStripe[i].plan,
                                status |-> status]
    OBVIOUS
  <2>10. ASSUME ~aMuddled' PROVE AccountOneOpen' /\ AccountTelling(latest)'
    <3>1. ASSUME NEW j \in 1..MaxPurchases, NEW k \in 1..MaxPurchases, Accounts!Open(j)',
                 Accounts!Open(k)'
          PROVE  j = k
      <4>1. Accounts!Open(j) /\ Accounts!Open(k)
        BY <2>8, <3>1
      <4>. QED
        BY <1>2, <2>2, <2>10, <4>1 DEF AccountOneOpen
    <3>2. AccountOneOpen'
      BY <3>1 DEF AccountOneOpen
    <3>. QED
      BY <2>7, <2>9, <3>2 DEF AccountTelling
  <2>11. Accounts!Sends(kinds, aStripe[i].plan, status) /\ latest =
           [n |-> aSent', kind |-> kinds[Len(kinds)], plan |-> aStripe[i].plan,
            status |-> status]
    BY <2>2, <2>3, <2>9
  <2>12. ~aMuddled' => ~aMuddled /\ AccountOneOpen' /\ AccountTelling(latest)'
    BY <2>2, <2>10
  <2>. QED
    BY <1>1, <2>3, <2>11, <2>12, AccountSentKeeps
<1>. QED
  BY <1>3, <1>4, <1>5

\* Every step of the webhook leaves what Stripe has as it is; each event stays
\* pending, or is written, or the account is muddled.
LEMMA AccountWebhookServes ==
  ASSUME Accounts!ConstantsAssumption, AccountIInv, AccountPaidInv, NEW w \in Webs,
         \/ Accounts!Ensures(w) \/ Accounts!Inserts(w) \/ Accounts!Updates(w)
            \/ Accounts!HookFails(w)
         \/ \E e \in aEvents : Accounts!Delivered(w, e)
  PROVE  AccountPaidInv'
<1>1. UNCHANGED <<aStripe, aSent>> /\ (\A i \in 1..MaxPurchases : Accounts!Open(i)'
        <=> Accounts!Open(i))
  BY DEF Accounts!Ensures, Accounts!Inserts, Accounts!Updates, Accounts!HookFails,
     Accounts!Delivered, Accounts!Open
<1>2. \A e : AccountTelling(e)' <=> AccountTelling(e)
  BY <1>1 DEF AccountTelling, Accounts!Open
<1>3. AccountOneOpen' <=> AccountOneOpen
  BY <1>1 DEF AccountOneOpen, Accounts!Open
<1>4. aHooks \in [Webs -> Accounts!Hook \cup {None}] /\ aSent \in Nat /\ aLast \in Nat
  BY DEF AccountIInv, AccountHookType, AccountEventType, AccountCountType
<1>5. \A e \in AccountPending : e \in Accounts!Event /\ e.n \in Nat \ {0} /\ e.n <= aSent
  BY AccountPendingType DEF Accounts!Event, AccountPaidInv, AccountNumbers
<1>6. ASSUME AccountPending' = AccountPending, UNCHANGED <<aLast, aMuddled>>,
             aSub' = aSub \/ (aSub = None /\ AccountPending # {})
      PROVE  AccountPaidInv'
  <2>1. AccountNumbers' /\ (AccountNoneLost' <=> AccountNoneLost) /\ (AccountLatestTells'
          <=> AccountLatestTells)
    BY <1>1, <1>2, <1>6 DEF AccountPaidInv, AccountNumbers, AccountNoneLost, AccountLatestTells
  <2>2. AccountBeginning'
    <3>1. CASE aSub' = aSub
      BY <1>1, <3>1 DEF AccountPaidInv, AccountBeginning
    <3>2. CASE AccountPending # {}
      BY <1>1, <1>4, <1>5, <3>2 DEF AccountBeginning
    <3>. QED
      BY <1>6, <3>1, <3>2
  <2>3. AccountLastServes => AccountLastServes'
    <3>1. CASE aSub' = aSub
      BY <1>1, <1>6, <3>1 DEF AccountLastServes, AccountServed, Accounts!Open
    <3>2. CASE aSub = None
      BY <1>1, <1>6, <3>2 DEF AccountLastServes, AccountServed
    <3>. QED
      BY <1>6, <3>1, <3>2
  <2>. QED
    BY <1>3, <1>6, <2>1, <2>2, <2>3 DEF AccountPaidInv
<1>7. ASSUME AccountPending' \subseteq AccountPending, UNCHANGED <<aLast, aSub>>, aMuddled'
      PROVE  AccountPaidInv'
  BY <1>1, <1>7 DEF AccountPaidInv, AccountNumbers, AccountBeginning
<1>8. ASSUME NEW h \in Accounts!Hook, aHooks[w] # None, aHooks' = [aHooks EXCEPT ![w] = h],
             h.event = aHooks[w].event, h # None, aEvents' = aEvents
      PROVE  AccountPending' = AccountPending
  BY <1>4, <1>8 DEF AccountPending
<1>9. ASSUME NEW at, aHooks[w] # None, at \in {"ensuring", "inserting", "updating"}
      PROVE  LET h == [aHooks[w] EXCEPT !.at = at] IN
               h \in Accounts!Hook /\ h # None /\ h.event = aHooks[w].event
  BY <1>4, <1>9 DEF Accounts!Hook, Accounts!ConstantsAssumption
<1>10. ASSUME NEW e \in aEvents, Accounts!Delivered(w, e) PROVE AccountPaidInv'
  <2>1. PICK h : h = [at |-> "ensuring", event |-> e]
    OBVIOUS
  <2>2. h \in Accounts!Hook /\ h # None /\ h.event = e
    BY <2>1 DEF Accounts!Hook, AccountIInv, AccountEventType, Accounts!ConstantsAssumption
  <2>3. aHooks[w] = None /\ aHooks' = [aHooks EXCEPT ![w] = h]
    BY <1>10, <2>1 DEF Accounts!Delivered
  <2>4. aEvents' \subseteq aEvents /\ aEvents \subseteq aEvents' \cup {e}
    BY <1>10 DEF Accounts!Delivered
  <2>5. \A v \in Webs : aHooks'[v] = IF v = w THEN h ELSE aHooks[v]
    BY <1>4, <2>3
  <2>6. AccountPending' = AccountPending
    BY <2>2, <2>3, <2>4, <2>5 DEF AccountPending
  <2>. QED
    BY <1>6, <1>10, <2>6 DEF Accounts!Delivered
<1>11. CASE Accounts!Ensures(w)
  <2>1. PICK at \in {"inserting", "updating"} :
          aHooks' = [aHooks EXCEPT ![w] = [aHooks[w] EXCEPT !.at = at]]
    BY <1>11 DEF Accounts!Ensures
  <2>2. AccountPending' = AccountPending
    BY <1>8, <1>9, <1>11, <2>1 DEF Accounts!Ensures
  <2>. QED
    BY <1>6, <1>11, <2>2 DEF Accounts!Ensures
<1>12. ASSUME aHooks' = [aHooks EXCEPT ![w] = None], aEvents' = aEvents
       PROVE  /\ AccountPending' \subseteq AccountPending
              /\ aHooks[w] # None
                   => AccountPending \subseteq AccountPending' \cup {aHooks[w].event}
  <2>1. \A v \in Webs : aHooks'[v] = IF v = w THEN None ELSE aHooks[v]
    BY <1>4, <1>12
  <2>. QED
    BY <1>12, <2>1 DEF AccountPending
<1>13. CASE Accounts!Inserts(w)
  <2>1. CASE aSub = None
    <3>1. aHooks' = [aHooks EXCEPT ![w] = [aHooks[w] EXCEPT !.at = "updating"]]
      BY <1>13, <2>1 DEF Accounts!Inserts
    <3>2. AccountPending' = AccountPending
      BY <1>8, <1>9, <1>13, <3>1 DEF Accounts!Inserts
    <3>3. aHooks[w].event \in AccountPending
      BY <1>13 DEF Accounts!Inserts, AccountPending
    <3>. QED
      BY <1>6, <1>13, <2>1, <3>2, <3>3 DEF Accounts!Inserts
  <2>2. CASE aSub # None
    BY <1>7, <1>12, <1>13, <2>2 DEF Accounts!Inserts
  <2>. QED
    BY <2>1, <2>2
<1>14. CASE Accounts!HookFails(w)
  BY <1>7, <1>12, <1>14 DEF Accounts!HookFails
<1>15. CASE Accounts!Updates(w)
  <2>1. PICK e : e = aHooks[w].event
    OBVIOUS
  <2>2. /\ e \in AccountPending /\ aSub' = Accounts!Recorded(e)
        /\ aLast' = (IF e.n > aLast THEN e.n ELSE aLast)
    BY <1>15, <2>1 DEF Accounts!Updates, AccountPending
  <2>3. aMuddled' = (aMuddled \/ e.n < aLast)
    BY <1>15, <2>1 DEF Accounts!Updates
  <2>4. AccountPending' \subseteq AccountPending
        /\ AccountPending \subseteq AccountPending' \cup {e}
    BY <1>12, <1>15, <2>1 DEF Accounts!Updates
  <2>5. AccountNumbers'
    BY <1>1, <1>4, <1>5, <2>2, <2>4 DEF AccountNumbers, AccountPaidInv
  <2>6. AccountBeginning'
    BY <1>1, <1>4, <1>5, <2>2 DEF AccountBeginning
  <2>7. ASSUME ~aMuddled' PROVE AccountNoneLost' /\ AccountLatestTells' /\ AccountLastServes'
    <3>1. ~aMuddled /\ ~(e.n < aLast)
      BY <2>3, <2>7, Zenon
    <3>2. aLast' = e.n
      BY <1>4, <1>5, <2>2, <3>1
    <3>3. AccountNoneLost'
      <4>. SUFFICES ASSUME NEW n \in 1..aSent
                    PROVE  n <= aLast' \/ \E d \in AccountPending' : d.n = n
        BY <1>1 DEF AccountNoneLost
      <4>1. CASE n <= aLast
        BY <1>4, <1>5, <2>2, <3>1, <3>2, <4>1
      <4>2. ASSUME NEW d \in AccountPending, d.n = n
            PROVE  n <= aLast' \/ \E f \in AccountPending' : f.n = n
        BY <1>4, <2>4, <3>2, <4>2
      <4>. QED
        BY <3>1, <4>1, <4>2 DEF AccountPaidInv, AccountNoneLost
    <3>4. AccountLatestTells'
      BY <1>1, <1>2, <2>4, <3>1 DEF AccountPaidInv, AccountLatestTells
    <3>5. ASSUME e.n = aSent PROVE AccountServed'
      <4>1. AccountTelling(e) /\ e \in Accounts!Event
        BY <1>5, <2>2, <3>1, <3>5 DEF AccountPaidInv, AccountLatestTells
      <4>2. aSub' \in Accounts!Subs /\ aSub' # None
        <5>1. aSub \in Accounts!Subs
          BY <1>15 DEF Accounts!Updates, AccountIInv, AccountUpdatedExists, AccountPersonType
        <5>. QED
          BY <2>2, <4>1, <5>1, AccountRecordedType DEF Accounts!ConstantsAssumption
      <4>3. CASE e.kind = "deleted"
        <5>1. aSub' = [plan |-> "free", status |-> "canceled"]
          BY <2>2, <4>3 DEF Accounts!Recorded
        <5>2. \A i \in 1..MaxPurchases : ~Accounts!Open(i)'
          BY <1>1, <4>1, <4>3 DEF AccountTelling
        <5>. QED
          BY <4>2, <5>1, <5>2 DEF AccountServed, Accounts!Live
      <4>4. CASE e.kind # "deleted"
        <5>1. PICK i \in 1..MaxPurchases :
                Accounts!Open(i) /\ aStripe[i].plan = e.plan /\ aStripe[i].status = e.status
          BY <4>1, <4>4 DEF AccountTelling
        <5>2. aSub' = [plan |-> e.plan, status |-> e.status]
          BY <2>2, <4>1, <4>4 DEF Accounts!Recorded, AccountTelling
        <5>3. Accounts!Open(i)' /\ aStripe' = aStripe
          BY <1>1, <5>1
        <5>. QED
          BY <4>2, <5>1, <5>2, <5>3 DEF AccountServed
      <4>. QED
        BY <4>3, <4>4
    <3>6. AccountLastServes'
      BY <1>1, <3>2, <3>5 DEF AccountLastServes
    <3>. QED
      BY <3>3, <3>4, <3>6
  <2>8. ~aMuddled' => AccountOneOpen'
    BY <1>3, <2>3, Zenon DEF AccountPaidInv
  <2>. QED
    BY <2>5, <2>6, <2>7, <2>8 DEF AccountPaidInv
<1>. QED
  BY <1>10, <1>11, <1>13, <1>14, <1>15

LEMMA AccountPaidKeeps ==
  ASSUME Accounts!ConstantsAssumption, AccountIInv, AccountPaidInv,
         [Accounts!Next]_(Accounts!vars)
  PROVE  AccountPaidInv'
<1>1. ASSUME UNCHANGED <<aSub, Accounts!stripeVars>> PROVE AccountPaidInv'
  <2>1. AccountPending' = AccountPending /\ (\A e : AccountTelling(e)'
          <=> AccountTelling(e)) /\ (AccountServed' <=> AccountServed)
    BY <1>1
    DEF Accounts!stripeVars, AccountPending, AccountTelling, AccountServed, Accounts!Open
  <2>2. AccountOneOpen' <=> AccountOneOpen
    BY <1>1 DEF Accounts!stripeVars, AccountOneOpen, Accounts!Open
  <2>. QED
    BY <1>1, <2>1, <2>2 DEF Accounts!stripeVars, AccountPaidInv, AccountNumbers,
       AccountBeginning, AccountNoneLost, AccountLatestTells, AccountLastServes
<1>2. CASE \/ UNCHANGED Accounts!vars
           \/ Accounts!WizardComplete \/ Accounts!ActivateTrial \/ Accounts!TrialEnds
              \/ Accounts!CancelPlan \/ Accounts!DeleteClient
           \/ \E w \in Webs : Accounts!CreateChecks(w) \/ Accounts!CreateInserts(w)
  BY <1>1, <1>2 DEF Accounts!vars, Accounts!stripeVars, Accounts!WizardComplete,
     Accounts!ActivateTrial, Accounts!TrialEnds, Accounts!CancelPlan,
     Accounts!DeleteClient, Accounts!CreateChecks, Accounts!CreateInserts
<1>. QED
  BY <1>2, AccountStripeServes, AccountWebhookServes DEF Accounts!Next

LEMMA AccountPaidInit == ASSUME Accounts!ConstantsAssumption, Accounts!Init PROVE AccountPaidInv
<1>1. AccountPending = {}
  BY DEF Accounts!Init, AccountPending
<1>2. \A i \in 1..MaxPurchases : ~Accounts!Open(i)
  BY DEF Accounts!Init, Accounts!Open
<1>. QED
  BY <1>1, <1>2 DEF Accounts!Init, AccountPaidInv, AccountNumbers, AccountBeginning,
     AccountOneOpen, AccountNoneLost, AccountLatestTells, AccountLastServes

LEMMA AccountPaidServes ==
  ASSUME Accounts!ConstantsAssumption, AccountIInv, AccountPaidInv
  PROVE  Accounts!PaidIsServed
<1>. SUFFICES ASSUME aUser # None, aEvents = {}, ~aMuddled, \A w \in Webs : aHooks[w] = None
              PROVE  Accounts!EffectivePlan = Accounts!PlanOwed
  BY DEF Accounts!PaidIsServed
<1>1. AccountPending = {}
  BY DEF AccountPending
<1>2. aSent \in Nat /\ aLast \in Nat /\ aLast <= aSent
  BY DEF AccountIInv, AccountEventType, AccountCountType, AccountPaidInv, AccountNumbers
<1>3. AccountOneOpen
  BY DEF AccountPaidInv
<1>. DEFINE active == {i \in 1..MaxPurchases : Accounts!Open(i) /\ aStripe[i].status = "active"}
<1>4. Accounts!PlanOwed = IF active = {} THEN Accounts!OwnPlan
                          ELSE aStripe[CHOOSE i \in active : TRUE].plan
  BY DEF Accounts!PlanOwed
<1>5. CASE aSent = 0
  <2>1. aSub = None /\ active = {}
    BY <1>5 DEF AccountPaidInv, AccountBeginning, Accounts!Open
  <2>. QED
    BY <1>4, <2>1 DEF Accounts!EffectivePlan, Accounts!Subscribed
<1>6. CASE aSent > 0
  <2>1. aLast = aSent
    BY <1>1, <1>2, <1>6 DEF AccountPaidInv, AccountNoneLost
  <2>2. AccountServed
    BY <1>6, <2>1 DEF AccountPaidInv, AccountLastServes
  <2>3. CASE aSub.status \notin Accounts!Live /\ \A i \in 1..MaxPurchases : ~Accounts!Open(i)
    <3>1. active = {}
      BY <2>3
    <3>. QED
      BY <1>4, <2>3, <3>1 DEF Accounts!EffectivePlan, Accounts!Subscribed
  <2>4. ASSUME NEW i \in 1..MaxPurchases, Accounts!Open(i), aSub.plan = aStripe[i].plan,
               aSub.status = aStripe[i].status
        PROVE  Accounts!EffectivePlan = Accounts!PlanOwed
    <3>1. active \subseteq {i}
      BY <1>3, <2>4 DEF AccountOneOpen
    <3>2. aStripe[i] \in Accounts!Bought
      BY <2>4 DEF AccountIInv, AccountStripeType, Accounts!Open
    <3>3. CASE aStripe[i].status = "active"
      <4>1. active = {i}
        BY <2>4, <3>1, <3>3
      <4>2. (CHOOSE j \in active : TRUE) = i
        BY <4>1
      <4>3. Accounts!Subscribed
        BY <2>2, <2>4, <3>3 DEF Accounts!Subscribed, AccountServed, Accounts!Live
      <4>4. Accounts!PlanOwed = aStripe[i].plan
        <5>. HIDE DEF active
        <5>. QED
          BY <1>4, <4>1, <4>2
      <4>. QED
        BY <2>4, <4>3, <4>4 DEF Accounts!EffectivePlan
    <3>4. CASE aStripe[i].status # "active"
      <4>1. active = {}
        BY <3>1, <3>4
      <4>2. ~Accounts!Subscribed
        BY <2>4, <3>2, <3>4 DEF Accounts!Subscribed, Accounts!Live, Accounts!Bought,
           Accounts!Statuses, Accounts!Open
      <4>. QED
        BY <1>4, <4>1, <4>2 DEF Accounts!EffectivePlan
    <3>. QED
      BY <3>3, <3>4
  <2>. QED
    BY <2>2, <2>3, <2>4 DEF AccountServed
<1>. QED
  BY <1>2, <1>5, <1>6

\* An account has the plan that it pays for once Stripe's events are handled, or
\* its own if it pays for none (routes/billing.py).
THEOREM AccountPaidHolds ==
  ASSUME Accounts!ConstantsAssumption
  PROVE  Accounts!Spec => []Accounts!PaidIsServed
<1>1. Accounts!Init => AccountIInv /\ AccountPaidInv
  BY AccountInitHolds, AccountPaidInit
<1>2. AccountIInv /\ AccountPaidInv /\ [Accounts!Next]_(Accounts!vars)
        => (AccountIInv /\ AccountPaidInv)'
  BY AccountStepKeeps, AccountPaidKeeps
<1>3. AccountIInv /\ AccountPaidInv => Accounts!PaidIsServed
  BY AccountPaidServes
<1>. QED
  BY <1>1, <1>2, <1>3, PTL DEF Accounts!Spec

-----------------------------------------------------------------------------
(* The authorisation of Google (google_oauth.py, routes/oauth.py).         *)

\* What a call knows: a refresh token while it refreshes, a grant while it saves.
\* The web's grant has a refresh token of its account, an agent's has none.
TokenKnows(c, call) ==
  /\ call.at = "refreshing" => call.token \in Tokens!Stored
  /\ call.at \in {"saving", "writing"} =>
       /\ call.grant \in Tokens!Row
       /\ call.grant.site = None
       /\ IF c = Tokens!Web THEN /\ call.grant.refresh # None
                                 /\ call.grant.refresh.of = call.grant.access
                                 /\ call.grant.email \in {call.grant.access, None}
          ELSE call.grant.refresh = None /\ call.grant.email = None
TokenCallsKnow == \A c \in GoogleUsers \cup {Tokens!Web} : TokenKnows(c, tCalls[c])

\* What a call that is not outdated works on is still so: an agent's account is the
\* row's, and what it or the web has read is what the row still says.
TokenAccount(call) == IF call.at = "refreshing" THEN call.token.of ELSE call.grant.access
TokenCurrent(c, call, row) ==
  /\ c # Tokens!Web /\ call.at \in {"refreshing", "saving", "writing"} =>
       row # None /\ TokenAccount(call) = row.access
  /\ c # Tokens!Web /\ call.at = "writing" =>
       /\ call.seen # None /\ call.seen.refresh # None
       /\ call.seen.refresh.of = row.access /\ call.seen.email = row.email
  /\ call.at = "writing" =>
       /\ call.seen = None <=> row = None
       /\ row # None => call.seen.site = row.site
TokenCallsCurrent ==
  ~tTorn => \A c \in GoogleUsers \cup {Tokens!Web} :
              ~tCalls[c].outdated => TokenCurrent(c, tCalls[c], tRow)

\* A site is chosen for a row.
TokenChosenForRow == tRow = None => tChosen = None

\* Only flows that were begun have saved.
TokenSavedBegun == tSaved \subseteq tBegun

TokenIInv == Tokens!TypeOK /\ TokenCallsKnow /\ TokenCallsCurrent
  /\ TokenChosenForRow /\ TokenSavedBegun /\ Tokens!RowIsOneGrant /\ Tokens!FlowsSaveOnce

\* A layer more or less changes neither the type nor the account.
LEMMA TokenLayers ==
  ASSUME Tokens!ConstantsAssumption, NEW t \in Tokens!Stored
  PROVE  /\ Tokens!Encrypt(t) \in Tokens!Stored /\ Tokens!Encrypt(t).of = t.of
         /\ Tokens!Decrypt(t) \in Tokens!Stored /\ Tokens!Decrypt(t).of = t.of
BY DEF Tokens!ConstantsAssumption, Tokens!Stored, Tokens!Encrypt, Tokens!Decrypt

\* What a save writes is a row: its account is that of the grant, its refresh token
\* the grant's or, if it has none, that of the row which was read; and what the row
\* read and the row there is agree on stays.
LEMMA TokenWrites ==
  ASSUME Tokens!ConstantsAssumption, tRow \in Tokens!Row \cup {None},
         NEW grant \in Tokens!Row, NEW seen \in Tokens!Row \cup {None},
         NEW new, new = Tokens!Upserted(Tokens!Merged(grant, seen)), grant.site = None
  PROVE  /\ new \in Tokens!Row
         /\ new.access = grant.access
         /\ grant.refresh # None => new.refresh # None /\ new.refresh.of = grant.refresh.of
         /\ (grant.refresh = None /\ seen # None /\ seen.refresh # None) =>
              new.refresh # None /\ new.refresh.of = seen.refresh.of
         /\ grant.email # None => new.email = grant.email
         /\ (grant.email = None /\ seen # None /\ tRow # None /\ seen.email = tRow.email) =>
              new.email = tRow.email
         /\ (seen = None /\ tRow = None) => new.site = None
         /\ (seen # None /\ tRow # None /\ seen.site = tRow.site) => new.site = tRow.site
<1>. DEFINE refresh == IF grant.refresh # None THEN grant.refresh
                       ELSE IF seen # None THEN seen.refresh ELSE None
            stored == IF refresh = None THEN None ELSE Tokens!Encrypt(refresh)
            email == IF seen = None THEN grant.email ELSE Tokens!Either(grant.email, seen.email)
            site == IF seen = None THEN grant.site ELSE Tokens!Either(grant.site, seen.site)
<1>1. refresh \in Tokens!Stored \cup {None}
  BY DEF Tokens!Row
<1>2. /\ stored \in Tokens!Stored \cup {None}
      /\ refresh # None => stored # None /\ stored.of = refresh.of
  BY <1>1, TokenLayers DEF Tokens!ConstantsAssumption
<1>3. email \in GoogleAccounts \cup {None} /\ site \in GoogleAccounts \cup {None}
  BY DEF Tokens!Row, Tokens!Either
<1>4. PICK merged : merged = [grant EXCEPT !.refresh = stored, !.email = email, !.site = site]
  OBVIOUS
<1>5. merged = Tokens!Merged(grant, seen)
  BY <1>4 DEF Tokens!Merged
<1>6. /\ merged \in Tokens!Row
      /\ merged.access = grant.access /\ merged.email = email /\ merged.site = site
      /\ merged.refresh = stored
  <2>. HIDE DEF refresh, stored, email, site
  <2>. QED
    BY <1>2, <1>3, <1>4 DEF Tokens!Row
<1>7. /\ grant.refresh # None => refresh = grant.refresh
      /\ (grant.refresh = None /\ seen # None) => refresh = seen.refresh
      /\ grant.email # None => email = grant.email
      /\ (grant.email = None /\ seen # None) => email = seen.email
      /\ site = IF seen = None THEN None ELSE seen.site
  BY DEF Tokens!Either
<1>. HIDE DEF refresh, stored, email, site
<1>8. CASE tRow = None
  <2>1. new = merged
    BY <1>5, <1>8 DEF Tokens!Upserted
  <2>. QED
    BY <1>2, <1>6, <1>7, <1>8, <2>1
<1>9. CASE tRow # None
  <2>0. new = [merged EXCEPT !.refresh = Tokens!Either(merged.refresh, tRow.refresh),
                             !.email = Tokens!Either(merged.email, tRow.email),
                             !.site = Tokens!Either(merged.site, tRow.site)]
    BY <1>5, <1>9 DEF Tokens!Upserted
  <2>1. /\ new.access = grant.access
        /\ new.refresh = Tokens!Either(stored, tRow.refresh)
        /\ new.email = Tokens!Either(email, tRow.email)
        /\ new.site = Tokens!Either(site, tRow.site)
    BY <1>6, <2>0 DEF Tokens!Row
  <2>2. /\ Tokens!Either(stored, tRow.refresh) \in Tokens!Stored \cup {None}
        /\ Tokens!Either(email, tRow.email) \in GoogleAccounts \cup {None}
        /\ Tokens!Either(site, tRow.site) \in GoogleAccounts \cup {None}
    BY <1>2, <1>3, <1>9 DEF Tokens!Either, Tokens!Row
  <2>3. new \in Tokens!Row
    BY <1>6, <2>0, <2>2 DEF Tokens!Row
  <2>4. refresh # None => new.refresh # None /\ new.refresh.of = refresh.of
    BY <1>2, <2>1 DEF Tokens!Either
  <2>5. new.email = IF email = None THEN tRow.email ELSE email
    BY <2>1 DEF Tokens!Either
  <2>6. new.site = IF site = None THEN tRow.site ELSE site
    BY <2>1 DEF Tokens!Either
  <2>. QED
    BY <1>7, <1>9, <2>1, <2>3, <2>4, <2>5, <2>6
<1>. QED
  BY <1>8, <1>9

LEMMA TokenInitHolds == ASSUME Tokens!ConstantsAssumption, Tokens!Init PROVE TokenIInv
<1>1. Tokens!Idle \in Tokens!Call
  BY DEF Tokens!Idle, Tokens!Call
<1>2. tCalls \in [GoogleUsers \cup {Tokens!Web} -> Tokens!Call] /\ tTurns \in 0..MaxTurns
  BY <1>1 DEF Tokens!Init, Tokens!ConstantsAssumption
<1>4. Tokens!TypeOK
  BY <1>2 DEF Tokens!TypeOK, Tokens!Init
<1>3. TokenCallsKnow /\ TokenCallsCurrent
  BY DEF TokenCallsKnow, TokenKnows, TokenCallsCurrent, TokenCurrent, Tokens!Init, Tokens!Idle
<1>. QED
  BY <1>3, <1>4 DEF TokenIInv, Tokens!Init, TokenChosenForRow, TokenSavedBegun,
     Tokens!RowIsOneGrant, Tokens!FlowsSaveOnce

\* What a call does not write stays as it was.
LEMMA TokenCallKeeps ==
  ASSUME Tokens!ConstantsAssumption, TokenIInv, NEW c \in GoogleUsers \cup {Tokens!Web},
         NEW call \in Tokens!Call,
         tCalls' = [tCalls EXCEPT ![c] = call],
         tRow' = tRow, tTorn' = tTorn,
         TokenKnows(c, call),
         ~tTorn /\ ~call.outdated => TokenCurrent(c, call, tRow)
  PROVE  /\ tCalls' \in [GoogleUsers \cup {Tokens!Web} -> Tokens!Call]
         /\ TokenCallsKnow' /\ TokenCallsCurrent'
<1>1. tCalls' \in [GoogleUsers \cup {Tokens!Web} -> Tokens!Call]
  BY DEF TokenIInv, Tokens!TypeOK
<1>2. \A d \in GoogleUsers \cup {Tokens!Web} : tCalls'[d] = IF d = c THEN call ELSE tCalls[d]
  BY DEF TokenIInv, Tokens!TypeOK
<1>3. TokenCallsKnow'
  BY <1>2 DEF TokenIInv, TokenCallsKnow
<1>4. TokenCallsCurrent'
  BY <1>2 DEF TokenIInv, TokenCallsCurrent
<1>. QED
  BY <1>1, <1>3, <1>4

\* To be outdated changes nothing else about a call.
LEMMA TokenOutdated ==
  ASSUME TokenIInv, NEW S
  PROVE  /\ Tokens!Outdated(S) \in [GoogleUsers \cup {Tokens!Web} -> Tokens!Call]
         /\ \A d \in GoogleUsers \cup {Tokens!Web} :
              /\ TokenKnows(d, Tokens!Outdated(S)[d])
              /\ ~Tokens!Outdated(S)[d].outdated =>
                   d \notin S /\ ~tCalls[d].outdated /\ Tokens!Outdated(S)[d] = tCalls[d]
<1>1. ASSUME NEW d \in GoogleUsers \cup {Tokens!Web}
      PROVE  /\ Tokens!Outdated(S)[d] \in Tokens!Call
             /\ TokenKnows(d, Tokens!Outdated(S)[d])
             /\ ~Tokens!Outdated(S)[d].outdated =>
                  d \notin S /\ ~tCalls[d].outdated /\ Tokens!Outdated(S)[d] = tCalls[d]
  <2>1. tCalls[d] \in Tokens!Call /\ TokenKnows(d, tCalls[d])
    BY DEF TokenIInv, Tokens!TypeOK, TokenCallsKnow
  <2>2. PICK call : call = [tCalls[d] EXCEPT !.outdated = TRUE]
    OBVIOUS
  <2>3. /\ call \in Tokens!Call /\ call.outdated
        /\ call.at = tCalls[d].at /\ call.token = tCalls[d].token /\ call.grant = tCalls[d].grant
    BY <2>1, <2>2 DEF Tokens!Call
  <2>4. TokenKnows(d, call)
    BY <2>1, <2>3 DEF TokenKnows
  <2>5. Tokens!Outdated(S)[d] = IF d \in S THEN call ELSE tCalls[d]
    BY <2>2 DEF Tokens!Outdated
  <2>. QED
    BY <2>1, <2>3, <2>4, <2>5
<1>2. DOMAIN Tokens!Outdated(S) = GoogleUsers \cup {Tokens!Web}
      /\ Tokens!Outdated(S) = [d \in DOMAIN Tokens!Outdated(S) |-> Tokens!Outdated(S)[d]]
  BY DEF Tokens!Outdated
<1>. QED
  BY <1>1, <1>2

LEMMA TokenSaveReadsKeeps ==
  ASSUME Tokens!ConstantsAssumption, TokenIInv, NEW c \in GoogleUsers \cup {Tokens!Web},
         Tokens!SaveReads(c)
  PROVE  TokenIInv'
<1>. DEFINE call == [tCalls[c] EXCEPT !.at = "writing", !.seen = tRow]
<1>1. tCalls[c] \in Tokens!Call /\ tRow \in Tokens!Row \cup {None} /\ tCalls[c].at = "saving"
  BY DEF TokenIInv, Tokens!TypeOK, Tokens!SaveReads
<1>2. /\ call \in Tokens!Call /\ call.at = "writing" /\ call.grant = tCalls[c].grant
      /\ call.seen = tRow /\ call.outdated = tCalls[c].outdated
  BY <1>1 DEF Tokens!Call
<1>3. tCalls' = [tCalls EXCEPT ![c] = call]
  BY DEF Tokens!SaveReads
<1>. HIDE DEF call
<1>4. TokenKnows(c, call)
  BY <1>1, <1>2 DEF TokenIInv, TokenCallsKnow, TokenKnows
<1>5. ASSUME ~tTorn, ~call.outdated PROVE TokenCurrent(c, call, tRow)
  <2>1. TokenCurrent(c, tCalls[c], tRow)
    BY <1>2, <1>5 DEF TokenIInv, TokenCallsCurrent
  <2>2. c # Tokens!Web => tRow # None /\ call.grant.access = tRow.access
    BY <1>1, <1>2, <2>1 DEF TokenCurrent, TokenAccount
  <2>3. tRow # None => tRow.refresh # None /\ tRow.refresh.of = tRow.access
    BY <1>5 DEF TokenIInv, Tokens!RowIsOneGrant
  <2>. QED
    BY <1>2, <2>2, <2>3 DEF TokenCurrent, TokenAccount
<1>6. tRow' = tRow /\ tTorn' = tTorn
  BY DEF Tokens!SaveReads
<1>7. /\ tCalls' \in [GoogleUsers \cup {Tokens!Web} -> Tokens!Call]
      /\ TokenCallsKnow' /\ TokenCallsCurrent'
  BY <1>2, <1>3, <1>4, <1>5, <1>6, TokenCallKeeps
<1>. QED
  BY <1>7 DEF Tokens!SaveReads, TokenIInv, Tokens!TypeOK, TokenChosenForRow, TokenSavedBegun,
     Tokens!RowIsOneGrant, Tokens!FlowsSaveOnce

LEMMA TokenSaveWritesKeeps ==
  ASSUME Tokens!ConstantsAssumption, TokenIInv, NEW c \in GoogleUsers \cup {Tokens!Web},
         Tokens!SaveWrites(c)
  PROVE  TokenIInv'
<1>1. /\ tCalls[c] \in Tokens!Call /\ tRow \in Tokens!Row \cup {None}
      /\ tCalls \in [GoogleUsers \cup {Tokens!Web} -> Tokens!Call]
      /\ tCalls[c].at = "writing" /\ tTorn \in BOOLEAN
  BY DEF TokenIInv, Tokens!TypeOK, Tokens!SaveWrites
<1>2. PICK grant, seen : grant = tCalls[c].grant /\ seen = tCalls[c].seen
  OBVIOUS
<1>3. /\ grant \in Tokens!Row /\ seen \in Tokens!Row \cup {None} /\ grant.site = None
      /\ IF c = Tokens!Web THEN /\ grant.refresh # None /\ grant.refresh.of = grant.access
                                /\ grant.email \in {grant.access, None}
         ELSE grant.refresh = None /\ grant.email = None
  BY <1>1, <1>2 DEF TokenIInv, TokenCallsKnow, TokenKnows, Tokens!Call
<1>4. tRow' = Tokens!Upserted(Tokens!Merged(grant, seen))
  BY <1>2 DEF Tokens!SaveWrites
<1>5. /\ tRow' \in Tokens!Row
      /\ tRow'.access = grant.access
      /\ grant.refresh # None => tRow'.refresh # None /\ tRow'.refresh.of = grant.refresh.of
      /\ (grant.refresh = None /\ seen # None /\ seen.refresh # None) =>
           tRow'.refresh # None /\ tRow'.refresh.of = seen.refresh.of
      /\ grant.email # None => tRow'.email = grant.email
      /\ (grant.email = None /\ seen # None /\ tRow # None /\ seen.email = tRow.email) =>
           tRow'.email = tRow.email
      /\ (seen = None /\ tRow = None) => tRow'.site = None
      /\ (seen # None /\ tRow # None /\ seen.site = tRow.site) => tRow'.site = tRow.site
  BY <1>1, <1>3, <1>4, TokenWrites
<1>. DEFINE others == {d \in Tokens!Working :
                         c = Tokens!Web /\ Tokens!WorksFor(d) # grant.access}
            marked == Tokens!Outdated(others)
<1>6. PICK call \in Tokens!Call : /\ tCalls' = [marked EXCEPT ![c] = call]
                                  /\ call.at \in {"idle", "asking"}
  <2>1. Tokens!Idle \in Tokens!Call /\ Tokens!Idle.at = "idle"
    BY DEF Tokens!Idle, Tokens!Call
  <2>2. [Tokens!Idle EXCEPT !.at = "asking", !.token = grant.access] \in Tokens!Call
    BY <1>3 DEF Tokens!Idle, Tokens!Call, Tokens!Row
  <2>3. [Tokens!Idle EXCEPT !.at = "asking", !.token = grant.access].at = "asking"
    BY DEF Tokens!Idle
  <2>4. tCalls' = [marked EXCEPT ![c] =
             IF tCalls[c].retry \/ c = Tokens!Web THEN Tokens!Idle
             ELSE [Tokens!Idle EXCEPT !.at = "asking", !.token = grant.access]]
    BY <1>2 DEF Tokens!SaveWrites
  <2>. HIDE DEF marked
  <2>. QED
    BY <2>1, <2>2, <2>3, <2>4
<1>7. /\ marked \in [GoogleUsers \cup {Tokens!Web} -> Tokens!Call]
      /\ \A d \in GoogleUsers \cup {Tokens!Web} :
           /\ TokenKnows(d, marked[d])
           /\ ~marked[d].outdated =>
                d \notin others /\ ~tCalls[d].outdated /\ marked[d] = tCalls[d]
  BY TokenOutdated
<1>8. /\ tCalls' \in [GoogleUsers \cup {Tokens!Web} -> Tokens!Call]
      /\ \A d \in GoogleUsers \cup {Tokens!Web} : tCalls'[d] = IF d = c THEN call ELSE marked[d]
  <2>. HIDE DEF marked
  <2>. QED
    BY <1>6, <1>7
<1>9. TokenCallsKnow'
  <2>1. TokenKnows(c, call)
    BY <1>6 DEF TokenKnows
  <2>. HIDE DEF marked
  <2>. QED
    BY <1>7, <1>8, <2>1 DEF TokenCallsKnow
<1>10. tTorn' = (tTorn \/ tCalls[c].outdated \/ (c = Tokens!Web /\ grant.email = None))
  BY <1>2, Zenon DEF Tokens!SaveWrites
<1>11. tTorn' \in BOOLEAN
  BY <1>10
<1>12. tRow' # None /\ tChosen' = tChosen
  BY <1>5 DEF Tokens!ConstantsAssumption, Tokens!SaveWrites
<1>13. ASSUME ~tTorn'
       PROVE  /\ ~tTorn /\ TokenCurrent(c, tCalls[c], tRow)
              /\ c = Tokens!Web => grant.email = grant.access /\ grant.email # None
              /\ tRow # None => /\ tRow.email = tRow.access /\ tRow.site = tChosen
  <2>1. ~tTorn /\ ~tCalls[c].outdated /\ (c = Tokens!Web => grant.email # None)
    BY <1>10, <1>13, Zenon
  <2>. QED
    BY <1>3, <2>1 DEF TokenIInv, TokenCallsCurrent, Tokens!RowIsOneGrant
<1>14. ASSUME ~tTorn'
       PROVE  /\ tRow'.refresh # None /\ tRow'.refresh.of = tRow'.access
              /\ tRow'.email = tRow'.access /\ tRow'.site = tChosen'
              /\ tRow # None => tRow'.site = tRow.site
              /\ c # Tokens!Web => tRow # None /\ tRow'.access = tRow.access
  <2>1. /\ (seen = None <=> tRow = None) /\ (tRow # None => seen.site = tRow.site)
        /\ c # Tokens!Web => /\ tRow # None /\ grant.access = tRow.access
                             /\ seen.refresh # None /\ seen.refresh.of = tRow.access
                             /\ seen.email = tRow.email
    BY <1>1, <1>2, <1>13, <1>14 DEF TokenCurrent, TokenAccount
  <2>2. tRow'.site = tChosen' /\ (tRow # None => tRow'.site = tRow.site)
    BY <1>5, <1>12, <1>13, <1>14, <2>1 DEF TokenIInv, TokenChosenForRow
  <2>3. CASE c = Tokens!Web
    BY <1>3, <1>5, <1>13, <1>14, <2>2, <2>3
  <2>4. CASE c # Tokens!Web
    BY <1>3, <1>5, <1>13, <1>14, <2>1, <2>2, <2>4
  <2>. QED
    BY <2>3, <2>4
<1>15. TokenCallsCurrent'
  <2>. SUFFICES ASSUME ~tTorn', NEW d \in GoogleUsers \cup {Tokens!Web}, ~tCalls'[d].outdated
                PROVE  TokenCurrent(d, tCalls'[d], tRow')
    BY DEF TokenCallsCurrent
  <2>1. CASE d = c
    BY <1>6, <1>8, <2>1 DEF TokenCurrent
  <2>2. CASE d # c
    <3>1. d \notin others /\ ~tCalls[d].outdated /\ tCalls'[d] = tCalls[d]
      <4>. HIDE DEF marked, others
      <4>. QED
        BY <1>7, <1>8, <2>2
    <3>2. TokenCurrent(d, tCalls[d], tRow)
      BY <1>13, <3>1 DEF TokenIInv, TokenCallsCurrent
    <3>3. CASE tCalls[d].at \notin {"refreshing", "saving", "writing"}
      BY <3>1, <3>3 DEF TokenCurrent
    <3>4. CASE tCalls[d].at \in {"refreshing", "saving", "writing"} /\ d # Tokens!Web
      <4>1. tRow # None /\ TokenAccount(tCalls[d]) = tRow.access
        BY <3>2, <3>4 DEF TokenCurrent
      <4>2. tRow'.access = tRow.access
        <5>1. CASE c # Tokens!Web
          BY <1>14, <5>1
        <5>2. CASE c = Tokens!Web
          <6>1. d \in Tokens!Working /\ Tokens!WorksFor(d) = TokenAccount(tCalls[d])
            BY <3>4 DEF Tokens!Working, Tokens!WorksFor, TokenAccount
          <6>. QED
            BY <1>5, <3>1, <4>1, <5>2, <6>1
        <5>. QED
          BY <5>1, <5>2
      <4>3. tRow'.email = tRow.email /\ tRow'.site = tRow.site
        BY <1>13, <1>14, <4>1, <4>2
      <4>. QED
        BY <1>12, <3>1, <3>2, <3>4, <4>1, <4>2, <4>3 DEF TokenCurrent
    <3>5. CASE tCalls[d].at \in {"refreshing", "saving", "writing"} /\ d = Tokens!Web
      <4>1. tRow # None /\ tRow'.site = tRow.site
        BY <1>14, <2>2, <3>5
      <4>. QED
        BY <1>12, <3>1, <3>2, <3>5, <4>1 DEF TokenCurrent
    <3>. QED
      BY <3>3, <3>4, <3>5
  <2>. QED
    BY <2>1, <2>2
<1>16. Tokens!RowIsOneGrant'
  BY <1>14 DEF Tokens!RowIsOneGrant
<1>17. Tokens!TypeOK'
  BY <1>5, <1>8, <1>11 DEF TokenIInv, Tokens!TypeOK, Tokens!SaveWrites
<1>18. TokenChosenForRow' /\ TokenSavedBegun' /\ Tokens!FlowsSaveOnce'
  BY <1>12
  DEF TokenIInv, Tokens!SaveWrites, TokenChosenForRow, TokenSavedBegun, Tokens!FlowsSaveOnce
<1>. QED
  BY <1>9, <1>15, <1>16, <1>17, <1>18 DEF TokenIInv

LEMMA TokenCallbackKeeps ==
  ASSUME Tokens!ConstantsAssumption, TokenIInv, NEW f \in Flows, NEW a \in GoogleAccounts,
         Tokens!Callback(f, a)
  PROVE  TokenIInv'
<1>1. tNonce' = None /\ tRow' = tRow /\ tTorn' = tTorn
  BY DEF Tokens!Callback, Tokens!NonceAfter
<1>2. Tokens!FlowsSaveOnce' /\ TokenSavedBegun' /\ tSaved' \subseteq Flows
      /\ tRevoked' \subseteq GoogleAccounts
  BY <1>1 DEF Tokens!Callback, TokenIInv, Tokens!TypeOK, Tokens!FlowsSaveOnce, TokenSavedBegun,
     Tokens!ConstantsAssumption
<1>3. /\ tCalls' \in [GoogleUsers \cup {Tokens!Web} -> Tokens!Call]
      /\ TokenCallsKnow' /\ TokenCallsCurrent'
  <2>1. CASE tNonce # f
    <3>1. tCalls' = tCalls
      BY <2>1 DEF Tokens!Callback
    <3>. QED
      BY <1>1, <3>1 DEF TokenIInv, Tokens!TypeOK, TokenCallsKnow, TokenCallsCurrent
  <2>2. CASE tNonce = f
    <3>1. PICK email \in {a, None} : tCalls' = [tCalls EXCEPT ![Tokens!Web] =
            [Tokens!Idle EXCEPT !.at = "saving",
               !.grant = [access |-> a, refresh |-> [of |-> a, layers |-> 0],
                          expired |-> FALSE, email |-> email, site |-> None]]]
      BY <2>2 DEF Tokens!Callback
    <3>2. PICK grant : grant = [access |-> a, refresh |-> [of |-> a, layers |-> 0],
                                expired |-> FALSE, email |-> email, site |-> None]
      OBVIOUS
    <3>3. /\ grant \in Tokens!Row /\ grant.site = None /\ grant.refresh # None
          /\ grant.refresh.of = grant.access /\ grant.email \in {grant.access, None}
      <4>1. [of |-> a, layers |-> 0] \in Tokens!Stored
        BY DEF Tokens!Stored, Tokens!ConstantsAssumption
      <4>. QED
        BY <3>2, <4>1 DEF Tokens!Row, Tokens!ConstantsAssumption
    <3>4. PICK call : call = [Tokens!Idle EXCEPT !.at = "saving", !.grant = grant]
      OBVIOUS
    <3>5. call \in Tokens!Call /\ call.at = "saving" /\ call.grant = grant
      BY <3>3, <3>4 DEF Tokens!Idle, Tokens!Call
    <3>6. tCalls' = [tCalls EXCEPT ![Tokens!Web] = call]
      BY <3>1, <3>2, <3>4
    <3>7. TokenKnows(Tokens!Web, call) /\ TokenCurrent(Tokens!Web, call, tRow)
      BY <3>3, <3>5 DEF TokenKnows, TokenCurrent
    <3>. QED
      BY <1>1, <3>5, <3>6, <3>7, TokenCallKeeps
  <2>. QED
    BY <2>1, <2>2
<1>. QED
  BY <1>1, <1>2, <1>3
  DEF Tokens!Callback, TokenIInv, Tokens!TypeOK, TokenChosenForRow, Tokens!RowIsOneGrant

\* The turns of a person: a site is selected, the row deleted.
LEMMA TokenPersonKeeps ==
  ASSUME Tokens!ConstantsAssumption, TokenIInv,
         Tokens!Disconnect \/ \E a \in GoogleAccounts : Tokens!Select(a)
  PROVE  TokenIInv'
<1>0. tRow # None /\ tRow \in Tokens!Row
  BY DEF Tokens!Disconnect, Tokens!Select, TokenIInv, Tokens!TypeOK
<1>1. \/ tRow' = None /\ tChosen' = None
      \/ \E a \in GoogleAccounts : /\ tRow' = [tRow EXCEPT !.site = a] /\ tChosen' = a
                                   /\ tRow' # None /\ tTorn' = tTorn
  <2>1. \A a \in GoogleAccounts : [tRow EXCEPT !.site = a] \in Tokens!Row
    BY <1>0 DEF Tokens!Row
  <2>. QED
    BY <2>1 DEF Tokens!Disconnect, Tokens!Select, Tokens!Bound, Tokens!ConstantsAssumption
<1>2. PICK S : /\ tCalls' = Tokens!Outdated(S)
               /\ Tokens!Writing \subseteq S
               /\ tRow' = None => Tokens!Working \subseteq S
  <2>1. CASE Tokens!Disconnect
    <3>1. PICK S : S = Tokens!Working \cup Tokens!Writing
      OBVIOUS
    <3>2. tCalls' = Tokens!Outdated(S)
      BY <2>1, <3>1 DEF Tokens!Disconnect
    <3>. QED
      BY <3>1, <3>2
  <2>2. CASE \E a \in GoogleAccounts : Tokens!Select(a)
    <3>1. PICK S : S = Tokens!Writing
      OBVIOUS
    <3>2. tCalls' = Tokens!Outdated(S)
      BY <2>2, <3>1 DEF Tokens!Select
    <3>3. tRow' # None
      <4>1. \A a \in GoogleAccounts : [tRow EXCEPT !.site = a] \in Tokens!Row
        BY <1>0 DEF Tokens!Row
      <4>. QED
        BY <2>2, <4>1 DEF Tokens!Select, Tokens!Bound, Tokens!ConstantsAssumption
    <3>. QED
      BY <3>1, <3>2, <3>3
  <2>. QED
    BY <2>1, <2>2
<1>3. /\ tCalls' \in [GoogleUsers \cup {Tokens!Web} -> Tokens!Call]
      /\ \A d \in GoogleUsers \cup {Tokens!Web} :
           /\ TokenKnows(d, tCalls'[d])
           /\ ~tCalls'[d].outdated => d \notin S /\ ~tCalls[d].outdated /\ tCalls'[d] = tCalls[d]
  BY <1>2, TokenOutdated
<1>4. TokenCallsKnow'
  BY <1>3 DEF TokenCallsKnow
<1>5. TokenCallsCurrent'
  <2>. SUFFICES ASSUME ~tTorn', NEW d \in GoogleUsers \cup {Tokens!Web}, ~tCalls'[d].outdated
                PROVE  TokenCurrent(d, tCalls'[d], tRow')
    BY DEF TokenCallsCurrent
  <2>1. d \notin S /\ ~tCalls[d].outdated /\ tCalls'[d] = tCalls[d]
    BY <1>3
  <2>2. tCalls[d].at # "writing"
    BY <1>2, <2>1 DEF Tokens!Writing
  <2>3. CASE tRow' = None
    <3>1. d \notin Tokens!Working
      BY <1>2, <2>1, <2>3
    <3>. QED
      BY <2>1, <2>2, <3>1 DEF Tokens!Working, TokenCurrent
  <2>4. CASE tRow' # None
    <3>1. PICK a \in GoogleAccounts : tRow' = [tRow EXCEPT !.site = a] /\ tTorn' = tTorn
      BY <1>1, <2>4
    <3>2. tRow'.access = tRow.access
      BY <1>0, <3>1 DEF Tokens!Row
    <3>3. TokenCurrent(d, tCalls[d], tRow)
      BY <2>1, <3>1 DEF TokenIInv, TokenCallsCurrent
    <3>. QED
      BY <2>1, <2>2, <2>4, <3>2, <3>3 DEF TokenCurrent
  <2>. QED
    BY <2>3, <2>4
<1>6. Tokens!RowIsOneGrant' /\ TokenChosenForRow' /\ tRow' \in Tokens!Row \cup {None}
  BY <1>0, <1>1 DEF Tokens!Row, TokenIInv, Tokens!RowIsOneGrant, TokenChosenForRow
<1>7. tTurns' \in 0..MaxTurns
  BY DEF Tokens!Disconnect, Tokens!Select, Tokens!Turn, TokenIInv, Tokens!TypeOK,
     Tokens!ConstantsAssumption
<1>8. tChosen' \in GoogleAccounts \cup {None} /\ tTorn' \in BOOLEAN
  <2>1. tTorn' = FALSE \/ tTorn' = tTorn
    BY DEF Tokens!Disconnect, Tokens!Select
  <2>2. tTorn \in BOOLEAN
    BY DEF TokenIInv, Tokens!TypeOK
  <2>. QED
    BY <1>1, <2>1, <2>2
<1>9. UNCHANGED <<tNonce, tBegun, tRevoked, tSaved>>
  BY DEF Tokens!Disconnect, Tokens!Select
<1>. QED
  BY <1>3, <1>4, <1>5, <1>6, <1>7, <1>8, <1>9
  DEF TokenIInv, Tokens!TypeOK, TokenSavedBegun, Tokens!FlowsSaveOnce

\* The turns of time and of Google.
LEMMA TokenTurnsKeep ==
  ASSUME Tokens!ConstantsAssumption, TokenIInv,
         Tokens!Expire \/ \E a \in GoogleAccounts : Tokens!Revoke(a)
  PROVE  TokenIInv'
<1>1. tTurns' \in 0..MaxTurns
  BY DEF Tokens!Expire, Tokens!Revoke, Tokens!Turn, TokenIInv, Tokens!TypeOK,
     Tokens!ConstantsAssumption
<1>2. tCalls' = tCalls /\ tTorn' = tTorn /\ tChosen' = tChosen
  BY DEF Tokens!Expire, Tokens!Revoke
<1>3. tRow' = tRow \/ (tRow \in Tokens!Row /\ tRow # None /\ tRow' = [tRow EXCEPT !.expired = TRUE])
  BY DEF Tokens!Expire, Tokens!Revoke, TokenIInv, Tokens!TypeOK
<1>4. /\ tRow' \in Tokens!Row \cup {None} /\ (tRow' = None <=> tRow = None)
      /\ tRow # None => /\ tRow'.access = tRow.access /\ tRow'.refresh = tRow.refresh
                        /\ tRow'.email = tRow.email /\ tRow'.site = tRow.site
  <2>1. CASE tRow' = tRow
    BY <2>1 DEF TokenIInv, Tokens!TypeOK
  <2>2. CASE tRow' # tRow
    <3>1. PICK new : new = [tRow EXCEPT !.expired = TRUE]
      OBVIOUS
    <3>2. tRow \in Tokens!Row /\ tRow # None /\ tRow' = new
      BY <1>3, <2>2, <3>1
    <3>3. /\ new \in Tokens!Row /\ new.access = tRow.access /\ new.refresh = tRow.refresh
          /\ new.email = tRow.email /\ new.site = tRow.site
      BY <3>1, <3>2 DEF Tokens!Row
    <3>4. new # None
      BY <3>3 DEF Tokens!ConstantsAssumption
    <3>. QED
      BY <3>2, <3>3, <3>4
  <2>. QED
    BY <2>1, <2>2
<1>5. TokenCallsKnow'
  BY <1>2 DEF TokenIInv, TokenCallsKnow
<1>6. TokenCallsCurrent'
  BY <1>2, <1>4 DEF TokenIInv, TokenCallsCurrent, TokenCurrent
<1>7. Tokens!RowIsOneGrant' /\ TokenChosenForRow'
  BY <1>2, <1>4 DEF TokenIInv, Tokens!RowIsOneGrant, TokenChosenForRow
<1>8. tRevoked' \subseteq GoogleAccounts
  BY DEF Tokens!Expire, Tokens!Revoke, TokenIInv, Tokens!TypeOK
<1>9. UNCHANGED <<tNonce, tBegun, tSaved>>
  BY DEF Tokens!Expire, Tokens!Revoke
<1>. QED
  BY <1>1, <1>2, <1>4, <1>5, <1>6, <1>7, <1>8, <1>9
  DEF TokenIInv, Tokens!TypeOK, TokenSavedBegun, Tokens!FlowsSaveOnce

LEMMA TokenAgentKeeps ==
  ASSUME Tokens!ConstantsAssumption, TokenIInv, NEW c \in GoogleUsers,
         Tokens!Ask(c) \/ Tokens!Answered(c) \/ Tokens!Refresh(c)
  PROVE  TokenIInv'
<1>1. tCalls[c] \in Tokens!Call /\ tRow \in Tokens!Row \cup {None} /\ c # Tokens!Web
  BY DEF TokenIInv, Tokens!TypeOK, Tokens!ConstantsAssumption
<1>2. Tokens!Idle \in Tokens!Call /\ Tokens!Idle.at = "idle"
  BY DEF Tokens!Idle, Tokens!Call
<1>3. ASSUME tRow # None, tRow.refresh # None, NEW retry \in BOOLEAN
      PROVE  /\ Tokens!Refreshing(c, retry) \in Tokens!Call
             /\ TokenKnows(c, Tokens!Refreshing(c, retry))
             /\ ~tTorn => TokenCurrent(c, Tokens!Refreshing(c, retry), tRow)
  <2>1. Tokens!Decrypt(tRow.refresh) \in Tokens!Stored
        /\ Tokens!Decrypt(tRow.refresh).of = tRow.refresh.of
    BY <1>1, <1>3, TokenLayers DEF Tokens!Row
  <2>2. PICK call : call = Tokens!Refreshing(c, retry)
    OBVIOUS
  <2>3. /\ call \in Tokens!Call /\ call.at = "refreshing"
        /\ call.token = Tokens!Decrypt(tRow.refresh)
    BY <2>1, <2>2 DEF Tokens!Refreshing, Tokens!Idle, Tokens!Call
  <2>4. ~tTorn => tRow.refresh.of = tRow.access
    BY <1>3 DEF TokenIInv, Tokens!RowIsOneGrant
  <2>5. TokenKnows(c, call) /\ (~tTorn => TokenCurrent(c, call, tRow))
    BY <1>3, <2>1, <2>3, <2>4 DEF TokenKnows, TokenCurrent, TokenAccount
  <2>. QED
    BY <2>2, <2>3, <2>5
<1>4. ASSUME NEW call, call.at \in {"idle", "asking"}
      PROVE  TokenKnows(c, call) /\ TokenCurrent(c, call, tRow)
  BY <1>4 DEF TokenKnows, TokenCurrent
<1>5. ASSUME tRow # None
      PROVE  /\ [Tokens!Idle EXCEPT !.at = "asking", !.token = tRow.access] \in Tokens!Call
             /\ [Tokens!Idle EXCEPT !.at = "asking", !.token = tRow.access].at = "asking"
  BY <1>1, <1>5 DEF Tokens!Idle, Tokens!Call, Tokens!Row
<1>. DEFINE Good(call) == /\ call \in Tokens!Call
                          /\ TokenKnows(c, call)
                          /\ ~tTorn /\ ~call.outdated => TokenCurrent(c, call, tRow)
<1>6. PICK call : tCalls' = [tCalls EXCEPT ![c] = call] /\ Good(call)
  <2>0. Good(Tokens!Idle)
    BY <1>2, <1>4
  <2>1. CASE Tokens!Ask(c)
    <3>0. tRow # None /\ (tRow.expired => tRow.refresh # None)
      BY <2>1 DEF Tokens!Ask
    <3>1. CASE tRow.expired
      <4>1. PICK call : call = Tokens!Refreshing(c, FALSE)
        OBVIOUS
      <4>2. Good(call)
        BY <1>3, <3>0, <3>1, <4>1
      <4>3. tCalls' = [tCalls EXCEPT ![c] = call]
        BY <2>1, <3>1, <4>1 DEF Tokens!Ask
      <4>. QED
        BY <4>2, <4>3
    <3>2. CASE ~tRow.expired
      <4>1. PICK call : call = [Tokens!Idle EXCEPT !.at = "asking", !.token = tRow.access]
        OBVIOUS
      <4>0. call \in Tokens!Call /\ call.at \in {"idle", "asking"}
        BY <1>5, <3>0, <4>1
      <4>2. Good(call)
        BY <1>4, <4>0
      <4>3. tCalls' = [tCalls EXCEPT ![c] = call]
        BY <2>1, <3>2, <4>1 DEF Tokens!Ask
      <4>. QED
        BY <4>2, <4>3
    <3>. QED
      BY <3>1, <3>2
  <2>2. CASE Tokens!Answered(c)
    <3>1. PICK call : call = Tokens!Refreshing(c, TRUE)
      OBVIOUS
    <3>2. \/ tCalls' = [tCalls EXCEPT ![c] = Tokens!Idle]
          \/ tRow # None /\ tRow.refresh # None /\ tCalls' = [tCalls EXCEPT ![c] = call]
      BY <2>2, <3>1 DEF Tokens!Answered
    <3>3. tRow # None /\ tRow.refresh # None => Good(call)
      BY <1>3, <3>1
    <3>. HIDE DEF Good
    <3>. QED
      BY <2>0, <3>2, <3>3
  <2>3. CASE Tokens!Refresh(c)
    <3>1. PICK t : t = tCalls[c].token
      OBVIOUS
    <3>2. t \in Tokens!Stored /\ tCalls[c].at = "refreshing"
      BY <2>3, <3>1 DEF Tokens!Refresh, TokenIInv, TokenCallsKnow, TokenKnows
    <3>3. PICK grant : grant = [access |-> t.of, refresh |-> None, expired |-> FALSE,
                                email |-> None, site |-> None]
      OBVIOUS
    <3>4. grant \in Tokens!Row /\ grant.site = None /\ grant.refresh = None
          /\ grant.email = None /\ grant.access = t.of
      BY <3>2, <3>3 DEF Tokens!Row, Tokens!Stored
    <3>5. PICK call : call = [tCalls[c] EXCEPT !.at = "saving", !.token = None, !.grant = grant]
      OBVIOUS
    <3>6. /\ call \in Tokens!Call /\ call.at = "saving" /\ call.grant = grant
          /\ call.outdated = tCalls[c].outdated
      BY <1>1, <3>4, <3>5 DEF Tokens!Call
    <3>7. tCalls' = [tCalls EXCEPT ![c] = Tokens!Idle] \/ tCalls' = [tCalls EXCEPT ![c] = call]
      BY <2>3, <3>1, <3>3, <3>5 DEF Tokens!Refresh
    <3>8. TokenKnows(c, call)
      BY <1>1, <3>4, <3>6 DEF TokenKnows
    <3>9. ASSUME ~tTorn, ~call.outdated PROVE TokenCurrent(c, call, tRow)
      <4>1. TokenCurrent(c, tCalls[c], tRow)
        BY <3>6, <3>9 DEF TokenIInv, TokenCallsCurrent
      <4>2. tRow # None /\ grant.access = tRow.access
        BY <1>1, <3>1, <3>2, <3>4, <4>1 DEF TokenCurrent, TokenAccount
      <4>. QED
        BY <3>6, <4>2 DEF TokenCurrent, TokenAccount
    <3>10. Good(call)
      BY <3>6, <3>8, <3>9
    <3>. HIDE DEF Good
    <3>. QED
      BY <2>0, <3>7, <3>10
  <2>. QED
    BY <2>1, <2>2, <2>3
<1>7. tRow' = tRow /\ tTorn' = tTorn
  BY DEF Tokens!Ask, Tokens!Answered, Tokens!Refresh
<1>8. /\ tCalls' \in [GoogleUsers \cup {Tokens!Web} -> Tokens!Call]
      /\ TokenCallsKnow' /\ TokenCallsCurrent'
  BY <1>6, <1>7, TokenCallKeeps
<1>. QED
  BY <1>8 DEF Tokens!Ask, Tokens!Answered, Tokens!Refresh, TokenIInv, Tokens!TypeOK,
     TokenChosenForRow, TokenSavedBegun,
     Tokens!RowIsOneGrant, Tokens!FlowsSaveOnce

LEMMA TokenStepKeeps ==
  ASSUME Tokens!ConstantsAssumption, TokenIInv, [Tokens!Next]_(Tokens!vars)
  PROVE  TokenIInv'
<1>1. CASE UNCHANGED Tokens!vars
  BY <1>1 DEF Tokens!vars, TokenIInv, Tokens!TypeOK, TokenCallsKnow, TokenCallsCurrent,
     TokenChosenForRow, TokenSavedBegun, Tokens!RowIsOneGrant,
     Tokens!FlowsSaveOnce
<1>2. ASSUME NEW f \in Flows, Tokens!Connect(f) PROVE TokenIInv'
  BY <1>2 DEF Tokens!Connect, TokenIInv, Tokens!TypeOK, TokenCallsKnow, TokenCallsCurrent,
     TokenChosenForRow, TokenSavedBegun, Tokens!RowIsOneGrant,
     Tokens!FlowsSaveOnce
<1>3. ASSUME NEW f \in Flows, Tokens!CallbackFails(f) PROVE TokenIInv'
  BY <1>3 DEF Tokens!CallbackFails, Tokens!NonceAfter, TokenIInv, Tokens!TypeOK,
     TokenCallsKnow, TokenCallsCurrent, TokenChosenForRow, TokenSavedBegun,
     Tokens!RowIsOneGrant, Tokens!FlowsSaveOnce, Tokens!ConstantsAssumption
<1>. QED
  BY <1>1, <1>2, <1>3, TokenCallbackKeeps, TokenPersonKeeps, TokenTurnsKeep, TokenSaveReadsKeeps,
     TokenSaveWritesKeeps, TokenAgentKeeps
  DEF Tokens!Next, Tokens!Save

\* Refresh token, name and site of the row are of the account of its access token,
\* however many agents refresh it at the same time, but for the cases RowIsOneGrant
\* names; and no flow saves twice (google_oauth.py, routes/oauth.py).
THEOREM TokenGrantHolds ==
  ASSUME Tokens!ConstantsAssumption
  PROVE  Tokens!Spec => [](Tokens!TypeOK /\ Tokens!RowIsOneGrant /\ Tokens!FlowsSaveOnce)
<1>1. Tokens!Init => TokenIInv
  BY TokenInitHolds
<1>2. TokenIInv /\ [Tokens!Next]_(Tokens!vars) => TokenIInv'
  BY TokenStepKeeps
<1>3. TokenIInv => Tokens!TypeOK /\ Tokens!RowIsOneGrant /\ Tokens!FlowsSaveOnce
  BY DEF TokenIInv
<1>. QED
  BY <1>1, <1>2, <1>3, PTL DEF Tokens!Spec

-----------------------------------------------------------------------------
(* The credentials of a client (crypto.py, clients.py, lite.py).           *)

-----------------------------------------------------------------------------
(* Each credential of the row is the one entered last, plain or encrypted  *)
(* once, and encrypted only in a row that says so.  This does not speak of *)
(* keys, so that it survives a key that is set and a process that restarts.*)

CredentialKept(r, last) ==
  \A k \in Kinds :
     IF last[k] = None THEN r.token[k] = None
     ELSE /\ r.token[k] \in Credentials!Stored
          /\ r.token[k].of = last[k]
          /\ r.token[k].layers \in {0, 1}
          /\ r.token[k].layers = 1 => r.encrypted

CredentialRowIsKept == kRow # None /\ ~kTorn => CredentialKept(kRow, kEntered)

\* What a form or the script has read was a row.
CredentialReadersHaveRows == (kForm # None \/ kScript # None) => kRow # None

CredentialIInv == Credentials!TypeOK /\ CredentialRowIsKept /\ CredentialReadersHaveRows

-----------------------------------------------------------------------------
(* Operators.                                                              *)

LEMMA CredentialEncryptOnce ==
  ASSUME NEW p, NEW v \in Secrets
  PROVE  /\ Credentials!Encrypt(p, [of |-> v, layers |-> 0]) \in Credentials!Stored
         /\ Credentials!Encrypt(p, [of |-> v, layers |-> 0]).of = v
         /\ Credentials!Encrypt(p, [of |-> v, layers |-> 0]).layers \in {0, 1}
BY DEF Credentials!Encrypt, Credentials!Stored

\* A form leaves what it was given, and keeps what it left blank.
LEMMA CredentialSavedKeeps ==
  ASSUME Credentials!ConstantsAssumption, NEW p, NEW fields \in Credentials!Entries,
         NEW seen \in Credentials!Row,
         NEW before \in Credentials!Entries, CredentialKept(seen, before)
  PROVE  CredentialKept(Credentials!Saved(p, fields, seen),
                        [k \in Kinds |-> IF fields[k] = None THEN before[k] ELSE fields[k]])
<1>. DEFINE after == Credentials!Saved(p, fields, seen)
            last == [k \in Kinds |-> IF fields[k] = None THEN before[k] ELSE fields[k]]
<1>1. after.encrypted = TRUE
  BY DEF Credentials!Saved
<1>2. ASSUME NEW k \in Kinds
      PROVE  IF last[k] = None THEN after.token[k] = None
             ELSE /\ after.token[k] \in Credentials!Stored
                  /\ after.token[k].of = last[k]
                  /\ after.token[k].layers \in {0, 1}
                  /\ after.token[k].layers = 1 => after.encrypted
  <2>1. CASE fields[k] = None
    <3>1. after.token[k] = seen.token[k] /\ last[k] = before[k]
      BY <2>1 DEF Credentials!Saved
    <3>. QED
      BY <1>1, <3>1 DEF CredentialKept
  <2>2. CASE fields[k] # None
    <3>1. fields[k] \in Secrets /\ last[k] = fields[k] /\ last[k] # None
      BY <2>2 DEF Credentials!Entries, Credentials!ConstantsAssumption
    <3>2. after.token[k] = Credentials!Encrypt(p, [of |-> fields[k], layers |-> 0])
      BY <2>2 DEF Credentials!Saved
    <3>. QED
      BY <1>1, <3>1, <3>2, CredentialEncryptOnce
  <2>. QED
    BY <2>1, <2>2
<1>. QED
  BY <1>2 DEF CredentialKept

LEMMA CredentialSavedType ==
  ASSUME NEW p, NEW fields \in Credentials!Entries, NEW seen \in Credentials!Row
  PROVE  Credentials!Saved(p, fields, seen) \in Credentials!Row
<1>1. ASSUME NEW k \in Kinds
      PROVE  (IF fields[k] = None THEN seen.token[k]
              ELSE Credentials!Encrypt(p, [of |-> fields[k], layers |-> 0]))
                \in Credentials!Stored \cup {None}
  BY CredentialEncryptOnce DEF Credentials!Entries, Credentials!Row
<1>. QED
  BY <1>1 DEF Credentials!Saved, Credentials!Row

\* The script encrypts what is plain and changes nothing else.
LEMMA CredentialScriptKeeps ==
  ASSUME NEW seen \in Credentials!Row, NEW last \in Credentials!Entries,
         CredentialKept(seen, last)
  PROVE  CredentialKept(Credentials!ScriptLeaves(seen), last)
<1>. DEFINE after == Credentials!ScriptLeaves(seen)
<1>1. after.encrypted = TRUE
  BY DEF Credentials!ScriptLeaves
<1>2. ASSUME NEW k \in Kinds
      PROVE  IF last[k] = None THEN after.token[k] = None
             ELSE /\ after.token[k] \in Credentials!Stored
                  /\ after.token[k].of = last[k]
                  /\ after.token[k].layers \in {0, 1}
                  /\ after.token[k].layers = 1 => after.encrypted
  <2>1. CASE k \in Credentials!Plain(seen) /\ ~Credentials!Prefixed(seen.token[k])
    <3>1. after.token[k] = [seen.token[k] EXCEPT !.layers = @ + 1]
      BY <2>1 DEF Credentials!ScriptLeaves
    <3>2. last[k] # None /\ seen.token[k] \in Credentials!Stored /\ seen.token[k].layers = 0
          /\ seen.token[k].of = last[k]
      BY <2>1 DEF Credentials!Plain, Credentials!Prefixed, CredentialKept, Credentials!Stored
    <3>. QED
      BY <1>1, <3>1, <3>2 DEF Credentials!Stored
  <2>2. CASE ~(k \in Credentials!Plain(seen) /\ ~Credentials!Prefixed(seen.token[k]))
    <3>1. after.token[k] = seen.token[k]
      BY <2>2 DEF Credentials!ScriptLeaves
    <3>. QED
      BY <1>1, <3>1 DEF CredentialKept, Credentials!Row
  <2>. QED
    BY <2>1, <2>2
<1>. QED
  BY <1>2 DEF CredentialKept

\* Also of a row that is not as it should be, the script makes a row.
LEMMA CredentialScriptType ==
  ASSUME NEW seen \in Credentials!Row
  PROVE  Credentials!ScriptLeaves(seen) \in Credentials!Row
<1>1. ASSUME NEW k \in Kinds
      PROVE  (IF k \in Credentials!Plain(seen) /\ ~Credentials!Prefixed(seen.token[k])
              THEN [seen.token[k] EXCEPT !.layers = @ + 1]
              ELSE seen.token[k]) \in Credentials!Stored \cup {None}
  BY DEF Credentials!Row, Credentials!Plain, Credentials!Prefixed, Credentials!Stored
<1>. QED
  BY <1>1 DEF Credentials!ScriptLeaves, Credentials!Row

-----------------------------------------------------------------------------
(* The invariant is inductive.                                             *)

LEMMA CredentialInitHolds ==
  ASSUME Credentials!ConstantsAssumption, Credentials!Init
  PROVE  CredentialIInv
<1>0. ASSUME kRow \in Credentials!Row \cup {None} PROVE Credentials!TypeOK
  <2>1. kKeyed \subseteq Webs
    BY DEF Credentials!Init
  <2>2. kForms \in 0..MaxForms
    BY DEF Credentials!Init, Credentials!ConstantsAssumption
  <2>. QED
    BY <1>0, <2>1, <2>2 DEF Credentials!Init, Credentials!TypeOK
<1>1. CASE kRow = None
  <2>1. Credentials!TypeOK
    BY <1>0, <1>1
  <2>. QED
    BY <1>1, <2>1
    DEF CredentialIInv, CredentialRowIsKept, CredentialReadersHaveRows, Credentials!Init
<1>2. CASE kRow = [token |-> [k \in Kinds |-> IF kEntered[k] = None THEN None
                                 ELSE [of |-> kEntered[k], layers |-> 0]],
                   encrypted |-> FALSE]
  <2>1. ASSUME NEW k \in Kinds
        PROVE  /\ kRow.token[k] \in Credentials!Stored \cup {None}
               /\ kRow.token[k] = IF kEntered[k] = None THEN None
                                  ELSE [of |-> kEntered[k], layers |-> 0]
    <3>1. kRow.token[k] = IF kEntered[k] = None THEN None
                          ELSE [of |-> kEntered[k], layers |-> 0]
      BY <1>2
    <3>2. kEntered[k] # None => kEntered[k] \in Secrets
      BY DEF Credentials!Init, Credentials!Entries
    <3>3. kEntered[k] # None => [of |-> kEntered[k], layers |-> 0] \in Credentials!Stored
      BY <3>2 DEF Credentials!Stored
    <3>. QED
      BY <3>1, <3>3
  <2>2. kRow \in Credentials!Row
    <3>. DEFINE token == [k \in Kinds |-> IF kEntered[k] = None THEN None
                                           ELSE [of |-> kEntered[k], layers |-> 0]]
    <3>1. \A k \in Kinds : token[k] \in Credentials!Stored \cup {None}
      BY <1>2, <2>1
    <3>2. token \in [Kinds -> Credentials!Stored \cup {None}]
      BY <3>1
    <3>3. kRow = [token |-> token, encrypted |-> FALSE]
      BY <1>2, Zenon
    <3>. HIDE DEF token
    <3>4. [token |-> token, encrypted |-> FALSE] \in Credentials!Row
      BY <3>2 DEF Credentials!Row
    <3>. QED
      BY <3>3, <3>4
  <2>3. Credentials!TypeOK
    BY <1>0, <2>2
  <2>4. ASSUME NEW k \in Kinds, kEntered[k] # None
        PROVE  /\ kRow.token[k] \in Credentials!Stored
               /\ kRow.token[k].of = kEntered[k]
               /\ kRow.token[k].layers = 0
    <3>1. kEntered[k] \in Secrets
      BY <2>4 DEF Credentials!Init, Credentials!Entries
    <3>2. kRow.token[k] = [of |-> kEntered[k], layers |-> 0]
      BY <2>1, <2>4
    <3>. QED
      BY <3>1, <3>2 DEF Credentials!Stored
  <2>5. CredentialKept(kRow, kEntered)
    <3>1. ASSUME NEW k \in Kinds
          PROVE  IF kEntered[k] = None THEN kRow.token[k] = None
                 ELSE /\ kRow.token[k] \in Credentials!Stored
                      /\ kRow.token[k].of = kEntered[k]
                      /\ kRow.token[k].layers \in {0, 1}
                      /\ kRow.token[k].layers = 1 => kRow.encrypted
      <4>1. CASE kEntered[k] = None
        <5>1. kRow.token[k] = IF kEntered[k] = None THEN None
                              ELSE [of |-> kEntered[k], layers |-> 0]
          BY <2>1
        <5>. QED
          BY <4>1, <5>1, Zenon
      <4>2. CASE kEntered[k] # None
        BY <2>4, <4>2
      <4>. QED
        BY <4>1, <4>2
    <3>. QED
      BY <3>1 DEF CredentialKept
  <2>. QED
    BY <2>3, <2>5
    DEF CredentialIInv, CredentialRowIsKept, CredentialReadersHaveRows, Credentials!Init
<1>. QED
  BY <1>1, <1>2 DEF Credentials!Init

\* A form that has read the row it replaces.
LEMMA CredentialFormKeeps ==
  ASSUME Credentials!ConstantsAssumption, CredentialIInv, NEW p,
         NEW fields \in Credentials!Entries, NEW seen \in Credentials!Row,
         kRow' = Credentials!Saved(p, fields, seen), kEntered' = Credentials!Entered(fields),
         ~kTorn' => ~kTorn /\ CredentialKept(seen, kEntered)
  PROVE  kRow' \in Credentials!Row /\ kEntered' \in Credentials!Entries /\ CredentialRowIsKept'
<1>1. kRow' \in Credentials!Row
  BY CredentialSavedType
<1>2. kEntered' \in Credentials!Entries
  BY DEF CredentialIInv, Credentials!TypeOK, Credentials!Entered, Credentials!Entries
<1>3. ASSUME ~kTorn' PROVE CredentialKept(kRow', kEntered')
  BY <1>3, CredentialSavedKeeps DEF Credentials!Entered, CredentialIInv, Credentials!TypeOK
<1>. QED
  BY <1>1, <1>2, <1>3 DEF CredentialRowIsKept

\* The first row of a client holds what was entered with it.
LEMMA CredentialCreateKeeps ==
  ASSUME Credentials!ConstantsAssumption, CredentialIInv, NEW p \in Webs,
         NEW fields \in Credentials!Entries, Credentials!Create(p, fields)
  PROVE  CredentialIInv'
<1>. DEFINE blank == [token |-> [k \in Kinds |-> None], encrypted |-> FALSE]
            nothing == [k \in Kinds |-> None]
<1>1. blank \in Credentials!Row /\ nothing \in Credentials!Entries
      /\ CredentialKept(blank, nothing)
  BY DEF Credentials!Row, Credentials!Entries, CredentialKept
<1>2. kRow' = Credentials!Saved(p, fields, blank) /\ kRow' \in Credentials!Row
  BY <1>1, CredentialSavedType DEF Credentials!Create
<1>3. fields = [k \in Kinds |-> IF fields[k] = None THEN nothing[k] ELSE fields[k]]
  BY DEF Credentials!Entries
<1>4. CredentialKept(kRow', fields)
  <2>. HIDE DEF blank, nothing
  <2>1. CredentialKept(Credentials!Saved(p, fields, blank),
                       [k \in Kinds |-> IF fields[k] = None THEN nothing[k] ELSE fields[k]])
    BY <1>1, CredentialSavedKeeps
  <2>. QED
    BY <1>2, <1>3, <2>1
<1>5. kForm = None /\ kScript = None
  BY DEF Credentials!Create, CredentialIInv, CredentialReadersHaveRows
<1>6. Credentials!TypeOK'
  BY <1>2 DEF Credentials!Create, Credentials!Sent, CredentialIInv, Credentials!TypeOK,
     Credentials!ConstantsAssumption
<1>7. CredentialRowIsKept'
  BY <1>4 DEF CredentialRowIsKept, Credentials!Create
<1>8. CredentialReadersHaveRows'
  BY <1>5 DEF CredentialReadersHaveRows, Credentials!Create
<1>. QED
  BY <1>6, <1>7, <1>8 DEF CredentialIInv

LEMMA CredentialUpdateKeeps ==
  ASSUME Credentials!ConstantsAssumption, CredentialIInv, NEW p \in Webs,
         NEW fields \in Credentials!Entries, Credentials!Update(p, fields)
  PROVE  CredentialIInv'
<1>1. kRow \in Credentials!Row /\ (~kTorn => CredentialKept(kRow, kEntered))
  BY DEF Credentials!Update, CredentialIInv, Credentials!TypeOK, CredentialRowIsKept
<1>2. kRow' \in Credentials!Row /\ kEntered' \in Credentials!Entries /\ CredentialRowIsKept'
  BY <1>1, CredentialFormKeeps DEF Credentials!Update
<1>3. Credentials!TypeOK'
  BY <1>2 DEF Credentials!Update, Credentials!Sent, CredentialIInv, Credentials!TypeOK,
     Credentials!ConstantsAssumption
<1>4. CredentialReadersHaveRows'
  BY <1>2 DEF CredentialReadersHaveRows, Credentials!ConstantsAssumption
<1>. QED
  BY <1>2, <1>3, <1>4 DEF CredentialIInv

\* The settings page writes over the row it has read, or history says that it did not.
LEMMA CredentialSettingsKeep ==
  ASSUME Credentials!ConstantsAssumption, CredentialIInv, Credentials!SettingsWrite
  PROVE  CredentialIInv'
<1>1. kForm.seen \in Credentials!Row /\ kForm.fields \in Credentials!Entries
  BY DEF Credentials!SettingsWrite, CredentialIInv, Credentials!TypeOK
<1>2. ASSUME ~kTorn' PROVE ~kTorn /\ CredentialKept(kForm.seen, kEntered)
  <2>1. ~kTorn /\ kRow = kForm.seen
    BY <1>2 DEF Credentials!SettingsWrite
  <2>2. kRow # None
    BY <1>1, <2>1 DEF Credentials!ConstantsAssumption
  <2>. QED
    BY <2>1, <2>2 DEF CredentialIInv, CredentialRowIsKept
<1>3. kRow' \in Credentials!Row /\ kEntered' \in Credentials!Entries /\ CredentialRowIsKept'
  BY <1>1, <1>2, CredentialFormKeeps DEF Credentials!SettingsWrite
<1>4. kTorn' \in BOOLEAN
  BY DEF Credentials!SettingsWrite, CredentialIInv, Credentials!TypeOK
<1>5. Credentials!TypeOK'
  BY <1>3, <1>4 DEF Credentials!SettingsWrite, CredentialIInv, Credentials!TypeOK
<1>6. CredentialReadersHaveRows'
  BY <1>3 DEF CredentialReadersHaveRows, Credentials!ConstantsAssumption
<1>. QED
  BY <1>3, <1>5, <1>6 DEF CredentialIInv

LEMMA CredentialScriptWriteKeeps ==
  ASSUME Credentials!ConstantsAssumption, CredentialIInv, Credentials!ScriptWrites
  PROVE  CredentialIInv'
<1>1. kScript \in Credentials!Row
  BY DEF Credentials!ScriptWrites, CredentialIInv, Credentials!TypeOK
<1>2. CASE Credentials!Plain(kScript) = {}
  <2>1. UNCHANGED <<kRow, kTorn, kKey, kKeyed, kForm, kForms, kEntered>> /\ kScript' = None
    BY <1>2 DEF Credentials!ScriptWrites
  <2>. QED
    BY <2>1 DEF CredentialIInv, Credentials!TypeOK, CredentialRowIsKept,
       CredentialReadersHaveRows, CredentialKept
<1>3. CASE Credentials!Plain(kScript) # {}
  <2>1. /\ kRow' = Credentials!ScriptLeaves(kScript) /\ kTorn' = (kTorn \/ kRow # kScript)
        /\ UNCHANGED <<kKey, kKeyed, kForm, kForms, kEntered>> /\ kScript' = None
    BY <1>3 DEF Credentials!ScriptWrites
  <2>2. kRow' \in Credentials!Row
    BY <1>1, <2>1, CredentialScriptType
  <2>3. ASSUME ~kTorn' PROVE CredentialKept(kRow', kEntered')
    <3>1. ~kTorn /\ kRow = kScript /\ kRow # None
      BY <1>1, <2>1, <2>3 DEF Credentials!ConstantsAssumption
    <3>2. CredentialKept(kScript, kEntered) /\ kEntered \in Credentials!Entries
      BY <3>1 DEF CredentialIInv, CredentialRowIsKept, Credentials!TypeOK
    <3>. QED
      BY <1>1, <2>1, <3>2, CredentialScriptKeeps
  <2>4. kTorn' \in BOOLEAN
    BY <2>1 DEF CredentialIInv, Credentials!TypeOK
  <2>5. Credentials!TypeOK'
    BY <2>1, <2>2, <2>4 DEF CredentialIInv, Credentials!TypeOK
  <2>6. CredentialRowIsKept' /\ CredentialReadersHaveRows'
    BY <2>2, <2>3
    DEF CredentialRowIsKept, CredentialReadersHaveRows, Credentials!ConstantsAssumption
  <2>. QED
    BY <2>5, <2>6 DEF CredentialIInv
<1>. QED
  BY <1>2, <1>3

LEMMA CredentialStepKeeps ==
  ASSUME Credentials!ConstantsAssumption, CredentialIInv, [Credentials!Next]_(Credentials!vars)
  PROVE  CredentialIInv'
<1>1. CASE UNCHANGED Credentials!vars
  BY <1>1 DEF Credentials!vars, CredentialIInv, Credentials!TypeOK, CredentialRowIsKept,
     CredentialReadersHaveRows, CredentialKept
<1>2. ASSUME NEW p \in Webs, Credentials!Restart(p) PROVE CredentialIInv'
  <2>1. Credentials!TypeOK'
    BY <1>2 DEF Credentials!Restart, CredentialIInv, Credentials!TypeOK
  <2>. QED
    BY <1>2, <2>1 DEF Credentials!Restart, CredentialIInv, CredentialRowIsKept,
       CredentialReadersHaveRows, CredentialKept
<1>3. ASSUME NEW p \in Webs, NEW fields \in Credentials!Entries,
             Credentials!SettingsRead(p, fields)
      PROVE  CredentialIInv'
  <2>1. [by |-> p, fields |-> fields, seen |-> kRow]
          \in [by : Webs, fields : Credentials!Entries, seen : Credentials!Row]
    BY <1>3 DEF Credentials!SettingsRead, CredentialIInv, Credentials!TypeOK
  <2>2. Credentials!TypeOK'
    BY <1>3, <2>1 DEF Credentials!SettingsRead, Credentials!Sent, CredentialIInv,
       Credentials!TypeOK, Credentials!ConstantsAssumption
  <2>. QED
    BY <1>3, <2>2 DEF Credentials!SettingsRead, CredentialIInv, CredentialRowIsKept,
       CredentialReadersHaveRows, CredentialKept
<1>4. CASE Credentials!KeySet
  BY <1>4 DEF Credentials!KeySet, CredentialIInv, Credentials!TypeOK, CredentialRowIsKept,
     CredentialReadersHaveRows, CredentialKept
<1>5. CASE Credentials!ScriptReads
  BY <1>5 DEF Credentials!ScriptReads, CredentialIInv, Credentials!TypeOK, CredentialRowIsKept,
     CredentialReadersHaveRows, CredentialKept
<1>. QED
  BY <1>1, <1>2, <1>3, <1>4, <1>5, CredentialCreateKeeps, CredentialUpdateKeeps,
     CredentialSettingsKeep, CredentialScriptWriteKeeps
  DEF Credentials!Next

\* What is kept can be read by whoever has the key.
LEMMA CredentialKeptReadsBack ==
  ASSUME Credentials!ConstantsAssumption, CredentialIInv
  PROVE  Credentials!CredentialsReadBack
<1>. SUFFICES ASSUME kRow # None, ~kTorn, NEW p \in kKeyed, NEW k \in Kinds
              PROVE  IF kEntered[k] = None THEN kRow.token[k] = None
                     ELSE Credentials!Decrypt(p, kRow.token[k], kRow.encrypted)
                            = [of |-> kEntered[k], layers |-> 0]
  BY DEF Credentials!CredentialsReadBack
<1>1. CredentialKept(kRow, kEntered)
  BY DEF CredentialIInv, CredentialRowIsKept
<1>2. CASE kEntered[k] # None
  <2>1. /\ kRow.token[k] \in Credentials!Stored /\ kRow.token[k].of = kEntered[k]
        /\ kRow.token[k].layers \in {0, 1} /\ (kRow.token[k].layers = 1 => kRow.encrypted)
    BY <1>1, <1>2 DEF CredentialKept
  <2>2. CASE kRow.token[k].layers = 0
    <3>1. Credentials!Decrypt(p, kRow.token[k], kRow.encrypted) = kRow.token[k]
      BY <2>2 DEF Credentials!Decrypt, Credentials!Prefixed
    <3>. QED
      BY <1>2, <2>1, <2>2, <3>1 DEF Credentials!Stored
  <2>3. CASE kRow.token[k].layers = 1
    <3>1. Credentials!Decrypt(p, kRow.token[k], kRow.encrypted)
            = [kRow.token[k] EXCEPT !.layers = @ - 1]
      BY <2>1, <2>3 DEF Credentials!Decrypt, Credentials!Prefixed
    <3>. QED
      BY <1>2, <2>1, <2>3, <3>1 DEF Credentials!Stored
  <2>. QED
    BY <2>1, <2>2, <2>3
<1>. QED
  BY <1>1, <1>2 DEF CredentialKept

-----------------------------------------------------------------------------
\* The types, through forms, restarts and the script (denzo/crypto.py).
THEOREM CredentialTypeCorrect ==
  ASSUME Credentials!ConstantsAssumption
  PROVE  Credentials!Spec => []Credentials!TypeOK
<1>1. Credentials!Init => CredentialIInv
  BY CredentialInitHolds
<1>2. CredentialIInv /\ [Credentials!Next]_(Credentials!vars) => CredentialIInv'
  BY CredentialStepKeeps
<1>3. CredentialIInv => Credentials!TypeOK
  BY DEF CredentialIInv
<1>. QED
  BY <1>1, <1>2, <1>3, PTL DEF Credentials!Spec

\* A process with the key reads the credential entered last, whichever processes
\* and scripts stored it, before or after there was a key (crypto.py:8).
THEOREM CredentialReadBackHolds ==
  ASSUME Credentials!ConstantsAssumption
  PROVE  Credentials!Spec => []Credentials!CredentialsReadBack
<1>1. Credentials!Init => CredentialIInv
  BY CredentialInitHolds
<1>2. CredentialIInv /\ [Credentials!Next]_(Credentials!vars) => CredentialIInv'
  BY CredentialStepKeeps
<1>3. CredentialIInv => Credentials!CredentialsReadBack
  BY CredentialKeptReadsBack
<1>. QED
  BY <1>1, <1>2, <1>3, PTL DEF Credentials!Spec

-----------------------------------------------------------------------------
(* Clients and their rows (db.py, clients.py, base_agent.py).              *)

\* An agent that has work knows for whom.
TenantWorkIsNamed ==
  \A w \in Workers : nWork[w] # Tenants!NoWork
    => nWork[w].slug \in Tenants!Slugs /\ nWork[w].of \in Tenants!Ids

TenantIInv == Tenants!TypeOK /\ TenantWorkIsNamed /\ Tenants!RowsAreOwn

TenantRows == [Tenants!Slugs -> [Tenants!Tables -> SUBSET Tenants!Ids]]
TenantWork == [slug : Tenants!Slugs \cup {None}, of : Tenants!Ids \cup {None}, sure : BOOLEAN]

LEMMA TenantNoWorkType == Tenants!NoWork \in TenantWork
BY DEF Tenants!NoWork, TenantWork

\* A row that is added is one row of one table of one slug.
LEMMA TenantAddedRow ==
  ASSUME nRows \in TenantRows, NEW s \in Tenants!Slugs, NEW t \in Tenants!Tables,
         NEW id \in Tenants!Ids,
         nRows' = [nRows EXCEPT ![s][t] = @ \cup {id}]
  PROVE  /\ nRows' \in TenantRows
         /\ \A r \in Tenants!Slugs, u \in Tenants!Tables : \A i \in nRows'[r][u] :
              i \in nRows[r][u] \/ (r = s /\ i = id)
<1>1. nRows[s] \in [Tenants!Tables -> SUBSET Tenants!Ids]
  BY DEF TenantRows
<1>2. [nRows[s] EXCEPT ![t] = @ \cup {id}] \in [Tenants!Tables -> SUBSET Tenants!Ids]
  BY <1>1
<1>3. nRows' = [nRows EXCEPT ![s] = [nRows[s] EXCEPT ![t] = @ \cup {id}]]
  OBVIOUS
<1>4. nRows' \in TenantRows
  BY <1>2, <1>3 DEF TenantRows
<1>5. ASSUME NEW r \in Tenants!Slugs, NEW u \in Tenants!Tables, NEW i \in nRows'[r][u]
      PROVE  i \in nRows[r][u] \/ (r = s /\ i = id)
  <2>1. CASE r = s
    <3>1. nRows'[r] = [nRows[s] EXCEPT ![t] = @ \cup {id}]
      BY <1>3, <2>1 DEF TenantRows
    <3>. QED
      BY <1>1, <1>5, <2>1, <3>1
  <2>2. CASE r # s
    BY <1>3, <1>5, <2>2 DEF TenantRows
  <2>. QED
    BY <2>1, <2>2
<1>. QED
  BY <1>4, <1>5

-----------------------------------------------------------------------------
(* The invariant is inductive: one lemma per group of actions.             *)

LEMMA TenantInitHolds == ASSUME Tenants!ConstantsAssumption, Tenants!Init PROVE TenantIInv
<1>1. nClient \in [Tenants!Slugs -> Tenants!Ids \cup {None}]
      /\ nRows \in [Tenants!Slugs -> [Tenants!Tables -> SUBSET Tenants!Ids]]
  BY DEF Tenants!Init
<1>2. nWork \in [Workers -> TenantWork]
  BY TenantNoWorkType DEF Tenants!Init
<1>3. nCreated \in 0..MaxTenants /\ nRefused \subseteq Tenants!Ids
      /\ nLate \subseteq Tenants!Slugs \X Tenants!Ids
  BY DEF Tenants!Init, Tenants!ConstantsAssumption
<1>4. TenantWorkIsNamed /\ Tenants!RowsAreOwn
  BY DEF Tenants!Init, TenantWorkIsNamed, Tenants!RowsAreOwn
<1>. QED
  BY <1>1, <1>2, <1>3, <1>4 DEF TenantIInv, Tenants!TypeOK, TenantWork

\* A client is new, and its slug had none.
LEMMA TenantInsertedKeeps ==
  ASSUME Tenants!ConstantsAssumption, TenantIInv, NEW s \in Tenants!Slugs, nClient[s] = None,
         Tenants!Inserted(s)
  PROVE  TenantIInv'
<1>. USE DEF TenantIInv
<1>1. nCreated + 1 \in Tenants!Ids /\ nCreated' \in 0..MaxTenants
  BY DEF Tenants!TypeOK, Tenants!Inserted, Tenants!Ids, Tenants!ConstantsAssumption
<1>2. PICK id \in Tenants!Ids : id = nCreated + 1
  BY <1>1
<1>3. /\ nRows' \in TenantRows
      /\ \A r \in Tenants!Slugs, u \in Tenants!Tables : \A i \in nRows'[r][u] :
           i \in nRows[r][u] \/ (r = s /\ i = id)
  <2>1. "keywords" \in Tenants!Tables /\ nRows \in TenantRows
    BY DEF Tenants!Tables, Tenants!Cleared, Tenants!TypeOK, TenantRows
  <2>2. nRows' = [nRows EXCEPT ![s]["keywords"] = @ \cup {id}]
    BY <1>2 DEF Tenants!Inserted
  <2>. HIDE DEF TenantIInv
  <2>. QED
    BY <2>1, <2>2, TenantAddedRow
<1>4. nClient' \in [Tenants!Slugs -> Tenants!Ids \cup {None}]
  BY <1>1 DEF Tenants!TypeOK, Tenants!Inserted
<1>5. Tenants!TypeOK'
  BY <1>1, <1>3, <1>4 DEF Tenants!TypeOK, Tenants!Inserted, TenantRows
<1>6. TenantWorkIsNamed'
  BY DEF TenantWorkIsNamed, Tenants!Inserted
<1>7. ASSUME NEW r \in Tenants!Slugs, NEW u \in Tenants!Tables, NEW i \in nRows'[r][u]
      PROVE  i = nClient'[r] \/ <<r, i>> \in nLate'
  <2>1. nClient'[s] = id /\ (r # s => nClient'[r] = nClient[r]) /\ nLate' = nLate
    BY <1>2 DEF Tenants!TypeOK, Tenants!Inserted
  <2>2. CASE i \in nRows[r][u]
    <3>1. i \in Tenants!Ids /\ i # None
      BY <2>2 DEF Tenants!TypeOK, Tenants!Ids, Tenants!ConstantsAssumption
    <3>2. i = nClient[r] \/ <<r, i>> \in nLate
      BY <2>2 DEF Tenants!RowsAreOwn
    <3>. QED
      BY <2>1, <3>1, <3>2
  <2>3. CASE r = s /\ i = id
    BY <2>1, <2>3
  <2>. QED
    BY <1>3, <1>7, <2>2, <2>3
<1>8. Tenants!RowsAreOwn'
  BY <1>7 DEF Tenants!RowsAreOwn
<1>. QED
  BY <1>5, <1>6, <1>8

\* Rows of the client that has the slug: an authorisation, a job.
LEMMA TenantOwnRowKeeps ==
  ASSUME TenantIInv, NEW s \in Tenants!Slugs, NEW t \in Tenants!Tables, nClient[s] # None,
         nRows' = [nRows EXCEPT ![s][t] = @ \cup {nClient[s]}],
         UNCHANGED <<nClient, nCreated, nRefused, nLate>>,
         nWork' \in [Workers -> TenantWork], TenantWorkIsNamed'
  PROVE  TenantIInv'
<1>. USE DEF TenantIInv
<1>1. nClient[s] \in Tenants!Ids /\ nRows \in TenantRows
  BY DEF Tenants!TypeOK, TenantRows
<1>2. /\ nRows' \in TenantRows
      /\ \A r \in Tenants!Slugs, u \in Tenants!Tables : \A i \in nRows'[r][u] :
           i \in nRows[r][u] \/ (r = s /\ i = nClient[s])
  BY <1>1, TenantAddedRow
<1>3. Tenants!TypeOK'
  BY <1>2 DEF Tenants!TypeOK, TenantRows, TenantWork
<1>4. Tenants!RowsAreOwn'
  BY <1>2 DEF Tenants!RowsAreOwn
<1>. QED
  BY <1>3, <1>4

\* Rows that an agent writes: for its client, or late.
LEMMA TenantAgentRowKeeps ==
  ASSUME TenantIInv, NEW s \in Tenants!Slugs, NEW id \in Tenants!Ids, NEW t \in Tenants!Tables,
         nRows' = [nRows EXCEPT ![s][t] = @ \cup {id}],
         nLate' = IF nClient[s] = id THEN nLate ELSE nLate \cup {<<s, id>>},
         UNCHANGED <<nClient, nWork, nCreated, nRefused>>
  PROVE  TenantIInv'
<1>. USE DEF TenantIInv
<1>1. nRows \in TenantRows
  BY DEF Tenants!TypeOK, TenantRows
<1>2. /\ nRows' \in TenantRows
      /\ \A r \in Tenants!Slugs, u \in Tenants!Tables : \A i \in nRows'[r][u] :
           i \in nRows[r][u] \/ (r = s /\ i = id)
  BY <1>1, TenantAddedRow
<1>3. nLate' \subseteq Tenants!Slugs \X Tenants!Ids
  BY <1>1 DEF Tenants!TypeOK
<1>4. Tenants!TypeOK'
  BY <1>2, <1>3 DEF Tenants!TypeOK, TenantRows
<1>5. TenantWorkIsNamed'
  BY DEF TenantWorkIsNamed
<1>6. Tenants!RowsAreOwn'
  BY <1>2 DEF Tenants!RowsAreOwn
<1>. QED
  BY <1>4, <1>5, <1>6

\* Between them, what is cleared, what the trigger clears and what goes with the
\* client are all the tables.
LEMMA TenantDeleteKeeps ==
  ASSUME Tenants!ConstantsAssumption, TenantIInv, NEW s \in Tenants!Slugs,
         Tenants!DeleteClient(s)
  PROVE  TenantIInv'
<1>. USE DEF TenantIInv
<1>1. CASE Tenants!Referenced(s)
  <2>1. nRefused' \subseteq Tenants!Ids
    BY <1>1 DEF Tenants!DeleteClient, Tenants!TypeOK
  <2>. QED
    BY <1>1, <2>1
    DEF Tenants!DeleteClient, Tenants!TypeOK, TenantWorkIsNamed, Tenants!RowsAreOwn
<1>2. CASE ~Tenants!Referenced(s)
  <2>1. /\ nClient' = [nClient EXCEPT ![s] = None]
        /\ nRows' = [nRows EXCEPT ![s] = [t \in (Tenants!Tables) |-> {}]]
        /\ nLate' = {l \in nLate : l[1] # s}
        /\ UNCHANGED <<nRefused, nWork, nCreated>>
    <3>1. \A t \in Tenants!Tables :
            t \in Tenants!Cleared \cup Tenants!Triggered \cup Tenants!Cascaded
      BY DEF Tenants!Tables, Tenants!Cleared, Tenants!Triggered, Tenants!Cascaded
    <3>. QED
      BY <1>2, <3>1 DEF Tenants!DeleteClient
  <2>2. Tenants!TypeOK'
    BY <2>1 DEF Tenants!TypeOK
  <2>3. TenantWorkIsNamed'
    BY <2>1 DEF TenantWorkIsNamed
  <2>4. ASSUME NEW r \in Tenants!Slugs, NEW u \in Tenants!Tables, NEW i \in nRows'[r][u]
        PROVE  i = nClient'[r] \/ <<r, i>> \in nLate'
    <3>1. r # s
      BY <2>1, <2>4 DEF Tenants!TypeOK
    <3>2. i \in nRows[r][u] /\ nClient'[r] = nClient[r]
      BY <2>1, <2>4, <3>1 DEF Tenants!TypeOK
    <3>. QED
      BY <2>1, <3>1, <3>2 DEF Tenants!RowsAreOwn
  <2>. QED
    BY <2>2, <2>3, <2>4 DEF Tenants!RowsAreOwn
<1>. QED
  BY <1>1, <1>2

LEMMA TenantStepKeeps ==
  ASSUME Tenants!ConstantsAssumption, TenantIInv, [Tenants!Next]_(Tenants!vars)
  PROVE  TenantIInv'
<1>. USE DEF TenantIInv
<1>1. CASE UNCHANGED Tenants!vars
  BY <1>1 DEF Tenants!vars, Tenants!TypeOK, TenantWorkIsNamed, Tenants!RowsAreOwn
<1>2. CASE Tenants!Create \/ Tenants!WizardCreates
  BY <1>2, TenantInsertedKeeps
  DEF Tenants!Create, Tenants!WizardCreates, Tenants!Slugs, Tenants!ConstantsAssumption
<1>3. ASSUME NEW s \in Tenants!Slugs, Tenants!Authorize(s) PROVE TenantIInv'
  <2>1. "oauth_tokens" \in Tenants!Tables
    BY DEF Tenants!Tables
  <2>2. nWork' \in [Workers -> TenantWork] /\ TenantWorkIsNamed'
    BY <1>3 DEF Tenants!Authorize, Tenants!TypeOK, TenantWork, TenantWorkIsNamed
  <2>. QED
    BY <1>3, <2>1, <2>2, TenantOwnRowKeeps DEF Tenants!Authorize
<1>4. ASSUME NEW s \in Tenants!Slugs, Tenants!DeleteClient(s) PROVE TenantIInv'
  BY <1>4, TenantDeleteKeeps
<1>5. ASSUME NEW w \in Workers, NEW s \in Tenants!Slugs, Tenants!StartJob(w, s)
      PROVE  TenantIInv'
  <2>1. "agent_jobs" \in Tenants!Tables /\ nClient[s] \in Tenants!Ids
    BY <1>5 DEF Tenants!Tables, Tenants!StartJob, Tenants!TypeOK
  <2>2. [slug |-> s, of |-> nClient[s], sure |-> TRUE] \in TenantWork
    BY <2>1 DEF TenantWork
  <2>3. nWork' \in [Workers -> TenantWork] /\ TenantWorkIsNamed'
    BY <1>5, <2>1, <2>2 DEF Tenants!StartJob, Tenants!TypeOK, TenantWork, TenantWorkIsNamed
  <2>. QED
    BY <1>5, <2>1, <2>3, TenantOwnRowKeeps DEF Tenants!StartJob
<1>6. ASSUME NEW w \in Workers, Tenants!Look(w) \/ Tenants!Ages(w) \/ Tenants!EndJob(w)
      PROVE  TenantIInv'
  <2>1. nWork[w] \in TenantWork
    BY DEF Tenants!TypeOK, TenantWork
  <2>2. \E v \in TenantWork : /\ nWork' = [nWork EXCEPT ![w] = v]
                              /\ v # Tenants!NoWork
                                   => v.slug = nWork[w].slug /\ v.of = nWork[w].of
                              /\ v # Tenants!NoWork => nWork[w] # Tenants!NoWork
    <3>1. [nWork[w] EXCEPT !.sure = TRUE] \in TenantWork
          /\ [nWork[w] EXCEPT !.sure = FALSE] \in TenantWork
      BY <2>1 DEF TenantWork
    <3>2. CASE Tenants!Look(w)
      BY <2>1, <3>1, <3>2, TenantNoWorkType DEF Tenants!Look, TenantWork
    <3>3. CASE Tenants!Ages(w)
      <4>1. nWork[w] # Tenants!NoWork
        BY <3>3 DEF Tenants!Ages, Tenants!NoWork
      <4>2. /\ nWork' = [nWork EXCEPT ![w] = [nWork[w] EXCEPT !.sure = FALSE]]
            /\ [nWork[w] EXCEPT !.sure = FALSE].slug = nWork[w].slug
            /\ [nWork[w] EXCEPT !.sure = FALSE].of = nWork[w].of
        BY <2>1, <3>3 DEF Tenants!Ages, TenantWork
      <4>. QED
        BY <3>1, <4>1, <4>2
    <3>4. CASE Tenants!EndJob(w)
      BY <3>4, TenantNoWorkType DEF Tenants!EndJob
    <3>. QED
      BY <1>6, <3>2, <3>3, <3>4
  <2>3. UNCHANGED <<nClient, nRows, nCreated, nRefused, nLate>>
    BY <1>6 DEF Tenants!Look, Tenants!Ages, Tenants!EndJob
  <2>4. Tenants!TypeOK'
    BY <2>2, <2>3 DEF Tenants!TypeOK, TenantWork
  <2>5. TenantWorkIsNamed'
    BY <2>2 DEF TenantWorkIsNamed, Tenants!TypeOK
  <2>. QED
    BY <2>3, <2>4, <2>5 DEF Tenants!RowsAreOwn
<1>7. ASSUME NEW w \in Workers, Tenants!Rewrite(w) PROVE TenantIInv'
  <2>1. PICK s \in Tenants!Slugs, id \in Tenants!Ids : s = nWork[w].slug /\ id = nWork[w].of
    BY <1>7 DEF Tenants!Rewrite, TenantWorkIsNamed
  <2>2. "content_versions" \in Tenants!Tables
    BY DEF Tenants!Tables
  <2>. QED
    BY <1>7, <2>1, <2>2, TenantAgentRowKeeps DEF Tenants!Rewrite
<1>8. ASSUME NEW w \in Workers, NEW t \in Tenants!Tables, Tenants!Write(w, t) PROVE TenantIInv'
  <2>1. PICK s \in Tenants!Slugs, id \in Tenants!Ids : s = nWork[w].slug /\ id = nWork[w].of
    BY <1>8 DEF Tenants!Write, TenantWorkIsNamed
  <2>. QED
    BY <1>8, <2>1, TenantAgentRowKeeps DEF Tenants!Write
<1>. QED
  BY <1>1, <1>2, <1>3, <1>4, <1>5, <1>6, <1>7, <1>8 DEF Tenants!Next

-----------------------------------------------------------------------------
\* The types, however clients, agents and deletions interleave (denzo/db.py).
THEOREM TenantTypeCorrect ==
  ASSUME Tenants!ConstantsAssumption
  PROVE  Tenants!Spec => []Tenants!TypeOK
<1>1. Tenants!Init => TenantIInv
  BY TenantInitHolds
<1>2. TenantIInv /\ [Tenants!Next]_(Tenants!vars) => TenantIInv'
  BY TenantStepKeeps
<1>3. TenantIInv => Tenants!TypeOK
  BY DEF TenantIInv
<1>. QED
  BY <1>1, <1>2, <1>3, PTL DEF Tenants!Spec

\* "No data leaks between clients" (db.py:3): the rows under a slug were written
\* for the client that has it, or late by an agent of a deleted one.
THEOREM TenantRowsHold ==
  ASSUME Tenants!ConstantsAssumption
  PROVE  Tenants!Spec => []Tenants!RowsAreOwn
<1>1. Tenants!Init => TenantIInv
  BY TenantInitHolds
<1>2. TenantIInv /\ [Tenants!Next]_(Tenants!vars) => TenantIInv'
  BY TenantStepKeeps
<1>3. TenantIInv => Tenants!RowsAreOwn
  BY DEF TenantIInv
<1>. QED
  BY <1>1, <1>2, <1>3, PTL DEF Tenants!Spec

-----------------------------------------------------------------------------
(* Pages and the search intents they own (base_agent.py, db.py).           *)

-----------------------------------------------------------------------------
(* The inductive invariant: a page has an owner noted, or one that will be *)
(* noted, or history says that it is lost; two agents that add at the same *)
(* time know of each other; and one that knows of nobody found no page.    *)

IntentPagesAreOwned ==
  \A k \in Keywords : PageIntents!Targeting(k) # {} =>
     \/ k \in pLost
     \/ pTopics[k] # None /\ pTopics[k].owner # None
     \/ \E a \in PageIntents!AddingTo(k) : pAdding[a].at = "inserted"

IntentRivalsAreCrossed ==
  \A k \in Keywords : \A a, b \in PageIntents!AddingTo(k) : a # b => pAdding[a].crossed

IntentPassedFoundNone ==
  \A k \in Keywords : \A a \in PageIntents!AddingTo(k) :
     pAdding[a].at = "passed" /\ ~pAdding[a].crossed
       => PageIntents!Targeting(k) = {} \/ k \in pLost

IntentIInv == PageIntents!TypeOK /\ IntentPagesAreOwned /\ IntentRivalsAreCrossed
  /\ IntentPassedFoundNone

LEMMA IntentInitHolds ==
  ASSUME PageIntents!ConstantsAssumption, PageIntents!Init
  PROVE  IntentIInv
<1>1. PageIntents!TypeOK
  <2>1. pLeft \in [clusters : 0..MaxClusters, deaths : 0..MaxDeaths]
    BY DEF PageIntents!Init, PageIntents!ConstantsAssumption
  <2>. QED
    BY <2>1 DEF PageIntents!Init, PageIntents!TypeOK
<1>2. IntentPagesAreOwned /\ IntentRivalsAreCrossed /\ IntentPassedFoundNone
  BY DEF PageIntents!Init, IntentPagesAreOwned, IntentRivalsAreCrossed, IntentPassedFoundNone,
     PageIntents!Targeting, PageIntents!AddingTo
<1>. QED
  BY <1>1, <1>2 DEF IntentIInv

-----------------------------------------------------------------------------
(* One lemma per action.                                                   *)

\* Who passes beside others knows of them and they of it; who passes alone found a
\* keyword without a page.
LEMMA IntentPassKeeps ==
  ASSUME PageIntents!ConstantsAssumption, IntentIInv, NEW a \in Agents,
         NEW page \in PageIntents!Page, PageIntents!Pass(a, page)
  PROVE  IntentIInv'
<1>. DEFINE k0 == page.keyword
<1>1. k0 \in Keywords /\ pAdding[a] = None
  BY DEF PageIntents!Page, PageIntents!Pass
<1>2. UNCHANGED <<pTopics, pPages, pKnown, pLost, pLeft>>
  BY DEF PageIntents!Pass
<1>3. /\ pAdding'[a] = [page |-> page, at |-> "passed", crossed |-> PageIntents!AddingTo(k0) # {}]
      /\ \A b \in Agents \ {a} :
           pAdding'[b] = IF b \in PageIntents!AddingTo(k0) THEN [pAdding[b] EXCEPT !.crossed = TRUE]
                         ELSE pAdding[b]
  BY DEF PageIntents!Pass
<1>4. PICK c \in BOOLEAN : c = (PageIntents!AddingTo(k0) # {})
  OBVIOUS
<1>5. /\ pAdding'[a] \in PageIntents!Adding /\ pAdding'[a].page = page
         /\ pAdding'[a].at = "passed"
      /\ pAdding'[a].crossed = c
  <2>1. pAdding'[a] = [page |-> page, at |-> "passed", crossed |-> c]
    BY <1>3, <1>4, Zenon
  <2>. QED
    BY <2>1 DEF PageIntents!Adding
<1>6. \A b \in Agents \ {a} :
         /\ pAdding'[b] \in PageIntents!Adding \cup {None}
         /\ pAdding'[b] = None <=> pAdding[b] = None
         /\ pAdding[b] # None => /\ pAdding'[b].page = pAdding[b].page
                                 /\ pAdding'[b].at = pAdding[b].at
                                 /\ pAdding[b].crossed => pAdding'[b].crossed
                                 /\ pAdding[b].page.keyword = k0 => pAdding'[b].crossed
  <2>. SUFFICES ASSUME NEW b \in Agents \ {a}
                PROVE  /\ pAdding'[b] \in PageIntents!Adding \cup {None}
                       /\ pAdding'[b] = None <=> pAdding[b] = None
                       /\ pAdding[b] # None => /\ pAdding'[b].page = pAdding[b].page
                                               /\ pAdding'[b].at = pAdding[b].at
                                               /\ pAdding[b].crossed => pAdding'[b].crossed
                                               /\ pAdding[b].page.keyword = k0
                                                   => pAdding'[b].crossed
    OBVIOUS
  <2>1. pAdding[b] \in PageIntents!Adding \cup {None}
    BY DEF IntentIInv, PageIntents!TypeOK
  <2>2. CASE b \in PageIntents!AddingTo(k0)
    <3>1. pAdding[b] \in PageIntents!Adding
      BY <2>1, <2>2 DEF PageIntents!AddingTo
    <3>2. pAdding'[b] = [pAdding[b] EXCEPT !.crossed = TRUE]
      BY <1>3, <2>2
    <3>. QED
      BY <3>1, <3>2 DEF PageIntents!Adding, PageIntents!ConstantsAssumption
  <2>3. CASE b \notin PageIntents!AddingTo(k0)
    BY <1>3, <2>1, <2>3 DEF PageIntents!AddingTo
  <2>. QED
    BY <2>2, <2>3
<1>7. PageIntents!TypeOK'
  <2>1. pAdding' \in [Agents -> PageIntents!Adding \cup {None}]
    BY <1>5, <1>6 DEF PageIntents!Pass
  <2>. QED
    BY <1>2, <2>1 DEF IntentIInv, PageIntents!TypeOK
<1>8. \A k \in Keywords : /\ PageIntents!Targeting(k)' = PageIntents!Targeting(k)
                          /\ PageIntents!AddingTo(k)'
                               = PageIntents!AddingTo(k) \cup (IF k = k0 THEN {a} ELSE {})
  <2>. SUFFICES ASSUME NEW k \in Keywords
                PROVE  PageIntents!AddingTo(k)'
                         = PageIntents!AddingTo(k) \cup (IF k = k0 THEN {a} ELSE {})
    BY <1>2 DEF PageIntents!Targeting
  <2>1. \A b \in Agents \ {a} : b \in PageIntents!AddingTo(k)' <=> b \in PageIntents!AddingTo(k)
    BY <1>6 DEF PageIntents!AddingTo
  <2>2. a \notin PageIntents!AddingTo(k)
    BY <1>1 DEF PageIntents!AddingTo
  <2>3. a \in PageIntents!AddingTo(k)' <=> k = k0
    BY <1>5 DEF PageIntents!AddingTo, PageIntents!ConstantsAssumption
  <2>. QED
    BY <2>1, <2>2, <2>3 DEF PageIntents!AddingTo
<1>9. IntentPagesAreOwned'
  <2>. SUFFICES ASSUME NEW k \in Keywords, PageIntents!Targeting(k) # {}, k \notin pLost,
                       ~(pTopics[k] # None /\ pTopics[k].owner # None)
                PROVE  \E b \in PageIntents!AddingTo(k)' : pAdding'[b].at = "inserted"
    BY <1>2, <1>8 DEF IntentPagesAreOwned
  <2>1. PICK b \in PageIntents!AddingTo(k) : pAdding[b].at = "inserted"
    BY DEF IntentIInv, IntentPagesAreOwned
  <2>2. b \in Agents \ {a} /\ pAdding[b] # None
    BY <1>1 DEF PageIntents!AddingTo
  <2>. QED
    BY <1>6, <1>8, <2>1, <2>2
<1>10. IntentRivalsAreCrossed'
  <2>. SUFFICES ASSUME NEW k \in Keywords, NEW b \in PageIntents!AddingTo(k)',
                       NEW d \in PageIntents!AddingTo(k)',
                       b # d
                PROVE  pAdding'[b].crossed
    BY DEF IntentRivalsAreCrossed
  <2>1. CASE b = a
    <3>1. k = k0
      BY <1>5, <2>1 DEF PageIntents!AddingTo
    <3>2. d \in PageIntents!AddingTo(k0)
      BY <1>8, <2>1, <3>1
    <3>3. c = TRUE
      BY <1>4, <3>2
    <3>. QED
      BY <1>5, <2>1, <3>3
  <2>2. CASE b # a
    <3>1. b \in PageIntents!AddingTo(k) /\ b \in Agents \ {a} /\ pAdding[b] # None
          /\ pAdding[b].page.keyword = k
      BY <1>8, <2>2 DEF PageIntents!AddingTo
    <3>2. CASE d = a
      BY <1>1, <1>6, <1>8, <3>1, <3>2 DEF PageIntents!AddingTo
    <3>3. CASE d # a
      <4>1. d \in PageIntents!AddingTo(k)
        BY <1>8, <3>3
      <4>2. pAdding[b].crossed
        BY <3>1, <4>1 DEF IntentIInv, IntentRivalsAreCrossed
      <4>. QED
        BY <1>6, <3>1, <4>2
    <3>. QED
      BY <3>2, <3>3
  <2>. QED
    BY <2>1, <2>2
<1>11. IntentPassedFoundNone'
  <2>. SUFFICES ASSUME NEW k \in Keywords, NEW b \in PageIntents!AddingTo(k)',
                       pAdding'[b].at = "passed",
                       ~pAdding'[b].crossed
                PROVE  PageIntents!Targeting(k) = {} \/ k \in pLost
    BY <1>2, <1>8 DEF IntentPassedFoundNone
  <2>1. CASE b = a
    <3>1. k = k0
      BY <1>5, <2>1 DEF PageIntents!AddingTo
    <3>2. PageIntents!AddingTo(k) = {}
      BY <1>4, <1>5, <2>1, <3>1
    <3>3. pTopics[k] = None => PageIntents!Targeting(k) = {}
      BY <3>1 DEF PageIntents!Pass, PageIntents!IntentFree
    <3>4. pTopics[k] # None => pTopics[k].owner = None
      BY <3>1 DEF PageIntents!Pass, PageIntents!IntentFree
    <3>. QED
      BY <3>2, <3>3, <3>4 DEF IntentIInv, IntentPagesAreOwned
  <2>2. CASE b # a
    <3>1. b \in PageIntents!AddingTo(k) /\ b \in Agents \ {a} /\ pAdding[b] # None
      BY <1>8, <2>2 DEF PageIntents!AddingTo
    <3>2. pAdding[b].at = "passed" /\ ~pAdding[b].crossed
      BY <1>6, <3>1
    <3>. QED
      BY <3>1, <3>2 DEF IntentIInv, IntentPassedFoundNone
  <2>. QED
    BY <2>1, <2>2
<1>. QED
  BY <1>7, <1>9, <1>10, <1>11 DEF IntentIInv

\* An agent that goes on or ends leaves the others as they are.
LEMMA IntentInsertKeeps ==
  ASSUME PageIntents!ConstantsAssumption, IntentIInv, NEW a \in Agents, PageIntents!Insert(a)
  PROVE  IntentIInv'
<1>. DEFINE k0 == pAdding[a].page.keyword
<1>1. pAdding[a] \in PageIntents!Adding /\ pAdding[a].page \in PageIntents!Page
      /\ k0 \in Keywords
  BY
  DEF PageIntents!Insert, IntentIInv, PageIntents!TypeOK, PageIntents!Adding, PageIntents!Page
<1>2. UNCHANGED <<pTopics, pKnown, pLost, pLeft>> /\ pAdding[a].at = "passed"
      /\ a \in PageIntents!AddingTo(k0)
  BY DEF PageIntents!Insert, PageIntents!AddingTo
<1>3. CASE PageIntents!SlugFree(pAdding[a].page.slug)
  <2>1. /\ pPages' = pPages \cup {pAdding[a].page}
        /\ pAdding' = [pAdding EXCEPT ![a] = [pAdding[a] EXCEPT !.at = "inserted"]]
    BY <1>3 DEF PageIntents!Insert
  <2>2. /\ pAdding'[a] \in PageIntents!Adding /\ pAdding'[a].page = pAdding[a].page
        /\ pAdding'[a].at = "inserted" /\ pAdding'[a].crossed = pAdding[a].crossed
        /\ \A b \in Agents \ {a} : pAdding'[b] = pAdding[b]
    BY <1>1, <2>1 DEF IntentIInv, PageIntents!TypeOK, PageIntents!Adding
  <2>3. PageIntents!TypeOK'
    BY <1>1, <1>2, <2>1, <2>2 DEF IntentIInv, PageIntents!TypeOK
  <2>4. \A k \in Keywords :
           /\ PageIntents!AddingTo(k)' = PageIntents!AddingTo(k)
           /\ PageIntents!Targeting(k)'
                = PageIntents!Targeting(k) \cup (IF k = k0 THEN {pAdding[a].page} ELSE {})
    <3>1. \A k \in Keywords : PageIntents!AddingTo(k)' = PageIntents!AddingTo(k)
      BY <1>1, <2>2 DEF PageIntents!AddingTo, PageIntents!ConstantsAssumption
    <3>. QED
      BY <2>1, <3>1 DEF PageIntents!Targeting
  <2>5. IntentPagesAreOwned'
    <3>. SUFFICES ASSUME NEW k \in Keywords, PageIntents!Targeting(k)' # {}, k \notin pLost,
                         ~(pTopics[k] # None /\ pTopics[k].owner # None)
                  PROVE  \E b \in PageIntents!AddingTo(k)' : pAdding'[b].at = "inserted"
      BY <1>2 DEF IntentPagesAreOwned
    <3>1. CASE k = k0
      BY <1>2, <2>2, <2>4, <3>1
    <3>2. CASE k # k0
      <4>1. PICK b \in PageIntents!AddingTo(k) : pAdding[b].at = "inserted"
        BY <2>4, <3>2 DEF IntentIInv, IntentPagesAreOwned
      <4>. QED
        BY <2>2, <2>4, <4>1 DEF PageIntents!AddingTo
    <3>. QED
      BY <3>1, <3>2
  <2>6. IntentRivalsAreCrossed'
    BY <2>2, <2>4 DEF IntentIInv, IntentRivalsAreCrossed, PageIntents!AddingTo
  <2>7. IntentPassedFoundNone'
    <3>. SUFFICES ASSUME NEW k \in Keywords, NEW b \in PageIntents!AddingTo(k),
                         pAdding'[b].at = "passed",
                         ~pAdding'[b].crossed
                  PROVE  PageIntents!Targeting(k)' = {} \/ k \in pLost
      BY <1>2, <2>4 DEF IntentPassedFoundNone
    <3>1. b # a /\ b \in Agents
      BY <2>2 DEF PageIntents!AddingTo
    <3>2. k # k0
      BY <1>2, <2>2, <3>1 DEF IntentIInv, IntentRivalsAreCrossed
    <3>. QED
      BY <2>2, <2>4, <3>1, <3>2 DEF IntentIInv, IntentPassedFoundNone
  <2>. QED
    BY <2>3, <2>5, <2>6, <2>7 DEF IntentIInv
<1>4. CASE ~PageIntents!SlugFree(pAdding[a].page.slug)
  <2>1. pAdding' = [pAdding EXCEPT ![a] = None] /\ pPages' = pPages
    BY <1>4 DEF PageIntents!Insert
  <2>2. pAdding'[a] = None /\ \A b \in Agents \ {a} : pAdding'[b] = pAdding[b]
    BY <2>1 DEF IntentIInv, PageIntents!TypeOK
  <2>3. PageIntents!TypeOK'
    BY <1>2, <2>1 DEF IntentIInv, PageIntents!TypeOK
  <2>4. \A k \in Keywords : /\ PageIntents!AddingTo(k)' = PageIntents!AddingTo(k) \ {a}
                            /\ PageIntents!Targeting(k)' = PageIntents!Targeting(k)
    BY <2>1, <2>2 DEF PageIntents!AddingTo, PageIntents!Targeting
  <2>5. IntentPagesAreOwned'
    BY <1>2, <2>2, <2>4 DEF IntentIInv, IntentPagesAreOwned, PageIntents!AddingTo
  <2>6. IntentRivalsAreCrossed' /\ IntentPassedFoundNone'
    BY <1>2, <2>2, <2>4
    DEF IntentIInv, IntentRivalsAreCrossed, IntentPassedFoundNone, PageIntents!AddingTo
  <2>. QED
    BY <2>3, <2>5, <2>6 DEF IntentIInv
<1>. QED
  BY <1>3, <1>4

LEMMA IntentNoteOwnerKeeps ==
  ASSUME PageIntents!ConstantsAssumption, IntentIInv, NEW a \in Agents, PageIntents!NoteOwner(a)
  PROVE  IntentIInv'
<1>. DEFINE k0 == pAdding[a].page.keyword
<1>1. pAdding[a] \in PageIntents!Adding /\ pAdding[a].page \in PageIntents!Page
      /\ k0 \in Keywords
      /\ pAdding[a].page.slug \in Paths
  BY DEF PageIntents!NoteOwner, IntentIInv, PageIntents!TypeOK, PageIntents!Adding,
     PageIntents!Page
<1>2. UNCHANGED <<pPages, pKnown, pLost, pLeft>> /\ pAdding' = [pAdding EXCEPT ![a] = None]
      /\ pTopics' = [pTopics EXCEPT ![k0] = PageIntents!Owned(pAdding[a].page)]
  BY DEF PageIntents!NoteOwner
<1>3. PageIntents!Owned(pAdding[a].page) \in PageIntents!Topic
      /\ PageIntents!Owned(pAdding[a].page).owner # None
  BY <1>1 DEF PageIntents!Owned, PageIntents!Topic, PageIntents!ConstantsAssumption
<1>4. PageIntents!TypeOK'
  BY <1>1, <1>2, <1>3 DEF IntentIInv, PageIntents!TypeOK
<1>5. pAdding'[a] = None /\ \A b \in Agents \ {a} : pAdding'[b] = pAdding[b]
  BY <1>2 DEF IntentIInv, PageIntents!TypeOK
<1>6. \A k \in Keywords : /\ PageIntents!AddingTo(k)' = PageIntents!AddingTo(k) \ {a}
                          /\ PageIntents!Targeting(k)' = PageIntents!Targeting(k)
  BY <1>2, <1>5 DEF PageIntents!AddingTo, PageIntents!Targeting
<1>7. IntentPagesAreOwned'
  <2>. SUFFICES ASSUME NEW k \in Keywords, PageIntents!Targeting(k) # {}, k \notin pLost,
                       ~(pTopics'[k] # None /\ pTopics'[k].owner # None)
                PROVE  \E b \in PageIntents!AddingTo(k)' : pAdding'[b].at = "inserted"
    BY <1>2, <1>6 DEF IntentPagesAreOwned
  <2>1. k # k0 /\ pTopics'[k] = pTopics[k]
    BY <1>1, <1>2, <1>3 DEF IntentIInv, PageIntents!TypeOK, PageIntents!ConstantsAssumption
  <2>2. PICK b \in PageIntents!AddingTo(k) : pAdding[b].at = "inserted"
    BY <2>1 DEF IntentIInv, IntentPagesAreOwned
  <2>3. b # a
    BY <2>1, <2>2 DEF PageIntents!AddingTo
  <2>. QED
    BY <1>5, <1>6, <2>2, <2>3 DEF PageIntents!AddingTo
<1>8. IntentRivalsAreCrossed' /\ IntentPassedFoundNone'
  BY <1>2, <1>5, <1>6
  DEF IntentIInv, IntentRivalsAreCrossed, IntentPassedFoundNone, PageIntents!AddingTo
<1>. QED
  BY <1>4, <1>7, <1>8 DEF IntentIInv

LEMMA IntentDieKeeps ==
  ASSUME PageIntents!ConstantsAssumption, IntentIInv, NEW a \in Agents, PageIntents!Die(a)
  PROVE  IntentIInv'
<1>. DEFINE k0 == pAdding[a].page.keyword
<1>1. pAdding[a] \in PageIntents!Adding /\ k0 \in Keywords
  BY DEF PageIntents!Die, IntentIInv, PageIntents!TypeOK, PageIntents!Adding, PageIntents!Page
<1>2. /\ UNCHANGED <<pTopics, pPages, pKnown>> /\ pAdding' = [pAdding EXCEPT ![a] = None]
      /\ pLost' = IF pAdding[a].at = "inserted" THEN pLost \cup {k0} ELSE pLost
  BY DEF PageIntents!Die
<1>3. pLeft' \in [clusters : 0..MaxClusters, deaths : 0..MaxDeaths]
  BY DEF PageIntents!Die, IntentIInv, PageIntents!TypeOK, PageIntents!ConstantsAssumption
<1>4. PageIntents!TypeOK'
  BY <1>1, <1>2, <1>3 DEF IntentIInv, PageIntents!TypeOK
<1>5. pAdding'[a] = None /\ \A b \in Agents \ {a} : pAdding'[b] = pAdding[b]
  BY <1>2 DEF IntentIInv, PageIntents!TypeOK
<1>6. \A k \in Keywords : /\ PageIntents!AddingTo(k)' = PageIntents!AddingTo(k) \ {a}
                          /\ PageIntents!Targeting(k)' = PageIntents!Targeting(k)
  BY <1>2, <1>5 DEF PageIntents!AddingTo, PageIntents!Targeting
<1>7. IntentPagesAreOwned'
  <2>. SUFFICES ASSUME NEW k \in Keywords, PageIntents!Targeting(k) # {}, k \notin pLost',
                       ~(pTopics[k] # None /\ pTopics[k].owner # None)
                PROVE  \E b \in PageIntents!AddingTo(k)' : pAdding'[b].at = "inserted"
    BY <1>2, <1>6 DEF IntentPagesAreOwned
  <2>1. PICK b \in PageIntents!AddingTo(k) : pAdding[b].at = "inserted"
    BY <1>2 DEF IntentIInv, IntentPagesAreOwned
  <2>2. b # a
    BY <1>2, <2>1 DEF PageIntents!AddingTo
  <2>. QED
    BY <1>5, <1>6, <2>1, <2>2 DEF PageIntents!AddingTo
<1>8. IntentRivalsAreCrossed' /\ IntentPassedFoundNone'
  BY <1>2, <1>5, <1>6
  DEF IntentIInv, IntentRivalsAreCrossed, IntentPassedFoundNone, PageIntents!AddingTo
<1>. QED
  BY <1>4, <1>7, <1>8 DEF IntentIInv

\* A new clustering forgets owners, and history knows of which pages.
LEMMA IntentClusterKeeps ==
  ASSUME PageIntents!ConstantsAssumption, IntentIInv, NEW winners \in SUBSET Keywords,
         PageIntents!Cluster(winners)
  PROVE  IntentIInv'
<1>1. /\ UNCHANGED <<pPages, pKnown, pAdding>>
      /\ pTopics' = [k \in Keywords |->
                       IF k \in winners THEN PageIntents!Planned(k) ELSE pTopics[k]]
      /\ pLost' = pLost \cup {k \in winners : PageIntents!Targeting(k) # {}}
  BY DEF PageIntents!Cluster
<1>2. pLeft' \in [clusters : 0..MaxClusters, deaths : 0..MaxDeaths]
  BY DEF PageIntents!Cluster, IntentIInv, PageIntents!TypeOK, PageIntents!ConstantsAssumption
<1>3. \A k \in Keywords : PageIntents!Planned(k) \in PageIntents!Topic
  BY DEF PageIntents!Planned, PageIntents!Topic
<1>4. PageIntents!TypeOK'
  BY <1>1, <1>2, <1>3 DEF IntentIInv, PageIntents!TypeOK
<1>5. \A k \in Keywords : PageIntents!AddingTo(k)' = PageIntents!AddingTo(k)
      /\ PageIntents!Targeting(k)' = PageIntents!Targeting(k)
  BY <1>1 DEF PageIntents!AddingTo, PageIntents!Targeting
<1>6. IntentPagesAreOwned' /\ IntentRivalsAreCrossed' /\ IntentPassedFoundNone'
  BY <1>1, <1>5
  DEF IntentIInv, IntentPagesAreOwned, IntentRivalsAreCrossed, IntentPassedFoundNone
<1>. QED
  BY <1>4, <1>6 DEF IntentIInv

LEMMA IntentStepKeeps ==
  ASSUME PageIntents!ConstantsAssumption, IntentIInv, [PageIntents!Next]_(PageIntents!vars)
  PROVE  IntentIInv'
<1>1. ASSUME UNCHANGED <<pTopics, pPages, pAdding, pLost, pLeft>>, pKnown' \subseteq Keywords
      PROVE  IntentIInv'
  BY <1>1 DEF IntentIInv, PageIntents!TypeOK, IntentPagesAreOwned, IntentRivalsAreCrossed,
     IntentPassedFoundNone, PageIntents!AddingTo, PageIntents!Targeting
<1>2. CASE UNCHANGED PageIntents!vars
  BY <1>1, <1>2 DEF PageIntents!vars, IntentIInv, PageIntents!TypeOK
<1>3. ASSUME NEW some \in SUBSET Keywords, PageIntents!Footprint(some) PROVE IntentIInv'
  BY <1>1, <1>3 DEF PageIntents!Footprint
<1>. QED
  BY <1>2, <1>3, IntentPassKeeps, IntentInsertKeeps, IntentNoteOwnerKeeps, IntentDieKeeps,
     IntentClusterKeeps DEF PageIntents!Next

-----------------------------------------------------------------------------
\* The types, however agents interleave (base_agent.py:562).
THEOREM IntentTypeCorrect ==
  ASSUME PageIntents!ConstantsAssumption
  PROVE  PageIntents!Spec => []PageIntents!TypeOK
<1>1. PageIntents!Init => IntentIInv
  BY IntentInitHolds
<1>2. IntentIInv /\ [PageIntents!Next]_(PageIntents!vars) => IntentIInv'
  BY IntentStepKeeps
<1>3. IntentIInv => PageIntents!TypeOK
  BY DEF IntentIInv
<1>. QED
  BY <1>1, <1>2, <1>3, PTL DEF PageIntents!Spec

\* "one primary_keyword -> one owner page" (db.py:390): a second page for a keyword
\* comes only from agents that add at the same time, or from an owner that was lost.
THEOREM IntentOwnsOnePage ==
  ASSUME PageIntents!ConstantsAssumption
  PROVE  PageIntents!Spec => PageIntents!OneIntentOnePage
<1>1. PageIntents!Init => IntentIInv
  BY IntentInitHolds
<1>2. IntentIInv /\ [PageIntents!Next]_(PageIntents!vars) => IntentIInv'
  BY IntentStepKeeps
<1>3. ASSUME IntentIInv, [PageIntents!Next]_(PageIntents!vars), NEW a \in Agents,
             pPages' # pPages, pAdding'[a] # pAdding[a],
             PageIntents!Targeting(pAdding[a].page.keyword) # {}
      PROVE  pAdding[a].crossed \/ pAdding[a].page.keyword \in pLost
  <2>1. PICK b \in Agents : PageIntents!Insert(b)
    BY <1>3 DEF PageIntents!Next, PageIntents!vars, PageIntents!Pass, PageIntents!NoteOwner,
       PageIntents!Die, PageIntents!Footprint, PageIntents!Cluster
  <2>2. b = a
    BY <1>3, <2>1 DEF PageIntents!Insert, IntentIInv, PageIntents!TypeOK
  <2>3. pAdding[a] \in PageIntents!Adding /\ pAdding[a].at = "passed" /\ pAdding[a] # None
    <3>1. pAdding[a] # None /\ pAdding[a].at = "passed"
      BY <2>1, <2>2 DEF PageIntents!Insert
    <3>. QED
      BY <1>3, <3>1 DEF IntentIInv, PageIntents!TypeOK
  <2>4. pAdding[a].page.keyword \in Keywords
        /\ a \in PageIntents!AddingTo(pAdding[a].page.keyword)
    BY <2>3 DEF PageIntents!Adding, PageIntents!Page, PageIntents!AddingTo
  <2>. QED
    BY <1>3, <2>3, <2>4 DEF IntentIInv, IntentPassedFoundNone
<1>4. IntentIInv /\ [PageIntents!Next]_(PageIntents!vars) =>
        [\A a \in Agents :
           (pPages' # pPages /\ pAdding'[a] # pAdding[a]
              /\ PageIntents!Targeting(pAdding[a].page.keyword) # {})
             => pAdding[a].crossed \/ pAdding[a].page.keyword \in pLost]_(PageIntents!vars)
  BY <1>3
<1>. QED
  BY <1>1, <1>2, <1>4, PTL DEF PageIntents!Spec, PageIntents!OneIntentOnePage

-----------------------------------------------------------------------------
(* The services.                                                           *)

\* Clients are added within the plan of the account, however requests, trials,
\* cancellations and Stripe's events interleave (migrations.py, enforce.py).
THEOREM PlanHolds == ServicesSpec => ClientsWithinPlan
BY PartsRun, AccountPlanHolds, ServicesAssumption DEF ServicesAssumption, ClientsWithinPlan

\* An account has the plan that it pays for, once the events are handled and if none
\* was lost or came after a later one (routes/billing.py).
THEOREM PaidHolds == ServicesSpec => []PaidIsServed
BY PartsRun, AccountPaidHolds, ServicesAssumption, PTL DEF ServicesAssumption, PaidIsServed

\* Tokens, name and site of an authorisation belong together (google_oauth.py), and
\* no flow saves twice (routes/oauth.py).
THEOREM GrantsHold == ServicesSpec => []RowIsOneGrant
BY PartsRun, TokenGrantHolds, ServicesAssumption, PTL DEF ServicesAssumption, RowIsOneGrant

\* Credentials are read as they were entered (crypto.py, clients.py, lite.py).
THEOREM CredentialsHold == ServicesSpec => []CredentialsReadBack
BY PartsRun, CredentialReadBackHolds, ServicesAssumption, PTL
DEF ServicesAssumption, CredentialsReadBack

\* A client does not see the rows of a deleted one (db.py, clients.py).
THEOREM RowsStayOwn == ServicesSpec => []RowsAreOwn
BY PartsRun, TenantRowsHold, ServicesAssumption, PTL DEF ServicesAssumption, RowsAreOwn

\* One search intent, one page (base_agent.py, add_page).
THEOREM IntentsHold == ServicesSpec => OneIntentOnePage
BY PartsRun, IntentOwnsOnePage, ServicesAssumption DEF ServicesAssumption, OneIntentOnePage

=============================================================================
