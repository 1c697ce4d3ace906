------------------------------- MODULE Accounts -------------------------------
(***************************************************************************)
(* One account: its plan and what the plan lets it create.  The plan comes *)
(* from a row that Stripe's webhook writes (denzo/routes/billing.py) and   *)
(* from the trial kept with the user (denzo/routes/public.py).  Python     *)
(* resolves it for the checks of the web (denzo/billing/enforce.py); SQL   *)
(* resolves it again for the triggers that refuse an insertion             *)
(* (denzo/migrations.py).                                                  *)
(*                                                                         *)
(* Stripe delivers each event at least once, in any order, to any web      *)
(* process.  The handler makes sure that the row exists, then updates it;  *)
(* it answers 200 even when it failed, so that Stripe does not try again.  *)
(***************************************************************************)
EXTENDS Naturals, Sequences

CONSTANTS Webs,         \* web processes
          None,         \* no row
          MaxClients,   \* max_clients of each plan; agency is a larger pro
          MaxPurchases, \* bound: subscriptions bought
          MaxEvents,    \* bound: events Stripe sends
          MaxFailures   \* bound: handlers that fail, duplicated deliveries

VARIABLES user,     \* the row of users, or None before the wizard
          sub,      \* the row of subscriptions, or None
          clients,  \* clients of the account
          passed,   \* web processes whose request to create a client was let through
          stripe,   \* the subscriptions as Stripe knows them
          events,   \* events to be delivered
          sent,     \* number of events sent
          hooks,    \* the event each web process handles
          failures, \* failures so far
          last,     \* history: the latest event written
          muddled   \* history: events lost or late, or two subscriptions at once

vars == <<user, sub, clients, passed, stripe, events, sent, hooks, failures, last, muddled>>
stripeVars == <<stripe, events, sent, hooks, failures, last, muddled>>

Plans == {"free", "trial", "starter", "pro"}
Priced == {"starter", "pro"}
Live == {"active", "trialing"}
Statuses == {"active", "past_due"}
Users == [plan : {"free", "trial", "cancelled"}, trial : {"never", "running", "over"}]
Subs == [plan : Plans, status : Statuses \cup {"inactive", "canceled"}]
Bought == [plan : Priced, status : Statuses \cup {"canceled"}]
Event == [n : 1..MaxEvents, kind : {"completed", "changed", "deleted", "failed"},
          plan : Priced, status : Statuses]
Hook == [at : {"ensuring", "inserting", "updating"}, event : Event]

\* Limits are numbers; None is none of the rows and hooks.
ConstantsAssumption ==
  /\ MaxClients \in [Plans -> Nat]
  /\ MaxPurchases \in Nat /\ MaxEvents \in Nat /\ MaxFailures \in Nat
  /\ None \notin Users /\ None \notin Subs /\ None \notin Bought /\ None \notin Hook

TypeOK ==
  /\ user \in Users \cup {None}
  /\ sub \in Subs \cup {None}
  /\ clients \in Nat
  /\ passed \subseteq Webs
  /\ stripe \in [1..MaxPurchases -> Bought \cup {None}]
  /\ events \subseteq Event
  /\ sent \in 0..MaxEvents
  /\ hooks \in [Webs -> Hook \cup {None}]
  /\ failures \in 0..MaxFailures
  /\ last \in 0..MaxEvents
  /\ muddled \in BOOLEAN

Init ==
  /\ user = None
  /\ sub = None
  /\ clients = 0
  /\ passed = {}
  /\ stripe = [i \in 1..MaxPurchases |-> None]
  /\ events = {}
  /\ sent = 0
  /\ hooks = [w \in Webs |-> None]
  /\ failures = 0
  /\ last = 0
  /\ muddled = FALSE

-----------------------------------------------------------------------------
(* The plan, twice.                                                        *)

OwnPlan ==
  IF user.plan # "trial" THEN user.plan
  ELSE IF user.trial = "running" THEN "trial" ELSE "free"

Subscribed == IF sub = None THEN FALSE ELSE sub.status \in Live

\* get_user_plan
EffectivePlan == IF Subscribed THEN sub.plan ELSE OwnPlan

\* get_plan: an unknown plan is the free one.
LimitOf(plan) == MaxClients[IF plan \in Plans THEN plan ELSE "free"]

PermittedAlways == TRUE                                  \* mutant

\* The view account_limits and the trigger limit_clients.
Permitted ==
  LET own == IF user.plan = "trial" /\ user.trial = "running" THEN "trial"
             ELSE IF user.plan \in Priced THEN user.plan ELSE "free"
  IN clients < MaxClients[IF Subscribed THEN sub.plan ELSE own]

-----------------------------------------------------------------------------
(* The account.                                                            *)

\* The end of the wizard creates the user and a first client together.
WizardComplete ==
  /\ user = None
  /\ user' = [plan |-> "free", trial |-> "never"]
  /\ clients' = 1
  /\ UNCHANGED <<sub, passed, stripeVars>>

\* A trial: from the wizard, in a second transaction, or asked for later.
ActivateTrial ==
  /\ user = [plan |-> "free", trial |-> "never"]
  /\ ~Subscribed
  /\ user' = [plan |-> "trial", trial |-> "running"]
  /\ UNCHANGED <<sub, clients, passed, stripeVars>>

TrialEnds ==
  /\ user # None
  /\ user.trial = "running"
  /\ user' = [user EXCEPT !.trial = "over"]
  /\ UNCHANGED <<sub, clients, passed, stripeVars>>

\* cancel_plan: the user only; Stripe is not told.
CancelPlan ==
  /\ user # None
  /\ user' = [user EXCEPT !.plan = "cancelled"]
  /\ UNCHANGED <<sub, clients, passed, stripeVars>>

\* create_client counts, then inserts on another connection.
CreateChecks(w) ==
  /\ user # None
  /\ hooks[w] = None
  /\ clients < LimitOf(EffectivePlan)
  /\ passed' = passed \cup {w}
  /\ UNCHANGED <<user, sub, clients, stripeVars>>

CreateInserts(w) ==
  /\ w \in passed
  /\ passed' = passed \ {w}
  /\ clients' = IF Permitted THEN clients + 1 ELSE clients
  /\ UNCHANGED <<user, sub, stripeVars>>

DeleteClient ==
  /\ clients > 0
  /\ clients' = clients - 1
  /\ UNCHANGED <<user, sub, passed, stripeVars>>

-----------------------------------------------------------------------------
(* Stripe.                                                                 *)

Open(i) == stripe[i] # None /\ stripe[i].status # "canceled"

Numbered(kinds, plan, status) ==
  {[n |-> sent + k, kind |-> kinds[k], plan |-> plan, status |-> status] : k \in DOMAIN kinds}

Sends(kinds, plan, status) ==
  /\ sent' = sent + Len(kinds)
  /\ sent' <= MaxEvents
  /\ events' = events \cup Numbered(kinds, plan, status)

\* A checkout is completed: nothing keeps an account from a second one.
Purchase(i, plan) ==
  /\ user # None
  /\ stripe[i] = None
  /\ \A j \in 1..i - 1 : stripe[j] # None
  /\ stripe' = [stripe EXCEPT ![i] = [plan |-> plan, status |-> "active"]]
  /\ Sends(<<"completed", "changed">>, plan, "active")
  /\ muddled' = (muddled \/ \E j \in 1..MaxPurchases : Open(j))
  /\ UNCHANGED <<user, sub, clients, passed, hooks, failures, last>>

BillingChanges(i, status) ==
  /\ Open(i)
  /\ status # stripe[i].status
  /\ stripe' = [stripe EXCEPT ![i].status = status]
  /\ Sends(IF status = "past_due" THEN <<"failed", "changed">> ELSE <<"changed">>,
           stripe[i].plan, status)
  /\ UNCHANGED <<user, sub, clients, passed, hooks, failures, last, muddled>>

Ends(i) ==
  /\ Open(i)
  /\ stripe' = [stripe EXCEPT ![i].status = "canceled"]
  /\ Sends(<<"deleted">>, stripe[i].plan, "active")
  /\ UNCHANGED <<user, sub, clients, passed, hooks, failures, last, muddled>>

-----------------------------------------------------------------------------
(* The webhook.                                                            *)

Fails == failures < MaxFailures /\ failures' = failures + 1

\* An event is delivered, for the last time or not.
Delivered(w, e) ==
  /\ hooks[w] = None
  /\ w \notin passed
  /\ hooks' = [hooks EXCEPT ![w] = [at |-> "ensuring", event |-> e]]
  /\ \/ events' = events \ {e} /\ UNCHANGED failures
     \/ Fails /\ UNCHANGED events
  /\ UNCHANGED <<user, sub, clients, passed, stripe, sent, last, muddled>>

\* _ensure_subscription_row: is there a row; if not, insert one.
Ensures(w) ==
  /\ hooks[w] # None
  /\ hooks[w].at = "ensuring"
  /\ hooks' = [hooks EXCEPT ![w].at = IF sub = None THEN "inserting" ELSE "updating"]
  /\ UNCHANGED <<user, sub, clients, passed, stripe, events, sent, failures, last, muddled>>

\* Another process may have inserted meanwhile: UNIQUE(user_id) raises, the
\* event is lost.
Inserts(w) ==
  /\ hooks[w] # None
  /\ hooks[w].at = "inserting"
  /\ IF sub = None
     THEN /\ sub' = [plan |-> "free", status |-> "inactive"]
          /\ hooks' = [hooks EXCEPT ![w].at = "updating"]
          /\ UNCHANGED muddled
     ELSE /\ hooks' = [hooks EXCEPT ![w] = None]
          /\ muddled' = TRUE
          /\ UNCHANGED sub
  /\ UNCHANGED <<user, clients, passed, stripe, events, sent, failures, last>>

RecordedActive(e) ==                                     \* mutant
  CASE e.kind \in {"completed", "changed"} -> [plan |-> e.plan, status |-> "active"]
    [] e.kind = "deleted"   -> [plan |-> "free", status |-> "canceled"]
    [] e.kind = "failed"    -> [sub EXCEPT !.status = "past_due"]

\* The row that an event leaves.
Recorded(e) ==
  CASE e.kind = "completed" -> [plan |-> e.plan, status |-> "active"]
    [] e.kind = "changed"   -> [plan |-> e.plan, status |-> e.status]
    [] e.kind = "deleted"   -> [plan |-> "free", status |-> "canceled"]
    [] e.kind = "failed"    -> [sub EXCEPT !.status = "past_due"]

Updates(w) ==
  /\ hooks[w] # None
  /\ hooks[w].at = "updating"
  /\ LET e == hooks[w].event IN
     /\ sub' = Recorded(e)
     /\ last' = IF e.n > last THEN e.n ELSE last
     /\ muddled' = (muddled \/ e.n < last)
  /\ hooks' = [hooks EXCEPT ![w] = None]
  /\ UNCHANGED <<user, clients, passed, stripe, events, sent, failures>>

\* The handler fails and answers 200: the event is lost.
HookFails(w) ==
  /\ hooks[w] # None
  /\ Fails
  /\ hooks' = [hooks EXCEPT ![w] = None]
  /\ muddled' = TRUE
  /\ UNCHANGED <<user, sub, clients, passed, stripe, events, sent, last>>

Next ==
  \/ WizardComplete \/ ActivateTrial \/ TrialEnds \/ CancelPlan \/ DeleteClient
  \/ \E i \in 1..MaxPurchases :
        \/ Ends(i)
        \/ \E plan \in Priced : Purchase(i, plan)
        \/ \E status \in Statuses : BillingChanges(i, status)
  \/ \E w \in Webs :
        \/ CreateChecks(w) \/ CreateInserts(w)
        \/ Ensures(w) \/ Inserts(w) \/ Updates(w) \/ HookFails(w)
        \/ \E e \in events : Delivered(w, e)

Spec == Init /\ [][Next]_vars

-----------------------------------------------------------------------------
\* However requests and changes of plan interleave, a client is added only
\* below the limit of the plan that get_user_plan gives the account at that
\* moment: the trigger resolves the same plan as the code it protects.
ClientsWithinPlan ==
  [][clients' > clients /\ user # None => clients < LimitOf(EffectivePlan)]_vars

PlanOwed ==
  LET active == {i \in 1..MaxPurchases : Open(i) /\ stripe[i].status = "active"} IN
  IF active = {} THEN OwnPlan ELSE stripe[CHOOSE i \in active : TRUE].plan

\* Once Stripe's events are handled, the plan of the account is the one that it
\* pays for, or its own if it pays for none, unless an event was lost or came
\* after a later one, or two subscriptions were open at once.
PaidIsServed ==
  (user # None /\ events = {} /\ ~muddled /\ \A w \in Webs : hooks[w] = None)
     => EffectivePlan = PlanOwed
=============================================================================
