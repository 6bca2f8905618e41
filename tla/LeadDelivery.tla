---------------------------- MODULE LeadDelivery -----------------------------
(***************************************************************************)
(* Consented leads: the form of sf.js, POST /public/lead (LeadsController),*)
(* LeadsService.capture and the webhook it posts to without waiting, with  *)
(* one retry two seconds after a failure.  The delivery lives in the       *)
(* panel's memory only, and takes the URL that was set at capture.         *)
(***************************************************************************)
EXTENDS RateLimiter, Sequences

CONSTANTS
  Url,        \* webhook URLs
  MaxLeads,   \* bound: leads in one behaviour
  MaxTests    \* bound: changes of the webhook and tests of it

VARIABLES
  archived,   \* sites.status = 'archived'
  hook,       \* sites.lead_webhook_url
  leads,      \* the rows in order, each with its delivery
  changes     \* bound

vars == <<limiterVars, archived, hook, leads, changes>>

NoHook == "none"
MaxAttempts == 2

(* got: how often the receiver got this lead (history). *)
Lead(url, state) == [url |-> url, state |-> state, attempt |-> 1, got |-> 0]
Pending == {"posting", "waiting"}

Init ==
  /\ LimiterInit
  /\ archived = FALSE /\ hook = NoHook
  /\ leads = << >>
  /\ changes = 0

-----------------------------------------------------------------------------
(* Capture *)

(* A row, and a delivery if a webhook is set. *)
Captured ==
  leads' = Append(leads, IF hook = NoHook THEN Lead(hook, "kept") ELSE Lead(hook, "posting"))

Submit(v) ==
  /\ Len(leads) < MaxLeads
  /\ Let(v)
  /\ IF archived THEN UNCHANGED leads ELSE Captured
  /\ UNCHANGED <<archived, hook, changes>>

(* The form thanks its visitor all the same: .then(done).catch(done). *)
SubmitRefused(v) ==
  /\ Refuse(v)
  /\ UNCHANGED <<archived, hook, leads, changes>>

(* No consent, no usable field: the request counts and leaves nothing. *)
SubmitInvalid(v) ==
  /\ Let(v)
  /\ UNCHANGED <<archived, hook, leads, changes>>

-----------------------------------------------------------------------------
(* The webhook *)

SetWebhook(url) ==
  /\ changes < MaxTests /\ changes' = changes + 1
  /\ hook' = url
  /\ UNCHANGED <<limiterVars, archived, leads>>

Archive ==
  /\ archived' = TRUE
  /\ UNCHANGED <<limiterVars, hook, leads, changes>>

Delivery(i, state, attempt, got) ==
  /\ leads' = [leads EXCEPT ![i] = [@ EXCEPT !.state = state, !.attempt = attempt, !.got = got]]
  /\ UNCHANGED <<limiterVars, archived, hook, changes>>

PostOk(i) ==
  /\ leads[i].state = "posting"
  /\ Delivery(i, "delivered", leads[i].attempt, leads[i].got + 1)

(* Refused, lost, or answered after the 10 s: the receiver may have it.    *)
PostFails(i) ==
  /\ leads[i].state = "posting"
  /\ \E got \in {leads[i].got, leads[i].got + 1} :
       Delivery(i, IF leads[i].attempt < MaxAttempts THEN "waiting" ELSE "undelivered",
                leads[i].attempt, got)

RetryForever(i) ==
  /\ leads[i].state = "waiting"
  /\ Delivery(i, "posting", leads[i].attempt, leads[i].got)

Retry(i) ==
  /\ leads[i].state = "waiting"
  /\ Delivery(i, "posting", leads[i].attempt + 1, leads[i].got)

(* The panel stops: what was not delivered yet never will be, and the      *)
(* limiter starts afresh.                                                  *)
Crash ==
  /\ leads' = [i \in DOMAIN leads |-> IF leads[i].state \in Pending
                                      THEN [leads[i] EXCEPT !.state = "lost"] ELSE leads[i]]
  /\ buckets' = NoHits /\ clears < MaxClears /\ clears' = clears + 1
  /\ UNCHANGED <<now, passed, archived, hook, changes>>

DeliveryStep(i) == PostOk(i) \/ PostFails(i) \/ Retry(i)

Next ==
  \/ \E v \in Visitor : Submit(v) \/ SubmitRefused(v) \/ SubmitInvalid(v)
  \/ \E url \in Url \cup {NoHook} : SetWebhook(url)
  \/ Archive
  \/ \E i \in DOMAIN leads : DeliveryStep(i)
  \/ Crash
  \/ Tick /\ UNCHANGED <<archived, hook, leads, changes>>

(* A request is aborted after 10 s and the timer of the retry fires: every *)
(* step of a delivery is taken while the process lives.                    *)
Fairness == \A i \in 1..MaxLeads : WF_vars(i \in DOMAIN leads /\ DeliveryStep(i))

Spec == Init /\ [][Next]_vars /\ Fairness

-----------------------------------------------------------------------------
(* Properties *)

IsPending(i) == IF i \in DOMAIN leads THEN leads[i].state \in Pending ELSE FALSE

(* The receiver got a delivered lead, at most twice; an undelivered one was *)
(* tried as often as it may be; the process ended with a lost one.         *)
Settled(i) ==
  /\ i \in DOMAIN leads
  /\ leads[i].got <= leads[i].attempt /\ leads[i].attempt <= MaxAttempts
  /\ \/ leads[i].state = "delivered" /\ leads[i].got > 0
     \/ leads[i].state = "undelivered" /\ leads[i].attempt = MaxAttempts
     \/ leads[i].state = "lost" /\ clears > 0

(* A capture never waits for the webhook and never leaves a delivery under *)
(* way for ever: each one ends, and is counted as what it was.             *)
DeliveriesSettle == \A i \in 1..MaxLeads : IsPending(i) ~> Settled(i)
=============================================================================
