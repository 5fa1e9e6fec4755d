--------------------------- MODULE WebhookAlerter ---------------------------
(***************************************************************************)
(* The webhook alerts of the cloud: WebhookAlerter                         *)
(* (pkg/cloud/alerts/webhook.go), one for each configured webhook, and     *)
(* sendAlert (pkg/cloud/server.go), which handlers of reports and the      *)
(* monitor call at the same time.  Time is a clock of whole units; a       *)
(* request is external: it may be delivered or not, and an answer may      *)
(* fail.                                                                   *)
(***************************************************************************)
EXTENDS Naturals, FiniteSets

CONSTANTS
  Calls,      \* goroutines that call sendAlert
  Titles,     \* titles of alerts: Node Offline, Node Recovered, ...
  Webhooks,   \* Server.webhooks: numbers 1..n
  Enabled,    \* those with Enabled
  Cooldown,   \* config.Cooldown; 0 for none
  MaxTime     \* bound on the clock

VARIABLES
  call,            \* each call: [pc, title, at, hook]
  lastAlertTimes,  \* of each webhook: the titles that have one, 0 for none
  delivered,       \* requests that reached each webhook, by title
  clock

vars == <<call, lastAlertTimes, delivered, clock>>

Off == [pc |-> "off", hook |-> 1]

Init ==
  /\ call = [c \in Calls |-> Off]
  /\ lastAlertTimes = [w \in Webhooks |-> [t \in Titles |-> 0]]
  /\ delivered = [w \in Webhooks |-> [t \in Titles |-> 0]]
  /\ clock = 1

Tick ==
  /\ clock < MaxTime /\ clock' = clock + 1
  /\ UNCHANGED <<call, lastAlertTimes, delivered>>

-----------------------------------------------------------------------------

\* sendAlert is called: by handleNodeDown, handleNodeRecovery and others.
SendAlert(c) ==
  /\ call[c].pc \in {"off", "returned"}
  /\ \E t \in Titles :
       call' = [call EXCEPT ![c] = [pc |-> "alert", title |-> t, at |-> clock, hook |-> 1]]
  /\ UNCHANGED <<lastAlertTimes, delivered, clock>>

\* Mutant: sendAlert returns at the first error.
StopsAtError(c, ok) ==
  call' = [call EXCEPT ![c].pc = IF ok THEN "alert" ELSE "returned", ![c].hook = @ + 1]

\* Alert has returned: sendAlert goes on to the next webhook, error or not, and
\* reports the errors at its end.
AfterAlert(c, ok) == call' = [call EXCEPT ![c].pc = "alert", ![c].hook = @ + 1]

InCooldown(w, t) == lastAlertTimes[w][t] # 0 /\ clock - lastAlertTimes[w][t] < Cooldown

Disabled(c) ==
  /\ call[c].pc = "alert" /\ call[c].hook \in Webhooks \ Enabled
  /\ AfterAlert(c, FALSE)
  /\ UNCHANGED <<lastAlertTimes, delivered, clock>>

\* Mutant: the time is set once the request has been sent.
OnlyLooks(c) ==
  LET w == call[c].hook
      t == call[c].title IN
  /\ call[c].pc = "alert" /\ w \in Enabled
  /\ \/ Cooldown > 0 /\ InCooldown(w, t) /\ AfterAlert(c, FALSE)
     \/ ~(Cooldown > 0 /\ InCooldown(w, t)) /\ call' = [call EXCEPT ![c].pc = "payload"]
  /\ UNCHANGED <<lastAlertTimes, delivered, clock>>

\* checkCooldown looks and sets under one lock, before anything is sent.
CheckCooldown(c) ==
  LET w == call[c].hook
      t == call[c].title IN
  /\ call[c].pc = "alert" /\ w \in Enabled
  /\ IF Cooldown > 0 /\ InCooldown(w, t)
     THEN AfterAlert(c, FALSE) /\ UNCHANGED lastAlertTimes
     ELSE /\ call' = [call EXCEPT ![c].pc = "payload"]
          /\ lastAlertTimes' = IF Cooldown > 0 THEN [lastAlertTimes EXCEPT ![w][t] = clock] ELSE lastAlertTimes
  /\ UNCHANGED <<delivered, clock>>

\* preparePayload: the template may not parse, execute or give JSON.  The
\* cooldown that has begun stays.
PreparePayload(c) ==
  /\ call[c].pc = "payload"
  /\ call' = [call EXCEPT ![c].pc = "request"] \/ AfterAlert(c, FALSE)
  /\ UNCHANGED <<lastAlertTimes, delivered, clock>>

\* sendRequest: the request is lost, or delivered and then answered well, badly,
\* or too late.
SendRequest(c) ==
  /\ call[c].pc = "request"
  /\ \/ delivered' = [delivered EXCEPT ![call[c].hook][call[c].title] = @ + 1] /\ AfterAlert(c, TRUE)
     \/ delivered' = [delivered EXCEPT ![call[c].hook][call[c].title] = @ + 1] /\ AfterAlert(c, FALSE)
     \/ UNCHANGED delivered /\ AfterAlert(c, FALSE)
  /\ UNCHANGED <<lastAlertTimes, clock>>

Return(c) ==
  /\ call[c].pc = "alert" /\ call[c].hook \notin Webhooks
  /\ call' = [call EXCEPT ![c].pc = "returned"]
  /\ UNCHANGED <<lastAlertTimes, delivered, clock>>

Next ==
  \/ Tick
  \/ \E c \in Calls :
       \/ SendAlert(c) \/ Disabled(c) \/ CheckCooldown(c)
       \/ PreparePayload(c) \/ SendRequest(c) \/ Return(c)

Spec == Init /\ [][Next]_vars

-----------------------------------------------------------------------------
(* Properties.                                                               *)

\* No flood: however many goroutines raise an alert of one title at once, and
\* whatever happens to their requests, a webhook gets one request of the title
\* for each cooldown.
OneForEachCooldown ==
  Cooldown > 0 =>
    \A w \in Webhooks, t \in Titles :
      delivered[w][t] <= 1 + (clock - 1) \div Cooldown

\* No webhook is left out because of another: when sendAlert returns, each
\* enabled webhook has been tried with the alert's title, by this call or by one
\* less than a cooldown earlier.  (By title, not by node: an alert about one node
\* stands in for one about another.)
AllWebhooksTried ==
  Cooldown > 0 =>
    \A c \in Calls : call[c].pc = "returned" =>
      \A w \in Enabled :
        /\ lastAlertTimes[w][call[c].title] # 0
        /\ lastAlertTimes[w][call[c].title] + Cooldown > call[c].at
=============================================================================
