------------------------ MODULE WebhookAlerterProofs ------------------------
(* Theorems about WebhookAlerter, for every finite set of calls and every    *)
(* number of titles, webhooks, units of cooldown and of time.                *)
EXTENDS WebhookAlerter, Integers, FiniteSetTheorems, TLAPS

ConstantsOK ==
  /\ IsFiniteSet(Calls) /\ Cooldown \in Nat \ {0}
  /\ Enabled \subseteq Webhooks
  /\ \E n \in Nat : Webhooks = 1..n

Alerting ==
  [pc : {"alert", "payload", "request", "returned"}, title : Titles, at : Nat, hook : Nat \ {0}]

Typed ==
  /\ call \in [Calls -> {Off} \cup Alerting]
  /\ lastAlertTimes \in [Webhooks -> [Titles -> Nat]]
  /\ delivered \in [Webhooks -> [Titles -> Nat]]
  /\ clock \in Nat \ {0}
  /\ \A w \in Webhooks, t \in Titles : lastAlertTimes[w][t] <= clock

\* A call that is past checkCooldown for webhook w and title t.
Sending(w, t) ==
  {c \in Calls : call[c].pc \in {"payload", "request"} /\ call[c].hook = w /\ call[c].title = t}

OnTime == \A c \in Calls : call[c].pc # "off" => call[c].at <= clock

EnabledOnly == \A c \in Calls : call[c].pc \in {"payload", "request"} => call[c].hook \in Enabled

\* The requests that were or may be delivered are at least a cooldown apart, the
\* last of them at the time the alerter remembers.
Spaced ==
  \A w \in Webhooks, t \in Titles :
    (delivered[w][t] + Cardinality(Sending(w, t)) - 1) * Cooldown <= lastAlertTimes[w][t] - 1

\* The webhooks a call has gone past.
Past(c) ==
  {w \in Enabled : \/ call[c].pc = "returned" \/ w < call[c].hook
                   \/ call[c].pc \in {"payload", "request"} /\ w = call[c].hook}

Covered(w, c) ==
  /\ lastAlertTimes[w][call[c].title] # 0
  /\ lastAlertTimes[w][call[c].title] + Cooldown > call[c].at

PastCovered == \A c \in Calls : call[c].pc # "off" => \A w \in Past(c) : Covered(w, c)

AlerterInv == Typed /\ OnTime /\ EnabledOnly /\ Spaced /\ PastCovered

-----------------------------------------------------------------------------
(* Lemmas.                                                                   *)

LEMMA Quotient ==
  ASSUME NEW n \in Int, NEW m \in Nat, NEW k \in Nat \ {0}, n * k <= m
  PROVE  n <= m \div k
<1> DEFINE q == m \div k
           r == m % k
<1>1. q \in Int /\ r \in 0..(k - 1) /\ m = k * q + r
  BY SMT
<1> HIDE DEF q, r
<1>2. CASE n > q
  <2>1. (n - q) * k >= k
    BY <1>1, <1>2
  <2>2. (n - q) * k = n * k - q * k
    BY <1>1
  <2>3. k * q = q * k
    BY <1>1
  <2> QED
    BY <1>1, <2>1, <2>2, <2>3
<1>3. q <= n \/ n <= q
  BY <1>1
<1> QED
  BY <1>1, <1>2 DEF q

\* A call that runs is a whole record.
LEMMA RunningCall ==
  ASSUME Typed, NEW c \in Calls, call[c].pc # "off"
  PROVE  call[c] \in Alerting
BY DEF Typed, Off

\* What changes when the state of one call does.
LEMMA CallMoves ==
  ASSUME Typed, NEW c \in Calls, call[c].pc # "off",
         NEW pc \in {"alert", "payload", "request", "returned"}, NEW h \in Nat \ {0},
         call' = [call EXCEPT ![c] = [call[c] EXCEPT !.pc = pc, !.hook = h]]
  PROVE  /\ call'[c].pc = pc /\ call'[c].hook = h
         /\ call'[c].title = call[c].title /\ call'[c].at = call[c].at
         /\ \A d \in Calls \ {c} : call'[d] = call[d]
         /\ call' \in [Calls -> {Off} \cup Alerting]
<1>1. call[c] \in Alerting
  BY RunningCall
<1> DEFINE new == [call[c] EXCEPT !.pc = pc, !.hook = h]
<1>2. /\ new \in Alerting /\ new.pc = pc /\ new.hook = h
      /\ new.title = call[c].title /\ new.at = call[c].at
  BY <1>1 DEF Alerting
<1> HIDE DEF new
<1>3. call' = [call EXCEPT ![c] = new]
  BY DEF new
<1> QED
  BY <1>2, <1>3 DEF Typed

LEMMA SendingFinite ==
  ASSUME ConstantsOK, NEW w, NEW t
  PROVE  IsFiniteSet(Sending(w, t)) /\ Cardinality(Sending(w, t)) \in Nat
<1>1. Sending(w, t) \subseteq Calls
  BY DEF Sending
<1> QED
  BY <1>1, FS_Subset, FS_CardinalityType DEF ConstantsOK

\* A smaller factor.
LEMMA Fewer ==
  ASSUME NEW a \in Int, NEW b \in Int, NEW k \in Nat, NEW m \in Int, a <= b, b * k <= m
  PROVE  a * k <= m
<1>1. a * k <= b * k
  <2>1. (b - a) * k >= 0
    OBVIOUS
  <2> QED
    BY <2>1
<1> QED
  BY <1>1

-----------------------------------------------------------------------------
(* One call moves: the time and the alerter's times stay.                    *)

\* Call c goes to pc at webhook h.
Moves(c, pc, h) == call' = [call EXCEPT ![c] = [call[c] EXCEPT !.pc = pc, !.hook = h]]

\* The calls on their way to webhook w, after a move.
LEMMA SendingMoves ==
  ASSUME Typed, NEW c \in Calls, call[c].pc # "off",
         NEW pc \in {"alert", "payload", "request", "returned"}, NEW h \in Nat \ {0}, Moves(c, pc, h),
         NEW w, NEW t
  PROVE  Sending(w, t)' = (Sending(w, t) \ {c}) \cup
           (IF pc \in {"payload", "request"} /\ h = w /\ call[c].title = t THEN {c} ELSE {})
<1>1. /\ call'[c].pc = pc /\ call'[c].hook = h /\ call'[c].title = call[c].title
      /\ \A d \in Calls \ {c} : call'[d] = call[d]
  BY CallMoves DEF Moves
<1> QED
  BY <1>1 DEF Sending

\* All but the spacing.
LEMMA MoveKeeps ==
  ASSUME Typed, OnTime, EnabledOnly, PastCovered, NEW c \in Calls, call[c].pc # "off",
         NEW pc \in {"alert", "payload", "request", "returned"}, NEW h \in Nat \ {0}, Moves(c, pc, h),
         UNCHANGED <<lastAlertTimes, clock>>,
         pc \in {"payload", "request"} => h \in Enabled,
         \A w \in Past(c)' : Covered(w, c)
  PROVE  /\ call' \in [Calls -> {Off} \cup Alerting]
         /\ OnTime' /\ EnabledOnly' /\ PastCovered'
<1>1. /\ call'[c].pc = pc /\ call'[c].hook = h
      /\ call'[c].title = call[c].title /\ call'[c].at = call[c].at
      /\ \A d \in Calls \ {c} : call'[d] = call[d]
      /\ call' \in [Calls -> {Off} \cup Alerting]
  BY CallMoves DEF Moves
<1>2. OnTime'
  BY <1>1 DEF OnTime
<1>3. EnabledOnly'
  BY <1>1 DEF EnabledOnly
<1>4. ASSUME NEW d \in Calls, call'[d].pc # "off", NEW w \in Past(d)'
      PROVE  Covered(w, d)'
  <2>1. CASE d = c
    BY <2>1, <1>1, <1>4 DEF Covered
  <2>2. CASE d # c
    <3>1. call'[d] = call[d] /\ w \in Past(d)
      BY <2>2, <1>1, <1>4 DEF Past
    <3> QED
      BY <3>1, <1>4 DEF PastCovered, Covered
  <2> QED
    BY <2>1, <2>2
<1>5. PastCovered'
  BY <1>4 DEF PastCovered
<1> QED
  BY <1>1, <1>2, <1>3, <1>5

\* A move that has no more requests on their way than delivered allows.
LEMMA MoveKeepsSpacing ==
  ASSUME ConstantsOK, Typed, Spaced, UNCHANGED lastAlertTimes,
         delivered' \in [Webhooks -> [Titles -> Nat]],
         \A w \in Webhooks, t \in Titles :
           delivered'[w][t] + Cardinality(Sending(w, t)') <= delivered[w][t] + Cardinality(Sending(w, t)),
         \A w, t : IsFiniteSet(Sending(w, t)')
  PROVE  Spaced'
<1> SUFFICES ASSUME NEW w \in Webhooks, NEW t \in Titles
             PROVE  (delivered'[w][t] + Cardinality(Sending(w, t)') - 1) * Cooldown <= lastAlertTimes[w][t] - 1
  BY DEF Spaced
<1> DEFINE a == delivered'[w][t] + Cardinality(Sending(w, t)') - 1
           b == delivered[w][t] + Cardinality(Sending(w, t)) - 1
<1>1. Cardinality(Sending(w, t)') \in Nat /\ Cardinality(Sending(w, t)) \in Nat
  BY SendingFinite, FS_CardinalityType
<1>2. a \in Int /\ b \in Int /\ a <= b
  BY <1>1 DEF Typed
<1>3. b * Cooldown <= lastAlertTimes[w][t] - 1
  BY DEF Spaced
<1>4. Cooldown \in Nat /\ lastAlertTimes[w][t] - 1 \in Int
  BY DEF ConstantsOK, Typed
<1> HIDE DEF a, b
<1>5. a * Cooldown <= lastAlertTimes[w][t] - 1
  BY <1>2, <1>3, <1>4, Fewer
<1> QED
  BY <1>5 DEF a

-----------------------------------------------------------------------------
(* The actions.                                                              *)

\* sendAlert goes on after a webhook that is disabled or covered.
LEMMA NextWebhook ==
  ASSUME ConstantsOK, AlerterInv, NEW c \in Calls, call[c].pc \in {"alert", "payload", "request"},
         NEW ok, AfterAlert(c, ok), UNCHANGED <<lastAlertTimes, clock>>,
         call[c].hook \in Enabled => Covered(call[c].hook, c)
  PROVE  /\ Moves(c, "alert", call[c].hook + 1)
         /\ call' \in [Calls -> {Off} \cup Alerting]
         /\ OnTime' /\ EnabledOnly' /\ PastCovered'
<1> DEFINE h == call[c].hook
<1>1. call[c] \in Alerting /\ h \in Nat \ {0} /\ h + 1 \in Nat \ {0}
  <2>1. call[c] \in Alerting
    BY RunningCall DEF AlerterInv
  <2> QED
    BY <2>1 DEF Alerting
<1>2. Moves(c, "alert", h + 1)
  BY <1>1 DEF AfterAlert, Moves, Alerting, AlerterInv, Typed
<1>3. call'[c].pc = "alert" /\ call'[c].hook = h + 1
  BY <1>1, <1>2, CallMoves DEF Moves, AlerterInv
<1>4. ASSUME NEW w \in Past(c)' PROVE Covered(w, c)
  <2>1. w \in Enabled /\ w \in Nat /\ w < h + 1
    BY <1>3, <1>4 DEF Past, ConstantsOK
  <2>2. CASE w = h
    BY <2>1, <2>2
  <2>3. CASE w # h
    BY <1>1, <2>1, <2>3 DEF Past, AlerterInv, PastCovered
  <2> QED
    BY <2>2, <2>3
<1> QED
  BY <1>1, <1>2, <1>4, MoveKeeps DEF AlerterInv

\* When nothing is sent, the spacing stays.
LEMMA NothingSent ==
  ASSUME ConstantsOK, AlerterInv, NEW c \in Calls, call[c].pc # "off",
         NEW pc \in {"alert", "payload", "request", "returned"}, NEW h \in Nat \ {0}, Moves(c, pc, h),
         pc \in {"payload", "request"} => h = call[c].hook /\ call[c].pc \in {"payload", "request"},
         UNCHANGED <<delivered, lastAlertTimes>>
  PROVE  Spaced'
<1>1. ASSUME NEW w, NEW t
      PROVE  /\ IsFiniteSet(Sending(w, t)')
             /\ Cardinality(Sending(w, t)') <= Cardinality(Sending(w, t))
             /\ Cardinality(Sending(w, t)') \in Nat
  <2>1. Sending(w, t)' \subseteq Sending(w, t)
    <3>1. Sending(w, t)' = (Sending(w, t) \ {c}) \cup
            (IF pc \in {"payload", "request"} /\ h = w /\ call[c].title = t THEN {c} ELSE {})
      BY SendingMoves DEF AlerterInv
    <3> QED
      BY <3>1 DEF Sending
  <2> QED
    BY <2>1, SendingFinite, FS_Subset, FS_CardinalityType
<1>2. delivered \in [Webhooks -> [Titles -> Nat]]
  BY DEF AlerterInv, Typed
<1>3. \A w \in Webhooks, t \in Titles :
        delivered'[w][t] + Cardinality(Sending(w, t)') <= delivered[w][t] + Cardinality(Sending(w, t))
  <2> SUFFICES ASSUME NEW w \in Webhooks, NEW t \in Titles
               PROVE  delivered[w][t] + Cardinality(Sending(w, t)') <= delivered[w][t] + Cardinality(Sending(w, t))
    OBVIOUS
  <2>1. delivered[w][t] \in Nat
    BY <1>2
  <2> QED
    BY <2>1, <1>1, SendingFinite
<1> QED
  BY <1>1, <1>2, <1>3, MoveKeepsSpacing DEF AlerterInv

LEMMA TickKeeps ==
  ASSUME AlerterInv, Tick
  PROVE  AlerterInv'
<1>1. UNCHANGED <<call, lastAlertTimes, delivered>> /\ clock' = clock + 1
  BY DEF Tick
<1>2. Typed'
  BY <1>1 DEF AlerterInv, Typed
<1>3. OnTime'
  <2> SUFFICES ASSUME NEW c \in Calls, call[c].pc # "off" PROVE call[c].at <= clock + 1
    BY <1>1 DEF OnTime
  <2>1. call[c].at \in Nat /\ call[c].at <= clock
    BY RunningCall DEF AlerterInv, OnTime, Alerting
  <2> QED
    BY <2>1 DEF AlerterInv, Typed
<1>4. EnabledOnly' /\ Spaced' /\ PastCovered'
  BY <1>1 DEF AlerterInv, EnabledOnly, Spaced, Sending, PastCovered, Past, Covered
<1> QED
  BY <1>2, <1>3, <1>4 DEF AlerterInv

\* A new alert has gone past no webhook.
LEMMA SendAlertKeeps ==
  ASSUME ConstantsOK, AlerterInv, NEW c \in Calls, SendAlert(c)
  PROVE  AlerterInv'
<1>1. PICK t \in Titles :
        call' = [call EXCEPT ![c] = [pc |-> "alert", title |-> t, at |-> clock, hook |-> 1]]
  BY DEF SendAlert
<1>2. call[c].pc \in {"off", "returned"} /\ UNCHANGED <<lastAlertTimes, delivered, clock>>
  BY DEF SendAlert
<1>3. /\ call'[c] = [pc |-> "alert", title |-> t, at |-> clock, hook |-> 1]
      /\ \A d \in Calls \ {c} : call'[d] = call[d]
  BY <1>1 DEF AlerterInv, Typed
<1>4. Typed'
  <2>1. [pc |-> "alert", title |-> t, at |-> clock, hook |-> 1] \in Alerting
    BY DEF Alerting, AlerterInv, Typed
  <2> QED
    BY <2>1, <1>1, <1>2 DEF AlerterInv, Typed
<1>5. OnTime' /\ EnabledOnly'
  <2>1. clock <= clock
    BY DEF AlerterInv, Typed
  <2> QED
    BY <1>2, <1>3, <2>1 DEF AlerterInv, OnTime, EnabledOnly
<1>6. \A w, s : Sending(w, s)' = Sending(w, s)
  BY <1>2, <1>3 DEF Sending
<1>7. Spaced'
  BY <1>2, <1>6 DEF AlerterInv, Spaced
<1>8. PastCovered'
  <2> SUFFICES ASSUME NEW d \in Calls, call'[d].pc # "off", NEW w \in Past(d)'
               PROVE  Covered(w, d)'
    BY DEF PastCovered
  <2>1. d # c
    BY <1>3 DEF Past, ConstantsOK
  <2>2. call'[d] = call[d] /\ w \in Past(d)
    BY <2>1, <1>3 DEF Past
  <2> QED
    BY <2>2, <1>2 DEF AlerterInv, PastCovered, Covered
<1> QED
  BY <1>4, <1>5, <1>7, <1>8 DEF AlerterInv

LEMMA DisabledKeeps ==
  ASSUME ConstantsOK, AlerterInv, NEW c \in Calls, Disabled(c)
  PROVE  AlerterInv'
<1>1. /\ call[c].pc = "alert" /\ call[c].hook \notin Enabled
      /\ AfterAlert(c, FALSE) /\ UNCHANGED <<lastAlertTimes, delivered, clock>>
  BY DEF Disabled
<1>2. /\ Moves(c, "alert", call[c].hook + 1)
      /\ call' \in [Calls -> {Off} \cup Alerting]
      /\ OnTime' /\ EnabledOnly' /\ PastCovered'
  BY <1>1, NextWebhook
<1>3. call[c].hook + 1 \in Nat \ {0}
  BY <1>1, RunningCall DEF AlerterInv, Alerting
<1>4. Spaced'
  BY <1>1, <1>2, <1>3, NothingSent
<1> QED
  BY <1>1, <1>2, <1>4 DEF AlerterInv, Typed

\* A title in its cooldown covers the alert; otherwise its cooldown begins, a
\* whole cooldown after the last one did.
LEMMA CheckCooldownKeeps ==
  ASSUME ConstantsOK, AlerterInv, NEW c \in Calls, CheckCooldown(c)
  PROVE  AlerterInv'
<1> DEFINE w == call[c].hook
           t == call[c].title
<1>1. call[c].pc = "alert" /\ w \in Enabled /\ UNCHANGED <<delivered, clock>> /\ Cooldown > 0
  BY DEF CheckCooldown, ConstantsOK
<1>2. /\ call[c] \in Alerting /\ w \in Nat \ {0} /\ w + 1 \in Nat \ {0} /\ w \in Webhooks /\ t \in Titles
      /\ call[c].at \in Nat /\ call[c].at <= clock
  <2>1. call[c] \in Alerting
    BY <1>1, RunningCall DEF AlerterInv
  <2> QED
    BY <2>1, <1>1 DEF Alerting, ConstantsOK, AlerterInv, OnTime
<1>3. /\ clock \in Nat \ {0} /\ Cooldown \in Nat \ {0}
      /\ lastAlertTimes \in [Webhooks -> [Titles -> Nat]]
      /\ \A x \in Webhooks, s \in Titles : lastAlertTimes[x][s] <= clock
  BY DEF AlerterInv, Typed, ConstantsOK
<1>4. CASE InCooldown(w, t)
  <2>1. AfterAlert(c, FALSE) /\ UNCHANGED lastAlertTimes
    BY <1>1, <1>4 DEF CheckCooldown
  <2>2. Covered(w, c)
    BY <1>2, <1>3, <1>4 DEF InCooldown, Covered
  <2>3. /\ Moves(c, "alert", w + 1)
        /\ call' \in [Calls -> {Off} \cup Alerting]
        /\ OnTime' /\ EnabledOnly' /\ PastCovered'
    BY <1>1, <2>1, <2>2, NextWebhook
  <2>4. Spaced'
    BY <1>1, <1>2, <2>1, <2>3, NothingSent
  <2> QED
    BY <1>1, <2>1, <2>3, <2>4 DEF AlerterInv, Typed
<1>5. CASE ~InCooldown(w, t)
  <2>1. /\ call' = [call EXCEPT ![c].pc = "payload"]
        /\ lastAlertTimes' = [lastAlertTimes EXCEPT ![w][t] = clock]
    BY <1>1, <1>5 DEF CheckCooldown
  <2>2. Moves(c, "payload", w)
    BY <1>2, <2>1 DEF Moves, Alerting, AlerterInv, Typed
  <2>3. /\ call'[c].pc = "payload" /\ call'[c].hook = w /\ call'[c].title = t /\ call'[c].at = call[c].at
        /\ \A d \in Calls \ {c} : call'[d] = call[d]
        /\ call' \in [Calls -> {Off} \cup Alerting]
    BY <1>1, <1>2, <2>2, CallMoves DEF Moves, AlerterInv
  <2>4. /\ lastAlertTimes' \in [Webhooks -> [Titles -> Nat]]
        /\ lastAlertTimes'[w][t] = clock
        /\ \A x \in Webhooks, s \in Titles : x # w \/ s # t => lastAlertTimes'[x][s] = lastAlertTimes[x][s]
    BY <1>2, <1>3, <2>1
  <2>5. \A x \in Webhooks, s \in Titles :
          lastAlertTimes[x][s] <= lastAlertTimes'[x][s] /\ lastAlertTimes'[x][s] <= clock
    BY <1>2, <1>3, <2>4
  <2>6. Typed'
    BY <1>1, <2>3, <2>4, <2>5 DEF AlerterInv, Typed
  <2>7. OnTime' /\ EnabledOnly'
    BY <1>1, <1>2, <2>3 DEF AlerterInv, OnTime, EnabledOnly
  <2>8. ASSUME NEW d \in Calls, call'[d].pc # "off", NEW x \in Past(d)'
        PROVE  Covered(x, d)'
    <3>1. call'[d].title = call[d].title /\ call'[d].at = call[d].at /\ call[d].pc # "off"
      BY <1>1, <2>3, <2>8
    <3>2. call[d].title \in Titles /\ call[d].at \in Nat /\ call[d].at <= clock /\ x \in Webhooks /\ x \in Enabled
      <4>1. call[d] \in Alerting
        BY <3>1, RunningCall DEF AlerterInv
      <4> QED
        BY <3>1, <4>1, <2>8 DEF Alerting, AlerterInv, OnTime, Past, ConstantsOK
    <3>3. x \in Past(d) \/ (d = c /\ x = w)
      BY <1>1, <2>3, <2>8 DEF Past
    <3>4. CASE x \in Past(d)
      <4>1. Covered(x, d)
        BY <3>1, <3>4 DEF AlerterInv, PastCovered
      <4>2. /\ lastAlertTimes[x][call[d].title] <= lastAlertTimes'[x][call[d].title]
            /\ lastAlertTimes[x][call[d].title] \in Nat /\ lastAlertTimes'[x][call[d].title] \in Nat
        BY <1>3, <2>4, <2>5, <3>2
      <4> QED
        BY <3>1, <3>2, <4>1, <4>2, <1>3 DEF Covered
    <3>5. CASE d = c /\ x = w
      BY <3>5, <1>2, <1>3, <2>3, <2>4 DEF Covered
    <3> QED
      BY <3>3, <3>4, <3>5
  <2>9. PastCovered'
    BY <2>8 DEF PastCovered
  <2>10. ASSUME NEW x \in Webhooks, NEW s \in Titles
         PROVE  (delivered[x][s] + Cardinality(Sending(x, s)') - 1) * Cooldown <= lastAlertTimes'[x][s] - 1
    <3>1. Sending(x, s)' = (Sending(x, s) \ {c}) \cup (IF w = x /\ t = s THEN {c} ELSE {})
      BY <1>1, <1>2, <2>2, SendingMoves DEF AlerterInv
    <3>2. c \notin Sending(x, s)
      BY <1>1 DEF Sending
    <3>3. (delivered[x][s] + Cardinality(Sending(x, s)) - 1) * Cooldown <= lastAlertTimes[x][s] - 1
      BY DEF AlerterInv, Spaced
    <3>4. CASE x = w /\ s = t
      <4>1. Cardinality(Sending(x, s)') = Cardinality(Sending(x, s)) + 1
        <5>1. Sending(x, s)' = Sending(x, s) \cup {c}
          BY <3>1, <3>2, <3>4
        <5> QED
          BY <5>1, <3>2, SendingFinite, FS_AddElement
      <4> DEFINE n == delivered[x][s] + Cardinality(Sending(x, s))
                 last == lastAlertTimes[x][s]
      <4>2. n \in Nat /\ last \in Nat
        BY SendingFinite DEF AlerterInv, Typed
      <4>3. (n - 1) * Cooldown <= last - 1
        BY <3>3, <4>2, <1>3, SendingFinite DEF AlerterInv, Typed
      <4>4. delivered[x][s] + Cardinality(Sending(x, s)') - 1 = n
        BY <4>1, SendingFinite DEF AlerterInv, Typed
      <4>5. last = 0 \/ last + Cooldown <= clock
        BY <1>3, <1>5, <3>4 DEF InCooldown
      <4>6. lastAlertTimes'[x][s] = clock
        BY <2>4, <3>4
      <4> HIDE DEF n, last
      <4>7. n * Cooldown = (n - 1) * Cooldown + Cooldown
        BY <4>2, <1>3
      <4>8. (n - 1) * Cooldown \in Int /\ n * Cooldown \in Int
        BY <4>2, <1>3
      <4>9. CASE last = 0
        <5>1. (n - 1) * Cooldown < 0
          BY <4>3, <4>8, <4>9
        <5>2. n = 0
          BY <5>1, <4>2, <1>3
        <5>3. n * Cooldown = 0
          BY <5>2, <1>3
        <5> QED
          BY <5>3, <4>4, <4>6, <1>3
      <4>10. CASE last + Cooldown <= clock
        <5>1. n * Cooldown <= clock - 1
          BY <4>2, <4>3, <4>7, <4>8, <4>10, <1>3
        <5> QED
          BY <5>1, <4>4, <4>6
      <4> QED
        BY <4>5, <4>9, <4>10
    <3>5. CASE ~(x = w /\ s = t)
      <4>1. Sending(x, s)' = Sending(x, s)
        BY <3>1, <3>2, <3>5
      <4>2. lastAlertTimes'[x][s] = lastAlertTimes[x][s]
        BY <2>4, <3>5
      <4> QED
        BY <4>1, <4>2, <3>3
    <3> QED
      BY <3>4, <3>5
  <2>11. Spaced'
    BY <1>1, <2>10 DEF Spaced
  <2> QED
    BY <2>6, <2>7, <2>9, <2>11 DEF AlerterInv
<1> QED
  BY <1>4, <1>5

LEMMA PreparePayloadKeeps ==
  ASSUME ConstantsOK, AlerterInv, NEW c \in Calls, PreparePayload(c)
  PROVE  AlerterInv'
<1> DEFINE w == call[c].hook
<1>1. call[c].pc = "payload" /\ UNCHANGED <<lastAlertTimes, delivered, clock>>
  BY DEF PreparePayload
<1>2. call[c] \in Alerting /\ w \in Nat \ {0} /\ w + 1 \in Nat \ {0} /\ w \in Enabled
  <2>1. call[c] \in Alerting
    BY <1>1, RunningCall DEF AlerterInv
  <2> QED
    BY <2>1, <1>1 DEF Alerting, AlerterInv, EnabledOnly
<1>3. Covered(w, c)
  BY <1>1, <1>2 DEF AlerterInv, PastCovered, Past
<1>4. CASE call' = [call EXCEPT ![c].pc = "request"]
  <2>1. Moves(c, "request", w)
    BY <1>2, <1>4 DEF Moves, Alerting, AlerterInv, Typed
  <2>2. call'[c].pc = "request" /\ call'[c].hook = w
    BY <1>1, <1>2, <2>1, CallMoves DEF Moves, AlerterInv
  <2>3. \A x \in Past(c)' : Covered(x, c)
    BY <1>1, <2>2 DEF Past, AlerterInv, PastCovered
  <2>4. /\ call' \in [Calls -> {Off} \cup Alerting]
        /\ OnTime' /\ EnabledOnly' /\ PastCovered'
    BY <1>1, <1>2, <2>1, <2>3, MoveKeeps DEF AlerterInv
  <2>5. Spaced'
    BY <1>1, <1>2, <2>1, NothingSent
  <2> QED
    BY <1>1, <2>4, <2>5 DEF AlerterInv, Typed
<1>5. CASE AfterAlert(c, FALSE)
  <2>1. /\ Moves(c, "alert", w + 1)
        /\ call' \in [Calls -> {Off} \cup Alerting]
        /\ OnTime' /\ EnabledOnly' /\ PastCovered'
    BY <1>1, <1>3, <1>5, NextWebhook
  <2>2. Spaced'
    BY <1>1, <1>2, <2>1, NothingSent
  <2> QED
    BY <1>1, <2>1, <2>2 DEF AlerterInv, Typed
<1> QED
  BY <1>4, <1>5 DEF PreparePayload

\* A request on its way becomes one that was delivered, or none.
LEMMA SendRequestKeeps ==
  ASSUME ConstantsOK, AlerterInv, NEW c \in Calls, SendRequest(c)
  PROVE  AlerterInv'
<1> DEFINE w == call[c].hook
           t == call[c].title
<1>1. call[c].pc = "request" /\ UNCHANGED <<lastAlertTimes, clock>>
  BY DEF SendRequest
<1>2. /\ call[c] \in Alerting /\ w \in Nat \ {0} /\ w + 1 \in Nat \ {0}
      /\ w \in Enabled /\ w \in Webhooks /\ t \in Titles
  <2>1. call[c] \in Alerting
    BY <1>1, RunningCall DEF AlerterInv
  <2> QED
    BY <2>1, <1>1 DEF Alerting, AlerterInv, EnabledOnly, ConstantsOK
<1>3. Covered(w, c)
  BY <1>1, <1>2 DEF AlerterInv, PastCovered, Past
<1>4. PICK ok \in BOOLEAN : AfterAlert(c, ok)
  BY DEF SendRequest
<1>5. /\ Moves(c, "alert", w + 1)
      /\ call' \in [Calls -> {Off} \cup Alerting]
      /\ OnTime' /\ EnabledOnly' /\ PastCovered'
  BY <1>1, <1>3, <1>4, NextWebhook
<1>6. CASE UNCHANGED delivered
  <2>1. Spaced'
    BY <1>1, <1>2, <1>5, <1>6, NothingSent
  <2> QED
    BY <1>1, <1>5, <1>6, <2>1 DEF AlerterInv, Typed
<1>7. CASE delivered' = [delivered EXCEPT ![w][t] = @ + 1]
  <2>1. delivered \in [Webhooks -> [Titles -> Nat]]
    BY DEF AlerterInv, Typed
  <2>2. /\ delivered' \in [Webhooks -> [Titles -> Nat]]
        /\ delivered'[w][t] = delivered[w][t] + 1
        /\ \A x \in Webhooks, s \in Titles : x # w \/ s # t => delivered'[x][s] = delivered[x][s]
    BY <1>2, <1>7, <2>1
  <2>3. \A x, s : Sending(x, s)' = Sending(x, s) \ {c}
    BY <1>1, <1>2, <1>5, SendingMoves DEF AlerterInv
  <2>4. \A x, s : IsFiniteSet(Sending(x, s)')
    BY <2>3, SendingFinite, FS_Subset
  <2>5. ASSUME NEW x \in Webhooks, NEW s \in Titles
        PROVE  delivered'[x][s] + Cardinality(Sending(x, s)') <= delivered[x][s] + Cardinality(Sending(x, s))
    <3>1. Cardinality(Sending(x, s)) \in Nat /\ delivered[x][s] \in Nat
      BY <2>1, SendingFinite
    <3>2. CASE x = w /\ s = t
      <4>1. c \in Sending(x, s)
        BY <1>1, <3>2 DEF Sending
      <4>2. Cardinality(Sending(x, s)') = Cardinality(Sending(x, s)) - 1
        BY <2>3, <4>1, SendingFinite, FS_RemoveElement
      <4> QED
        BY <2>2, <3>1, <3>2, <4>2
    <3>3. CASE ~(x = w /\ s = t)
      <4>1. c \notin Sending(x, s)
        BY <3>3 DEF Sending
      <4>2. Sending(x, s)' = Sending(x, s)
        BY <2>3, <4>1
      <4> QED
        BY <2>2, <3>1, <3>3, <4>2
    <3> QED
      BY <3>2, <3>3
  <2>6. Spaced'
    BY <1>1, <2>2, <2>4, <2>5, MoveKeepsSpacing DEF AlerterInv
  <2> QED
    BY <1>1, <1>5, <2>2, <2>6 DEF AlerterInv, Typed
<1> QED
  BY <1>6, <1>7 DEF SendRequest

\* A call that is through has gone past every webhook.
LEMMA ReturnKeeps ==
  ASSUME ConstantsOK, AlerterInv, NEW c \in Calls, Return(c)
  PROVE  AlerterInv'
<1> DEFINE h == call[c].hook
<1>1. /\ call[c].pc = "alert" /\ h \notin Webhooks
      /\ call' = [call EXCEPT ![c].pc = "returned"]
      /\ UNCHANGED <<lastAlertTimes, delivered, clock>>
  BY DEF Return
<1>2. call[c] \in Alerting /\ h \in Nat \ {0}
  <2>1. call[c] \in Alerting
    BY <1>1, RunningCall DEF AlerterInv
  <2> QED
    BY <2>1 DEF Alerting
<1>3. Moves(c, "returned", h)
  BY <1>1, <1>2 DEF Moves, Alerting, AlerterInv, Typed
<1>4. \A w \in Enabled : w < h
  BY <1>1, <1>2 DEF ConstantsOK
<1>5. \A w \in Past(c)' : Covered(w, c)
  BY <1>1, <1>4 DEF Past, AlerterInv, PastCovered
<1>6. /\ call' \in [Calls -> {Off} \cup Alerting]
      /\ OnTime' /\ EnabledOnly' /\ PastCovered'
  BY <1>1, <1>2, <1>3, <1>5, MoveKeeps DEF AlerterInv
<1>7. Spaced'
  BY <1>1, <1>2, <1>3, NothingSent
<1> QED
  BY <1>1, <1>6, <1>7 DEF AlerterInv, Typed

-----------------------------------------------------------------------------

LEMMA AlerterKept ==
  ASSUME ConstantsOK, AlerterInv, [Next]_vars
  PROVE  AlerterInv'
<1>1. CASE UNCHANGED vars
  BY <1>1 DEF vars, AlerterInv, Typed, OnTime, EnabledOnly, Spaced, Sending, PastCovered, Past, Covered
<1>2. CASE Tick
  BY <1>2, TickKeeps
<1>3. CASE \E c \in Calls : SendAlert(c) \/ Disabled(c) \/ CheckCooldown(c)
                              \/ PreparePayload(c) \/ SendRequest(c) \/ Return(c)
  BY <1>3, SendAlertKeeps, DisabledKeeps, CheckCooldownKeeps, PreparePayloadKeeps,
     SendRequestKeeps, ReturnKeeps
<1> QED
  BY <1>1, <1>2, <1>3 DEF Next

LEMMA AlerterStarts ==
  ASSUME ConstantsOK, Init
  PROVE  AlerterInv
<1>1. Typed /\ OnTime /\ EnabledOnly /\ PastCovered
  BY DEF Init, Typed, OnTime, EnabledOnly, PastCovered, Off
<1>2. \A w, t : Sending(w, t) = {}
  BY DEF Init, Sending, Off
<1>3. ASSUME NEW w \in Webhooks, NEW t \in Titles
      PROVE  (delivered[w][t] + Cardinality(Sending(w, t)) - 1) * Cooldown <= lastAlertTimes[w][t] - 1
  <2>1. delivered[w][t] = 0 /\ lastAlertTimes[w][t] = 0
    BY DEF Init
  <2>2. Cardinality(Sending(w, t)) = 0
    BY <1>2, FS_EmptySet
  <2> QED
    BY <2>1, <2>2 DEF ConstantsOK
<1> QED
  BY <1>1, <1>3 DEF AlerterInv, Spaced

\* However many goroutines raise alerts of one title, however late their
\* requests are sent and whatever becomes of them, a webhook gets one request of
\* the title for each cooldown that has passed: checkCooldown looks and sets
\* under one lock.
THEOREM OneRequestForEachCooldown ==
  ASSUME ConstantsOK
  PROVE  Spec => []OneForEachCooldown
<1>1. Init => AlerterInv
  BY AlerterStarts
<1>2. AlerterInv /\ [Next]_vars => AlerterInv'
  BY AlerterKept
<1>3. ASSUME AlerterInv PROVE OneForEachCooldown
  <2> SUFFICES ASSUME NEW w \in Webhooks, NEW t \in Titles
               PROVE  delivered[w][t] <= 1 + (clock - 1) \div Cooldown
    BY DEF OneForEachCooldown
  <2> DEFINE a == delivered[w][t] - 1
             b == delivered[w][t] + Cardinality(Sending(w, t)) - 1
  <2>1. /\ delivered[w][t] \in Nat /\ lastAlertTimes[w][t] \in Nat /\ lastAlertTimes[w][t] <= clock
        /\ clock \in Nat \ {0} /\ Cooldown \in Nat \ {0} /\ Cardinality(Sending(w, t)) \in Nat
    BY <1>3, SendingFinite DEF AlerterInv, Typed, ConstantsOK
  <2>2. b * Cooldown <= lastAlertTimes[w][t] - 1
    BY <1>3 DEF AlerterInv, Spaced
  <2>3. a \in Int /\ b \in Int /\ a <= b
    BY <2>1
  <2>4. lastAlertTimes[w][t] - 1 \in Int /\ clock - 1 \in Nat
    BY <2>1
  <2> HIDE DEF a, b
  <2>5. a * Cooldown <= lastAlertTimes[w][t] - 1
    BY <2>1, <2>2, <2>3, <2>4, Fewer
  <2>6. a * Cooldown <= clock - 1
    BY <2>1, <2>3, <2>5
  <2>7. a <= (clock - 1) \div Cooldown
    BY <2>1, <2>3, <2>4, <2>6, Quotient
  <2>8. (clock - 1) \div Cooldown \in Int
    BY <2>1, <2>4
  <2> QED
    BY <2>1, <2>7, <2>8 DEF a
<1> QED
  BY <1>1, <1>2, <1>3, PTL DEF Spec

\* When sendAlert returns, each enabled webhook has been tried with the title,
\* by this call or by one less than a cooldown before it, whatever errors the
\* webhooks before it had.
THEOREM AllWebhooksAreTried ==
  ASSUME ConstantsOK
  PROVE  Spec => []AllWebhooksTried
<1>1. Init => AlerterInv
  BY AlerterStarts
<1>2. AlerterInv /\ [Next]_vars => AlerterInv'
  BY AlerterKept
<1>3. AlerterInv => AllWebhooksTried
  BY DEF AlerterInv, PastCovered, Past, Covered, AllWebhooksTried
<1> QED
  BY <1>1, <1>2, <1>3, PTL DEF Spec
=============================================================================
