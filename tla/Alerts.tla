-------------------------------- MODULE Alerts --------------------------------
(***************************************************************************)
(* Alert rules and their evaluation.                                       *)
(*                                                                         *)
(* Every 15 seconds one replica evaluates the enabled rules against the    *)
(* latest health sample of each server.  Which rules are firing, and since *)
(* when a threshold is crossed, is known only to the process that saw it.  *)
(* A crossing that lasts ForTicks makes an alert, its end a resolution;    *)
(* both are queued in the outbox.                                          *)
(*                                                                         *)
(* Abstracted: the metrics are a plain value and a share of a total;       *)
(* severities, texts.                                                      *)
(***************************************************************************)
EXTENDS Integers, FiniteSets

CONSTANTS
  Rules, Hosts,   \* alert rules, servers
  Evaluators,     \* replicas
  Anywhere,       \* the target of a global rule
  Conditions,     \* metric, comparator and threshold of rules
  Samples,        \* health samples: a value and a total, or NoValue
  NoValue,
  ForTicks,       \* for_seconds, in rounds of evaluation
  LastTick,       \* bound: rounds
  MaxRestarts     \* bound: restarts and events that cannot be queued

Keys == Rules \X Hosts

ASSUME AlertAssumption ==
  /\ Anywhere \notin Hosts /\ NoValue \notin Nat /\ IsFiniteSet(Evaluators)
  /\ Conditions \subseteq [metric : {"plain", "share"}, cmp : {"gt", "gte", "lt", "lte"}, than : Nat]
  /\ Samples \subseteq [value : Nat \cup {NoValue}, total : Nat \cup {NoValue}]
  /\ ForTicks \in Nat /\ LastTick \in Nat \ {0} /\ MaxRestarts \in Nat

VARIABLES
  tick,      \* the round
  rule,      \* the alert_rules table
  sample,    \* the latest sample of each server
  firing,    \* per process: the keys that are firing
  breaching, \* per process: since when a key is breaching, -1 if it is not
  alerts,    \* how many alerts have been queued for each key
  resolved,  \* how many resolutions
  calm,      \* the last round in which a key was seen within bounds
  restarts

alertVars == <<tick, rule, sample, firing, breaching, alerts, resolved, calm, restarts>>

\* What Rule.set lets in.
RuleRow == [there : {TRUE}, enabled : BOOLEAN, target : Hosts \cup {Anywhere}, when : Conditions]

NoRule   == [there |-> FALSE, enabled |-> FALSE]
NoSample == [value |-> NoValue, total |-> NoValue]

AlertInit ==
  /\ tick = 1
  /\ rule = [r \in Rules |-> NoRule]
  /\ sample = [h \in Hosts |-> NoSample]
  /\ firing = [w \in Evaluators |-> {}]
  /\ breaching = [w \in Evaluators |-> [k \in Keys |-> -1]]
  /\ alerts = [k \in Keys |-> 0] /\ resolved = [k \in Keys |-> 0]
  /\ calm = [k \in Keys |-> 0]
  /\ restarts = 0

WriteRule(r, row) ==
  /\ rule' = [rule EXCEPT ![r] = row]
  /\ UNCHANGED <<tick, sample, firing, breaching, alerts, resolved, calm, restarts>>

CreateRule(r, row) == ~rule[r].there /\ WriteRule(r, row)

UpdateRule(r, row) == rule[r].there /\ WriteRule(r, row)

DeleteRule(r) == rule[r].there /\ WriteRule(r, NoRule)

\* An agent's heartbeat brings a new sample.
Measure(h, s) ==
  /\ sample' = [sample EXCEPT ![h] = s]
  /\ UNCHANGED <<tick, rule, firing, breaching, alerts, resolved, calm, restarts>>

\* metricValue: a share is of a total that is known and not zero.
Known(metric, s) ==
  s.value # NoValue /\ (metric = "share" => s.total # NoValue /\ s.total # 0)

MetricValue(metric, s) == IF metric = "share" THEN (s.value * 100) \div s.total ELSE s.value

Compare(cmp, v, than) ==
  \/ cmp = "gt" /\ v > than
  \/ cmp = "gte" /\ v >= than
  \/ cmp = "lt" /\ v < than
  \/ cmp = "lte" /\ v <= than

\* Enqueue, which may fail: the event is lost.
Queued(count, k, ok) == IF ok THEN [count EXCEPT ![k] = @ + 1] ELSE count

\* EvaluateAlerts: the rule is enabled, is for the server, and has a value.
Applies(r, h) ==
  rule[r].enabled /\ rule[r].target \in {Anywhere, h} /\ Known(rule[r].when.metric, sample[h])

Beyond(r, h) ==
  LET c == rule[r].when IN Compare(c.cmp, MetricValue(c.metric, sample[h]), c.than)

Since(w, k) == IF breaching[w][k] = -1 THEN tick ELSE breaching[w][k]

\* evaluateOne, of a value within bounds.
Recover(w, k, ok) ==
  /\ Applies(k[1], k[2]) /\ ~Beyond(k[1], k[2])
  /\ resolved' = IF k \in firing[w] THEN Queued(resolved, k, ok) ELSE resolved
  /\ firing' = [firing EXCEPT ![w] = @ \ {k}]
  /\ breaching' = [breaching EXCEPT ![w][k] = -1]
  /\ calm' = [calm EXCEPT ![k] = tick]
  /\ UNCHANGED alerts

\* Mutant: an alert each time.
BreachAgain(w, k, ok) ==
  LET fire == tick - Since(w, k) >= ForTicks IN
  /\ Applies(k[1], k[2]) /\ Beyond(k[1], k[2])
  /\ breaching' = [breaching EXCEPT ![w][k] = Since(w, k)]
  /\ firing' = IF fire THEN [firing EXCEPT ![w] = @ \cup {k}] ELSE firing
  /\ alerts' = IF fire THEN Queued(alerts, k, ok) ELSE alerts
  /\ UNCHANGED <<resolved, calm>>

\* evaluateOne, of a value beyond the threshold.
Breach(w, k, ok) ==
  LET fire == k \notin firing[w] /\ tick - Since(w, k) >= ForTicks IN
  /\ Applies(k[1], k[2]) /\ Beyond(k[1], k[2])
  /\ breaching' = [breaching EXCEPT ![w][k] = Since(w, k)]
  /\ firing' = IF fire THEN [firing EXCEPT ![w] = @ \cup {k}] ELSE firing
  /\ alerts' = IF fire THEN Queued(alerts, k, ok) ELSE alerts
  /\ UNCHANGED <<resolved, calm>>

EvaluateOne(w, k, ok) ==
  /\ ok \/ restarts < MaxRestarts
  /\ Recover(w, k, ok) \/ Breach(w, k, ok)
  /\ restarts' = IF ok THEN restarts ELSE restarts + 1
  /\ UNCHANGED <<tick, rule, sample>>

NextRound ==
  /\ tick < LastTick
  /\ tick' = tick + 1
  /\ UNCHANGED <<rule, sample, firing, breaching, alerts, resolved, calm, restarts>>

Restart(w) ==
  /\ restarts < MaxRestarts
  /\ restarts' = restarts + 1
  /\ firing' = [firing EXCEPT ![w] = {}]
  /\ breaching' = [breaching EXCEPT ![w] = [k \in Keys |-> -1]]
  /\ UNCHANGED <<tick, rule, sample, alerts, resolved, calm>>

AlertNext ==
  \/ \E r \in Rules, row \in RuleRow : CreateRule(r, row) \/ UpdateRule(r, row)
  \/ \E r \in Rules : DeleteRule(r)
  \/ \E h \in Hosts, s \in Samples : Measure(h, s)
  \/ \E w \in Evaluators, k \in Keys, ok \in BOOLEAN : EvaluateOne(w, k, ok)
  \/ NextRound
  \/ \E w \in Evaluators : Restart(w)

AlertSpec == AlertInit /\ [][AlertNext]_alertVars

---------------------------------------------------------------------------
(* Properties *)

AlertTypeOK ==
  /\ tick \in 1 .. LastTick
  /\ rule \in [Rules -> RuleRow \cup {NoRule}]
  /\ sample \in [Hosts -> Samples \cup {NoSample}]
  /\ firing \in [Evaluators -> SUBSET Keys]
  /\ breaching \in [Evaluators -> [Keys -> -1 .. LastTick]]
  /\ alerts \in [Keys -> Nat] /\ resolved \in [Keys -> Nat]
  /\ calm \in [Keys -> 0 .. LastTick]
  /\ restarts \in 0 .. MaxRestarts

\* A crossing is announced once by each process that sees it and once more for
\* each restart, and is resolved no more often than it was announced.
AnnouncedOnce ==
  \A k \in Keys :
    /\ alerts[k] - resolved[k] <= Cardinality(Evaluators) + restarts
    /\ resolved[k] - alerts[k] <= restarts

\* An alert means the threshold was crossed in every evaluation for ForTicks.
\* It needs a single process to evaluate: another one may have seen it within.
FiresAfterHolding ==
  [][\A w \in Evaluators, k \in Keys :
       k \in firing'[w] \ firing[w] => tick - calm[k] >= ForTicks]_alertVars
===============================================================================
