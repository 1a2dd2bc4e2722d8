------------------------------- MODULE Fraud -------------------------------
(***************************************************************************)
(* src/fraud and config/fraud_rules.yaml: the rules a checkout is matched  *)
(* with, and how the engine makes one decision of the rules that match.    *)
(*                                                                         *)
(* A fact stands for one condition on the request, its enrichment or its   *)
(* counters; the facts of a request are the conditions that hold for it.   *)
(***************************************************************************)
EXTENDS Integers, FiniteSets, TLC

CONSTANTS
  FraudOn,        \* settings.fraud_enabled
  FailClosed,     \* settings.fraud_fail_closed
  VelocityLimit   \* the threshold of velocity_email_burst

ASSUME FraudAssumption ==
  FraudOn \in BOOLEAN /\ FailClosed \in BOOLEAN /\ VelocityLimit \in Nat \ {0}

Facts == {"disposable_email", "tor_exit", "private_ip", "email_burst", "ip_burst",
          "duplicate_order", "country_mismatch", "high_value"}

Rank == [allow |-> 0, challenge |-> 1, manual_review |-> 2, reject |-> 3]

RuleDefaults == [enabled |-> TRUE, priority |-> 0, action |-> "allow", when |-> {}]

Groups ==
  [email     |-> [priority |-> 50, action |-> "manual_review"],
   network   |-> [priority |-> 80, action |-> "challenge"],
   velocity  |-> [priority |-> 90, action |-> "manual_review"],
   duplicate |-> [priority |-> 85, action |-> "reject"],
   region    |-> [priority |-> 40, action |-> "manual_review"]]

(* The rules as the file writes them: the fields a rule does not set are   *)
(* its group's.                                                            *)
Rules ==
  { [group |-> "email",     when |-> {"disposable_email"}],
    [group |-> "network",   when |-> {"tor_exit"}, action |-> "manual_review"],
    [group |-> "network",   when |-> {"private_ip"}, action |-> "reject"],
    [group |-> "velocity",  when |-> {"email_burst"}],
    [group |-> "velocity",  when |-> {"ip_burst"}],
    [group |-> "duplicate", when |-> {"duplicate_order"}],
    [group |-> "region",    when |-> {"country_mismatch"}],
    [group |-> "velocity",  when |-> {"high_value"}, action |-> "manual_review"] }

(* The fields of a rule, and of its defaults those it does not set.        *)
Filled(r, defaults) ==
  [field \in DOMAIN r \cup DOMAIN defaults |-> IF field \in DOMAIN r THEN r[field] ELSE defaults[field]]

(* apply_group_defaults *)
WithDefaults(rules) == {Filled(Filled(r, Groups[r.group]), RuleDefaults) : r \in rules}

(* A rule without conditions never matches. *)
Matched(rules, facts) ==
  {r \in rules : r.enabled /\ r.when # {} /\ r.when \subseteq facts}

MostSevere(matches) ==
  IF matches = {} THEN "allow"
  ELSE (CHOOSE m \in matches : \A n \in matches : Rank[n.action] <= Rank[m.action]).action

(* FraudEngine.evaluate: the most severe of the matches of highest priority. *)
Decision(matches) ==
  MostSevere({m \in matches : \A n \in matches : n.priority <= m.priority})

(* FraudDetectionService.evaluate, when nothing raises. *)
Evaluate(facts) ==
  IF FraudOn THEN Decision(Matched(WithDefaults(Rules), facts)) ELSE "allow"

(* The engine, its file or Redis raised. *)
EvaluateFails == IF FailClosed THEN "reject" ELSE "allow"

(* FraudEnrichmentService.enrich: what the counters and the list of carts  *)
(* that were bought add to the facts of a request.                         *)
Enrich(facts, attempts, duplicate) ==
  facts \cup (IF attempts >= VelocityLimit THEN {"email_burst"} ELSE {})
        \cup (IF duplicate THEN {"duplicate_order"} ELSE {})
=============================================================================
