----------------------------- MODULE RiskEngine -----------------------------
(***************************************************************************)
(* rules-v1: the pure scoring of a transaction in a context (assess in     *)
(* fraudlatch/risk/engine.py, with the bounds of risk/config.py and        *)
(* risk/models.py).                                                        *)
(*                                                                         *)
(* Weights and scores are integers, in units of 0.00001: one digit more    *)
(* than a score may have, because a configured weight may have it.         *)
(* Amounts, thresholds, means and dispersions share another unit, of which *)
(* AmountScale make a currency unit: 10^8 with the eight decimals a mean   *)
(* and a dispersion may have.                                              *)
(*                                                                         *)
(* assess has no state.  The state here is the arguments of one call: a    *)
(* transaction is scored under one configuration, and a redelivery scores  *)
(* it again in the context of that moment.                                 *)
(***************************************************************************)
EXTENDS Integers

CONSTANTS
    Categories,
    Configs,        \* the configurations considered
    Transactions,   \* the transactions considered
    Contexts,       \* the contexts considered
    NoBaseline,     \* amount_baseline of a context without one
    AmountScale     \* units of an amount per currency unit

One == 100000
Quantum == 10

\* ge=0, le=1
IsShare(w) == w \in Nat /\ w <= One

\* RulesConfig, as its field constraints and validators accept it.
ValidRules(r) ==
    /\ r.global_amount_threshold \in Nat \ {0}
    /\ DOMAIN r.category_amount_thresholds \subseteq Categories
    /\ \A c \in DOMAIN r.category_amount_thresholds :
          r.category_amount_thresholds[c] \in Nat \ {0}
    /\ r.customer_velocity_threshold \in Nat \ {0}
    /\ r.merchant_velocity_threshold \in Nat \ {0}
    /\ DOMAIN r.category_risk_weights \subseteq Categories
    /\ \A c \in DOMAIN r.category_risk_weights :
          IsShare(r.category_risk_weights[c])
    /\ IsShare(r.high_amount_weight)
    /\ IsShare(r.customer_velocity_weight)
    /\ IsShare(r.merchant_velocity_weight)
    /\ r.amount_deviation_multiplier \in Nat \ {0}
    /\ IsShare(r.amount_deviation_weight)
    /\ r.amount_deviation_min_samples \in Nat \ {0, 1}

\* RiskTransaction: what assess looks at.
ValidTransaction(t) == t.amount \in Nat \ {0} /\ t.category \in Categories

\* RiskContext and its AmountBaseline.
ValidContext(c) ==
    /\ c.customer_velocity \in Nat
    /\ c.merchant_velocity \in Nat
    /\ c.amount_baseline # NoBaseline =>
          /\ c.amount_baseline.mean \in Nat
          /\ c.amount_baseline.dispersion \in Nat
          /\ c.amount_baseline.sample_count \in Nat

ASSUME RiskAssumption ==
    /\ AmountScale \in Nat \ {0}
    /\ \A r \in Configs : ValidRules(r)
    /\ \A t \in Transactions : ValidTransaction(t)
    /\ \A c \in Contexts : ValidContext(c)

\* RulesConfig(), which the worker uses.
DefaultRules ==
    [global_amount_threshold |-> 1000 * AmountScale,
     category_amount_thresholds |-> [c \in {} |-> 0],
     customer_velocity_threshold |-> 5,
     merchant_velocity_threshold |-> 20,
     category_risk_weights |-> [c \in {} |-> 0],
     high_amount_weight |-> 35000,
     customer_velocity_weight |-> 25000,
     merchant_velocity_weight |-> 20000,
     amount_deviation_multiplier |-> 3,
     amount_deviation_weight |-> 20000,
     amount_deviation_min_samples |-> 2]

-----------------------------------------------------------------------------
(* assess *)

RuleCodes == {"HIGH_AMOUNT", "CUSTOMER_VELOCITY", "MERCHANT_VELOCITY",
              "CATEGORY_RISK", "AMOUNT_DEVIATION"}

AmountThreshold(r, t) ==
    IF t.category \in DOMAIN r.category_amount_thresholds
    THEN r.category_amount_thresholds[t.category] ELSE r.global_amount_threshold

CategoryWeight(r, t) ==
    IF t.category \in DOMAIN r.category_risk_weights
    THEN r.category_risk_weights[t.category] ELSE 0

Distance(a, b) == IF a > b THEN a - b ELSE b - a

Deviates(r, t, baseline) ==
    /\ baseline # NoBaseline
    /\ baseline.sample_count >= r.amount_deviation_min_samples
    /\ baseline.dispersion > 0
    /\ Distance(t.amount, baseline.mean)
          > baseline.dispersion * r.amount_deviation_multiplier

\* Mutant: a velocity rule is active at its threshold only.
ActiveAtThreshold(code, r, t, c) ==
    \/ code = "HIGH_AMOUNT" /\ t.amount >= AmountThreshold(r, t)
    \/ code = "CUSTOMER_VELOCITY" /\ c.customer_velocity = r.customer_velocity_threshold
    \/ code = "MERCHANT_VELOCITY" /\ c.merchant_velocity >= r.merchant_velocity_threshold
    \/ code = "CATEGORY_RISK" /\ CategoryWeight(r, t) > 0
    \/ code = "AMOUNT_DEVIATION" /\ Deviates(r, t, c.amount_baseline)

Active(code, r, t, c) ==
    \/ code = "HIGH_AMOUNT" /\ t.amount >= AmountThreshold(r, t)
    \/ code = "CUSTOMER_VELOCITY" /\ c.customer_velocity >= r.customer_velocity_threshold
    \/ code = "MERCHANT_VELOCITY" /\ c.merchant_velocity >= r.merchant_velocity_threshold
    \/ code = "CATEGORY_RISK" /\ CategoryWeight(r, t) > 0
    \/ code = "AMOUNT_DEVIATION" /\ Deviates(r, t, c.amount_baseline)

Weight(code, r, t) ==
    CASE code = "HIGH_AMOUNT" -> r.high_amount_weight
      [] code = "CUSTOMER_VELOCITY" -> r.customer_velocity_weight
      [] code = "MERCHANT_VELOCITY" -> r.merchant_velocity_weight
      [] code = "CATEGORY_RISK" -> CategoryWeight(r, t)
      [] OTHER -> r.amount_deviation_weight

\* The reasons of the decision; the code lists them in the order of the rules.
Reasons(r, t, c) == {code \in RuleCodes : Active(code, r, t, c)}

\* RiskReason refuses a contribution with more than four decimals: a
\* ValidationError, which is a ValueError.
Raises(r, t, c) == \E code \in Reasons(r, t, c) : Weight(code, r, t) % Quantum # 0

\* Sum of the contributions of a set of reasons.
Contribution(code, codes, r, t) == IF code \in codes THEN Weight(code, r, t) ELSE 0

Total(codes, r, t) ==
    Contribution("HIGH_AMOUNT", codes, r, t)
    + Contribution("CUSTOMER_VELOCITY", codes, r, t)
    + Contribution("MERCHANT_VELOCITY", codes, r, t)
    + Contribution("CATEGORY_RISK", codes, r, t)
    + Contribution("AMOUNT_DEVIATION", codes, r, t)

\* Mutant: the sum is not capped.
Uncapped(n) == n

Capped(n) == IF n < One THEN n ELSE One

\* Mutant: rounded to two decimals.
QuantizeCoarsely(n) == ((n + 500) \div 1000) * 1000

\* ROUND_HALF_UP to four decimals.
Quantize(n) == ((n + 5) \div Quantum) * Quantum

Score(r, t, c) == Quantize(Capped(Total(Reasons(r, t, c), r, t)))

\* Mutant: HIGH from 0.60 on.
LevelFromSixty(score) ==
    IF score >= 60000 THEN "HIGH" ELSE IF score >= 40000 THEN "MEDIUM" ELSE "LOW"

Level(score) ==
    IF score >= 70000 THEN "HIGH" ELSE IF score >= 40000 THEN "MEDIUM" ELSE "LOW"

-----------------------------------------------------------------------------

VARIABLES rules, transaction, context

vars == <<rules, transaction, context>>

TypeOK ==
    /\ rules \in Configs
    /\ transaction \in Transactions
    /\ context \in Contexts
    /\ IsShare(Score(rules, transaction, context))
    /\ Level(Score(rules, transaction, context)) \in {"LOW", "MEDIUM", "HIGH"}

Init ==
    /\ rules \in Configs
    /\ transaction \in Transactions
    /\ context \in Contexts

\* The transaction is delivered again, and its context has changed.
Rescore ==
    /\ context' \in Contexts
    /\ UNCHANGED <<rules, transaction>>

Next == Rescore

Spec == Init /\ [][Next]_vars

-----------------------------------------------------------------------------
(* Properties *)

\* The reasons explain the score: it is the sum of their contributions, up to
\* the cap, and rounding never moves it (milestones/5.1.md:60, "Every active rule
\* has a reason code").
ReasonsExplainScore ==
    ~ Raises(rules, transaction, context) =>
        Score(rules, transaction, context)
            = Capped(Total(Reasons(rules, transaction, context), rules, transaction))

Rank(level) == CASE level = "LOW" -> 0 [] level = "MEDIUM" -> 1 [] OTHER -> 2

\* A transaction scored again when more neighbours have been counted never gets a
\* lower score or level, under any valid configuration.
RescoringIsMonotone ==
    [][LET before == Score(rules, transaction, context)
           after == Score(rules, transaction, context')
       IN  /\ context'.customer_velocity >= context.customer_velocity
           /\ context'.merchant_velocity >= context.merchant_velocity
           /\ context'.amount_baseline = context.amount_baseline
           => after >= before /\ Rank(Level(after)) >= Rank(Level(before))]_vars

\* In the deployed worker, which scores with the default rules and a context that
\* never has a baseline (risk/velocity.py:62), HIGH takes all three rules: no two
\* of them are enough.
DeployedHighNeedsAll ==
    rules = DefaultRules /\ context.amount_baseline = NoBaseline =>
        (Level(Score(rules, transaction, context)) = "HIGH"
            <=> /\ transaction.amount >= 1000 * AmountScale
                /\ context.customer_velocity >= 5
                /\ context.merchant_velocity >= 20)
=============================================================================
