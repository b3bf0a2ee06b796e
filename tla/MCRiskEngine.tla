---------------------------- MODULE MCRiskEngine ----------------------------
(***************************************************************************)
(* A small instance of RiskEngine and AmountBaseline for TLC: every        *)
(* threshold with the values just below, at and above it, under three      *)
(* configurations, and baselines built from short histories.               *)
(***************************************************************************)
EXTENDS AmountBaseline

Units(n) == n * AmountScale

\* Overrides for one category, with a weight of four decimals.
CustomRules ==
    [DefaultRules EXCEPT
        !.category_amount_thresholds = [c \in {"travel"} |-> Units(500)],
        !.category_risk_weights = [c \in {"travel"} |-> 40010],
        !.customer_velocity_weight = 0,
        !.amount_deviation_multiplier = 1]

\* A weight with five decimals, which RulesConfig accepts.
FineRules == [DefaultRules EXCEPT !.high_amount_weight = 35005]

SomeConfigs == {DefaultRules, CustomRules, FineRules}

\* A little more than 999, for baselines whose dispersion is a few cents.
Around == {Units(999) + 100, Units(999) + 4400}

SomeAmounts == {Units(n) : n \in {100, 499, 500, 999, 1000, 1001}} \cup Around

SomeTransactions == [amount : SomeAmounts, category : Categories]

\* The same amount n times, then another one, the second customer's record apart.
History(n, amount, last) ==
    [i \in 1 .. n + 2 |->
        [customer_id |-> IF i = 1 THEN "other" ELSE "own",
         amount |-> IF i = n + 2 THEN last ELSE amount]]

SomeHistories ==
    {History(n, a, b) : n \in 1 .. 5, a \in {Units(100), Units(999)},
                        b \in {Units(100), Units(1001)} \cup Around}

SomeBaselines ==
    UNION {{BaselineFor(BuildAmountBaselines(records), c) : c \in {"own", "other", "new"}} :
              records \in SomeHistories}

SomeContexts ==
    [customer_velocity : {0, 4, 5, 6}, merchant_velocity : {0, 19, 20, 21},
     amount_baseline : SomeBaselines]
=============================================================================
