--------------------------- MODULE AmountBaseline ---------------------------
(***************************************************************************)
(* Customer amount baselines (fraudlatch/risk/amount_deviation.py) and     *)
(* what the deviation rule of RiskEngine makes of them.                    *)
(*                                                                         *)
(* The mean of n amounts with sum S is the fraction S/n, and the deviation *)
(* of an amount a from it is |n*a - S| / n: all divisions are exact until  *)
(* the result is rounded to one unit, BASELINE_QUANTUM.  (Decimal carries  *)
(* 28 digits, more than the 18 of an amount and the 8 of the quantum.)     *)
(***************************************************************************)
EXTENDS RiskEngine, FiniteSets, Functions

CONSTANTS
    Histories      \* transactions a baseline may be built from

\* RiskTransaction has amounts of two decimals; a baseline has eight.
Cent == AmountScale \div 100

ASSUME BaselineAssumption ==
    /\ AmountScale = 100 * Cent /\ Cent >= 50
    /\ NoBaseline \notin [mean : Nat, dispersion : Nat, sample_count : Nat]
    /\ \A records \in Histories :
          /\ IsFiniteSet(DOMAIN records)
          /\ \A i \in DOMAIN records :
                /\ records[i].amount \in Nat \ {0}
                /\ records[i].amount = Cent * (records[i].amount \div Cent)

\* Mutant: rounded to a tenth of a currency unit.
RoundCoarsely(num, den) ==
    LET tenth == AmountScale \div 10
    IN  ((2 * num + den * tenth) \div (2 * den * tenth)) * tenth

\* Mutant: rounded to a cent, like an amount.
RoundToCents(num, den) == ((2 * num + den * Cent) \div (2 * den * Cent)) * Cent

\* quantize(BASELINE_QUANTUM, ROUND_HALF_UP) of num/den.
RoundHalfUp(num, den) == (2 * num + den) \div (2 * den)

\* Mean, mean absolute deviation and size of a customer's amounts.
Baseline(amounts) ==
    LET n == Cardinality(DOMAIN amounts)
        total == SumFunction(amounts)
        deviations == [i \in DOMAIN amounts |-> Distance(n * amounts[i], total)]
    IN  [mean |-> RoundHalfUp(total, n),
         dispersion |-> RoundHalfUp(SumFunction(deviations), n * n),
         sample_count |-> n]

\* A customer's amounts, by position; the sort by time does not change a sum.
AmountsOf(records, customer) ==
    [i \in {j \in DOMAIN records : records[j].customer_id = customer} |-> records[i].amount]

\* build_amount_baselines.
BuildAmountBaselines(records) ==
    [customer \in {records[i].customer_id : i \in DOMAIN records} |->
        Baseline(AmountsOf(records, customer))]

\* AmountDeviationContextProvider.get_context: the neutral context when the
\* customer has no baseline.
BaselineFor(baselines, customer) ==
    IF customer \in DOMAIN baselines THEN baselines[customer] ELSE NoBaseline

-----------------------------------------------------------------------------
(* Properties *)

\* The deviation rule cannot see an amount that is part of its own baseline when
\* the baseline has at most five records, whatever the amounts: no such amount is
\* further from the mean than 5/2 of the mean deviation, and the default
\* multiplier is 3.  The rounding of both, whose errors add up, does not change it.
OwnHistoryNeverDeviates ==
    rules.amount_deviation_multiplier >= 3 =>
        \A records \in Histories : \A i \in DOMAIN records :
            LET amounts == AmountsOf(records, records[i].customer_id)
            IN  Cardinality(DOMAIN amounts) <= 5 /\ records[i].amount = transaction.amount
                /\ context.amount_baseline = Baseline(amounts)
                    => "AMOUNT_DEVIATION" \notin Reasons(rules, transaction, context)

\* n*n times the exact mean deviation of n amounts.
TotalDeviation(amounts) ==
    SumFunction([i \in DOMAIN amounts |->
                    Distance(Cardinality(DOMAIN amounts) * amounts[i], SumFunction(amounts))])

\* n*n times what the distance of an amount from their exact mean exceeds k exact
\* mean deviations by.
ExactExcess(amounts, amount, k) ==
    LET n == Cardinality(DOMAIN amounts)
    IN  n * Distance(n * amount, SumFunction(amounts)) - k * TotalDeviation(amounts)

\* Rounding decides near ties only.  An amount that is further beyond the boundary
\* of the deviation rule than half a unit of the mean and k halves of the
\* dispersion together is flagged, and one that is as far within it is not: for
\* histories of any length, also the six records of which one hits the boundary
\* exactly.  (A mean deviation below half a unit is rounded away, and with it the
\* rule.)
RoundingDecidesTiesOnly ==
    \A records \in Histories : \A customer \in {records[i].customer_id : i \in DOMAIN records} :
        LET amounts == AmountsOf(records, customer)
            n == Cardinality(DOMAIN amounts)
            k == rules.amount_deviation_multiplier
            excess == ExactExcess(amounts, transaction.amount, k)
            flagged == "AMOUNT_DEVIATION" \in Reasons(rules, transaction, context)
        IN  context.amount_baseline = Baseline(amounts) =>
                /\ /\ 2 * excess > (k + 1) * (n * n)
                   /\ n >= rules.amount_deviation_min_samples
                   /\ 2 * TotalDeviation(amounts) >= n * n
                   => flagged
                /\ 2 * excess <= -((k + 1) * (n * n)) => ~ flagged
=============================================================================
