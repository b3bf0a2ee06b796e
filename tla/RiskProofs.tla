----------------------------- MODULE RiskProofs -----------------------------
(***************************************************************************)
(* Theorems about RiskEngine, for every set of valid configurations, of    *)
(* transactions and of contexts.                                           *)
(***************************************************************************)
EXTENDS RiskEngine, TLAPS

USE RiskAssumption

-----------------------------------------------------------------------------
(* The operators *)

\* The numbers themselves, so that proofs need not expand them in intervals.
LEMMA Numbers == One \in Nat /\ One = 100000 /\ Quantum \in Nat /\ Quantum = 10
BY DEF One, Quantum

\* Every rule's weight is between 0 and 1.
LEMMA WeightRange ==
  ASSUME NEW r \in Configs, NEW t \in Transactions, NEW code \in RuleCodes
  PROVE  IsShare(Weight(code, r, t))
<1>1. ValidRules(r)
  OBVIOUS
<1>2. IsShare(CategoryWeight(r, t))
  <2>1. CASE t.category \in DOMAIN r.category_risk_weights
    BY <1>1, <2>1 DEF ValidRules, CategoryWeight
  <2>2. CASE t.category \notin DOMAIN r.category_risk_weights
    BY <2>2, Numbers DEF CategoryWeight, IsShare
  <2>3. QED
    BY <2>1, <2>2
<1>3. CASE code = "CATEGORY_RISK"
  BY <1>2, <1>3 DEF Weight
<1>4. CASE code \in {"HIGH_AMOUNT", "CUSTOMER_VELOCITY", "MERCHANT_VELOCITY"}
  BY <1>1, <1>4 DEF ValidRules, Weight
<1>5. CASE code = "AMOUNT_DEVIATION"
  BY <1>1, <1>5 DEF ValidRules, Weight
<1>6. QED
  BY <1>3, <1>4, <1>5 DEF RuleCodes

\* So is what a rule contributes.
LEMMA ContributionRange ==
  ASSUME NEW r \in Configs, NEW t \in Transactions, NEW code \in RuleCodes, NEW codes
  PROVE  IsShare(Contribution(code, codes, r, t))
<1>1. CASE code \in codes
  BY <1>1, WeightRange DEF Contribution
<1>2. CASE code \notin codes
  BY <1>2, Numbers DEF Contribution, IsShare
<1>3. QED
  BY <1>1, <1>2

\* More reasons never add up to less.
LEMMA TotalMonotone ==
  ASSUME NEW r \in Configs, NEW t \in Transactions, NEW more, NEW codes \in SUBSET more
  PROVE  /\ Total(codes, r, t) \in Nat
         /\ Total(more, r, t) \in Nat
         /\ Total(codes, r, t) <= Total(more, r, t)
<1>1. ASSUME NEW code \in RuleCodes
      PROVE  /\ Contribution(code, codes, r, t) \in Nat
             /\ Contribution(code, more, r, t) \in Nat
             /\ Contribution(code, codes, r, t) <= Contribution(code, more, r, t)
  <2>1. CASE code \in codes
    BY <2>1, WeightRange DEF Contribution, IsShare
  <2>2. CASE code \notin codes
    BY <2>2, ContributionRange DEF Contribution, IsShare
  <2>3. QED
    BY <2>1, <2>2
<1>2. QED
  BY <1>1 DEF Total, RuleCodes

\* Capping and rounding keep the order and the range of scores.
LEMMA NormalizationMonotone ==
  ASSUME NEW m \in Nat, NEW n \in Nat, m <= n
  PROVE  /\ Quantize(Capped(m)) \in Nat
         /\ Quantize(Capped(m)) <= One
         /\ Quantize(Capped(m)) <= Quantize(Capped(n))
<1>1. /\ Capped(m) \in Nat /\ Capped(m) <= One
      /\ Capped(n) \in Nat /\ Capped(m) <= Capped(n)
  BY Numbers DEF Capped
<1>2. ASSUME NEW i \in Nat, NEW j \in Nat, i <= j
      PROVE  Quantize(i) \in Nat /\ Quantize(i) <= Quantize(j) /\ (i <= One => Quantize(i) <= One)
  BY <1>2 DEF Quantize, Quantum, One
<1>3. QED
  BY <1>1, <1>2

\* Levels keep the order of scores.
LEMMA LevelMonotone ==
  ASSUME NEW m \in Nat, NEW n \in Nat, m <= n
  PROVE  /\ Level(m) \in {"LOW", "MEDIUM", "HIGH"}
         /\ Rank(Level(m)) <= Rank(Level(n))
BY DEF Level, Rank

\* Rounding to four decimals leaves a number of four decimals alone.
LEMMA QuantizeExact ==
  ASSUME NEW n \in Nat, n % Quantum = 0
  PROVE  Quantize(n) = n
BY DEF Quantize, Quantum

\* A sum of contributions that RiskReason accepts has four decimals, capped or not.
LEMMA TotalRepresentable ==
  ASSUME NEW r \in Configs, NEW t \in Transactions, NEW codes,
         \A code \in RuleCodes : Contribution(code, codes, r, t) % Quantum = 0
  PROVE  Total(codes, r, t) \in Nat /\ Capped(Total(codes, r, t)) % Quantum = 0
<1>1. \A code \in RuleCodes : Contribution(code, codes, r, t) \in Nat
  BY ContributionRange DEF IsShare
<1>2. Total(codes, r, t) \in Nat /\ Total(codes, r, t) % Quantum = 0
  BY <1>1 DEF Total, RuleCodes, Quantum
<1>3. QED
  BY <1>2, Numbers DEF Capped

-----------------------------------------------------------------------------
(* The properties *)

\* Scores are between 0 and 1, whatever the weights add up to.
THEOREM TypeCorrect == Spec => []TypeOK
<1>1. ASSUME NEW r \in Configs, NEW t \in Transactions, NEW c \in Contexts
      PROVE  /\ IsShare(Score(r, t, c))
             /\ Level(Score(r, t, c)) \in {"LOW", "MEDIUM", "HIGH"}
  BY TotalMonotone, NormalizationMonotone, LevelMonotone DEF Score, IsShare
<1>2. Init => TypeOK
  BY <1>1 DEF Init, TypeOK
<1>3. TypeOK /\ [Next]_vars => TypeOK'
  BY <1>1 DEF TypeOK, Next, Rescore, vars
<1>4. QED
  BY <1>2, <1>3, PTL DEF Spec

\* The listed reasons add up to the score.
THEOREM ExplainedScore == Spec => []ReasonsExplainScore
<1>1. TypeOK => ReasonsExplainScore
  <2> SUFFICES ASSUME TypeOK, ~ Raises(rules, transaction, context)
               PROVE  Score(rules, transaction, context)
                        = Capped(Total(Reasons(rules, transaction, context),
                                       rules, transaction))
    BY DEF ReasonsExplainScore
  <2> DEFINE codes == Reasons(rules, transaction, context)
  <2>1. ASSUME NEW code \in RuleCodes
        PROVE  Contribution(code, codes, rules, transaction) % Quantum = 0
    <3>1. CASE code \in codes
      BY <3>1 DEF Raises, Contribution
    <3>2. CASE code \notin codes
      BY <3>2 DEF Contribution, Quantum
    <3>3. QED
      BY <3>1, <3>2
  <2>2. /\ Total(codes, rules, transaction) \in Nat
        /\ Capped(Total(codes, rules, transaction)) % Quantum = 0
    BY <2>1, TotalRepresentable DEF TypeOK
  <2>3. Capped(Total(codes, rules, transaction)) \in Nat
    BY <2>2 DEF Capped, One
  <2>4. QED
    BY <2>2, <2>3, QuantizeExact DEF Score
<1>2. QED
  BY <1>1, TypeCorrect, PTL

\* More velocity never lowers the score or the level of a transaction.
THEOREM MonotoneRescoring == Spec => RescoringIsMonotone
<1> DEFINE before == Score(rules, transaction, context)
           after == Score(rules, transaction, context')
           Grows == /\ context'.customer_velocity >= context.customer_velocity
                    /\ context'.merchant_velocity >= context.merchant_velocity
                    /\ context'.amount_baseline = context.amount_baseline
<1>1. ASSUME TypeOK, [Next]_vars, Grows
      PROVE  after >= before /\ Rank(Level(after)) >= Rank(Level(before))
  <2> DEFINE codes == Reasons(rules, transaction, context)
             more == Reasons(rules, transaction, context')
  <2>1. context \in Contexts /\ context' \in Contexts
    BY <1>1 DEF TypeOK, Next, Rescore, vars
  <2>2. ValidRules(rules) /\ ValidContext(context) /\ ValidContext(context')
    BY <1>1, <2>1 DEF TypeOK
  <2>3. ASSUME NEW code \in RuleCodes, Active(code, rules, transaction, context)
        PROVE  Active(code, rules, transaction, context')
    BY <1>1, <2>2, <2>3 DEF Active, RuleCodes, ValidRules, ValidContext
  <2>4. codes \in SUBSET more
    BY <2>3 DEF Reasons
  <2>5. /\ Total(codes, rules, transaction) \in Nat
        /\ Total(more, rules, transaction) \in Nat
        /\ Total(codes, rules, transaction) <= Total(more, rules, transaction)
    BY <1>1, <2>4, TotalMonotone DEF TypeOK
  <2>6. before <= after /\ before \in Nat /\ after \in Nat
    BY <2>5, NormalizationMonotone DEF Score
  <2>7. Rank(Level(before)) <= Rank(Level(after))
    BY <2>6, LevelMonotone
  <2>8. QED
    BY <2>6, <2>7 DEF Rank
<1>2. TypeOK /\ [Next]_vars => [Grows => /\ after >= before
                                        /\ Rank(Level(after)) >= Rank(Level(before))]_vars
  BY <1>1
<1>3. QED
  BY <1>2, TypeCorrect, PTL DEF Spec, RescoringIsMonotone

\* With the default rules and no baseline, HIGH takes all three rules.
THEOREM DeployedHigh == Spec => []DeployedHighNeedsAll
<1>1. TypeOK => DeployedHighNeedsAll
  <2> SUFFICES ASSUME TypeOK, rules = DefaultRules, context.amount_baseline = NoBaseline
               PROVE  Level(Score(rules, transaction, context)) = "HIGH"
                        <=> /\ transaction.amount >= 1000 * AmountScale
                            /\ context.customer_velocity >= 5
                            /\ context.merchant_velocity >= 20
    BY DEF DeployedHighNeedsAll
  <2> DEFINE codes == Reasons(rules, transaction, context)
  <2>1. /\ "HIGH_AMOUNT" \in codes <=> transaction.amount >= 1000 * AmountScale
        /\ "CUSTOMER_VELOCITY" \in codes <=> context.customer_velocity >= 5
        /\ "MERCHANT_VELOCITY" \in codes <=> context.merchant_velocity >= 20
        /\ "CATEGORY_RISK" \notin codes
        /\ "AMOUNT_DEVIATION" \notin codes
    BY DEF Reasons, RuleCodes, Active, DefaultRules, AmountThreshold, CategoryWeight,
           Deviates
  <2>2. Total(codes, rules, transaction)
          = (IF transaction.amount >= 1000 * AmountScale THEN 35000 ELSE 0)
            + (IF context.customer_velocity >= 5 THEN 25000 ELSE 0)
            + (IF context.merchant_velocity >= 20 THEN 20000 ELSE 0)
    BY <2>1 DEF Total, Contribution, Weight, DefaultRules
  <2>3. QED
    BY <2>2 DEF Score, Quantize, Capped, Level, One, Quantum
<1>2. QED
  BY <1>1, TypeCorrect, PTL
=============================================================================
