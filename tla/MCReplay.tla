------------------------------ MODULE MCReplay ------------------------------
(***************************************************************************)
(* Small instances of Replay for TLC: rows that differ where one of the    *)
(* scripts tells them apart, alone and in pairs.                           *)
(***************************************************************************)
EXTENDS Replay

Row(customer, step, amount, fraud) ==
    [customer |-> customer, step |-> step, amount |-> amount, fraud |-> fraud]

Plain == Row("c", 1, 20000, "0")
Fraud == Row("c", 2, 25, "1")
PaddedFraud == Row("c", 2, 25, " 1")
ZeroFraud == Row("c", 1, 0, "1")
Tiny == Row("c", 1, 5, "0")

\* Refused by both scripts, accepted by the validation only, or skipped before
\* what is wrong with them is met.
OddRows ==
    {Row("", 1, 20000, "0"), Row("c", Text, 20000, "0"), Row("c", -1, 20000, "0"),
     Row("c", 1, Text, "0"), Row("c", 1, NaN, "0"), Row("c", 1, -10, "0"),
     Row("c", 1, 20000, "yes"), Row("c", 1, Infinity, "0"),
     Row("c", 1, 99999990, "0"), Row("c", LastDay + 1, 20000, "0"),
     Row("c", LastDay + 1, 0, "0")}

SomeRows == {Plain, Fraud, PaddedFraud, ZeroFraud, Tiny} \cup OddRows

SomeFiles ==
    {<<Fraud, Fraud>>, <<PaddedFraud, Fraud>>, <<Tiny, Tiny>>,
     <<ZeroFraud, Fraud>>, <<ZeroFraud, Plain, Fraud>>}
    \cup {<<Plain, row>> : row \in OddRows}

SomeConfigs ==
    {[fraud_only |-> FALSE, limit |-> 0, start_step |-> None, end_step |-> None],
     [fraud_only |-> FALSE, limit |-> 1, start_step |-> 1, end_step |-> 1],
     [fraud_only |-> TRUE, limit |-> 0, start_step |-> 2, end_step |-> None]}
=============================================================================
