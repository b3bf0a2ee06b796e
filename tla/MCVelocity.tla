----------------------------- MODULE MCVelocity -----------------------------
(***************************************************************************)
(* Small instances of Velocity for TLC: transactions of one customer with  *)
(* two merchants, one event per tick.                                      *)
(***************************************************************************)
EXTENDS Velocity, TLC

FirstThree == 1 .. 3

OneCustomer ==
    [t \in Transactions |->
        [s \in Sides |-> IF s = "customer" THEN "c1"
                         ELSE IF t % 2 = 1 THEN "m1" ELSE "m2"]]

OnePerTick == [t \in Transactions |-> t]

WorkerSymmetry == Permutations(Workers)
=============================================================================
