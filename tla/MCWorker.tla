------------------------------ MODULE MCWorker ------------------------------
(***************************************************************************)
(* Small instances of Worker for TLC.                                      *)
(***************************************************************************)
EXTENDS Worker

\* The stream of three messages begins with an event that is in it once more,
\* before or after another one.  Which of the events that is makes no difference:
\* the specification treats them alike when no transaction row is missing.
First == CHOOSE e \in Events : TRUE

PairInit ==
    /\ Init
    /\ stream[1] = First
    /\ \E m \in 2 .. 3 : stream[m] = First
    /\ \E m \in 2 .. 3 : stream[m] # First

PairSpec == PairInit /\ [][Next]_vars /\ Fairness
=============================================================================
