---------------------------- MODULE MCIngestion ----------------------------
(***************************************************************************)
(* A small instance of Ingestion for TLC.                                  *)
(***************************************************************************)
EXTENDS Ingestion, TLC

FullSymmetry ==
    Permutations(Handlers) \cup Permutations(Ids) \cup Permutations(Payloads)
=============================================================================
