------------------------------ MODULE MCTxCore ------------------------------
(***************************************************************************)
(* TxCore with records of two words: word 0 stands for the words that the  *)
(* loader checks, word 1 for those it only passes on, so that there are    *)
(* two legal records and two illegal ones.                                 *)
(***************************************************************************)
EXTENDS TxCore

MCLegal == {r \in [0 .. 1 -> {0, 1}] : r[0] # 0}
=============================================================================
