----------------------------- MODULE MCChangeFeed -----------------------------
(* Finite instances of ChangeFeed.                                          *)
EXTENDS ChangeFeed, TLC

(* Transactions are interchangeable.                                        *)
Symmetry == Permutations(Txs)
=============================================================================
