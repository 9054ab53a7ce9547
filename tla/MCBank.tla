-------------------------------- MODULE MCBank --------------------------------
(***************************************************************************)
(* Instances of Deposits: with players at a table, and with the chain.     *)
(***************************************************************************)
EXTENDS Deposits, TLC

\* Accounts and transactions are interchangeable in safety properties.
Interchangeable == Permutations(Accounts) \cup Permutations(Txs)
=============================================================================
