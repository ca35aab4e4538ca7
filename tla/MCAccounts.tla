----------------------------- MODULE MCAccounts -----------------------------
(* Accounts, with interchangeable clients. *)
EXTENDS Accounts, TLC

Symmetry == Permutations(Client)
=============================================================================
