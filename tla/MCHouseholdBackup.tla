-------------------------- MODULE MCHouseholdBackup --------------------------
(* HouseholdBackup, with interchangeable transactions and persons.           *)
EXTENDS HouseholdBackup, TLC

Symmetry == Permutations(Tx) \cup Permutations(Person)
==============================================================================
