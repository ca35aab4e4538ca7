-------------------------- MODULE MCHouseholdBooks --------------------------
(* HouseholdBooks with one position of each kind that matters. *)
EXTENDS HouseholdBooks

Kinds == [bank |-> "bank_account", home |-> "property", loan |-> "liability",
          debtor |-> "receivable", stock |-> "stock", bond |-> "bond",
          old |-> "time_deposit", new |-> "time_deposit"]

Positions == DOMAIN Kinds

Currencies == [p \in Positions |-> IF p = "stock" THEN "other" ELSE "home"]
=============================================================================
