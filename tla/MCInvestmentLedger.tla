------------------------- MODULE MCInvestmentLedger -------------------------
(* InvestmentLedger with days 0 to 2, in months of two days. *)
EXTENDS InvestmentLedger, TLC

Days == 0 .. 2

Symmetry == Permutations(SnapId) \cup Permutations(TxnId) \cup Permutations(Client)
=============================================================================
