-------------------------- MODULE MCReportRefresh ---------------------------
(* ReportRefresh on small books. *)
EXTENDS ReportRefresh, TLC

Symmetric == Permutations(Request) \cup Permutations(Value)
=============================================================================
