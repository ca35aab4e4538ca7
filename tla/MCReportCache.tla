--------------------------- MODULE MCReportCache ----------------------------
(* ReportCache on small books. *)
EXTENDS ReportCache, TLC

Symmetric == Permutations(SnapshotRow) \cup Permutations(Value) \cup Permutations(User)
============================================================================
