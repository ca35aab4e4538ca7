--------------------------- MODULE CachedReports ----------------------------
(***************************************************************************)
(* The tables ReportCache and ReportRefresh are about: the inputs of the   *)
(* reports of one household, and the reports kept of them.                 *)
(***************************************************************************)
EXTENDS ReportInputs

CONSTANTS
  MaxTime   \* bounds the number of transactions

VARIABLES
  books,    \* the input tables, as committed
  cache,    \* monthly_reports, as committed
  now       \* the latest timestamp taken

\* A row of monthly_reports, written by one of these versions of the engine.
CachedReport(engines) ==
  [facts : SUBSET [input : Input, month : Month, value : Value],
   engine : engines, at : Nat]

Empty == [x \in {} |-> {}]
=============================================================================
