---------------------------- MODULE ReportInputs ----------------------------
(***************************************************************************)
(* What the monthly reports of a household are computed from, and the test *)
(* the report cache makes before it recomputes them.                       *)
(*                                                                         *)
(* The engine's arithmetic is left out: the report of a month is the set   *)
(* of facts the engine looks at to compute it.  Two reports are the same   *)
(* if they rest on the same facts.                                         *)
(***************************************************************************)
EXTENDS Integers

CONSTANTS
  SnapshotRow,  \* rows of the four snapshot tables
  EntryRow,     \* rows of income and investment_transactions
  RateRow,      \* rows of fx_rates
  ParentRow,    \* rows of the four position tables, and the household's own
  Month,
  Value,        \* what a row says
  Gone          \* what a soft-deleted row says

ASSUME MonthAssumption == Month \subseteq Int
ASSUME GoneAssumption == Gone \notin Value
ASSUME RowAssumption == /\ SnapshotRow \cap (EntryRow \cup RateRow \cup ParentRow) = {}
                        /\ EntryRow \cap (RateRow \cup ParentRow) = {}
                        /\ RateRow \cap ParentRow = {}

Input == SnapshotRow \cup EntryRow \cup RateRow \cup ParentRow

\* A row of the books: late, an entry dated after the first of its month; at,
\* its updated_at.  The month of a parent row means nothing.
BookRow == [month : Month, late : BOOLEAN, value : Value \cup {Gone}, at : Nat]

\* The books: the rows inserted so far.
IsBooks(b) == DOMAIN b \subseteq Input /\ \A i \in DOMAIN b : b[i] \in BookRow

Said(b) == {i \in DOMAIN b : b[i].value # Gone}

----------------------------------------------------------------------------
(* The engine *)

\* A position counts in every month, an entry in its own, a snapshot and a rate
\* until a later one takes over.
Feeds(i, month, m) == \/ i \in ParentRow
                      \/ i \in SnapshotRow \cup RateRow /\ month <= m
                      \/ i \in EntryRow /\ month = m

Fact(b, i) == [input |-> i, month |-> b[i].month, value |-> b[i].value]

Facts(b) == {Fact(b, i) : i \in Said(b)}

Report(facts, m) == {f \in facts : Feeds(f.input, f.month, m)}

\* From the earliest snapshot to the latest one or to this month.
Snapshots(facts) == {f \in facts : f.input \in SnapshotRow}

Months(facts, today) ==
  {m \in Month : /\ \E f \in Snapshots(facts) : f.month <= m
                 /\ m <= today \/ \E f \in Snapshots(facts) : m <= f.month}

Generate(facts, months, engine, at) ==
  [m \in months |-> [facts |-> Report(facts, m), engine |-> engine, at |-> at]]

----------------------------------------------------------------------------
(* Staleness *)

\* Broken: soft-deleted rows are not looked at.
StampsOfLive(b, months) ==
  {b[i].at : i \in {j \in Said(b) :
     j \in ParentRow \/ \E m \in months : b[j].month < m \/ (b[j].month = m /\ ~b[j].late)}}

\* The rows the watermark ranges over: dated up to the first of the last month,
\* soft-deleted ones included.
Watermarked(b, months) ==
  {i \in DOMAIN b :
     i \in ParentRow \/ \E m \in months : b[i].month < m \/ (b[i].month = m /\ ~b[i].late)}

Stamps(b, months) == {b[i].at : i \in Watermarked(b, months)}

NeedsRegen(months, cache, stamps, engine) ==
  \/ DOMAIN cache # months
  \/ \E m \in DOMAIN cache : cache[m].engine # engine \/ \E t \in stamps : cache[m].at < t
============================================================================
