--------------------------- MODULE ReportPromise ----------------------------
(***************************************************************************)
(* What reading the monthly reports promises: they are the reports of the  *)
(* books as they are (ADR-0006, INV-STALENESS-01 and 02).  There is no     *)
(* cache here, and no time but the month on each user's calendar.          *)
(*                                                                         *)
(* The promise has two exceptions: while the books are stranded it says    *)
(* nothing, and it says nothing of the rows a read overlooks.              *)
(***************************************************************************)
EXTENDS ReportInputs

CONSTANTS
  User   \* the members of the household

VARIABLES
  facts,       \* what the books say
  today,       \* the month on each user's calendar
  overlooked,  \* per user, rows the reports may be behind on
  stranded,    \* whether reports may have outlived what they report on
  shown        \* what a read that was just answered showed to whom, else {}

Init == shown = {}

Change == shown' = {}

\* The reports of the books, but for what they say of the rows overlooked.
Faithful(u, reports) ==
  /\ DOMAIN reports = Months(facts, today[u])
  /\ \A m \in DOMAIN reports :
       {f \in reports[m] : f.input \notin overlooked[u]}
         = {f \in Report(facts, m) : f.input \notin overlooked[u]}

Read(u) ==
  /\ \E s \in shown' : /\ shown' = {s}
                       /\ s.to = u
                       /\ stranded \/ Faithful(u, s.reports)
  /\ UNCHANGED <<facts, today, stranded>>

Next == Change \/ \E u \in User : Read(u)

Spec == Init /\ [][Next]_<<facts, today, overlooked, stranded, shown>>
============================================================================
