--------------------------- MODULE CloseSnapshot ---------------------------
(***************************************************************************)
(* The snapshot table of a position group and the statements the code      *)
(* issues on it.  A table is a function from the ids allocated so far to   *)
(* rows; rows are soft-deleted, never removed.  The four groups (assets,   *)
(* liabilities, receivables, investments) have one table each, of one      *)
(* shape, so one definition serves all four.                               *)
(*                                                                         *)
(* Everything here is a pure operator of a table: the modules that give it *)
(* a state (PositionLifecycle, LifecycleTx, InvestmentLedger) decide when  *)
(* each statement runs and in which database transaction.                  *)
(***************************************************************************)
EXTENDS Integers, FiniteSets

CONSTANTS
  Position,   \* the positions of one group
  Month,      \* the months a snapshot can be recorded for
  Amount,     \* the amounts a snapshot can carry, Zero included
  Zero,       \* the amount of a close row
  SnapId,     \* row ids; their number bounds the table
  Nil         \* SQL NULL

ASSUME MonthAssumption == Month \subseteq Int
ASSUME TableAssumption == Zero \in Amount /\ Nil \notin SnapId
ASSUME NilAssumption == Nil \notin Month /\ Nil \notin Amount

Row == [pos : Position, month : Month, amount : Amount,
        deleted : BOOLEAN, supersedes : SnapId \cup {Nil}]

IsTable(t) == /\ DOMAIN t \subseteq SnapId
              /\ \A i \in DOMAIN t : t[i] \in Row

Live(t) == {i \in DOMAIN t : ~t[i].deleted}

\* Broken: the WHERE clause forgets year_month.
LiveAtAnyMonth(t, p, m) == {i \in Live(t) : t[i].pos = p}

LiveAt(t, p, m) == {i \in Live(t) : t[i].pos = p /\ t[i].month = m}

Free(t) == SnapId \ DOMAIN t

\* The amount a read of month m shows for p, Nil when the month holds no row.
Reads(t, p, m, a) == IF LiveAt(t, p, m) = {} THEN a = Nil
                     ELSE \E i \in LiveAt(t, p, m) : t[i].amount = a

----------------------------------------------------------------------------
(* Statements *)

\* Broken: the last two arguments are swapped.
NewRowSwapped(p, m, a, s) ==
  [pos |-> p, month |-> m, amount |-> s, deleted |-> FALSE, supersedes |-> a]

NewRow(p, m, a, s) ==
  [pos |-> p, month |-> m, amount |-> a, deleted |-> FALSE, supersedes |-> s]

Insert(t, n, row) == [j \in DOMAIN t \cup {n} |-> IF j = n THEN row ELSE t[j]]

SetAmount(t, i, a) == [t EXCEPT ![i].amount = a]

Archive(t, i) == [t EXCEPT ![i].deleted = TRUE]

\* Lifting a tombstone touches a row only when it is one, and the partial
\* unique index refuses it when its month holds a live row.
CanRestore(t, i) == /\ i \in DOMAIN t
                    /\ t[i].deleted
                    /\ LiveAt(t, t[i].pos, t[i].month) = {}

Restore(t, i) == [t EXCEPT ![i].deleted = FALSE]

\* Deleting a position tombstones its live rows first.
ArchiveAll(t, p) ==
  [i \in DOMAIN t |-> IF t[i].pos = p THEN [t[i] EXCEPT !.deleted = TRUE] ELSE t[i]]

\* One INSERT ... ON CONFLICT DO UPDATE per cell of a batch: batch gives the
\* amount of each <<position, month>> it writes, id a row id for each cell that
\* holds no live row yet.
NewCells(t, batch) == {c \in DOMAIN batch : LiveAt(t, c[1], c[2]) = {}}

Upsert(t, batch, id) ==
  LET cell(n) == CHOOSE c \in DOMAIN id : id[c] = n
  IN  [i \in DOMAIN t \cup {id[c] : c \in DOMAIN id} |->
         IF i \notin DOMAIN t THEN NewRow(cell(i)[1], cell(i)[2], batch[cell(i)], Nil)
         ELSE IF ~t[i].deleted /\ <<t[i].pos, t[i].month>> \in DOMAIN batch
         THEN [t[i] EXCEPT !.amount = batch[<<t[i].pos, t[i].month>>]]
         ELSE t[i]]

----------------------------------------------------------------------------
(* The close-snapshot procedures.  Each yields the set of tables it can     *)
(* leave (they differ in the id an insert draws); the empty set means that  *)
(* a statement failed and the transaction rolls back.                       *)

\* Broken: the recorded value is overwritten in place, as before ADR-0052.
WriteCloseSnapshotInPlace(t, p, m) ==
  {SetAmount(t, i, Zero) : i \in LiveAt(t, p, m)}
  \cup {Insert(t, n, NewRow(p, m, Zero, Nil)) :
          n \in IF LiveAt(t, p, m) = {} THEN Free(t) ELSE {}}

WriteCloseSnapshot(t, p, m) ==
  LET live == LiveAt(t, p, m)
  IN  \* a close row already stands (or the user recorded a zero): refreshed
      {t : i \in {j \in live : t[j].amount = Zero}}
      \* a recorded value is displaced, and the close row names it
      \cup {Insert(Archive(t, x[1]), x[2], NewRow(p, m, Zero, x[1])) :
              x \in {j \in live : t[j].amount # Zero} \X Free(t)}
      \* nothing was recorded
      \cup {Insert(t, n, NewRow(p, m, Zero, Nil)) :
              n \in IF live = {} THEN Free(t) ELSE {}}

\* The zero row of p at m, if there is one, is what an un-terminate removes.
CloseRows(t, p, m) == {i \in LiveAt(t, p, m) : t[i].amount = Zero}

\* Broken: the displaced row is restored before the close row is archived.
RevertCloseSnapshotRestoreFirst(t, p, m) ==
  IF CloseRows(t, p, m) = {} THEN {t}
  ELSE {Archive(t, i) : i \in {j \in CloseRows(t, p, m) : t[j].supersedes = Nil}}
       \cup {Archive(Restore(t, t[i].supersedes), i) :
               i \in {j \in CloseRows(t, p, m) :
                        t[j].supersedes # Nil /\ CanRestore(t, t[j].supersedes)}}

\* Broken: a close row that displaced nothing is left standing.
RevertCloseSnapshotOnlyLinked(t, p, m) ==
  LET linked == {i \in CloseRows(t, p, m) : t[i].supersedes # Nil}
  IN  IF linked = {} THEN {t}
      ELSE {Restore(Archive(t, i), t[i].supersedes) :
              i \in {j \in linked : CanRestore(Archive(t, j), t[j].supersedes)}}

RevertCloseSnapshot(t, p, m) ==
  IF CloseRows(t, p, m) = {} THEN {t}
  ELSE {Archive(t, i) : i \in {j \in CloseRows(t, p, m) : t[j].supersedes = Nil}}
       \cup {Restore(Archive(t, i), t[i].supersedes) :
               i \in {j \in CloseRows(t, p, m) :
                        t[j].supersedes # Nil /\ CanRestore(Archive(t, j), t[j].supersedes)}}

----------------------------------------------------------------------------
(* Backup *)

\* Broken: every soft-deleted row is dropped, as before #602.
CompactedLiveOnly(t, kept) == {i \in Live(t) : t[i].pos \in kept}

\* The snapshot rows a compacted export carries: the live ones, and those a
\* live row supersedes.  Rows of deleted positions are left behind.
Compacted(t, kept) ==
  {i \in DOMAIN t : /\ t[i].pos \in kept
                    /\ \/ ~t[i].deleted
                       \/ \E j \in Live(t) : t[j].supersedes = i}

RestrictTable(t, ids) == [i \in ids |-> t[i]]

\* `supersedes` references the table itself, and the database checks it when
\* the one INSERT that loads a file's rows ends.
ForeignKeysHold(t) == \A i \in DOMAIN t : t[i].supersedes \in DOMAIN t \cup {Nil}

\* The tables the load of a file's rows can leave: all of them or, on a broken
\* key, none.
LoadTable(file) == IF ForeignKeysHold(file) THEN {file} ELSE {}
============================================================================
