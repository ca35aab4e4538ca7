------------------------- MODULE PositionLifecycle -------------------------
(***************************************************************************)
(* Positions of one group and their snapshots, every request running       *)
(* alone: the repository methods of backend/internal/repo as atomic        *)
(* actions.  LifecycleTx opens the transactions up into statements.        *)
(*                                                                         *)
(* terminated_at is a date in the code; every rule modelled here looks at  *)
(* its month only, so a Month stands for it.  A position is in its initial *)
(* state when its Create request has committed: active, without snapshots. *)
(***************************************************************************)
EXTENDS LifecycleTables

CONSTANTS
  Active,          \* StatusActive
  TerminalStatus,  \* closed, sold, paid_off, written_off, untracked, ...
  Forgotten        \* see held

ASSUME StatusAssumption == Active \notin TerminalStatus
ASSUME ForgottenAssumption == Forgotten \notin Amount /\ Forgotten # Nil

VARIABLES
  held   \* history: what the month of termination read when p went from
         \* active to terminal, Forgotten once the user touched that month

vars == <<position, snap, held>>

Status == {Active} \cup TerminalStatus

PositionRow == [status : Status, terminatedAt : Month \cup {Nil}, deleted : BOOLEAN]

TypeOK ==
  /\ position \in [Position -> PositionRow]
  /\ IsTable(snap)
  /\ held \in [Position -> Amount \cup {Nil, Forgotten}]

Init ==
  /\ position = [p \in Position |->
                   [status |-> Active, terminatedAt |-> Nil, deleted |-> FALSE]]
  /\ snap = [i \in {} |-> Nil]
  /\ held = [p \in Position |-> Forgotten]

\* A write of the user's at p's termination month: what the month read before
\* is no longer what an un-terminate owes.
Touch(cells) ==
  held' = [p \in Position |->
             IF <<p, position[p].terminatedAt>> \in cells THEN Forgotten ELSE held[p]]

----------------------------------------------------------------------------
(* Snapshot requests.  None looks at the position's status. *)

CreateSnapshot(p, m, a) ==
  /\ Exists(p)
  /\ LiveAt(snap, p, m) = {}
  /\ \E n \in Free(snap) : snap' = Insert(snap, n, NewRow(p, m, a, Nil))
  /\ Touch({<<p, m>>})
  /\ UNCHANGED position

UpdateSnapshot(i, a) ==
  /\ i \in Live(snap)
  /\ Exists(snap[i].pos)
  /\ snap' = SetAmount(snap, i, a)
  /\ Touch({<<snap[i].pos, snap[i].month>>})
  /\ UNCHANGED position

DeleteSnapshot(i) ==
  /\ i \in Live(snap)
  /\ Exists(snap[i].pos)
  /\ snap' = Archive(snap, i)
  /\ Touch({<<snap[i].pos, snap[i].month>>})
  /\ UNCHANGED position

UpsertBatch(batch) ==
  /\ \E id \in [NewCells(snap, batch) -> Free(snap)] :
       /\ \A c, d \in DOMAIN id : id[c] = id[d] => c = d
       /\ snap' = Upsert(snap, batch, id)
  /\ Touch(DOMAIN batch)
  /\ UNCHANGED position

\* The importer writes any months of one position.
ImportSnapshots(p, months, amounts) ==
  /\ Exists(p)
  /\ UpsertBatch([c \in {p} \X months |-> amounts[c[2]]])

\* The bulk entry writes one month of any positions, all of them or none.
BulkUpsertSnapshots(m, positions, amounts) ==
  /\ \A p \in positions : Eligible(p, m)
  /\ UpsertBatch([c \in positions \X {m} |-> amounts[c[1]]])

----------------------------------------------------------------------------
(* Lifecycle requests *)

ValidLifecycle(status, at) == (status = Active) <=> (at = Nil)

\* applyCloseSnapshot
ApplyCloseSnapshot(t, p, at, prior) ==
  IF at # Nil THEN WriteCloseSnapshot(t, p, at)
  ELSE IF prior # Nil THEN RevertCloseSnapshot(t, p, prior)
  ELSE {t}

UpdateLifecycle(p, status, at) ==
  LET prior == position[p].terminatedAt
  IN  /\ Exists(p)
      /\ ValidLifecycle(status, at)
      /\ snap' \in ApplyCloseSnapshot(snap, p, at, prior)
      /\ position' = [position EXCEPT ![p].status = status, ![p].terminatedAt = at]
      /\ held' \in {[held EXCEPT ![p] = a] :
                      a \in CASE prior = Nil /\ at # Nil ->
                                   {b \in Amount \cup {Nil} : Reads(snap, p, at, b)}
                              [] prior # Nil /\ at = prior -> {held[p]}
                              [] OTHER -> {Forgotten}}

DeletePosition(p) ==
  /\ Exists(p)
  /\ snap' = ArchiveAll(snap, p)
  /\ position' = [position EXCEPT ![p].deleted = TRUE]
  /\ held' = [held EXCEPT ![p] = Forgotten]

----------------------------------------------------------------------------

Next ==
  \/ \E p \in Position, m \in Month, a \in UserAmount : CreateSnapshot(p, m, a)
  \/ \E i \in SnapId, a \in UserAmount : UpdateSnapshot(i, a)
  \/ \E i \in SnapId : DeleteSnapshot(i)
  \/ \E p \in Position, ms \in SUBSET Month \ {{}} :
       \E b \in [ms -> UserAmount] : ImportSnapshots(p, ms, b)
  \/ \E m \in Month, ps \in SUBSET Position \ {{}} :
       \E b \in [ps -> UserAmount] : BulkUpsertSnapshots(m, ps, b)
  \/ \E p \in Position, s \in Status, at \in Month \cup {Nil} : UpdateLifecycle(p, s, at)
  \/ \E p \in Position : DeletePosition(p)

Spec == Init /\ [][Next]_vars

----------------------------------------------------------------------------
(* Safety *)

\* No month of a position ever holds two live snapshots: a restored row finds
\* its month vacated, whatever was created, upserted, displaced and restored
\* there before (migration 00001's partial unique index, INV-SNAPSHOTS-02).
OneLivePerMonth ==
  \A i, j \in Live(snap) :
    snap[i].pos = snap[j].pos /\ snap[i].month = snap[j].month => i = j

\* A row that supersedes another names an allocated row of its own position and
\* month, and as long as it is live that row is archived: the link a close row
\* carries always leads to something an un-terminate can hand back.
SupersedesSound ==
  \A i \in DOMAIN snap :
    LET s == snap[i].supersedes
    IN  s # Nil => /\ s \in DOMAIN snap
                   /\ snap[s].pos = snap[i].pos
                   /\ snap[s].month = snap[i].month
                   /\ ~snap[i].deleted => snap[s].deleted

\* Un-terminating a position never meets the errors revertCloseSnapshot can
\* return: the row it restores is a tombstone and its month is free.
UnterminateNeverFails ==
  \A p \in Position :
    Exists(p) /\ position[p].terminatedAt # Nil =>
      RevertCloseSnapshot(snap, p, position[p].terminatedAt) # {}

Kept == {p \in Position : Exists(p)}

CompactedFile == RestrictTable(snap, Compacted(snap, Kept))

\* A close row stands on one that was re-recorded and displaced in its turn.
DisplacedTwice ==
  \E i \in Live(snap) : LET s == snap[i].supersedes
                        IN  s # Nil /\ snap[s].supersedes # Nil

\* A household restored from a compacted backup hands back on every
\* un-terminate what the original would have handed back (INV-BACKUP-16), and
\* the database refuses the file's rows only where a close row displaced one
\* that had itself been a close row.
CompactedKeepsUndo ==
  /\ LoadTable(CompactedFile) = {} => DisplacedTwice
  /\ \A loaded \in LoadTable(CompactedFile), p \in Kept :
       LET m == position[p].terminatedAt
       IN  m # Nil =>
             \A t \in RevertCloseSnapshot(snap, p, m) :
               \E u \in RevertCloseSnapshot(loaded, p, m) :
                 \A a \in Amount \cup {Nil} : Reads(t, p, m, a) <=> Reads(u, p, m, a)

\* The rows a compacted export carries are closed under `supersedes`
\* (queries/backup.sql: "This also keeps the file's foreign keys closed: every
\* carried close row's `supersedes` target is carried with it").  An archived
\* close row is carried as well, and its own target is not.
CompactedFileClosed == ForeignKeysHold(CompactedFile)

\* An active position carries no close row (stated for users who record no
\* zeroes, so that every live zero row is one).
ActiveHoldsNoCloseRow ==
  \A i \in Live(snap) :
    position[snap[i].pos].terminatedAt = Nil => snap[i].amount # Zero

----------------------------------------------------------------------------
(* Action properties *)

Reactivated(p) == /\ Exists(p)
                  /\ position[p].terminatedAt # Nil
                  /\ position'[p].terminatedAt = Nil

Restored(p) == Reads(snap', p, position[p].terminatedAt, held[p])

\* Un-terminating gives the termination month back exactly what it read when
\* the position was terminated, as long as the user has not written to that
\* month since and it did not read zero (INV-LIFECYCLE-04).
UnterminateRestores ==
  [][\A p \in Position :
       Reactivated(p) /\ held[p] \notin {Forgotten, Zero} => Restored(p)]_vars

\* The same for every reading, a recorded zero included: CONTEXT.md promises
\* it of "any Snapshot the Household had already recorded for that month".
UnterminateRestoresAny ==
  [][\A p \in Position : Reactivated(p) /\ held[p] # Forgotten => Restored(p)]_vars

\* A reactivated position never reads zero at the month it had been closed in,
\* however often it was closed, re-recorded, closed again and reopened.
ReactivatedMonthNotZero ==
  [][\A p \in Position :
       Reactivated(p) => ~Reads(snap', p, position[p].terminatedAt, Zero)]_vars

\* A terminal flip displaces the value recorded at its month and destroys
\* nothing: that row survives archived and a live zero row names it, and no
\* row of another month or another position changes (INV-LIFECYCLE-03).
TerminationDisplaces ==
  [][\A p \in Position, s \in TerminalStatus, at \in Month :
       UpdateLifecycle(p, s, at) =>
         \A i \in Live(snap) : snap[i].amount # Zero =>
           IF i \in LiveAt(snap, p, at)
           THEN /\ snap'[i] = [snap[i] EXCEPT !.deleted = TRUE]
                /\ \E j \in CloseRows(snap', p, at) : snap'[j].supersedes = i
           ELSE snap'[i] = snap[i]]_vars
============================================================================
