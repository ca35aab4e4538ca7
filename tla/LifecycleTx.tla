---------------------------- MODULE LifecycleTx ----------------------------
(***************************************************************************)
(* The requests of PositionLifecycle taken apart into the statements they  *)
(* send to PostgreSQL, several requests of one household at a time.  The   *)
(* pool opens transactions with the default isolation, READ COMMITTED: a   *)
(* statement sees what is committed when it starts, and its own            *)
(* transaction's writes; a row another transaction has written is locked   *)
(* until that transaction ends.                                            *)
(*                                                                         *)
(* At most one live row stands at a position and month, and an insert      *)
(* waits on an uncommitted row of its cell as an update waits on the row   *)
(* itself: so a lock is held on a cell, a <<position, month>>.  A status   *)
(* is active exactly when terminated_at is NULL and is not repeated here.  *)
(***************************************************************************)
EXTENDS LifecycleTables, SequencesExt

CONSTANTS
  Tx   \* requests that need a transaction, in flight at one time

VARIABLES
  step,       \* the next statement of each transaction
  req,        \* what the request and its reads hold in memory
  rows,       \* snapshot rows written and not committed
  parent      \* parent rows written and not committed

txVars == <<position, snap, step, req, rows, parent>>

ParentRow == [terminatedAt : Month \cup {Nil}, deleted : BOOLEAN]

Step == {"idle", "flip", "look", "refresh", "displace", "place",
         "cascade", "tombstone", "upsert", "commit"}

TxTypeOK ==
  /\ position \in [Position -> ParentRow]
  /\ IsTable(snap)
  /\ step \in [Tx -> Step]
  /\ DOMAIN req = Tx
  /\ \A t \in Tx : /\ IsTable(rows[t])
                   /\ DOMAIN parent[t] \subseteq Position
                   /\ \A p \in DOMAIN parent[t] : parent[t][p] \in ParentRow

Empty == [x \in {} |-> Nil]

TxInit ==
  /\ position = [p \in Position |-> [terminatedAt |-> Nil, deleted |-> FALSE]]
  /\ snap = Empty
  /\ step = [t \in Tx |-> "idle"]
  /\ req = [t \in Tx |-> Empty]
  /\ rows = [t \in Tx |-> Empty]
  /\ parent = [t \in Tx |-> Empty]

----------------------------------------------------------------------------
(* What a statement sees, and what it waits for *)

Over(f, g) == [x \in DOMAIN f \cup DOMAIN g |-> IF x \in DOMAIN f THEN f[x] ELSE g[x]]

View(t) == Over(rows[t], snap)

\* Ids drawn by transactions that have not committed are gone as well.
Unused == SnapId \ (DOMAIN snap \cup UNION {DOMAIN rows[t] : t \in Tx})

\* Ids are interchangeable: which one an insert draws makes no difference, and
\* one candidate is enough.
Fresh == IF Unused = {} THEN {} ELSE {CHOOSE n \in Unused : TRUE}

\* A bound of the model, not of the code: a request starts only if there are ids
\* for all it may insert, so that none gets stuck for want of one.
Demand(t) == CASE step[t] \in {"flip", "look", "displace", "place"} -> 1
               [] step[t] = "upsert" -> Len(req[t].queue)
               [] OTHER -> 0

RoomFor(k) == Cardinality(Unused) >= k + MapThenSumSet(Demand, Tx)

HoldsCell(t, p, m) == \E i \in DOMAIN rows[t] : rows[t][i].pos = p /\ rows[t][i].month = m

CellHolders(p, m) == {t \in Tx : HoldsCell(t, p, m)}

RowHolders(p) == {t \in Tx : p \in DOMAIN parent[t]}

\* The month a lifecycle request writes its close snapshot at, or takes it from.
CloseMonth(r) == IF r.at # Nil THEN r.at ELSE r.prior

\* The transactions whose end the next statement of t has to wait for.
Blockers(t) ==
  (CASE step[t] \in {"flip", "tombstone"} -> RowHolders(req[t].pos)
     [] step[t] \in {"refresh", "displace", "place"} ->
          CellHolders(req[t].pos, CloseMonth(req[t]))
     [] step[t] = "cascade" ->
          CellHolders(req[t].pos, snap[Head(req[t].targets)].month)
     [] step[t] = "upsert" -> CellHolders(Head(req[t].queue)[1], Head(req[t].queue)[2])
     [] OTHER -> {})
  \ {t}

\* The next statement of t is s, and it runs to its end.
Runs(t, s) == step[t] = s /\ Blockers(t) = {}

Goto(t, s) == step' = [step EXCEPT ![t] = s]

WriteRows(t, u) == rows' = [rows EXCEPT ![t] = u]

\* The transaction ends: its locks go, and nothing of the request remains.
End(t) ==
  /\ Goto(t, "idle")
  /\ req' = [req EXCEPT ![t] = Empty]
  /\ WriteRows(t, Empty)
  /\ parent' = [parent EXCEPT ![t] = Empty]

\* Broken: an error return that does not reach tx.Rollback.
AbortWithoutRollback(t) ==
  /\ Goto(t, "idle")
  /\ UNCHANGED <<position, snap, req, rows, parent>>

Abort(t) == End(t) /\ UNCHANGED <<position, snap>>

----------------------------------------------------------------------------
(* UpdateLifecycle *)

\* The pre-read outside the transaction: terminated_at as of now.
BeginLifecycle(t, p, at) ==
  /\ step[t] = "idle"
  /\ RoomFor(1)
  /\ Exists(p)
  /\ req' = [req EXCEPT ![t] = [pos |-> p, at |-> at, prior |-> position[p].terminatedAt,
                                seen |-> Nil]]
  /\ Goto(t, "flip")
  /\ UNCHANGED <<position, snap, rows, parent>>

\* Broken: the commit comes before the close snapshot.
FlipThenCommit(t) ==
  LET r == req[t]
  IN  /\ Runs(t, "flip")
      /\ \/ /\ ~Exists(r.pos)
            /\ Abort(t)
         \/ /\ Exists(r.pos)
            /\ parent' = [parent EXCEPT ![t] =
                 [p \in {r.pos} |-> [terminatedAt |-> r.at, deleted |-> FALSE]]]
            /\ Goto(t, "commit")
            /\ UNCHANGED <<position, snap, req, rows>>

Flip(t) ==
  LET r == req[t]
  IN  /\ Runs(t, "flip")
      /\ \/ /\ ~Exists(r.pos)
            /\ Abort(t)
         \/ /\ Exists(r.pos)
            /\ parent' = [parent EXCEPT ![t] =
                 [p \in {r.pos} |-> [terminatedAt |-> r.at, deleted |-> FALSE]]]
            /\ Goto(t, IF r.at = Nil /\ r.prior = Nil THEN "commit" ELSE "look")
            /\ UNCHANGED <<position, snap, req, rows>>

\* liveAt, a plain SELECT: it takes no lock, and the branch taken on what it
\* returned is not looked at again.
Look(t) ==
  LET r == req[t]
      live == LiveAt(View(t), r.pos, CloseMonth(r))
      zero == {i \in live : View(t)[i].amount = Zero}
  IN  /\ step[t] = "look"
      /\ \/ /\ live = {}
            /\ Goto(t, IF r.at # Nil THEN "place" ELSE "commit")
            /\ UNCHANGED req
         \/ \E i \in live :
              /\ req' = [req EXCEPT ![t].seen = i]
              /\ Goto(t, IF r.at # Nil THEN (IF i \in zero THEN "refresh" ELSE "displace")
                                       ELSE (IF i \in zero THEN "displace" ELSE "commit"))
      /\ UNCHANGED <<position, snap, rows, parent>>

\* refreshZero.  It updates whatever amount the row has by now.
Refresh(t) ==
  LET i == req[t].seen
  IN  /\ Runs(t, "refresh")
      /\ \/ /\ i \notin Live(View(t))
            /\ Abort(t)
         \/ /\ i \in Live(View(t))
            /\ WriteRows(t, Over([j \in {i} |-> [View(t)[i] EXCEPT !.amount = Zero]], rows[t]))
            /\ Goto(t, "commit")
            /\ UNCHANGED <<position, snap, req, parent>>

\* archive, of the recorded row or of the close row
Displace(t) ==
  LET r == req[t]
      i == r.seen
  IN  /\ Runs(t, "displace")
      /\ \/ /\ i \notin Live(View(t))
            /\ Abort(t)
         \/ /\ i \in Live(View(t))
            /\ WriteRows(t, Over([j \in {i} |-> [View(t)[i] EXCEPT !.deleted = TRUE]], rows[t]))
            /\ Goto(t, IF r.at = Nil /\ View(t)[i].supersedes = Nil THEN "commit" ELSE "place")
            /\ UNCHANGED <<position, snap, req, parent>>

\* insertZero when terminating, restore when un-terminating.  The unique index
\* fails either when the cell has got a live row since Look.
Place(t) ==
  LET r == req[t]
      v == View(t)
      m == CloseMonth(r)
  IN  /\ Runs(t, "place")
      /\ \/ /\ LiveAt(v, r.pos, m) # {}
            /\ Abort(t)
         \/ /\ LiveAt(v, r.pos, m) = {}
            /\ IF r.at # Nil
               THEN \E n \in Fresh : WriteRows(t, Insert(rows[t], n, NewRow(r.pos, m, Zero, r.seen)))
               ELSE LET s == v[r.seen].supersedes
                    IN  WriteRows(t, Over([j \in {s} |-> [v[s] EXCEPT !.deleted = FALSE]], rows[t]))
            /\ Goto(t, "commit")
            /\ UNCHANGED <<position, snap, req, parent>>

----------------------------------------------------------------------------
(* softDelete: children first *)

\* The cascade's statement starts: these are the rows it will ever see, in the
\* order it comes across them.
BeginDelete(t, p) ==
  /\ step[t] = "idle"
  /\ Exists(p)
  /\ \E order \in SetToSeqs({i \in Live(snap) : snap[i].pos = p}) :
       /\ req' = [req EXCEPT ![t] = [pos |-> p, targets |-> order]]
       /\ Goto(t, IF order = <<>> THEN "tombstone" ELSE "cascade")
  /\ UNCHANGED <<position, snap, rows, parent>>

\* It reaches its next row: archived, unless it has been while it waited for it.
Cascade(t) ==
  LET i == Head(req[t].targets)
  IN  /\ Runs(t, "cascade")
      /\ IF i \in Live(snap)
         THEN WriteRows(t, Over([j \in {i} |-> [snap[i] EXCEPT !.deleted = TRUE]], rows[t]))
         ELSE UNCHANGED rows
      /\ req' = [req EXCEPT ![t].targets = Tail(@)]
      /\ Goto(t, IF Len(req[t].targets) = 1 THEN "tombstone" ELSE "cascade")
      /\ UNCHANGED <<position, snap, parent>>

TombstoneParent(t) ==
  LET p == req[t].pos
  IN  /\ Runs(t, "tombstone")
      /\ \/ /\ ~Exists(p)
            /\ Abort(t)
         \/ /\ Exists(p)
            /\ parent' = [parent EXCEPT ![t] = [q \in {p} |-> [position[p] EXCEPT !.deleted = TRUE]]]
            /\ Goto(t, "commit")
            /\ UNCHANGED <<position, snap, req, rows>>

----------------------------------------------------------------------------
(* Bulk entry and import: a batch of upserts in the order of the request *)

\* One month of several positions, or several months of one position: finitely
\* many cells, as a request lists them.  The checks run before the transaction
\* begins.
BeginBatch(t, batch) ==
  LET cells == DOMAIN batch
  IN  /\ step[t] = "idle"
      /\ IsFiniteSet(cells)
      /\ RoomFor(Cardinality(cells))
      /\ \/ \E m \in Month : \A c \in cells : c[2] = m /\ Eligible(c[1], m)
         \/ \E p \in Position : Exists(p) /\ \A c \in cells : c[1] = p
      /\ \E order \in SetToSeqs(cells) :
           req' = [req EXCEPT ![t] = [batch |-> batch, queue |-> order]]
      /\ Goto(t, "upsert")
      /\ UNCHANGED <<position, snap, rows, parent>>

\* INSERT ... ON CONFLICT DO UPDATE for the head of the queue.
UpsertHead(t) ==
  LET p == Head(req[t].queue)[1]
      m == Head(req[t].queue)[2]
      a == req[t].batch[<<p, m>>]
      live == LiveAt(View(t), p, m)
  IN  \E i \in IF live = {} THEN Fresh ELSE live :
        WriteRows(t, Over([j \in {i} |-> IF live = {} THEN NewRow(p, m, a, Nil)
                                         ELSE [View(t)[i] EXCEPT !.amount = a]], rows[t]))

Dequeue(t) ==
  /\ req' = [req EXCEPT ![t].queue = Tail(@)]
  /\ Goto(t, IF Len(req[t].queue) = 1 THEN "commit" ELSE "upsert")
  /\ UNCHANGED <<position, snap, parent>>

\* Broken: a row whose position is gone is skipped and the rest is committed.
UpsertNextSkipping(t) ==
  /\ Runs(t, "upsert")
  /\ \/ Exists(Head(req[t].queue)[1]) /\ UpsertHead(t)
     \/ ~Exists(Head(req[t].queue)[1]) /\ UNCHANGED rows
  /\ Dequeue(t)

UpsertNext(t) ==
  /\ Runs(t, "upsert")
  /\ \/ Exists(Head(req[t].queue)[1]) /\ UpsertHead(t) /\ Dequeue(t)
     \/ ~Exists(Head(req[t].queue)[1]) /\ Abort(t)

----------------------------------------------------------------------------
(* The end of a transaction *)

Commit(t) ==
  /\ step[t] = "commit"
  /\ snap' = Over(rows[t], snap)
  /\ position' = Over(parent[t], position)
  /\ End(t)

\* The client goes away, a statement fails, the process dies.
Rollback(t) == step[t] # "idle" /\ Abort(t)

\* Everyone in the ring waits for another of it; PostgreSQL fails one of them.
Deadlocked(t) ==
  \E ring \in SUBSET Tx : t \in ring /\ \A u \in ring : Blockers(u) \cap ring # {}

DeadlockVictim(t) == Deadlocked(t) /\ Abort(t)

----------------------------------------------------------------------------
(* The snapshot requests that are one statement, each its own transaction *)

Unlocked(p, m) == CellHolders(p, m) = {}

\* Broken: an insert that does not wait for an uncommitted row of its month.
CreateSnapshotStatementUnlocked(p, m, a) ==
  /\ Exists(p)
  /\ RoomFor(1)
  /\ LiveAt(snap, p, m) = {}
  /\ \E n \in Fresh : snap' = Insert(snap, n, NewRow(p, m, a, Nil))
  /\ UNCHANGED <<position, step, req, rows, parent>>

CreateSnapshotStatement(p, m, a) ==
  /\ Exists(p)
  /\ RoomFor(1)
  /\ Unlocked(p, m)
  /\ LiveAt(snap, p, m) = {}
  /\ \E n \in Fresh : snap' = Insert(snap, n, NewRow(p, m, a, Nil))
  /\ UNCHANGED <<position, step, req, rows, parent>>

UpdateSnapshotStatement(i, a) ==
  /\ i \in Live(snap)
  /\ Exists(snap[i].pos)
  /\ Unlocked(snap[i].pos, snap[i].month)
  /\ snap' = SetAmount(snap, i, a)
  /\ UNCHANGED <<position, step, req, rows, parent>>

DeleteSnapshotStatement(i) ==
  /\ i \in Live(snap)
  /\ Exists(snap[i].pos)
  /\ Unlocked(snap[i].pos, snap[i].month)
  /\ snap' = Archive(snap, i)
  /\ UNCHANGED <<position, step, req, rows, parent>>

----------------------------------------------------------------------------

Statement(t) == \/ Flip(t) \/ Look(t) \/ Refresh(t) \/ Displace(t) \/ Place(t)
                \/ Cascade(t) \/ TombstoneParent(t) \/ UpsertNext(t) \/ Commit(t)

Begin(t) ==
  \/ \E p \in Position, at \in Month \cup {Nil} : BeginLifecycle(t, p, at)
  \/ \E p \in Position : BeginDelete(t, p)
  \/ \E cells \in (SUBSET (Position \X Month)) \ {{}} :
       \E batch \in [cells -> UserAmount] : BeginBatch(t, batch)

UserWrite ==
  \/ \E p \in Position, m \in Month, a \in UserAmount : CreateSnapshotStatement(p, m, a)
  \/ \E i \in SnapId, a \in UserAmount : UpdateSnapshotStatement(i, a)
  \/ \E i \in SnapId : DeleteSnapshotStatement(i)

TxNext == \/ \E t \in Tx : Begin(t) \/ Statement(t) \/ Rollback(t) \/ DeadlockVictim(t)
        \/ UserWrite

TxSpec == TxInit /\ [][TxNext]_txVars

\* A request in flight goes on: the handler is running, and PostgreSQL queues
\* the waiters of a row, so a statement that can run again and again does
\* (strong fairness); its deadlock detector fires after a second.  Nothing
\* makes clients send requests or requests fail.
FairSpec == TxSpec /\ \A t \in Tx : SF_txVars(Statement(t)) /\ WF_txVars(DeadlockVictim(t))

----------------------------------------------------------------------------
(* Properties *)

\* The link of a committed close row leads to a committed archived row of its
\* cell, and no cell has two live rows, however the statements interleave.
TableSound ==
  /\ \A i, j \in Live(snap) :
       snap[i].pos = snap[j].pos /\ snap[i].month = snap[j].month => i = j
  /\ \A i \in DOMAIN snap :
       LET s == snap[i].supersedes
       IN  s # Nil => /\ s \in DOMAIN snap
                      /\ snap[s].pos = snap[i].pos
                      /\ snap[s].month = snap[i].month
                      /\ ~snap[i].deleted => snap[s].deleted

\* The step that commits a termination leaves the month of termination at zero:
\* the flip and its close snapshot are one unit whoever else is writing.
Terminates(p) == /\ ~position'[p].deleted
                 /\ position'[p].terminatedAt # Nil
                 /\ position'[p].terminatedAt # position[p].terminatedAt

TerminationReadsZero ==
  [][\A p \in Position :
       Terminates(p) => Reads(snap', p, position'[p].terminatedAt, Zero)]_txVars

\* The step that commits a batch leaves every cell of it at the amount entered:
\* bulk entry and import are all-or-nothing (ADR-0046), even where positions
\* are deleted or terminated after the eligibility check.
CommitsBatch(t) == step[t] = "commit" /\ step'[t] = "idle" /\ "batch" \in DOMAIN req[t]
                   /\ snap' # snap

BatchWhole ==
  [][\A t \in Tx : CommitsBatch(t) =>
       \A c \in DOMAIN req[t].batch : Reads(snap', c[1], c[2], req[t].batch[c])]_txVars

\* Every request gets an answer: the waits of a lifecycle request (parent, then
\* snapshots), a deletion (snapshots, then parent) and two batches over the same
\* positions can form a ring, and it is always broken.
EveryRequestEnds == \A t \in Tx : step[t] # "idle" ~> step[t] = "idle"

\* The step in which a lifecycle request of t commits.
Commits(t) == step[t] = "commit" /\ step'[t] = "idle" /\ "seen" \in DOMAIN req[t]
              /\ position' = Over(parent[t], position) /\ snap' = Over(rows[t], snap)

\* A terminal flip displaces a recorded value, it never overwrites one
\* (INV-LIFECYCLE-03).
NeverOverwrites ==
  [][\A t \in Tx : Commits(t) /\ req[t].at # Nil =>
       \A i \in Live(snap) : snap[i].amount # Zero => snap'[i].amount = snap[i].amount]_txVars

\* An un-terminate only ever removes a zero-amount row (lifecycle.go).
OnlyZeroRemoved ==
  [][\A t \in Tx : Commits(t) /\ req[t].at = Nil =>
       \A i \in Live(snap) : snap[i].amount # Zero => ~snap'[i].deleted]_txVars

\* An active position carries no close row (users record no zeroes here), as
\* long as no termination is moved to another month (INV-LIFECYCLE-04).
ReactivatedHoldsNoCloseRow ==
  \A i \in Live(snap) :
    Exists(snap[i].pos) /\ position[snap[i].pos].terminatedAt = Nil => snap[i].amount # Zero
============================================================================
