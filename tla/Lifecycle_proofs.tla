-------------------------- MODULE Lifecycle_proofs --------------------------
(***************************************************************************)
(* Theorems about PositionLifecycle and LifecycleTx, for every set of      *)
(* positions, months, amounts and row ids.                                 *)
(*                                                                         *)
(* Of PositionLifecycle the invariant is that the snapshot table is sound  *)
(* (CloseSnapshot_proofs) for some stack of rows.  OneLivePerMonth and     *)
(* SupersedesSound alone are not inductive enough for the action           *)
(* properties: they say nothing of the rows below a displaced row, which a *)
(* second un-terminate reaches.                                            *)
(*                                                                         *)
(* Of LifecycleTx, for any number of requests in flight: the committed     *)
(* table is sound, and so is the table every transaction sees.             *)
(***************************************************************************)
EXTENDS PositionLifecycle, LifecycleTx, CloseSnapshot_proofs, FiniteSetTheorems

Alive == {p \in Position : Exists(p)}

TableInv == \E S : Sound(snap, Alive, S)

Inv == TypeOK /\ TableInv

\* The close row of a terminated position owes what its month read before.
Owing(p) == /\ Exists(p)
            /\ position[p].terminatedAt # Nil
            /\ held[p] \notin {Forgotten, Zero}

HeldInv ==
  \A p \in Position : Owing(p) => Owes(snap, p, position[p].terminatedAt, held[p])

----------------------------------------------------------------------------

LEMMA InitInv == Init => Inv /\ HeldInv
<1> SUFFICES ASSUME Init PROVE Inv /\ HeldInv
  OBVIOUS
<1>1. TypeOK
  BY ForgottenAssumption DEF Init, TypeOK, PositionRow, Status, IsTable
<1>2. Sound(snap, Alive, {})
  BY DEF Init, Sound, IsTable, OneLive, Linked, Stacked, Live
<1>3. HeldInv
  BY DEF Init, HeldInv, Owing
<1> QED
  BY <1>1, <1>2, <1>3 DEF Inv, TableInv

\* Touch keeps held well typed, and where it changes nothing the month was not written.
LEMMA TouchType ==
  ASSUME TypeOK, NEW cells, Touch(cells)
  PROVE  /\ held' \in [Position -> Amount \cup {Nil, Forgotten}]
         /\ \A p \in Position : held'[p] # Forgotten =>
              /\ held'[p] = held[p]
              /\ <<p, position[p].terminatedAt>> \notin cells
  BY DEF TypeOK, Touch

\* A request that writes the snapshots of some cells, adds rows to the table and
\* leaves the positions alone keeps what the close rows owe.
LEMMA TouchHeld ==
  ASSUME Inv, HeldInv, NEW cells, Touch(cells), UNCHANGED position,
         DOMAIN snap \subseteq DOMAIN snap',
         \A j \in DOMAIN snap :
           snap[j].deleted \/ <<snap[j].pos, snap[j].month>> \notin cells => snap'[j] = snap[j]
  PROVE  HeldInv'
<1> SUFFICES ASSUME NEW p \in Position, Owing(p)'
             PROVE  Owes(snap', p, position'[p].terminatedAt, held'[p])
  BY DEF HeldInv
<1> DEFINE m == position[p].terminatedAt
<1>1. /\ held'[p] = held[p]
      /\ <<p, m>> \notin cells
  BY TouchType DEF Owing, Inv
<1>2. Owing(p)
  BY <1>1 DEF Owing, Exists
<1>3. Owes(snap, p, m, held[p])
  BY <1>2 DEF HeldInv
<1>4. PICK S : Sound(snap, Alive, S)
  BY DEF Inv, TableInv
<1>5. \A j \in DOMAIN snap :
        snap[j].pos = p /\ (snap[j].deleted \/ snap[j].month = m) => snap'[j] = snap[j]
  BY <1>1
<1> HIDE DEF m
<1>6. Owes(snap', p, m, held[p])
  BY <1>3, <1>4, <1>5, OwesFrame
<1> QED
  BY <1>1, <1>6 DEF m

\* So does a request that leaves a position and its rows alone.
LEMMA FrameHeld ==
  ASSUME Inv, HeldInv, NEW p \in Position, Frame(snap, snap', p),
         NEW q \in Position \ {p}, Owing(q)',
         position'[q] = position[q], held'[q] = held[q]
  PROVE  Owes(snap', q, position'[q].terminatedAt, held'[q])
<1> DEFINE m == position[q].terminatedAt
<1>1. Owes(snap, q, m, held[q])
  BY DEF HeldInv, Owing, Exists
<1>2. PICK S : Sound(snap, Alive, S)
  BY DEF Inv, TableInv
<1>3. /\ DOMAIN snap \subseteq DOMAIN snap'
      /\ \A j \in DOMAIN snap :
           snap[j].pos = q /\ (snap[j].deleted \/ snap[j].month = m) => snap'[j] = snap[j]
  BY DEF Frame
<1> HIDE DEF m
<1>4. Owes(snap', q, m, held[q])
  BY <1>1, <1>2, <1>3, OwesFrame
<1> QED
  BY <1>4 DEF m

----------------------------------------------------------------------------
(* One lemma per request *)

LEMMA CreateSnapshotInv ==
  ASSUME Inv, HeldInv, NEW p \in Position, NEW m \in Month, NEW a \in UserAmount,
         CreateSnapshot(p, m, a)
  PROVE  Inv' /\ HeldInv'
<1>1. PICK n \in Free(snap) : snap' = Insert(snap, n, NewRow(p, m, a, Nil))
  BY DEF CreateSnapshot
<1>2. PICK S : Sound(snap, Alive, S)
  BY DEF Inv, TableInv
<1>3. p \in Alive /\ a \in Amount /\ LiveAt(snap, p, m) = {} /\ Touch({<<p, m>>})
      /\ UNCHANGED position
  BY UserAmountAssumption DEF CreateSnapshot, Alive
<1>4. Sound(snap', Alive, S \cup {n}) /\ Adds(snap, snap', n, NewRow(p, m, a, Nil))
  BY <1>1, <1>2, <1>3, InsertSound
<1>5. Alive' = Alive
  BY <1>3 DEF Alive, Exists
<1>6. TableInv' /\ IsTable(snap')
  BY <1>4, <1>5 DEF TableInv, Sound
<1>7. Inv'
  BY <1>3, <1>6, TouchType DEF Inv, TypeOK
<1>8. HeldInv'
  BY <1>3, <1>4, TouchHeld DEF Adds
<1> QED
  BY <1>7, <1>8

LEMMA UpdateSnapshotInv ==
  ASSUME Inv, HeldInv, NEW i \in SnapId, NEW a \in UserAmount, UpdateSnapshot(i, a)
  PROVE  Inv' /\ HeldInv'
<1> DEFINE cell == <<snap[i].pos, snap[i].month>>
<1>1. /\ i \in Live(snap)
      /\ a \in Amount
      /\ snap' = SetAmount(snap, i, a)
      /\ Touch({cell})
      /\ UNCHANGED position
  BY UserAmountAssumption DEF UpdateSnapshot
<1>2. PICK S : Sound(snap, Alive, S)
  BY DEF Inv, TableInv
<1>3. Sound(snap', Alive, S) /\ Keeps(snap, snap', i)
  BY <1>1, <1>2, SetAmountSound
<1>4. Alive' = Alive
  BY <1>1 DEF Alive, Exists
<1>5. TableInv' /\ IsTable(snap')
  BY <1>3, <1>4 DEF TableInv, Sound
<1>6. Inv'
  BY <1>1, <1>5, TouchType DEF Inv, TypeOK
<1>7. \A j \in DOMAIN snap :
        snap[j].deleted \/ <<snap[j].pos, snap[j].month>> \notin {cell} => snap'[j] = snap[j]
  BY <1>1, <1>3 DEF Keeps, Live
<1>8. HeldInv'
  BY <1>1, <1>3, <1>7, TouchHeld DEF Keeps
<1> QED
  BY <1>6, <1>8

LEMMA DeleteSnapshotInv ==
  ASSUME Inv, HeldInv, NEW i \in SnapId, DeleteSnapshot(i)
  PROVE  Inv' /\ HeldInv'
<1> DEFINE cell == <<snap[i].pos, snap[i].month>>
<1>1. /\ i \in Live(snap)
      /\ snap' = Archive(snap, i)
      /\ Touch({cell})
      /\ UNCHANGED position
  BY DEF DeleteSnapshot
<1>2. PICK S : Sound(snap, Alive, S)
  BY DEF Inv, TableInv
<1>3. Sound(snap', Alive, S \ {i}) /\ Drops(snap, snap', i)
  BY <1>1, <1>2, ArchiveSound
<1>4. Alive' = Alive
  BY <1>1 DEF Alive, Exists
<1>5. TableInv' /\ IsTable(snap')
  BY <1>3, <1>4 DEF TableInv, Sound
<1>6. Inv'
  BY <1>1, <1>5, TouchType DEF Inv, TypeOK
<1>7. \A j \in DOMAIN snap :
        snap[j].deleted \/ <<snap[j].pos, snap[j].month>> \notin {cell} => snap'[j] = snap[j]
  BY <1>1, <1>3 DEF Drops, Live
<1>8. HeldInv'
  BY <1>1, <1>3, <1>7, TouchHeld DEF Drops
<1> QED
  BY <1>6, <1>8

LEMMA UpsertBatchInv ==
  ASSUME Inv, HeldInv, NEW batch, DOMAIN batch \subseteq Alive \X Month,
         \A c \in DOMAIN batch : batch[c] \in UserAmount, UpsertBatch(batch)
  PROVE  Inv' /\ HeldInv'
<1>1. PICK id \in [NewCells(snap, batch) -> Free(snap)] :
        /\ \A c, d \in DOMAIN id : id[c] = id[d] => c = d
        /\ snap' = Upsert(snap, batch, id)
  BY DEF UpsertBatch
<1>2. PICK S : Sound(snap, Alive, S)
  BY DEF Inv, TableInv
<1>3. /\ DOMAIN batch \subseteq (Position \cap Alive) \X Month
      /\ \A c \in DOMAIN batch : batch[c] \in Amount
      /\ Touch(DOMAIN batch)
      /\ UNCHANGED position
  BY UserAmountAssumption DEF UpsertBatch, Alive
<1>4. /\ Sound(snap', Alive, S \cup {id[c] : c \in DOMAIN id})
      /\ DOMAIN snap \subseteq DOMAIN snap'
      /\ \A j \in DOMAIN snap :
           snap[j].deleted \/ <<snap[j].pos, snap[j].month>> \notin DOMAIN batch
             => snap'[j] = snap[j]
  BY <1>1, <1>2, <1>3, UpsertSound
<1>5. Alive' = Alive
  BY <1>3 DEF Alive, Exists
<1>6. TableInv' /\ IsTable(snap')
  BY <1>4, <1>5 DEF TableInv, Sound
<1>7. Inv'
  BY <1>3, <1>6, TouchType DEF Inv, TypeOK
<1>8. HeldInv'
  BY <1>3, <1>4, TouchHeld
<1> QED
  BY <1>7, <1>8

LEMMA ImportSnapshotsInv ==
  ASSUME Inv, HeldInv, NEW p \in Position, NEW ms \in SUBSET Month,
         NEW b \in [ms -> UserAmount], ImportSnapshots(p, ms, b)
  PROVE  Inv' /\ HeldInv'
<1> DEFINE batch == [c \in {p} \X ms |-> b[c[2]]]
<1>1. UpsertBatch(batch) /\ p \in Alive
  BY DEF ImportSnapshots, Alive
<1>2. DOMAIN batch = {p} \X ms
  OBVIOUS
<1>3. \A c \in DOMAIN batch : batch[c] \in UserAmount
  OBVIOUS
<1> HIDE DEF batch
<1> QED
  BY <1>1, <1>2, <1>3, UpsertBatchInv

LEMMA BulkUpsertSnapshotsInv ==
  ASSUME Inv, HeldInv, NEW m \in Month, NEW ps \in SUBSET Position,
         NEW b \in [ps -> UserAmount], BulkUpsertSnapshots(m, ps, b)
  PROVE  Inv' /\ HeldInv'
<1> DEFINE batch == [c \in ps \X {m} |-> b[c[1]]]
<1>1. UpsertBatch(batch) /\ ps \subseteq Alive
  BY DEF BulkUpsertSnapshots, Eligible, Alive
<1>2. DOMAIN batch = ps \X {m}
  OBVIOUS
<1>3. \A c \in DOMAIN batch : batch[c] \in UserAmount
  OBVIOUS
<1> HIDE DEF batch
<1> QED
  BY <1>1, <1>2, <1>3, UpsertBatchInv

LEMMA DeletePositionInv ==
  ASSUME Inv, HeldInv, NEW p \in Position, DeletePosition(p)
  PROVE  Inv' /\ HeldInv'
<1>1. /\ snap' = ArchiveAll(snap, p)
      /\ position' = [position EXCEPT ![p].deleted = TRUE]
      /\ held' = [held EXCEPT ![p] = Forgotten]
  BY DEF DeletePosition
<1>2. PICK S : Sound(snap, Alive, S)
  BY DEF Inv, TableInv
<1>3. Sound(snap', Alive \ {p}, {i \in S : snap[i].pos # p}) /\ Frame(snap, snap', p)
  BY <1>1, <1>2, ArchiveAllSound
<1>4. /\ position' \in [Position -> PositionRow]
      /\ held' \in [Position -> Amount \cup {Nil, Forgotten}]
      /\ position'[p].deleted
      /\ held'[p] = Forgotten
      /\ \A q \in Position \ {p} : position'[q] = position[q] /\ held'[q] = held[q]
  BY <1>1 DEF Inv, TypeOK, PositionRow
<1>5. Alive' = Alive \ {p}
  BY <1>4 DEF Alive, Exists
<1>6. TableInv' /\ IsTable(snap')
  BY <1>3, <1>5 DEF TableInv, Sound
<1>7. Inv'
  BY <1>4, <1>6 DEF Inv, TypeOK
<1>8. HeldInv'
  <2> SUFFICES ASSUME NEW q \in Position, Owing(q)'
               PROVE  Owes(snap', q, position'[q].terminatedAt, held'[q])
    BY DEF HeldInv
  <2>1. q # p
    BY <1>4 DEF Owing
  <2> QED
    BY <1>2, <1>3, <1>4, <2>1, FrameHeld
<1> QED
  BY <1>7, <1>8
\* The table part of a lifecycle request.
LEMMA ApplyCloseSnapshotSound ==
  ASSUME NEW t, NEW S, Sound(t, Alive, S), NEW p \in Position, Exists(p),
         NEW at \in Month \cup {Nil}, NEW prior,
         NEW u \in ApplyCloseSnapshot(t, p, at, prior)
  PROVE  (\E T : Sound(u, Alive, T)) /\ Frame(t, u, p)
<1>1. CASE at # Nil
  <2>1. u \in WriteCloseSnapshot(t, p, at) /\ at \in Month /\ p \in Alive
    BY <1>1 DEF ApplyCloseSnapshot, Alive
  <2> QED
    BY <2>1, WriteCloseSnapshotSound
<1>2. CASE at = Nil /\ prior # Nil
  <2>1. u \in RevertCloseSnapshot(t, p, prior)
    BY <1>2 DEF ApplyCloseSnapshot
  <2> QED
    BY <2>1, RevertCloseSnapshotSound
<1>3. CASE at = Nil /\ prior = Nil
  BY <1>3 DEF ApplyCloseSnapshot, Frame
<1> QED
  BY <1>1, <1>2, <1>3

LEMMA UpdateLifecycleInv ==
  ASSUME Inv, HeldInv, NEW p \in Position, NEW s \in Status, NEW at \in Month \cup {Nil},
         UpdateLifecycle(p, s, at)
  PROVE  Inv' /\ HeldInv'
<1> DEFINE prior == position[p].terminatedAt
<1>1. /\ Exists(p)
      /\ snap' \in ApplyCloseSnapshot(snap, p, at, prior)
      /\ position' = [position EXCEPT ![p].status = s, ![p].terminatedAt = at]
  BY DEF UpdateLifecycle
<1>2. PICK a \in CASE prior = Nil /\ at # Nil ->
                        {b \in Amount \cup {Nil} : Reads(snap, p, at, b)}
                   [] prior # Nil /\ at = prior -> {held[p]}
                   [] OTHER -> {Forgotten} :
        held' = [held EXCEPT ![p] = a]
  BY DEF UpdateLifecycle
<1>3. PICK S : Sound(snap, Alive, S)
  BY DEF Inv, TableInv
<1>4. /\ position' \in [Position -> PositionRow]
      /\ position'[p].terminatedAt = at
      /\ \A q \in Position : position'[q].deleted = position[q].deleted
      /\ \A q \in Position \ {p} : position'[q] = position[q]
  BY <1>1 DEF Inv, TypeOK, PositionRow
<1>5. /\ a \in Amount \cup {Nil, Forgotten}
      /\ prior = Nil /\ at # Nil => Reads(snap, p, at, a)
      /\ prior # Nil /\ at = prior => a = held[p]
      /\ prior # Nil /\ at # prior => a = Forgotten
  BY <1>2 DEF Inv, TypeOK
<1>6. /\ held' \in [Position -> Amount \cup {Nil, Forgotten}]
      /\ held'[p] = a
      /\ \A q \in Position \ {p} : held'[q] = held[q]
  BY <1>2, <1>5 DEF Inv, TypeOK
<1> HIDE DEF prior
<1>7. (\E T : Sound(snap', Alive, T)) /\ Frame(snap, snap', p)
  BY <1>1, <1>3, ApplyCloseSnapshotSound
<1>8. Alive' = Alive
  BY <1>4 DEF Alive, Exists
<1>9. TableInv' /\ IsTable(snap')
  BY <1>7, <1>8 DEF TableInv, Sound
<1>10. Inv'
  BY <1>4, <1>6, <1>9 DEF Inv, TypeOK
<1>11. HeldInv'
  <2> SUFFICES ASSUME NEW q \in Position, Owing(q)'
               PROVE  Owes(snap', q, position'[q].terminatedAt, held'[q])
    BY DEF HeldInv
  <2>1. CASE q # p
    BY <1>4, <1>6, <1>7, <2>1, FrameHeld
  <2>2. CASE q = p
    <3>1. at \in Month /\ at # Nil /\ a # Forgotten /\ a # Zero
      BY <1>4, <1>6, <2>2 DEF Owing
    <3>2. snap' \in WriteCloseSnapshot(snap, p, at)
      BY <1>1, <3>1 DEF ApplyCloseSnapshot
    <3>3. p \in Alive
      BY <1>1 DEF Alive
    <3>4. CASE prior = Nil
      <4>1. Reads(snap, p, at, a)
        BY <1>5, <3>1, <3>4
      <4>2. Owes(snap', p, at, a)
        BY <1>3, <3>1, <3>2, <3>3, <4>1, WriteOwes
      <4> QED
        BY <1>4, <1>6, <2>2, <4>2
    <3>5. CASE prior # Nil
      <4>1. at = prior /\ a = held[p]
        BY <1>5, <3>1, <3>5
      <4>2. Owes(snap, p, at, a)
        BY <1>1, <3>1, <4>1 DEF HeldInv, Owing, prior
      <4>3. CloseRows(snap, p, at) # {}
        BY <4>2 DEF Owes
      <4>4. snap' = snap
        BY <1>3, <3>2, <4>3, WriteIdempotent
      <4> QED
        BY <1>4, <1>6, <2>2, <4>2, <4>4
    <3> QED
      BY <3>4, <3>5
  <2> QED
    BY <2>1, <2>2
<1> QED
  BY <1>10, <1>11

LEMMA NextInv == Inv /\ HeldInv /\ [Next]_vars => Inv' /\ HeldInv'
<1> SUFFICES ASSUME Inv, HeldInv, [Next]_vars
             PROVE  Inv' /\ HeldInv'
  OBVIOUS
<1>1. CASE \E p \in Position, m \in Month, a \in UserAmount : CreateSnapshot(p, m, a)
  BY <1>1, CreateSnapshotInv
<1>2. CASE \E i \in SnapId, a \in UserAmount : UpdateSnapshot(i, a)
  BY <1>2, UpdateSnapshotInv
<1>3. CASE \E i \in SnapId : DeleteSnapshot(i)
  BY <1>3, DeleteSnapshotInv
<1>4. CASE \E p \in Position, ms \in SUBSET Month \ {{}} :
             \E b \in [ms -> UserAmount] : ImportSnapshots(p, ms, b)
  BY <1>4, ImportSnapshotsInv
<1>5. CASE \E m \in Month, ps \in SUBSET Position \ {{}} :
             \E b \in [ps -> UserAmount] : BulkUpsertSnapshots(m, ps, b)
  BY <1>5, BulkUpsertSnapshotsInv
<1>6. CASE \E p \in Position, s \in Status, at \in Month \cup {Nil} : UpdateLifecycle(p, s, at)
  BY <1>6, UpdateLifecycleInv
<1>7. CASE \E p \in Position : DeletePosition(p)
  BY <1>7, DeletePositionInv
<1>8. CASE UNCHANGED vars
  BY <1>8 DEF vars, Inv, TypeOK, TableInv, HeldInv, Owing, Alive, Exists
<1> QED
  BY <1>1, <1>2, <1>3, <1>4, <1>5, <1>6, <1>7, <1>8 DEF Next

LEMMA Invariance == Spec => [](Inv /\ HeldInv)
<1> QED
  BY InitInv, NextInv, PTL DEF Spec

----------------------------------------------------------------------------
(* Theorems *)

\* Every reachable state is well typed.
THEOREM TypeCorrect == Spec => []TypeOK
<1>1. Inv => TypeOK
  BY DEF Inv
<1> QED
  BY <1>1, Invariance, PTL

\* The partial unique index of the snapshot tables is never violated: no
\* restored, upserted or inserted row meets a live one at its month.
THEOREM OneLivePerMonthHolds == Spec => []OneLivePerMonth
<1>1. Inv => OneLivePerMonth
  BY DEF Inv, TableInv, Sound, OneLive, OneLivePerMonth
<1> QED
  BY <1>1, Invariance, PTL

\* The `supersedes` link of a close row always leads to an archived row of the
\* same position and month.
THEOREM SupersedesSoundHolds == Spec => []SupersedesSound
<1>1. Inv => SupersedesSound
  <2> SUFFICES ASSUME Inv PROVE SupersedesSound
    OBVIOUS
  <2>1. PICK S : Sound(snap, Alive, S)
    BY DEF Inv, TableInv
  <2>2. Linked(snap)
    BY <2>1 DEF Sound
  <2>3. \A i \in DOMAIN snap :
          snap[i].supersedes # Nil /\ ~snap[i].deleted => snap[snap[i].supersedes].deleted
    BY <2>1 DEF Sound, Stacked, Live
  <2> QED
    BY <2>2, <2>3 DEF Linked, SupersedesSound
<1> QED
  BY <1>1, Invariance, PTL

\* A deleted position has no live snapshot.
THEOREM NoLiveOrphanHolds == Spec => []NoLiveOrphan
<1>1. Inv => NoLiveOrphan
  BY DEF Inv, TableInv, Sound, NoLiveOrphan, Alive
<1> QED
  BY <1>1, Invariance, PTL

\* revertCloseSnapshot never fails on a terminated position.
THEOREM UnterminateNeverFailsHolds == Spec => []UnterminateNeverFails
<1>1. Inv => UnterminateNeverFails
  <2> SUFFICES ASSUME Inv PROVE UnterminateNeverFails
    OBVIOUS
  <2>1. PICK S : Sound(snap, Alive, S)
    BY DEF Inv, TableInv
  <2> QED
    BY <2>1, RevertCloseSnapshotSound DEF UnterminateNeverFails
<1> QED
  BY <1>1, Invariance, PTL

\* A step that reactivates p is an UpdateLifecycle of p to Active.
LEMMA ReactivationStep ==
  ASSUME Inv, [Next]_vars, NEW p \in Position, Reactivated(p)
  PROVE  snap' \in RevertCloseSnapshot(snap, p, position[p].terminatedAt)
<1> DEFINE prior == position[p].terminatedAt
<1>1. prior # Nil /\ position'[p].terminatedAt = Nil
  BY DEF Reactivated
<1>2. position'[p].terminatedAt # position[p].terminatedAt
  BY <1>1
<1>3. CASE \E q \in Position, s \in Status, at \in Month \cup {Nil} : UpdateLifecycle(q, s, at)
  <2>1. PICK q \in Position, s \in Status, at \in Month \cup {Nil} : UpdateLifecycle(q, s, at)
    BY <1>3
  <2>2. position' = [position EXCEPT ![q].status = s, ![q].terminatedAt = at]
    BY <2>1 DEF UpdateLifecycle
  <2>3. q = p /\ at = Nil
    BY <1>1, <1>2, <2>2 DEF Inv, TypeOK, PositionRow
  <2>4. snap' \in ApplyCloseSnapshot(snap, p, Nil, prior)
    BY <2>1, <2>3 DEF UpdateLifecycle
  <2> QED
    BY <1>1, <2>4 DEF ApplyCloseSnapshot
<1>4. CASE \E q \in Position : DeletePosition(q)
  BY <1>2, <1>4 DEF DeletePosition, Inv, TypeOK, PositionRow
<1>5. CASE UNCHANGED position
  BY <1>2, <1>5
<1> QED
  BY <1>3, <1>4, <1>5 DEF Next, vars, CreateSnapshot, UpdateSnapshot, DeleteSnapshot,
     ImportSnapshots, BulkUpsertSnapshots, UpsertBatch

\* Un-terminating hands back what the month of termination read before, unless
\* the user has written to that month since, or it read zero.
THEOREM UnterminateRestoresHolds == Spec => UnterminateRestores
<1>1. ASSUME Inv, HeldInv, [Next]_vars, NEW p \in Position, Reactivated(p),
             held[p] \notin {Forgotten, Zero}
      PROVE  Restored(p)
  <2>1. PICK S : Sound(snap, Alive, S)
    BY <1>1 DEF Inv, TableInv
  <2>2. Owes(snap, p, position[p].terminatedAt, held[p])
    BY <1>1 DEF HeldInv, Owing, Reactivated
  <2>3. snap' \in RevertCloseSnapshot(snap, p, position[p].terminatedAt)
    BY <1>1, ReactivationStep
  <2> QED
    BY <2>1, <2>2, <2>3, RevertPays DEF Restored
<1>2. Inv /\ HeldInv /\ [Next]_vars =>
        [\A p \in Position :
           Reactivated(p) /\ held[p] \notin {Forgotten, Zero} => Restored(p)]_vars
  BY <1>1
<1> QED
  BY <1>2, Invariance, PTL DEF Spec, UnterminateRestores

\* A reactivated position does not read zero at the month it was closed in,
\* whatever chain of close rows its month has been through.
THEOREM ReactivatedMonthNotZeroHolds == Spec => ReactivatedMonthNotZero
<1>1. ASSUME Inv, [Next]_vars, NEW p \in Position, Reactivated(p)
      PROVE  ~Reads(snap', p, position[p].terminatedAt, Zero)
  <2>1. PICK S : Sound(snap, Alive, S)
    BY <1>1 DEF Inv, TableInv
  <2>2. snap' \in RevertCloseSnapshot(snap, p, position[p].terminatedAt)
    BY <1>1, ReactivationStep
  <2> QED
    BY <2>1, <2>2, RevertNotZero
<1>2. Inv /\ [Next]_vars =>
        [\A p \in Position :
           Reactivated(p) => ~Reads(snap', p, position[p].terminatedAt, Zero)]_vars
  BY <1>1
<1> QED
  BY <1>2, Invariance, PTL DEF Spec, ReactivatedMonthNotZero

\* A compacted backup the database accepts hands back what the original
\* household would on an un-terminate, and it is refused only if a close row
\* displaced one that had itself been a close row: the file carries the live rows
\* and what each of them supersedes, and not what those supersede.
THEOREM CompactedKeepsUndoHolds == Spec => []CompactedKeepsUndo
<1>1. ASSUME Inv PROVE CompactedKeepsUndo
  <2>1. PICK S : Sound(snap, Alive, S)  BY <1>1 DEF Inv, TableInv
  <2>2. /\ IsTable(snap) /\ \A i \in Live(snap) : snap[i].pos \in Kept
        /\ \A i \in Live(snap) : snap[i].supersedes # Nil =>
             /\ snap[i].supersedes \in DOMAIN snap
             /\ snap[snap[i].supersedes].pos \in Kept
    BY <2>1 DEF Sound, Linked, Live, Kept, Alive
  <2>3. /\ DOMAIN CompactedFile = Compacted(snap, Kept)
        /\ \A i \in Compacted(snap, Kept) : CompactedFile[i] = snap[i]
    BY DEF CompactedFile, RestrictTable
  <2>4. /\ Live(snap) \subseteq Compacted(snap, Kept)
        /\ Compacted(snap, Kept) \subseteq DOMAIN snap
        /\ \A i \in Live(snap) : snap[i].supersedes # Nil =>
             snap[i].supersedes \in Compacted(snap, Kept)
    BY <2>2 DEF Compacted, Live
  <2>5. Part(snap, CompactedFile)  BY <2>3, <2>4 DEF Part
  <2>6. \A i \in Live(snap) :
          snap[i].supersedes # Nil => snap[i].supersedes \in DOMAIN CompactedFile
    BY <2>3, <2>4
  <2>7. ASSUME LoadTable(CompactedFile) = {} PROVE DisplacedTwice
    <3>1. PICK i \in Compacted(snap, Kept) :
            snap[i].supersedes \notin Compacted(snap, Kept) \cup {Nil}
      BY <2>3, <2>7 DEF LoadTable, ForeignKeysHold
    <3>2. i \notin Live(snap)  BY <2>4, <3>1
    <3>3. PICK j \in Live(snap) : snap[j].supersedes = i
      BY <2>4, <3>1, <3>2 DEF Compacted, Live
    <3>4. i # Nil  BY <2>2, <2>4, TableAssumption DEF IsTable
    <3> QED  BY <3>1, <3>3, <3>4 DEF DisplacedTwice
  <2>8. ASSUME NEW loaded \in LoadTable(CompactedFile),
               NEW p \in Kept, position[p].terminatedAt # Nil,
               NEW t \in RevertCloseSnapshot(snap, p, position[p].terminatedAt)
        PROVE  \E u \in RevertCloseSnapshot(loaded, p, position[p].terminatedAt) :
                 \A a \in Amount \cup {Nil} :
                   Reads(t, p, position[p].terminatedAt, a) <=> Reads(u, p, position[p].terminatedAt, a)
    <3>1. loaded = CompactedFile  BY DEF LoadTable
    <3> QED  BY <2>2, <2>5, <2>6, <2>8, <3>1, PartRevert
  <2> QED  BY <2>7, <2>8 DEF CompactedKeepsUndo
<1> QED
  BY <1>1, Invariance, PTL

----------------------------------------------------------------------------
(* The requests taken apart into statements (LifecycleTx) *)

InCell(row, p, m) == row.pos = p /\ row.month = m

\* A link leads to another row of its cell, from a live row to an archived one.
LinksDown(v) ==
  \A i \in DOMAIN v : v[i].supersedes # Nil =>
    /\ v[i].supersedes \in DOMAIN v
    /\ v[i].supersedes # i
    /\ InCell(v[v[i].supersedes], v[i].pos, v[i].month)
    /\ v[i].deleted \/ v[v[i].supersedes].deleted

Good(v) == IsTable(v) /\ OneLive(v) /\ LinksDown(v)

\* A row that is written over keeps its cell and its link.
Follows(f, g) ==
  \A i \in DOMAIN f \cap DOMAIN g :
    InCell(f[i], g[i].pos, g[i].month) /\ f[i].supersedes = g[i].supersedes

Apart(f, g) ==
  /\ DOMAIN f \cap DOMAIN g = {}
  /\ \A i \in DOMAIN f, j \in DOMAIN g : ~InCell(f[i], g[j].pos, g[j].month)

----------------------------------------------------------------------------
(* Tables seen through other tables *)

\* One row laid over a table is that row put into it.
LEMMA OverOne ==
  ASSUME NEW f, NEW i, NEW row
  PROVE  Over([j \in {i} |-> row], f) = Insert(f, i, row)
BY DEF Over, Insert

LEMMA OverInsert ==
  ASSUME NEW f, NEW g, NEW i, NEW row
  PROVE  Over(Insert(f, i, row), g) = Insert(Over(f, g), i, row)
BY DEF Over, Insert

\* The same rows are as good.
LEMMA GoodSame ==
  ASSUME NEW v, NEW w, Good(v), DOMAIN w = DOMAIN v, \A i \in DOMAIN v : w[i] = v[i]
  PROVE  Good(w)
<1>1. Live(w) = Live(v)
  BY DEF Live
<1>2. IsTable(w)
  BY DEF Good, IsTable
<1>3. OneLive(w)
  BY <1>1 DEF Good, OneLive, Live
<1>4. LinksDown(w)
  BY DEF Good, LinksDown, InCell
<1> QED  BY <1>2, <1>3, <1>4 DEF Good

\* A statement writes a row: one that is there keeps its cell and its link, one
\* that is not may link to a row of its cell; and it is live only if it was, or
\* if its cell holds no live row.
LEMMA GoodPut ==
  ASSUME NEW v, Good(v), NEW i \in SnapId, NEW row \in Row,
         i \in DOMAIN v => InCell(v[i], row.pos, row.month) /\ v[i].supersedes = row.supersedes,
         i \notin DOMAIN v /\ row.supersedes # Nil =>
           row.supersedes \in DOMAIN v /\ InCell(v[row.supersedes], row.pos, row.month),
         row.deleted \/ i \in Live(v) \/ LiveAt(v, row.pos, row.month) = {},
         NEW w, w = Insert(v, i, row)
  PROVE  Good(w)
<1>1. /\ DOMAIN w = DOMAIN v \cup {i}
      /\ w[i] = row
      /\ \A j \in DOMAIN v \ {i} : w[j] = v[j]
  BY DEF Insert
<1>2. IsTable(w)
  BY <1>1 DEF Good, IsTable
<1>3. \A j \in DOMAIN w : w[j].pos \in Position /\ (w[j].deleted \in BOOLEAN)
  BY <1>2 DEF IsTable, Row
<1>4. \A j \in DOMAIN v : /\ j \in DOMAIN w
                          /\ w[j].pos = v[j].pos /\ w[j].month = v[j].month
                          /\ w[j].supersedes = v[j].supersedes
  BY <1>1 DEF InCell
<1>5. \A j \in Live(w) : j # i => j \in Live(v)
  BY <1>1 DEF Live
<1>6. ASSUME i \in Live(w), i \notin Live(v), NEW j \in Live(v)
      PROVE  ~InCell(v[j], row.pos, row.month)
  <2>1. ~row.deleted
    BY <1>1, <1>6 DEF Live
  <2>2. LiveAt(v, row.pos, row.month) = {}
    BY <1>6, <2>1
  <2> QED  BY <1>6, <2>2 DEF LiveAt, InCell
<1>7. OneLive(w)
  <2>1. SUFFICES ASSUME NEW j \in Live(w), NEW k \in Live(w), j # k,
                        w[j].pos = w[k].pos, w[j].month = w[k].month
                 PROVE  FALSE
    BY DEF OneLive
  <2>2. Live(w) \subseteq DOMAIN w /\ Live(v) \subseteq DOMAIN v
    BY DEF Live
  <2>3. ASSUME j # i, k # i
        PROVE  FALSE
    BY <1>4, <1>5, <2>1, <2>2, <2>3 DEF Good, OneLive
  <2>4. ASSUME NEW l \in Live(w), l # i, w[l].pos = w[i].pos, w[l].month = w[i].month,
               i \in Live(w)
        PROVE  FALSE
    <3>1. l \in Live(v) /\ l \in DOMAIN v
      BY <1>5, <2>2, <2>4
    <3>2. InCell(v[l], row.pos, row.month)
      BY <1>1, <1>4, <2>4, <3>1 DEF InCell
    <3>3. i \in Live(v)
      BY <1>6, <2>4, <3>1, <3>2
    <3> QED  BY <1>4, <2>2, <2>4, <3>1, <3>3 DEF Good, OneLive
  <2> QED  BY <2>1, <2>3, <2>4
<1>8. LinksDown(w)
  <2>1. SUFFICES ASSUME NEW j \in DOMAIN w, w[j].supersedes # Nil
                 PROVE  /\ w[j].supersedes \in DOMAIN w
                        /\ w[j].supersedes # j
                        /\ InCell(w[w[j].supersedes], w[j].pos, w[j].month)
                        /\ w[j].deleted \/ w[w[j].supersedes].deleted
    BY DEF LinksDown
  <2> DEFINE s == w[j].supersedes
  <2>2. s \in DOMAIN v /\ s # j /\ InCell(v[s], w[j].pos, w[j].month)
    <3>1. CASE j \in DOMAIN v
      <4>1. v[j].supersedes = s
        BY <1>4, <3>1
      <4> QED  BY <1>4, <2>1, <3>1, <4>1 DEF Good, LinksDown
    <3>2. CASE j \notin DOMAIN v
      BY <1>1, <2>1, <3>2
    <3> QED  BY <3>1, <3>2
  <2> HIDE DEF s
  <2>3. s \in DOMAIN w /\ InCell(w[s], w[j].pos, w[j].month)
    BY <1>4, <2>2 DEF InCell
  <2>4. ASSUME ~w[j].deleted, ~w[s].deleted
        PROVE  FALSE
    <3>1. j \in Live(w) /\ s \in Live(w)
      BY <2>3, <2>4 DEF Live
    <3> QED  BY <1>7, <2>2, <2>3, <3>1 DEF OneLive, InCell
  <2> QED  BY <2>2, <2>3, <2>4 DEF s
<1> QED  BY <1>2, <1>7, <1>8 DEF Good

\* A transaction commits: those that wrote to other cells see what they saw at
\* theirs, and what was committed at the others.
LEMMA GoodMerge ==
  ASSUME NEW f, NEW g, NEW sn,
         Good(Over(f, sn)), Good(Over(g, sn)),
         Follows(f, sn), Follows(g, sn), Apart(f, g)
  PROVE  Good(Over(g, Over(f, sn))) /\ Follows(g, Over(f, sn))
<1> DEFINE vf == Over(f, sn)
           vg == Over(g, sn)
           w == Over(g, vf)
<1>1. /\ DOMAIN vf = DOMAIN f \cup DOMAIN sn
      /\ DOMAIN vg = DOMAIN g \cup DOMAIN sn
      /\ DOMAIN w = DOMAIN g \cup DOMAIN f \cup DOMAIN sn
  BY DEF Over
<1>2. /\ \A i \in DOMAIN f : vf[i] = f[i]
      /\ \A i \in DOMAIN sn \ DOMAIN f : vf[i] = sn[i]
      /\ \A i \in DOMAIN g : vg[i] = g[i]
      /\ \A i \in DOMAIN sn \ DOMAIN g : vg[i] = sn[i]
      /\ \A i \in DOMAIN g : w[i] = g[i]
      /\ \A i \in DOMAIN vf \ DOMAIN g : w[i] = vf[i]
  BY DEF Over
<1> HIDE DEF vf, vg, w
<1>3. Good(vf) /\ Good(vg)
  BY DEF vf, vg
<1>4. \A i \in DOMAIN f : i \notin DOMAIN g
  BY DEF Apart
<1>5. \A i \in DOMAIN w \ DOMAIN g : i \in DOMAIN vf /\ w[i] = vf[i]
  BY <1>1, <1>2
<1>6. \A i \in DOMAIN w \ DOMAIN f : i \in DOMAIN vg /\ w[i] = vg[i]
  BY <1>1, <1>2
<1>7. IsTable(w)
  BY <1>3, <1>4, <1>5, <1>6 DEF Good, IsTable
<1>8. \A i \in DOMAIN f, j \in DOMAIN g : ~InCell(w[i], w[j].pos, w[j].month)
  BY <1>1, <1>2, <1>4 DEF Apart
<1>9. OneLive(w)
  <2>1. SUFFICES ASSUME NEW j \in Live(w), NEW k \in Live(w), j # k,
                        w[j].pos = w[k].pos, w[j].month = w[k].month
                 PROVE  FALSE
    BY DEF OneLive
  <2>2. j \in DOMAIN w /\ k \in DOMAIN w /\ ~w[j].deleted /\ ~w[k].deleted
    BY DEF Live
  <2>3. \/ j \notin DOMAIN f /\ k \notin DOMAIN f
        \/ j \notin DOMAIN g /\ k \notin DOMAIN g
    BY <1>4, <1>8, <2>1, <2>2 DEF InCell
  <2>4. ASSUME j \notin DOMAIN f /\ k \notin DOMAIN f
        PROVE  FALSE
    <3>1. j \in Live(vg) /\ k \in Live(vg) /\ w[j] = vg[j] /\ w[k] = vg[k]
      BY <1>6, <2>2, <2>4 DEF Live
    <3> QED  BY <1>3, <2>1, <3>1 DEF Good, OneLive
  <2>5. ASSUME j \notin DOMAIN g /\ k \notin DOMAIN g
        PROVE  FALSE
    <3>1. j \in Live(vf) /\ k \in Live(vf) /\ w[j] = vf[j] /\ w[k] = vf[k]
      BY <1>5, <2>2, <2>5 DEF Live
    <3> QED  BY <1>3, <2>1, <3>1 DEF Good, OneLive
  <2> QED  BY <2>3, <2>4, <2>5
<1>10. \A i \in DOMAIN vf : i \in DOMAIN w /\ InCell(w[i], vf[i].pos, vf[i].month)
                           /\ w[i].supersedes = vf[i].supersedes
  <2>1. TAKE i \in DOMAIN vf
  <2>2. CASE i \notin DOMAIN g
    BY <1>1, <1>5, <2>2 DEF InCell
  <2>3. CASE i \in DOMAIN g
    BY <1>1, <1>2, <1>4, <2>3 DEF Follows, InCell
  <2> QED  BY <2>2, <2>3
<1>11. \A i \in DOMAIN vg : i \in DOMAIN w /\ InCell(w[i], vg[i].pos, vg[i].month)
                           /\ w[i].supersedes = vg[i].supersedes
  <2>1. TAKE i \in DOMAIN vg
  <2>2. CASE i \notin DOMAIN f
    BY <1>1, <1>6, <2>2 DEF InCell
  <2>3. CASE i \in DOMAIN f
    BY <1>1, <1>2, <1>4, <2>3 DEF Follows, InCell
  <2> QED  BY <2>2, <2>3
<1>12. LinksDown(w)
  <2>1. SUFFICES ASSUME NEW j \in DOMAIN w, w[j].supersedes # Nil
                 PROVE  /\ w[j].supersedes \in DOMAIN w
                        /\ w[j].supersedes # j
                        /\ InCell(w[w[j].supersedes], w[j].pos, w[j].month)
                        /\ w[j].deleted \/ w[w[j].supersedes].deleted
    BY DEF LinksDown
  <2> DEFINE s == w[j].supersedes
  <2>2. s \in DOMAIN w /\ s # j /\ InCell(w[s], w[j].pos, w[j].month)
    <3>1. CASE j \in DOMAIN vf
      <4>1. s = vf[j].supersedes /\ InCell(w[j], vf[j].pos, vf[j].month)
        BY <1>10, <3>1
      <4>2. s \in DOMAIN vf /\ s # j /\ InCell(vf[s], vf[j].pos, vf[j].month)
        BY <1>3, <2>1, <3>1, <4>1 DEF Good, LinksDown
      <4> QED  BY <1>10, <4>1, <4>2 DEF InCell
    <3>2. CASE j \in DOMAIN vg
      <4>1. s = vg[j].supersedes /\ InCell(w[j], vg[j].pos, vg[j].month)
        BY <1>11, <3>2
      <4>2. s \in DOMAIN vg /\ s # j /\ InCell(vg[s], vg[j].pos, vg[j].month)
        BY <1>3, <2>1, <3>2, <4>1 DEF Good, LinksDown
      <4> QED  BY <1>11, <4>1, <4>2 DEF InCell
    <3> QED  BY <1>1, <3>1, <3>2
  <2>3. ASSUME ~w[j].deleted, ~w[s].deleted
        PROVE  FALSE
    <3>1. j \in Live(w) /\ s \in Live(w)
      BY <2>2, <2>3 DEF Live
    <3> QED  BY <1>9, <2>2, <3>1 DEF OneLive, InCell
  <2> QED  BY <2>2, <2>3
<1>13. Follows(g, vf)
  BY <1>1, <1>2, <1>4 DEF Follows
<1> QED  BY <1>7, <1>9, <1>12, <1>13 DEF Good, w, vf

----------------------------------------------------------------------------
(* The invariant *)

LifecycleReq == [pos : Position, at : Month \cup {Nil}, prior : Month \cup {Nil},
                 seen : SnapId \cup {Nil}]

DeleteReq == [pos : Position, targets : Seq(SnapId)]

BatchReq(cells) == [batch : [cells -> UserAmount], queue : Seq(cells)]

\* A row f has written that leaves <<p, m>> at amount a.
Wrote(f, p, m, a) ==
  \E i \in DOMAIN f : ~f[i].deleted /\ InCell(f[i], p, m) /\ f[i].amount = a

Flipped(r) == [p \in {r.pos} |-> [terminatedAt |-> r.at, deleted |-> FALSE]]

\* A lifecycle request r at statement st, with f written to the snapshot table and
\* pa to the parent table: what it saw is of the cell it closes or reopens.
Closing(st, r, f, pa, sn) ==
  /\ r \in LifecycleReq
  /\ st \in {"look", "refresh", "displace", "place"} => r.at # Nil \/ r.prior # Nil
  /\ st \in {"flip", "look", "refresh", "displace"} => DOMAIN f = {}
  /\ st \in {"flip", "look"} => r.seen = Nil
  /\ st \in {"refresh", "displace"} =>
       r.seen \in DOMAIN sn /\ InCell(sn[r.seen], r.pos, CloseMonth(r))
  /\ st = "refresh" => r.at # Nil
  /\ st = "place" =>
       \/ r.at # Nil /\ r.seen = Nil
       \/ /\ r.seen \in DOMAIN f
          /\ InCell(f[r.seen], r.pos, CloseMonth(r))
          /\ r.at = Nil => f[r.seen].supersedes # Nil
  /\ st = "commit" /\ r.at # Nil => Wrote(f, r.pos, r.at, Zero)
  /\ pa = IF st = "flip" THEN Empty ELSE Flipped(r)

\* A deletion: its targets are rows of its position.
Deleting(st, r, pa, sn) ==
  /\ r \in DeleteReq
  /\ \A k \in DOMAIN r.targets : r.targets[k] \in DOMAIN sn /\ sn[r.targets[k]].pos = r.pos
  /\ st = "cascade" => r.targets # <<>>
  /\ \A p \in DOMAIN pa : p = r.pos /\ pa[p] \in ParentRow /\ pa[p].deleted

\* A batch: the cells that are not in its queue any more are written.
Batching(st, r, f, pa) ==
  \E cells \in SUBSET (Position \X Month) :
    /\ r \in BatchReq(cells)
    /\ st = "upsert" => r.queue # <<>>
    /\ st = "commit" => r.queue = <<>>
    /\ \A c \in cells : \/ \E k \in DOMAIN r.queue : r.queue[k] = c
                        \/ Wrote(f, c[1], c[2], r.batch[c])
    /\ pa = Empty

Request(st, r, f, pa, sn) ==
  \/ st = "idle" /\ DOMAIN f = {} /\ pa = Empty
  \/ st \in {"flip", "look", "refresh", "displace", "place", "commit"} /\ Closing(st, r, f, pa, sn)
  \/ st \in {"cascade", "tombstone", "commit"} /\ Deleting(st, r, pa, sn)
  \/ st \in {"upsert", "commit"} /\ Batching(st, r, f, pa)

\* What a transaction has written, and what it sees with it.
Written(f, sn) ==
  /\ IsTable(f)
  /\ IsFiniteSet(DOMAIN f)
  /\ Follows(f, sn)
  /\ Good(Over(f, sn))

TxInv ==
  /\ position \in [Position -> ParentRow]
  /\ DOMAIN step = Tx /\ DOMAIN req = Tx /\ DOMAIN rows = Tx /\ DOMAIN parent = Tx
  /\ IsFiniteSet(DOMAIN snap)
  /\ Good(snap)
  /\ \A t \in Tx : Written(rows[t], snap) /\ Request(step[t], req[t], rows[t], parent[t], snap)
  /\ \A t, u \in Tx : t # u => Apart(rows[t], rows[u])

LEMMA TxInitInv == TxInit => TxInv
<1> SUFFICES ASSUME TxInit PROVE TxInv
  OBVIOUS
<1>1. DOMAIN Empty = {} /\ DOMAIN snap = {}
  BY DEF TxInit, Empty
<1>2. \A t \in Tx : DOMAIN rows[t] = {} /\ step[t] = "idle" /\ parent[t] = Empty
  BY <1>1 DEF TxInit
<1>3. IsFiniteSet(DOMAIN snap) /\ \A t \in Tx : IsFiniteSet(DOMAIN rows[t])
  BY <1>1, <1>2, FS_EmptySet
<1>4. \A v : DOMAIN v = {} => Good(v)
  BY DEF Good, IsTable, OneLive, LinksDown, Live
<1>5. \A t \in Tx : DOMAIN Over(rows[t], snap) = {}
  BY <1>1, <1>2 DEF Over
<1>6. \A t \in Tx : Written(rows[t], snap)
  BY <1>1, <1>2, <1>3, <1>4, <1>5 DEF Written, IsTable, Follows
<1>7. position \in [Position -> ParentRow]
  BY DEF TxInit, ParentRow
<1> QED
  BY <1>1, <1>2, <1>3, <1>4, <1>6, <1>7 DEF TxInit, TxInv, Request, Apart

----------------------------------------------------------------------------
(* Frames *)

\* What x holds for each transaction is in y, but z for t.
Sets(x, y, t, z) ==
  DOMAIN y = Tx /\ y[t] = z /\ \A u \in Tx \ {t} : y[u] = x[u]

\* A step of t that commits nothing.
LEMMA StepInv ==
  ASSUME TxInv, NEW t \in Tx, NEW st, NEW r, NEW f, NEW pa,
         UNCHANGED <<position, snap>>,
         Sets(step, step', t, st), Sets(req, req', t, r),
         Sets(rows, rows', t, f), Sets(parent, parent', t, pa),
         Written(f, snap), Request(st, r, f, pa, snap),
         \A u \in Tx \ {t} : Apart(f, rows[u])
  PROVE  TxInv'
<1>1. \A u \in Tx \ {t} : /\ step'[u] = step[u] /\ req'[u] = req[u]
                          /\ rows'[u] = rows[u] /\ parent'[u] = parent[u]
  BY DEF Sets
<1>2. step'[t] = st /\ req'[t] = r /\ rows'[t] = f /\ parent'[t] = pa
  BY DEF Sets
<1>3. \A u \in Tx : Written(rows'[u], snap) /\ Request(step'[u], req'[u], rows'[u], parent'[u], snap)
  BY <1>1, <1>2 DEF TxInv
<1>4. \A u \in Tx \ {t} : Apart(rows[u], f)
  BY DEF Apart, InCell
<1>5. \A u, w \in Tx : u # w => Apart(rows'[u], rows'[w])
  BY <1>1, <1>2, <1>4 DEF TxInv
<1> QED
  BY <1>3, <1>5 DEF TxInv, Sets, Written, Good, OneLive, LinksDown, IsTable, Live

\* The committed table takes in what has been written to cells u has not: for u
\* nothing changes.
LEMMA SnapMoves ==
  ASSUME TxInv, NEW u \in Tx, NEW f, Follows(f, snap), Good(Over(f, snap)), Apart(f, rows[u]),
         snap' = Over(f, snap)
  PROVE  Written(rows[u], snap') /\ Request(step[u], req[u], rows[u], parent[u], snap')
<1>1. Good(Over(rows[u], snap)) /\ Follows(rows[u], snap)
  BY DEF TxInv, Written
<1>2. Good(Over(rows[u], snap')) /\ Follows(rows[u], snap')
  BY <1>1, GoodMerge
<1>3. Written(rows[u], snap')
  BY <1>2 DEF TxInv, Written
<1>4. \A i \in DOMAIN snap : i \in DOMAIN snap' /\ InCell(snap'[i], snap[i].pos, snap[i].month)
  BY DEF Over, Follows, InCell
<1>5. Request(step[u], req[u], rows[u], parent[u], snap)
  BY DEF TxInv
<1>6. ASSUME Closing(step[u], req[u], rows[u], parent[u], snap)
      PROVE  Closing(step[u], req[u], rows[u], parent[u], snap')
  BY <1>4, <1>6 DEF Closing, InCell
<1>7. ASSUME Deleting(step[u], req[u], parent[u], snap)
      PROVE  Deleting(step[u], req[u], parent[u], snap')
  BY <1>4, <1>7 DEF Deleting, InCell
<1> QED  BY <1>3, <1>5, <1>6, <1>7 DEF Request

\* No transaction but t has written to the cell <<p, m>>.
Clear(t, p, m) == \A u \in Tx \ {t} : ~HoldsCell(u, p, m)

\* A statement of t writes row to i in a cell it is clear to write to.
LEMMA WriteRow ==
  ASSUME TxInv, NEW t \in Tx, NEW i \in SnapId, NEW row \in Row, Clear(t, row.pos, row.month),
         \/ /\ i \in DOMAIN View(t)
            /\ InCell(View(t)[i], row.pos, row.month)
            /\ row.supersedes = View(t)[i].supersedes
         \/ /\ i \in Unused
            /\ row.supersedes # Nil =>
                 /\ row.supersedes \in DOMAIN View(t)
                 /\ InCell(View(t)[row.supersedes], row.pos, row.month),
         row.deleted \/ i \in Live(View(t)) \/ LiveAt(View(t), row.pos, row.month) = {},
         NEW f, f = Insert(rows[t], i, row)
  PROVE  Written(f, snap) /\ \A u \in Tx \ {t} : Apart(f, rows[u])
<1> DEFINE v == View(t)
<1>1. /\ DOMAIN f = DOMAIN rows[t] \cup {i}
      /\ f[i] = row
      /\ \A j \in DOMAIN rows[t] \ {i} : f[j] = rows[t][j]
  BY DEF Insert
<1>2. /\ DOMAIN v = DOMAIN rows[t] \cup DOMAIN snap
      /\ \A j \in DOMAIN rows[t] : v[j] = rows[t][j]
      /\ \A j \in DOMAIN snap \ DOMAIN rows[t] : v[j] = snap[j]
  BY DEF View, Over
<1>3. Over(f, snap) = Insert(v, i, row)
  BY OverInsert DEF View
<1>4. Good(v) /\ IsTable(rows[t]) /\ IsFiniteSet(DOMAIN rows[t]) /\ Follows(rows[t], snap)
  BY DEF TxInv, Written, View
<1>5. i \in Unused => i \notin DOMAIN v /\ \A u \in Tx : i \notin DOMAIN rows[u]
  BY <1>2 DEF Unused
<1> HIDE DEF v
<1>6. Good(Over(f, snap))
  BY <1>3, <1>4, <1>5, GoodPut DEF v
<1>7. IsTable(f)
  BY <1>1, <1>4 DEF IsTable
<1>8. IsFiniteSet(DOMAIN f)
  BY <1>1, <1>4, FS_AddElement
<1>9. Follows(f, snap)
  <2>1. ASSUME i \in DOMAIN snap
        PROVE  InCell(row, snap[i].pos, snap[i].month) /\ row.supersedes = snap[i].supersedes
    <3>1. i \in DOMAIN v /\ InCell(v[i], row.pos, row.month) /\ row.supersedes = v[i].supersedes
      BY <1>2, <1>5, <2>1 DEF v
    <3> QED  BY <1>2, <1>4, <2>1, <3>1 DEF Follows, InCell
  <2> QED  BY <1>1, <1>4, <2>1 DEF Follows
<1>10. ASSUME NEW u \in Tx \ {t}
       PROVE  Apart(f, rows[u])
  <2>1. Apart(rows[t], rows[u]) /\ Follows(rows[u], snap)
    BY DEF TxInv, Written
  <2>2. \A j \in DOMAIN rows[u] : ~InCell(rows[u][j], row.pos, row.month)
    BY DEF Clear, HoldsCell, InCell
  <2>3. i \notin DOMAIN rows[u]
    <3>1. CASE i \in Unused
      BY <1>5, <3>1
    <3>2. CASE i \in DOMAIN v /\ InCell(v[i], row.pos, row.month)
      BY <1>2, <2>1, <2>2, <3>2 DEF Apart, Follows, InCell
    <3> QED  BY <3>1, <3>2 DEF v
  <2> QED  BY <1>1, <2>1, <2>2, <2>3 DEF Apart, InCell
<1> QED  BY <1>6, <1>7, <1>8, <1>9, <1>10 DEF Written

----------------------------------------------------------------------------
(* Every action keeps the invariant *)

\* What is unchanged is set to what it is; and what EXCEPT sets, it sets.
LEMMA SetsFacts ==
  ASSUME TxInv, NEW t \in Tx
  PROVE  /\ Sets(step, step, t, step[t])
         /\ Sets(req, req, t, req[t])
         /\ Sets(rows, rows, t, rows[t])
         /\ Sets(parent, parent, t, parent[t])
         /\ \A z : /\ Sets(step, [step EXCEPT ![t] = z], t, z)
                   /\ Sets(req, [req EXCEPT ![t] = z], t, z)
                   /\ Sets(rows, [rows EXCEPT ![t] = z], t, z)
                   /\ Sets(parent, [parent EXCEPT ![t] = z], t, z)
BY DEF TxInv, Sets

\* A transaction that has written nothing sees the committed table.
LEMMA NothingWritten ==
  ASSUME TxInv, NEW f, DOMAIN f = {}
  PROVE  /\ Written(f, snap)
         /\ \A u \in Tx : Apart(f, rows[u])
         /\ DOMAIN Over(f, snap) = DOMAIN snap
         /\ \A i \in DOMAIN snap : Over(f, snap)[i] = snap[i]
<1>1. /\ DOMAIN Over(f, snap) = DOMAIN snap
      /\ \A i \in DOMAIN snap : Over(f, snap)[i] = snap[i]
  BY DEF Over
<1>2. Good(Over(f, snap))
  BY <1>1, GoodSame DEF TxInv
<1>3. IsFiniteSet(DOMAIN f)
  BY FS_EmptySet
<1> QED  BY <1>1, <1>2, <1>3 DEF Written, IsTable, Follows, Apart

LEMMA AbortInv ==
  ASSUME TxInv, NEW t \in Tx, Abort(t)
  PROVE  TxInv'
<1>1. DOMAIN Empty = {}
  BY DEF Empty
<1>2. /\ Sets(step, step', t, "idle") /\ Sets(req, req', t, Empty)
      /\ Sets(rows, rows', t, Empty) /\ Sets(parent, parent', t, Empty)
      /\ UNCHANGED <<position, snap>>
  BY SetsFacts DEF Abort, End, Goto, WriteRows
<1>3. Request("idle", Empty, Empty, Empty, snap)
  BY <1>1 DEF Request
<1>4. Written(Empty, snap) /\ \A u \in Tx \ {t} : Apart(Empty, rows[u])
  BY <1>1, NothingWritten
<1> QED  BY <1>2, <1>3, <1>4, StepInv

LEMMA BeginLifecycleInv ==
  ASSUME TxInv, NEW t \in Tx, NEW p \in Position, NEW at \in Month \cup {Nil},
         BeginLifecycle(t, p, at)
  PROVE  TxInv'
<1> DEFINE r == [pos |-> p, at |-> at, prior |-> position[p].terminatedAt, seen |-> Nil]
<1>1. /\ Sets(step, step', t, "flip") /\ Sets(req, req', t, r)
      /\ Sets(rows, rows', t, rows[t]) /\ Sets(parent, parent', t, parent[t])
      /\ UNCHANGED <<position, snap>>
  BY SetsFacts DEF BeginLifecycle, Goto
<1>2. DOMAIN rows[t] = {} /\ parent[t] = Empty
  BY DEF BeginLifecycle, TxInv, Request
<1>3. position[p].terminatedAt \in Month \cup {Nil}
  BY DEF TxInv, ParentRow
<1>4. Closing("flip", r, rows[t], parent[t], snap)
  BY <1>2, <1>3 DEF Closing, LifecycleReq
<1>5. Written(rows[t], snap) /\ \A u \in Tx \ {t} : Apart(rows[t], rows[u])
  BY DEF TxInv
<1> HIDE DEF r
<1>6. Request("flip", r, rows[t], parent[t], snap)
  BY <1>4 DEF Request
<1> QED  BY <1>1, <1>5, <1>6, StepInv

LEMMA FlipInv ==
  ASSUME TxInv, NEW t \in Tx, Flip(t)
  PROVE  TxInv'
<1>1. CASE Abort(t)
  BY <1>1, AbortInv
<1>2. CASE ~Abort(t)
  <2> DEFINE r == req[t]
             st == IF r.at = Nil /\ r.prior = Nil THEN "commit" ELSE "look"
             pa == Flipped(r)
  <2>1. /\ Sets(step, step', t, st) /\ Sets(req, req', t, r)
        /\ Sets(rows, rows', t, rows[t]) /\ Sets(parent, parent', t, pa)
        /\ UNCHANGED <<position, snap>>
    <3>1. /\ step' = [step EXCEPT ![t] = st] /\ parent' = [parent EXCEPT ![t] = pa]
          /\ UNCHANGED <<position, snap, req, rows>>
      BY <1>2 DEF Flip, Goto, Flipped
    <3> HIDE DEF r, st, pa
    <3>2. r = req[t]
      BY DEF r
    <3> QED  BY <3>1, <3>2, SetsFacts
  <2>2. Closing("flip", r, rows[t], parent[t], snap)
    BY DEF Flip, Runs, TxInv, Request
  <2>3. Closing(st, r, rows[t], pa, snap)
    BY <2>2 DEF Closing
  <2>4. st \in {"commit", "look"}
    OBVIOUS
  <2>5. Written(rows[t], snap) /\ \A u \in Tx \ {t} : Apart(rows[t], rows[u])
    BY DEF TxInv
  <2> HIDE DEF r, st, pa
  <2>6. Request(st, r, rows[t], pa, snap)
    BY <2>3, <2>4 DEF Request
  <2> QED  BY <2>1, <2>5, <2>6, StepInv
<1> QED  BY <1>1, <1>2

LEMMA LookInv ==
  ASSUME TxInv, NEW t \in Tx, Look(t)
  PROVE  TxInv'
<1> DEFINE r == req[t]
           live == LiveAt(View(t), r.pos, CloseMonth(r))
           zero == {i \in live : View(t)[i].amount = Zero}
<1>1. Closing("look", r, rows[t], parent[t], snap)
  BY DEF Look, TxInv, Request
<1>2. Written(rows[t], snap) /\ \A u \in Tx \ {t} : Apart(rows[t], rows[u])
  BY DEF TxInv
<1>3. \A i \in live : i \in DOMAIN snap /\ InCell(snap[i], r.pos, CloseMonth(r)) /\ i \in SnapId
  <2>1. DOMAIN rows[t] = {}
    BY <1>1 DEF Closing
  <2>2. /\ DOMAIN View(t) = DOMAIN snap
        /\ \A i \in DOMAIN snap : View(t)[i] = snap[i]
    BY <2>1, NothingWritten DEF View
  <2> QED  BY <2>2 DEF LiveAt, Live, InCell, TxInv, Good, IsTable
<1>4. CASE live = {} /\ req' = req
  <2> DEFINE st == IF r.at # Nil THEN "place" ELSE "commit"
  <2>1. Sets(step, step', t, st) /\ Sets(req, req', t, r) /\ UNCHANGED <<position, snap>>
    <3>1. step' = [step EXCEPT ![t] = st] /\ UNCHANGED <<position, snap>>
      BY <1>4 DEF Look, Goto
    <3> HIDE DEF st
    <3> QED  BY <1>4, <3>1, SetsFacts
  <2>2. Sets(rows, rows', t, rows[t]) /\ Sets(parent, parent', t, parent[t])
    BY SetsFacts DEF Look
  <2>3. Closing(st, r, rows[t], parent[t], snap) /\ st \in {"place", "commit"}
    BY <1>1 DEF Closing
  <2> HIDE DEF r, st
  <2>4. Request(st, r, rows[t], parent[t], snap)
    BY <2>3 DEF Request
  <2> QED  BY <1>2, <2>1, <2>2, <2>4, StepInv
<1>5. ASSUME NEW i \in live, req' = [req EXCEPT ![t].seen = i],
             Goto(t, IF r.at # Nil THEN (IF i \in zero THEN "refresh" ELSE "displace")
                                   ELSE (IF i \in zero THEN "displace" ELSE "commit"))
      PROVE  TxInv'
  <2> DEFINE st == IF r.at # Nil THEN (IF i \in zero THEN "refresh" ELSE "displace")
                                 ELSE (IF i \in zero THEN "displace" ELSE "commit")
             q == [r EXCEPT !.seen = i]
  <2>1. step' = [step EXCEPT ![t] = st] /\ req' = [req EXCEPT ![t] = q]
    BY <1>5 DEF Goto, TxInv
  <2>2. Closing(st, q, rows[t], parent[t], snap)
    <3>1. /\ q.pos = r.pos /\ q.at = r.at /\ q.prior = r.prior /\ q.seen = i
          /\ q \in LifecycleReq
      BY <1>1, <1>3 DEF Closing, LifecycleReq
    <3>2. CloseMonth(q) = CloseMonth(r) /\ Flipped(q) = Flipped(r)
      BY <3>1 DEF CloseMonth, Flipped
    <3> HIDE DEF q, r
    <3> QED  BY <1>1, <1>3, <3>1, <3>2 DEF Closing
  <2>3. st \in {"refresh", "displace", "commit"}
    OBVIOUS
  <2> HIDE DEF r, st, q
  <2>4. Sets(step, step', t, st) /\ Sets(req, req', t, q)
    BY <2>1, SetsFacts
  <2>5. /\ Sets(rows, rows', t, rows[t]) /\ Sets(parent, parent', t, parent[t])
        /\ UNCHANGED <<position, snap>>
    BY SetsFacts DEF Look
  <2>6. Request(st, q, rows[t], parent[t], snap)
    BY <2>2, <2>3 DEF Request
  <2> QED  BY <1>2, <2>4, <2>5, <2>6, StepInv
<1> QED  BY <1>4, <1>5 DEF Look

Zeroed(row) == [row EXCEPT !.amount = Zero]

\* refreshZero and archive write over the row that has been seen.
LEMMA OverSeen ==
  ASSUME TxInv, NEW t \in Tx, DOMAIN rows[t] = {}, NEW i \in DOMAIN snap, NEW p, NEW m,
         InCell(snap[i], p, m), Clear(t, p, m), i \in Live(View(t)),
         NEW row, \/ row = Zeroed(View(t)[i])
                  \/ row = Tombstone(View(t)[i]),
         NEW f, f = Insert(rows[t], i, row)
  PROVE  /\ Written(f, snap) /\ \A u \in Tx \ {t} : Apart(f, rows[u])
         /\ i \in DOMAIN f /\ f[i] = row
         /\ InCell(row, p, m)
         /\ row.supersedes = View(t)[i].supersedes
         /\ row = Zeroed(View(t)[i]) => ~row.deleted /\ row.amount = Zero
<1> DEFINE v == View(t)
<1>2. i \in DOMAIN v /\ InCell(v[i], p, m) /\ v[i] \in Row /\ i \in SnapId
  <2>1. DOMAIN v = DOMAIN snap /\ \A j \in DOMAIN snap : v[j] = snap[j]
    BY NothingWritten DEF View
  <2> QED  BY <2>1 DEF TxInv, Good, IsTable
<1>3. /\ row \in Row
      /\ InCell(row, p, m) /\ row.supersedes = v[i].supersedes
      /\ row = Zeroed(v[i]) => row.deleted = v[i].deleted /\ row.amount = Zero
  BY <1>2, TableAssumption DEF Row, InCell, Zeroed, Tombstone
<1>4. f = Insert(rows[t], i, row)
  OBVIOUS
<1>5. f[i] = row /\ i \in DOMAIN f
  BY <1>4 DEF Insert
<1>6. ~v[i].deleted /\ i \in Live(v)
  BY DEF Live
<1> HIDE DEF v
<1>7. Clear(t, row.pos, row.month)
  BY <1>3 DEF InCell
<1>8. Written(f, snap) /\ \A u \in Tx \ {t} : Apart(f, rows[u])
  BY <1>2, <1>3, <1>4, <1>6, <1>7, WriteRow DEF v, InCell
<1> QED  BY <1>3, <1>5, <1>6, <1>8 DEF v

\* A statement that runs is clear to write to the cell it waits for.
LEMMA RunsClear ==
  ASSUME NEW t \in Tx
  PROVE  /\ Runs(t, "refresh") \/ Runs(t, "displace") \/ Runs(t, "place") =>
              Clear(t, req[t].pos, CloseMonth(req[t]))
         /\ Runs(t, "cascade") =>
              Clear(t, req[t].pos, snap[Head(req[t].targets)].month)
         /\ Runs(t, "upsert") =>
              Clear(t, Head(req[t].queue)[1], Head(req[t].queue)[2])
BY DEF Runs, Blockers, CellHolders, Clear

LEMMA RefreshInv ==
  ASSUME TxInv, NEW t \in Tx, Refresh(t)
  PROVE  TxInv'
<1>1. CASE Abort(t)
  BY <1>1, AbortInv
<1>2. CASE ~Abort(t)
  <2> DEFINE r == req[t]
             row == [View(t)[r.seen] EXCEPT !.amount = Zero]
             f == Over([j \in {r.seen} |-> row], rows[t])
  <2>1. Closing("refresh", r, rows[t], parent[t], snap)
    BY DEF Refresh, Runs, TxInv, Request
  <2>2. Clear(t, r.pos, CloseMonth(r))
    BY RunsClear DEF Refresh
  <2>3. /\ r.seen \in Live(View(t))
        /\ rows' = [rows EXCEPT ![t] = f]
        /\ step' = [step EXCEPT ![t] = "commit"]
        /\ UNCHANGED <<position, snap, req, parent>>
    BY <1>2 DEF Refresh, WriteRows, Goto
  <2>0. f = Insert(rows[t], r.seen, row) /\ row = Zeroed(View(t)[r.seen])
    BY OverOne DEF Zeroed
  <2> HIDE DEF r, f, row
  <2>4. /\ Written(f, snap) /\ \A u \in Tx \ {t} : Apart(f, rows[u])
        /\ r.seen \in DOMAIN f /\ f[r.seen] = row
        /\ InCell(row, r.pos, CloseMonth(r)) /\ ~row.deleted /\ row.amount = Zero
    <3>1. DOMAIN rows[t] = {} /\ r.seen \in DOMAIN snap /\ InCell(snap[r.seen], r.pos, CloseMonth(r))
      BY <2>1 DEF Closing
    <3> QED  BY <2>0, <2>2, <2>3, <3>1, OverSeen
  <2>5. Closing("commit", r, f, parent[t], snap)
    BY <2>1, <2>4 DEF Closing, Wrote, CloseMonth
  <2>6. Request("commit", r, f, parent[t], snap)
    BY <2>5 DEF Request
  <2>7. r = req[t]
    BY DEF r
  <2>8. /\ Sets(step, step', t, "commit") /\ Sets(req, req', t, r)
        /\ Sets(rows, rows', t, f) /\ Sets(parent, parent', t, parent[t])
    BY <2>3, <2>7, SetsFacts
  <2> QED  BY <2>3, <2>4, <2>6, <2>8, StepInv
<1> QED  BY <1>1, <1>2

LEMMA DisplaceInv ==
  ASSUME TxInv, NEW t \in Tx, Displace(t)
  PROVE  TxInv'
<1>1. CASE Abort(t)
  BY <1>1, AbortInv
<1>2. CASE ~Abort(t)
  <2> DEFINE r == req[t]
             row == [View(t)[r.seen] EXCEPT !.deleted = TRUE]
             f == Over([j \in {r.seen} |-> row], rows[t])
             st == IF r.at = Nil /\ View(t)[r.seen].supersedes = Nil THEN "commit" ELSE "place"
  <2>1. Closing("displace", r, rows[t], parent[t], snap)
    BY DEF Displace, Runs, TxInv, Request
  <2>2. Clear(t, r.pos, CloseMonth(r))
    BY RunsClear DEF Displace
  <2>3. /\ r.seen \in Live(View(t))
        /\ rows' = [rows EXCEPT ![t] = f]
        /\ step' = [step EXCEPT ![t] = st]
        /\ UNCHANGED <<position, snap, req, parent>>
    BY <1>2 DEF Displace, WriteRows, Goto
  <2>0. f = Insert(rows[t], r.seen, row) /\ row = Tombstone(View(t)[r.seen])
    BY OverOne DEF Tombstone
  <2> HIDE DEF r, f, row
  <2>4. /\ Written(f, snap) /\ \A u \in Tx \ {t} : Apart(f, rows[u])
        /\ r.seen \in DOMAIN f /\ f[r.seen] = row
        /\ InCell(row, r.pos, CloseMonth(r)) /\ row.supersedes = View(t)[r.seen].supersedes
    <3>1. DOMAIN rows[t] = {} /\ r.seen \in DOMAIN snap /\ InCell(snap[r.seen], r.pos, CloseMonth(r))
      BY <2>1 DEF Closing
    <3> QED  BY <2>0, <2>2, <2>3, <3>1, OverSeen
  <2>5. Closing(st, r, f, parent[t], snap) /\ st \in {"commit", "place"}
    BY <2>1, <2>4 DEF Closing
  <2> HIDE DEF st
  <2>6. Request(st, r, f, parent[t], snap)
    BY <2>5 DEF Request
  <2>7. r = req[t]
    BY DEF r
  <2>8. /\ Sets(step, step', t, st) /\ Sets(req, req', t, r)
        /\ Sets(rows, rows', t, f) /\ Sets(parent, parent', t, parent[t])
    BY <2>3, <2>7, SetsFacts
  <2> QED  BY <2>3, <2>4, <2>6, <2>8, StepInv
<1> QED  BY <1>1, <1>2

LEMMA PlaceInv ==
  ASSUME TxInv, NEW t \in Tx, Place(t)
  PROVE  TxInv'
<1>1. CASE Abort(t)
  BY <1>1, AbortInv
<1>2. CASE ~Abort(t)
  <2> DEFINE r == req[t]
             v == View(t)
             m == CloseMonth(r)
  <2>1. Closing("place", r, rows[t], parent[t], snap)
    BY DEF Place, Runs, TxInv, Request
  <2>2. Clear(t, r.pos, m)
    BY RunsClear DEF Place
  <2>3. /\ LiveAt(v, r.pos, m) = {}
        /\ step' = [step EXCEPT ![t] = "commit"]
        /\ UNCHANGED <<position, snap, req, parent>>
    BY <1>2 DEF Place, Goto
  <2>4. /\ Good(v)
        /\ DOMAIN v = DOMAIN rows[t] \cup DOMAIN snap
        /\ \A i \in DOMAIN rows[t] : v[i] = rows[t][i]
    BY DEF View, Over, TxInv, Written
  <2>5. m \in Month /\ r.pos \in Position
    BY <2>1 DEF Closing, LifecycleReq, CloseMonth
  <2>6. ASSUME NEW f, rows' = [rows EXCEPT ![t] = f],
               Written(f, snap) /\ \A u \in Tx \ {t} : Apart(f, rows[u]),
               r.at # Nil => Wrote(f, r.pos, r.at, Zero)
        PROVE  TxInv'
    <3>1. Closing("commit", r, f, parent[t], snap)
      BY <2>1, <2>6 DEF Closing
    <3> HIDE DEF r
    <3>2. Request("commit", r, f, parent[t], snap)
      BY <3>1 DEF Request
    <3>3. r = req[t]
      BY DEF r
    <3>4. /\ Sets(step, step', t, "commit") /\ Sets(req, req', t, r)
          /\ Sets(rows, rows', t, f) /\ Sets(parent, parent', t, parent[t])
      BY <2>3, <2>6, <3>3, SetsFacts
    <3> QED  BY <2>3, <2>6, <3>2, <3>4, StepInv
  <2>7. CASE r.at # Nil
    <3>1. PICK n \in Fresh : rows' = [rows EXCEPT ![t] = Insert(rows[t], n, NewRow(r.pos, m, Zero, r.seen))]
      BY <1>2, <2>7 DEF Place, WriteRows
    <3> DEFINE row == NewRow(r.pos, m, Zero, r.seen)
               f == Insert(rows[t], n, row)
    <3>2. n \in Unused /\ n \in SnapId
      BY DEF Fresh, Unused
    <3>3. /\ row \in Row /\ row.pos = r.pos /\ row.month = m /\ row.amount = Zero
          /\ row.supersedes = r.seen /\ ~row.deleted
      BY <2>1, <2>5, TableAssumption DEF NewRow, Row, Closing, LifecycleReq
    <3>4. r.seen # Nil => r.seen \in DOMAIN v /\ InCell(v[r.seen], r.pos, m)
      BY <2>1, <2>4, <2>7 DEF Closing
    <3> HIDE DEF r, v, m, row
    <3>5. Clear(t, row.pos, row.month) /\ LiveAt(v, row.pos, row.month) = {}
      BY <2>2, <2>3, <3>3
    <3>6. Written(f, snap) /\ \A u \in Tx \ {t} : Apart(f, rows[u])
      BY <3>2, <3>3, <3>4, <3>5, WriteRow DEF v
    <3>7. Wrote(f, r.pos, r.at, Zero)
      <4>1. m = r.at
        BY <2>7 DEF m, CloseMonth
      <4> QED  BY <3>3, <4>1 DEF Wrote, Insert, InCell
    <3> QED  BY <2>6, <3>1, <3>6, <3>7 DEF row
  <2>8. CASE r.at = Nil
    <3> DEFINE s == v[r.seen].supersedes
               row == [v[s] EXCEPT !.deleted = FALSE]
               f == Over([j \in {s} |-> row], rows[t])
    <3>1. rows' = [rows EXCEPT ![t] = f]
      BY <1>2, <2>8 DEF Place, WriteRows
    <3>2. r.seen \in DOMAIN v /\ InCell(v[r.seen], r.pos, m) /\ s # Nil
      BY <2>1, <2>4, <2>8 DEF Closing
    <3>3. s \in DOMAIN v /\ InCell(v[s], r.pos, m)
      BY <2>4, <3>2 DEF Good, LinksDown, InCell
    <3> HIDE DEF v, s, m, r
    <3>4. v[s] \in Row /\ s \in SnapId
      BY <2>4, <3>3 DEF Good, IsTable
    <3>5. row \in Row /\ InCell(row, r.pos, m) /\ row.supersedes = v[s].supersedes
      BY <3>3, <3>4 DEF Row, InCell
    <3>6. f = Insert(rows[t], s, row)
      BY OverOne
    <3> HIDE DEF row, f
    <3>7. Clear(t, row.pos, row.month) /\ LiveAt(v, row.pos, row.month) = {}
      BY <2>2, <2>3, <3>5 DEF InCell
    <3>8. Written(f, snap) /\ \A u \in Tx \ {t} : Apart(f, rows[u])
      BY <3>3, <3>4, <3>5, <3>6, <3>7, WriteRow DEF v, InCell
    <3> QED  BY <2>6, <2>8, <3>1, <3>8
  <2> QED  BY <2>7, <2>8
<1> QED  BY <1>1, <1>2

----------------------------------------------------------------------------
(* The orders statements come across rows in *)

\* An order of a finite set lists all of it.
LEMMA OrderFacts ==
  ASSUME NEW S, IsFiniteSet(S), NEW q \in SetToSeqs(S)
  PROVE  q \in Seq(S) /\ \A x \in S : \E k \in DOMAIN q : q[k] = x
<1> DEFINE n == Cardinality(S)
           D == 1 .. n
<1>1. n \in Nat
  BY FS_CardinalityType
<1>2. q \in [D -> S] /\ \A i, j \in D : i # j => q[i] # q[j]
  BY DEF SetToSeqs
<1>3. IsFiniteSet(D) /\ Cardinality(D) = n
  BY <1>1, FS_Interval
<1> HIDE DEF D
<1>4. q \in Injection(D, S)
  BY <1>2 DEF Injection, IsInjective
<1>5. q \in Surjection(D, S)
  BY <1>3, <1>4, FS_Injection
<1>6. q \in Seq(S)
  BY <1>1, <1>2 DEF D
<1> QED  BY <1>2, <1>5, <1>6 DEF Surjection

LEMMA TailFacts ==
  ASSUME NEW X, NEW q \in Seq(X), q # <<>>
  PROVE  /\ Head(q) = q[1] /\ 1 \in DOMAIN q /\ Head(q) \in X
         /\ Tail(q) \in Seq(X)
         /\ \A k \in DOMAIN Tail(q) : k + 1 \in DOMAIN q /\ Tail(q)[k] = q[k + 1]
         /\ \A k \in DOMAIN q : k = 1 \/ (k - 1 \in DOMAIN Tail(q) /\ Tail(q)[k - 1] = q[k])
         /\ Len(q) = 1 <=> Tail(q) = <<>>
<1>1. DOMAIN q = 1 .. Len(q) /\ Len(q) \in Nat /\ Len(q) # 0
  OBVIOUS
<1>2. Head(q) = q[1] /\ 1 \in DOMAIN q /\ Head(q) \in X
  BY <1>1
<1>3. /\ Tail(q) \in Seq(X)
      /\ Len(Tail(q)) = Len(q) - 1
      /\ DOMAIN Tail(q) = 1 .. Len(q) - 1
      /\ \A k \in 1 .. Len(q) - 1 : Tail(q)[k] = q[k + 1]
  BY <1>1
<1>4. \A k \in DOMAIN Tail(q) : k + 1 \in DOMAIN q /\ Tail(q)[k] = q[k + 1]
  BY <1>1, <1>3
<1>5. \A k \in DOMAIN q : k = 1 \/ (k - 1 \in DOMAIN Tail(q) /\ Tail(q)[k - 1] = q[k])
  BY <1>1, <1>3
<1>6. Len(q) = 1 <=> Tail(q) = <<>>
  <2>1. \A s \in Seq(X) : Len(s) = 0 <=> s = <<>>
    OBVIOUS
  <2>2. Len(Tail(q)) = 0 <=> Tail(q) = <<>>
    BY <1>3, <2>1
  <2>3. Len(q) = 1 <=> Len(Tail(q)) = 0
    BY <1>1, <1>3
  <2> QED  BY <2>2, <2>3
<1>7. Tail(q) \in Seq(X)
  BY <1>3
<1> HIDE <1>1, <1>3
<1> QED  BY <1>2, <1>4, <1>5, <1>6, <1>7

----------------------------------------------------------------------------

LEMMA BeginDeleteInv ==
  ASSUME TxInv, NEW t \in Tx, NEW p \in Position, BeginDelete(t, p)
  PROVE  TxInv'
<1> DEFINE S == {i \in Live(snap) : snap[i].pos = p}
<1>1. PICK order \in SetToSeqs(S) :
        /\ req' = [req EXCEPT ![t] = [pos |-> p, targets |-> order]]
        /\ Goto(t, IF order = <<>> THEN "tombstone" ELSE "cascade")
  BY DEF BeginDelete
<1>2. IsFiniteSet(S) /\ \A i \in S : i \in DOMAIN snap /\ snap[i].pos = p /\ i \in SnapId
  <2>1. S \subseteq DOMAIN snap
    BY DEF Live
  <2> QED  BY <2>1, FS_Subset DEF TxInv, Good, IsTable
<1> HIDE DEF S
<1>3. order \in Seq(S)
  BY <1>2, OrderFacts
<1>4. order \in Seq(SnapId) /\ \A k \in DOMAIN order : order[k] \in S
  BY <1>2, <1>3
<1> DEFINE r == [pos |-> p, targets |-> order]
           st == IF order = <<>> THEN "tombstone" ELSE "cascade"
<1>5. step' = [step EXCEPT ![t] = st] /\ req' = [req EXCEPT ![t] = r]
  BY <1>1 DEF Goto
<1>6. DOMAIN rows[t] = {} /\ parent[t] = Empty
  BY DEF BeginDelete, TxInv, Request
<1>7. DOMAIN parent[t] = {}
  BY <1>6 DEF Empty
<1>8. r \in DeleteReq /\ r.pos = p /\ r.targets = order
  BY <1>4 DEF DeleteReq
<1>9. st \in {"tombstone", "cascade"} /\ (st = "cascade" => order # <<>>)
  OBVIOUS
<1> HIDE DEF r, st
<1>10. Deleting(st, r, parent[t], snap)
  BY <1>2, <1>4, <1>7, <1>8, <1>9 DEF Deleting
<1>11. Request(st, r, rows[t], parent[t], snap)
  BY <1>9, <1>10 DEF Request
<1>12. /\ Sets(step, step', t, st) /\ Sets(req, req', t, r)
       /\ Sets(rows, rows', t, rows[t]) /\ Sets(parent, parent', t, parent[t])
       /\ UNCHANGED <<position, snap>>
  BY <1>5, SetsFacts DEF BeginDelete
<1>13. Written(rows[t], snap) /\ \A u \in Tx \ {t} : Apart(rows[t], rows[u])
  BY DEF TxInv
<1> QED  BY <1>11, <1>12, <1>13, StepInv

LEMMA CascadeInv ==
  ASSUME TxInv, NEW t \in Tx, Cascade(t)
  PROVE  TxInv'
<1> DEFINE r == req[t]
           i == Head(r.targets)
           row == Tombstone(snap[i])
           q == [r EXCEPT !.targets = Tail(@)]
           st == IF Len(r.targets) = 1 THEN "tombstone" ELSE "cascade"
<1>1. Deleting("cascade", r, parent[t], snap)
  BY DEF Cascade, Runs, TxInv, Request
<1>2. r.targets \in Seq(SnapId) /\ r.targets # <<>>
  BY <1>1 DEF Deleting, DeleteReq
<1>3. i \in DOMAIN snap /\ snap[i].pos = r.pos /\ i \in SnapId /\ snap[i] \in Row
  BY <1>1, <1>2, TailFacts DEF Deleting, TxInv, Good, IsTable
<1>4. Clear(t, r.pos, snap[i].month)
  BY RunsClear DEF Cascade
<1>5. step' = [step EXCEPT ![t] = st] /\ req' = [req EXCEPT ![t] = q]
  BY DEF Cascade, Goto, TxInv
<1>6. q \in DeleteReq /\ q.pos = r.pos /\ q.targets = Tail(r.targets)
  BY <1>1, <1>2, TailFacts DEF Deleting, DeleteReq
<1>7. st \in {"tombstone", "cascade"} /\ (st = "cascade" => Tail(r.targets) # <<>>)
  BY <1>2, TailFacts
<1>8. \A k \in DOMAIN Tail(r.targets) :
        \E l \in DOMAIN r.targets : Tail(r.targets)[k] = r.targets[l]
  BY <1>2, TailFacts
<1>9. /\ \/ rows' = rows
         \/ i \in Live(snap) /\ rows' = [rows EXCEPT ![t] = Insert(rows[t], i, row)]
      /\ UNCHANGED <<position, snap, parent>>
  <2>1. Over([j \in {i} |-> row], rows[t]) = Insert(rows[t], i, row)
    BY OverOne
  <2> QED  BY <2>1 DEF Cascade, WriteRows, Tombstone
<1> HIDE DEF i, q, st, row
<1>10. Deleting(st, q, parent[t], snap)
  <2>1. \A k \in DOMAIN q.targets : q.targets[k] \in DOMAIN snap /\ snap[q.targets[k]].pos = q.pos
    BY <1>1, <1>6, <1>8 DEF Deleting
  <2> QED  BY <1>1, <1>6, <1>7, <2>1 DEF Deleting
<1> HIDE DEF r
<1>11. \A f : Request(st, q, f, parent[t], snap)
  BY <1>7, <1>10 DEF Request
<1>12. Sets(step, step', t, st) /\ Sets(req, req', t, q) /\ Sets(parent, parent', t, parent[t])
  BY <1>5, <1>9, SetsFacts
<1>13. CASE rows' = rows
  <2>1. Sets(rows, rows', t, rows[t])
    BY <1>13, SetsFacts
  <2>2. Written(rows[t], snap) /\ \A u \in Tx \ {t} : Apart(rows[t], rows[u])
    BY DEF TxInv
  <2> QED  BY <1>9, <1>11, <1>12, <2>1, <2>2, StepInv
<1>14. CASE i \in Live(snap) /\ rows' = [rows EXCEPT ![t] = Insert(rows[t], i, row)]
  <2> DEFINE f == Insert(rows[t], i, row)
  <2>1. Sets(rows, rows', t, f)
    BY <1>14, SetsFacts
  <2>2. /\ row \in Row /\ row.deleted /\ row.supersedes = snap[i].supersedes
        /\ row.pos = snap[i].pos /\ row.month = snap[i].month
    BY <1>3 DEF row, Row, Tombstone
  <2>3. i \in DOMAIN View(t) /\ InCell(View(t)[i], row.pos, row.month)
        /\ row.supersedes = View(t)[i].supersedes
    BY <1>3, <2>2 DEF View, Over, TxInv, Written, Follows, InCell
  <2>4. Clear(t, row.pos, row.month)
    BY <1>3, <1>4, <2>2
  <2>5. Written(f, snap) /\ \A u \in Tx \ {t} : Apart(f, rows[u])
    BY <1>3, <2>2, <2>3, <2>4, WriteRow
  <2> QED  BY <1>9, <1>11, <1>12, <2>1, <2>5, StepInv
<1> QED  BY <1>9, <1>13, <1>14

LEMMA TombstoneParentInv ==
  ASSUME TxInv, NEW t \in Tx, TombstoneParent(t)
  PROVE  TxInv'
<1>1. CASE Abort(t)
  BY <1>1, AbortInv
<1>2. CASE ~Abort(t)
  <2> DEFINE r == req[t]
             p == r.pos
             row == [position[p] EXCEPT !.deleted = TRUE]
             pa == [q \in {p} |-> row]
  <2>1. Deleting("tombstone", r, parent[t], snap)
    BY DEF TombstoneParent, Runs, TxInv, Request
  <2>2. /\ step' = [step EXCEPT ![t] = "commit"] /\ parent' = [parent EXCEPT ![t] = pa]
        /\ UNCHANGED <<position, snap, req, rows>>
    BY <1>2 DEF TombstoneParent, Goto
  <2>3. p \in Position
    BY <2>1 DEF Deleting, DeleteReq
  <2>4. row \in ParentRow /\ row.deleted
    BY <2>3 DEF TxInv, ParentRow
  <2> HIDE DEF row
  <2>5. \A q \in DOMAIN pa : q = p /\ pa[q] \in ParentRow /\ pa[q].deleted
    BY <2>4
  <2>6. r = req[t]
    OBVIOUS
  <2> HIDE DEF pa
  <2>7. Deleting("commit", r, pa, snap)
    BY <2>1, <2>5 DEF Deleting
  <2> HIDE DEF r
  <2>8. Request("commit", r, rows[t], pa, snap)
    BY <2>7 DEF Request
  <2>9. /\ Sets(step, step', t, "commit") /\ Sets(req, req', t, r)
        /\ Sets(rows, rows', t, rows[t]) /\ Sets(parent, parent', t, pa)
    BY <2>2, <2>6, SetsFacts
  <2>10. Written(rows[t], snap) /\ \A u \in Tx \ {t} : Apart(rows[t], rows[u])
    BY DEF TxInv
  <2> QED  BY <2>2, <2>8, <2>9, <2>10, StepInv
<1> QED  BY <1>1, <1>2

LEMMA BeginBatchInv ==
  ASSUME TxInv, NEW t \in Tx, NEW cells \in SUBSET (Position \X Month), cells # {},
         NEW batch \in [cells -> UserAmount], BeginBatch(t, batch)
  PROVE  TxInv'
<1>1. DOMAIN batch = cells
  OBVIOUS
<1>2. PICK order \in SetToSeqs(cells) : req' = [req EXCEPT ![t] = [batch |-> batch, queue |-> order]]
  BY <1>1 DEF BeginBatch
<1>3. IsFiniteSet(cells) /\ step[t] = "idle" /\ step' = [step EXCEPT ![t] = "upsert"]
      /\ UNCHANGED <<position, snap, rows, parent>>
  BY <1>1 DEF BeginBatch, Goto
<1>4. order \in Seq(cells) /\ \A c \in cells : \E k \in DOMAIN order : order[k] = c
  BY <1>3, OrderFacts
<1>5. order # <<>>
  BY <1>4
<1> DEFINE r == [batch |-> batch, queue |-> order]
<1>6. r \in BatchReq(cells) /\ r.queue = order
  BY <1>4 DEF BatchReq
<1>7. DOMAIN rows[t] = {} /\ parent[t] = Empty
  BY <1>3 DEF TxInv, Request
<1>8. Sets(req, req', t, r)
  BY <1>2, SetsFacts
<1> HIDE DEF r
<1>9. Batching("upsert", r, rows[t], parent[t])
  BY <1>4, <1>5, <1>6, <1>7 DEF Batching
<1>10. Request("upsert", r, rows[t], parent[t], snap)
  BY <1>9 DEF Request
<1>11. /\ Sets(step, step', t, "upsert")
       /\ Sets(rows, rows', t, rows[t]) /\ Sets(parent, parent', t, parent[t])
  BY <1>3, SetsFacts
<1>12. Written(rows[t], snap) /\ \A u \in Tx \ {t} : Apart(rows[t], rows[u])
  BY DEF TxInv
<1> QED  BY <1>3, <1>8, <1>10, <1>11, <1>12, StepInv

LEMMA NewRowFacts ==
  ASSUME NEW p \in Position, NEW m \in Month, NEW a \in Amount
  PROVE  /\ NewRow(p, m, a, Nil) \in Row /\ InCell(NewRow(p, m, a, Nil), p, m)
         /\ ~NewRow(p, m, a, Nil).deleted /\ NewRow(p, m, a, Nil).amount = a
         /\ NewRow(p, m, a, Nil).supersedes = Nil
BY DEF NewRow, Row, InCell

\* The upsert of one cell leaves the cell at its amount, and what has been written
\* to others.
LEMMA UpsertRow ==
  ASSUME TxInv, NEW t \in Tx, NEW p \in Position, NEW m \in Month, NEW a \in Amount,
         Clear(t, p, m), NEW i,
         IF LiveAt(View(t), p, m) = {} THEN i \in Fresh ELSE i \in LiveAt(View(t), p, m),
         NEW row, row = IF LiveAt(View(t), p, m) = {} THEN NewRow(p, m, a, Nil)
                        ELSE [View(t)[i] EXCEPT !.amount = a],
         NEW f, f = Insert(rows[t], i, row)
  PROVE  /\ Written(f, snap) /\ \A u \in Tx \ {t} : Apart(f, rows[u])
         /\ Wrote(f, p, m, a)
         /\ \A q, n, b : Wrote(rows[t], q, n, b) => Wrote(f, q, n, b) \/ (q = p /\ n = m)
<1> DEFINE v == View(t)
           live == LiveAt(v, p, m)
<1>1. /\ Good(v)
      /\ DOMAIN v = DOMAIN rows[t] \cup DOMAIN snap
      /\ \A j \in DOMAIN rows[t] : v[j] = rows[t][j]
  BY DEF View, Over, TxInv, Written
<1>2. \/ i \in Unused /\ live = {} /\ row = NewRow(p, m, a, Nil)
      \/ i \in live /\ row = [v[i] EXCEPT !.amount = a]
  BY DEF Fresh
<1>3. /\ f[i] = row /\ i \in DOMAIN f
      /\ \A j \in DOMAIN rows[t] : j \in DOMAIN f /\ (j # i => f[j] = rows[t][j])
  BY DEF Insert
<1> HIDE DEF v
<1>4. ASSUME i \in Unused, live = {}, row = NewRow(p, m, a, Nil)
      PROVE  /\ row \in Row /\ InCell(row, p, m) /\ ~row.deleted /\ row.amount = a
             /\ i \in SnapId /\ i \notin DOMAIN rows[t]
             /\ Written(f, snap) /\ \A u \in Tx \ {t} : Apart(f, rows[u])
  <2>1. /\ row \in Row /\ InCell(row, p, m) /\ ~row.deleted /\ row.amount = a
        /\ row.supersedes = Nil
    <3> DEFINE new == NewRow(p, m, a, Nil)
    <3>1. /\ new \in Row /\ InCell(new, p, m) /\ ~new.deleted /\ new.amount = a
          /\ new.supersedes = Nil
      BY NewRowFacts
    <3>2. row = new
      BY <1>4
    <3> HIDE DEF new
    <3> QED  BY <3>1, <3>2
  <2>2. i \in SnapId /\ i \notin DOMAIN rows[t]
    BY <1>4 DEF Unused
  <2>3. Clear(t, row.pos, row.month) /\ LiveAt(v, row.pos, row.month) = {}
    BY <1>4, <2>1 DEF InCell
  <2>4. Written(f, snap) /\ \A u \in Tx \ {t} : Apart(f, rows[u])
    BY <1>4, <2>1, <2>2, <2>3, WriteRow DEF v
  <2> QED  BY <2>1, <2>2, <2>4
<1>5. ASSUME i \in live, row = [v[i] EXCEPT !.amount = a]
      PROVE  /\ row \in Row /\ InCell(row, p, m) /\ ~row.deleted /\ row.amount = a
             /\ i \in DOMAIN rows[t] => InCell(rows[t][i], p, m)
             /\ Written(f, snap) /\ \A u \in Tx \ {t} : Apart(f, rows[u])
  <2>1. i \in DOMAIN v /\ InCell(v[i], p, m) /\ ~v[i].deleted /\ i \in Live(v)
    BY <1>5 DEF LiveAt, Live, InCell
  <2>2. v[i] \in Row /\ i \in SnapId
    BY <1>1, <2>1 DEF Good, IsTable
  <2>3. /\ row \in Row /\ InCell(row, p, m) /\ ~row.deleted /\ row.amount = a
        /\ row.supersedes = v[i].supersedes
    <3>1. /\ row \in Row /\ InCell(row, v[i].pos, v[i].month) /\ row.amount = a
          /\ row.supersedes = v[i].supersedes
          /\ row.deleted = v[i].deleted
      BY <1>5, <2>2 DEF Row, InCell
    <3> QED  BY <2>1, <3>1 DEF InCell
  <2>4. Clear(t, row.pos, row.month)
    BY <2>3 DEF InCell
  <2>5. Written(f, snap) /\ \A u \in Tx \ {t} : Apart(f, rows[u])
    BY <2>1, <2>2, <2>3, <2>4, WriteRow DEF v, InCell
  <2>6. i \in DOMAIN rows[t] => InCell(rows[t][i], p, m)
    BY <1>1, <2>1
  <2> QED  BY <2>3, <2>5, <2>6
<1> HIDE DEF live
<1>6. /\ Written(f, snap) /\ \A u \in Tx \ {t} : Apart(f, rows[u])
      /\ InCell(row, p, m) /\ ~row.deleted /\ row.amount = a
      /\ i \in DOMAIN rows[t] => InCell(rows[t][i], p, m)
  BY <1>2, <1>4, <1>5
<1>7. Wrote(f, p, m, a)
  BY <1>3, <1>6 DEF Wrote
<1>8. \A q, n, b : Wrote(rows[t], q, n, b) => Wrote(f, q, n, b) \/ (q = p /\ n = m)
  BY <1>3, <1>6 DEF Wrote, InCell
<1> QED  BY <1>6, <1>7, <1>8

LEMMA UpsertNextInv ==
  ASSUME TxInv, NEW t \in Tx, UpsertNext(t)
  PROVE  TxInv'
<1>1. CASE Abort(t)
  BY <1>1, AbortInv
<1>2. CASE ~Abort(t)
  <2> DEFINE r == req[t]
             h == Head(r.queue)
             p == h[1]
             m == h[2]
             a == r.batch[<<p, m>>]
             live == LiveAt(View(t), p, m)
             q == [r EXCEPT !.queue = Tail(@)]
             st == IF Len(r.queue) = 1 THEN "commit" ELSE "upsert"
  <2>1. Batching("upsert", r, rows[t], parent[t])
    BY DEF UpsertNext, Runs, TxInv, Request
  <2>2. PICK cells \in SUBSET (Position \X Month) :
          /\ r \in BatchReq(cells)
          /\ r.queue # <<>>
          /\ \A c \in cells : \/ \E k \in DOMAIN r.queue : r.queue[k] = c
                              \/ Wrote(rows[t], c[1], c[2], r.batch[c])
          /\ parent[t] = Empty
    BY <2>1 DEF Batching
  <2>3. r.queue \in Seq(cells) /\ r.batch \in [cells -> UserAmount]
    BY <2>2 DEF BatchReq
  <2>4. h \in cells /\ h = r.queue[1]
    BY <2>2, <2>3, TailFacts
  <2>5. p \in Position /\ m \in Month /\ <<p, m>> = h /\ a \in Amount /\ a = r.batch[h]
    <3>1. h = <<h[1], h[2]>> /\ h[1] \in Position /\ h[2] \in Month
      BY <2>4
    <3>2. r.batch[h] \in Amount
      BY <2>3, <2>4, UserAmountAssumption
    <3> HIDE DEF h
    <3> QED  BY <3>1, <3>2
  <2>6. /\ UpsertHead(t) /\ Clear(t, p, m)
        /\ req' = [req EXCEPT ![t] = q] /\ step' = [step EXCEPT ![t] = st]
        /\ UNCHANGED <<position, snap, parent>>
    BY <1>2, RunsClear DEF UpsertNext, Dequeue, Goto, TxInv
  <2>7. PICK i : /\ IF live = {} THEN i \in Fresh ELSE i \in live
                 /\ rows' = [rows EXCEPT ![t] =
                      Over([j \in {i} |-> IF live = {} THEN NewRow(p, m, a, Nil)
                                          ELSE [View(t)[i] EXCEPT !.amount = a]], rows[t])]
    BY <2>6 DEF UpsertHead, WriteRows
  <2> DEFINE row == IF live = {} THEN NewRow(p, m, a, Nil) ELSE [View(t)[i] EXCEPT !.amount = a]
             f == Insert(rows[t], i, row)
  <2>8. rows' = [rows EXCEPT ![t] = f]
    BY <2>7, OverOne
  <2>9. /\ Written(f, snap) /\ \A u \in Tx \ {t} : Apart(f, rows[u])
        /\ Wrote(f, p, m, a)
        /\ \A k, n, b : Wrote(rows[t], k, n, b) => Wrote(f, k, n, b) \/ (k = p /\ n = m)
    <3> DEFINE P == p
               M == m
               A == a
    <3>1. /\ P \in Position /\ M \in Month /\ A \in Amount /\ Clear(t, P, M)
          /\ IF LiveAt(View(t), P, M) = {} THEN i \in Fresh ELSE i \in LiveAt(View(t), P, M)
          /\ row = IF LiveAt(View(t), P, M) = {} THEN NewRow(P, M, A, Nil)
                   ELSE [View(t)[i] EXCEPT !.amount = A]
      BY <2>5, <2>6, <2>7
    <3> HIDE DEF P, M, A, row
    <3>2. /\ Written(f, snap) /\ \A u \in Tx \ {t} : Apart(f, rows[u])
          /\ Wrote(f, P, M, A)
          /\ \A k, n, b : Wrote(rows[t], k, n, b) => Wrote(f, k, n, b) \/ (k = P /\ n = M)
      BY <3>1, UpsertRow
    <3> QED  BY <3>2 DEF P, M, A
  <2>10. /\ q.queue = Tail(r.queue) /\ q.batch = r.batch /\ q \in BatchReq(cells)
    BY <2>2, <2>3, TailFacts DEF BatchReq
  <2>11. \/ st = "commit" /\ q.queue = <<>>
         \/ st = "upsert" /\ q.queue # <<>>
    BY <2>2, <2>3, <2>10, TailFacts
  <2> HIDE DEF f, row, live, q, st
  <2>12. ASSUME NEW c \in cells
         PROVE  \/ \E k \in DOMAIN q.queue : q.queue[k] = c
                \/ Wrote(f, c[1], c[2], q.batch[c])
    <3>1. CASE c = h
      BY <2>5, <2>9, <2>10, <3>1
    <3>2. ASSUME c # h, NEW k \in DOMAIN r.queue, r.queue[k] = c
          PROVE  \E l \in DOMAIN q.queue : q.queue[l] = c
      <4>1. k # 1
        BY <2>4, <3>2
      <4>2. k - 1 \in DOMAIN Tail(r.queue) /\ Tail(r.queue)[k - 1] = c
        BY <2>2, <2>3, <3>2, <4>1, TailFacts
      <4> HIDE DEF r
      <4> QED  BY <2>10, <4>2
    <3>3. ASSUME c # h, Wrote(rows[t], c[1], c[2], r.batch[c])
          PROVE  Wrote(f, c[1], c[2], q.batch[c])
      <4>1. c = <<c[1], c[2]>>
        OBVIOUS
      <4> QED  BY <2>5, <2>9, <2>10, <3>3, <4>1
    <3> QED  BY <2>2, <3>1, <3>2, <3>3
  <2>13. Batching(st, q, f, parent[t])
    BY <2>2, <2>10, <2>11, <2>12 DEF Batching
  <2>14. Request(st, q, f, parent[t], snap)
    BY <2>11, <2>13 DEF Request
  <2>15. /\ Sets(step, step', t, st) /\ Sets(req, req', t, q)
         /\ Sets(rows, rows', t, f) /\ Sets(parent, parent', t, parent[t])
    BY <2>6, <2>8, SetsFacts
  <2> QED  BY <2>6, <2>9, <2>14, <2>15, StepInv
<1> QED  BY <1>1, <1>2

\* What a transaction has written to the parent table are rows of positions.
LEMMA ParentFacts ==
  ASSUME TxInv, NEW t \in Tx
  PROVE  /\ DOMAIN parent[t] \subseteq Position
         /\ \A p \in DOMAIN parent[t] : parent[t][p] \in ParentRow
<1> DEFINE r == req[t]
<1>1. DOMAIN Empty = {}
  BY DEF Empty
<1>2. ASSUME r \in LifecycleReq
      PROVE  DOMAIN Flipped(r) \subseteq Position /\ \A p \in DOMAIN Flipped(r) : Flipped(r)[p] \in ParentRow
  BY <1>2 DEF Flipped, LifecycleReq, ParentRow
<1>3. Request(step[t], r, rows[t], parent[t], snap)
  BY DEF TxInv
<1> HIDE DEF r
<1>4. ASSUME Closing(step[t], r, rows[t], parent[t], snap)
      PROVE  /\ DOMAIN parent[t] \subseteq Position
             /\ \A p \in DOMAIN parent[t] : parent[t][p] \in ParentRow
  BY <1>1, <1>2, <1>4 DEF Closing
<1>5. ASSUME Deleting(step[t], r, parent[t], snap)
      PROVE  /\ DOMAIN parent[t] \subseteq Position
             /\ \A p \in DOMAIN parent[t] : parent[t][p] \in ParentRow
  BY <1>5 DEF Deleting, DeleteReq
<1>6. ASSUME Batching(step[t], r, rows[t], parent[t])
      PROVE  parent[t] = Empty
  BY <1>6 DEF Batching
<1> QED  BY <1>1, <1>3, <1>4, <1>5, <1>6 DEF Request

LEMMA CommitInv ==
  ASSUME TxInv, NEW t \in Tx, Commit(t)
  PROVE  TxInv'
<1>1. DOMAIN Empty = {}
  BY DEF Empty
<1>2. snap' = Over(rows[t], snap) /\ position' = Over(parent[t], position)
  BY DEF Commit
<1>3. /\ Sets(step, step', t, "idle") /\ Sets(req, req', t, Empty)
      /\ Sets(rows, rows', t, Empty) /\ Sets(parent, parent', t, Empty)
  BY SetsFacts DEF Commit, End, Goto, WriteRows
<1>4. Written(rows[t], snap)
  BY DEF TxInv
<1>5. Good(snap') /\ IsFiniteSet(DOMAIN snap')
  <2>1. DOMAIN snap' = DOMAIN rows[t] \cup DOMAIN snap
    BY <1>2 DEF Over
  <2>2. IsFiniteSet(DOMAIN rows[t]) /\ IsFiniteSet(DOMAIN snap) /\ Good(Over(rows[t], snap))
    BY <1>4 DEF Written, TxInv
  <2>3. IsFiniteSet(DOMAIN snap')
    BY <2>1, <2>2, FS_Union
  <2> QED  BY <1>2, <2>2, <2>3
<1>6. Written(Empty, snap')
  <2>1. DOMAIN Over(Empty, snap') = DOMAIN snap' /\ \A i \in DOMAIN snap' : Over(Empty, snap')[i] = snap'[i]
    BY <1>1 DEF Over
  <2>2. Good(Over(Empty, snap'))
    BY <1>5, <2>1, GoodSame
  <2> QED  BY <1>1, <2>2, FS_EmptySet DEF Written, IsTable, Follows
<1>7. \A u \in Tx \ {t} : Written(rows[u], snap') /\ Request(step[u], req[u], rows[u], parent[u], snap')
  <2>1. TAKE u \in Tx \ {t}
  <2>2. Apart(rows[t], rows[u]) /\ Follows(rows[t], snap) /\ Good(Over(rows[t], snap))
    BY <1>4 DEF TxInv, Written
  <2> QED  BY <1>2, <2>2, SnapMoves
<1>8. \A u \in Tx : /\ Written(rows'[u], snap')
                    /\ Request(step'[u], req'[u], rows'[u], parent'[u], snap')
  <2>1. TAKE u \in Tx
  <2>2. CASE u = t
    BY <1>1, <1>3, <1>6, <2>2 DEF Sets, Request
  <2>3. CASE u # t
    BY <1>3, <1>7, <2>3 DEF Sets
  <2> QED  BY <2>2, <2>3
<1>9. \A u, w \in Tx : u # w => Apart(rows'[u], rows'[w])
  <2>1. \A f : Apart(f, Empty) /\ Apart(Empty, f)
    BY <1>1 DEF Apart
  <2> QED  BY <1>3, <2>1 DEF TxInv, Sets
<1>10. position' \in [Position -> ParentRow]
  BY <1>2, ParentFacts DEF Over, TxInv
<1> QED  BY <1>3, <1>5, <1>8, <1>9, <1>10 DEF TxInv, Sets

\* A request of one statement, its own transaction, writes row to i in a cell no
\* transaction in flight has written to.
LEMMA UserRowInv ==
  ASSUME TxInv, NEW i \in SnapId, NEW row \in Row,
         snap' = Insert(snap, i, row), UNCHANGED <<position, step, req, rows, parent>>,
         Unlocked(row.pos, row.month),
         \/ /\ i \in DOMAIN snap
            /\ InCell(snap[i], row.pos, row.month)
            /\ row.supersedes = snap[i].supersedes
         \/ i \in Unused /\ row.supersedes = Nil,
         row.deleted \/ i \in Live(snap) \/ LiveAt(snap, row.pos, row.month) = {}
  PROVE  TxInv'
<1> DEFINE f == [j \in {i} |-> row]
<1>1. snap' = Over(f, snap)
  BY OverOne
<1>2. DOMAIN f = {i} /\ f[i] = row
  OBVIOUS
<1> HIDE DEF f
<1>3. i \notin DOMAIN snap => row.supersedes = Nil
  OBVIOUS
<1>4. i \in DOMAIN snap => InCell(snap[i], row.pos, row.month) /\ row.supersedes = snap[i].supersedes
  BY DEF Unused
<1>5. Good(snap')
  BY <1>3, <1>4, GoodPut DEF TxInv
<1>6. Follows(f, snap)
  BY <1>2, <1>4 DEF Follows, InCell
<1>7. IsFiniteSet(DOMAIN snap')
  <2>1. DOMAIN snap' = DOMAIN snap \cup {i}
    BY DEF Insert
  <2> QED  BY <2>1, FS_AddElement DEF TxInv
<1>8. \A u \in Tx : Apart(f, rows[u])
  <2>1. TAKE u \in Tx
  <2>2. \A j \in DOMAIN rows[u] : ~InCell(rows[u][j], row.pos, row.month)
    BY DEF Unlocked, CellHolders, HoldsCell, InCell
  <2>3. i \notin DOMAIN rows[u]
    <3>1. CASE i \in Unused
      BY <3>1 DEF Unused
    <3>2. CASE i \in DOMAIN snap /\ InCell(snap[i], row.pos, row.month)
      BY <2>2, <3>2 DEF TxInv, Written, Follows, InCell
    <3> QED  BY <3>1, <3>2
  <2> QED  BY <1>2, <2>2, <2>3 DEF Apart, InCell
<1>9. \A u \in Tx : Written(rows[u], snap') /\ Request(step[u], req[u], rows[u], parent[u], snap')
  BY <1>1, <1>5, <1>6, <1>8, SnapMoves
<1> QED  BY <1>5, <1>7, <1>9 DEF TxInv

LEMMA UserWriteInv ==
  ASSUME TxInv, UserWrite
  PROVE  TxInv'
<1>1. ASSUME NEW p \in Position, NEW m \in Month, NEW a \in UserAmount, CreateSnapshotStatement(p, m, a)
      PROVE  TxInv'
  <2> DEFINE row == NewRow(p, m, a, Nil)
  <2>1. a \in Amount
    BY UserAmountAssumption
  <2>2. /\ row \in Row /\ InCell(row, p, m) /\ row.supersedes = Nil
    BY <2>1, NewRowFacts
  <2>3. PICK n \in Fresh : snap' = Insert(snap, n, row)
    BY <1>1 DEF CreateSnapshotStatement
  <2> HIDE DEF row
  <2>4. n \in Unused /\ n \in SnapId
    BY DEF Fresh, Unused
  <2>5. Unlocked(row.pos, row.month) /\ LiveAt(snap, row.pos, row.month) = {}
    BY <1>1, <2>2 DEF CreateSnapshotStatement, InCell
  <2>6. UNCHANGED <<position, step, req, rows, parent>>
    BY <1>1 DEF CreateSnapshotStatement
  <2> QED  BY <2>2, <2>3, <2>4, <2>5, <2>6, UserRowInv
<1>2. ASSUME NEW i \in SnapId, NEW a \in UserAmount, UpdateSnapshotStatement(i, a)
      PROVE  TxInv'
  <2> DEFINE row == [snap[i] EXCEPT !.amount = a]
  <2>1. a \in Amount /\ i \in DOMAIN snap /\ i \in Live(snap) /\ snap[i] \in Row
    BY <1>2, UserAmountAssumption DEF UpdateSnapshotStatement, Live, TxInv, Good, IsTable
  <2>2. /\ row \in Row /\ InCell(snap[i], row.pos, row.month)
        /\ row.pos = snap[i].pos /\ row.month = snap[i].month
        /\ row.supersedes = snap[i].supersedes
    BY <2>1 DEF Row, InCell
  <2>3. snap' = Insert(snap, i, row)
    BY <1>2, <2>1 DEF UpdateSnapshotStatement, SetAmount, Insert
  <2> HIDE DEF row
  <2>4. Unlocked(row.pos, row.month) /\ UNCHANGED <<position, step, req, rows, parent>>
    BY <1>2, <2>2 DEF UpdateSnapshotStatement
  <2> QED  BY <2>1, <2>2, <2>3, <2>4, UserRowInv
<1>3. ASSUME NEW i \in SnapId, DeleteSnapshotStatement(i)
      PROVE  TxInv'
  <2> DEFINE row == [snap[i] EXCEPT !.deleted = TRUE]
  <2>1. i \in DOMAIN snap /\ i \in Live(snap) /\ snap[i] \in Row
    BY <1>3 DEF DeleteSnapshotStatement, Live, TxInv, Good, IsTable
  <2>2. /\ row \in Row /\ InCell(snap[i], row.pos, row.month)
        /\ row.pos = snap[i].pos /\ row.month = snap[i].month
        /\ row.supersedes = snap[i].supersedes
    BY <2>1 DEF Row, InCell
  <2>3. snap' = Insert(snap, i, row)
    BY <1>3, <2>1 DEF DeleteSnapshotStatement, Archive, Insert
  <2> HIDE DEF row
  <2>4. Unlocked(row.pos, row.month) /\ UNCHANGED <<position, step, req, rows, parent>>
    BY <1>3, <2>2 DEF DeleteSnapshotStatement
  <2> QED  BY <2>1, <2>2, <2>3, <2>4, UserRowInv
<1> QED  BY <1>1, <1>2, <1>3 DEF UserWrite

----------------------------------------------------------------------------
(* Theorems *)

LEMMA TxNextInv ==
  ASSUME TxInv, [TxNext]_txVars
  PROVE  TxInv'
<1>1. ASSUME UNCHANGED txVars
      PROVE  TxInv'
  BY <1>1 DEF txVars, TxInv
<1>2. ASSUME NEW t \in Tx, Begin(t)
      PROVE  TxInv'
  <2>1. ASSUME NEW cells \in (SUBSET (Position \X Month)) \ {{}},
               NEW batch \in [cells -> UserAmount], BeginBatch(t, batch)
        PROVE  TxInv'
    BY <2>1, BeginBatchInv
  <2> QED  BY <1>2, <2>1, BeginLifecycleInv, BeginDeleteInv DEF Begin
<1>3. ASSUME NEW t \in Tx, Statement(t)
      PROVE  TxInv'
  BY <1>3, FlipInv, LookInv, RefreshInv, DisplaceInv, PlaceInv, CascadeInv,
     TombstoneParentInv, UpsertNextInv, CommitInv DEF Statement
<1>4. ASSUME NEW t \in Tx, Rollback(t) \/ DeadlockVictim(t)
      PROVE  TxInv'
  BY <1>4, AbortInv DEF Rollback, DeadlockVictim
<1> QED  BY <1>1, <1>2, <1>3, <1>4, UserWriteInv DEF TxNext

\* Whatever requests are in flight, each transaction has written what its step
\* says it has, and sees a sound table.
THEOREM TxInvariance == TxSpec => []TxInv
<1>1. TxInv /\ [TxNext]_txVars => TxInv'
  BY TxNextInv
<1> QED  BY <1>1, TxInitInv, PTL DEF TxSpec

\* A request is always at one of the steps there are.
LEMMA StepsStay ==
  ASSUME step \in [Tx -> Step], [TxNext]_txVars
  PROVE  step' \in [Tx -> Step]
<1>1. \A t \in Tx, s \in Step : Goto(t, s) => step' \in [Tx -> Step]
  BY DEF Goto
<1>2. ASSUME NEW t \in Tx, Abort(t)
      PROVE  step' \in [Tx -> Step]
  BY <1>1, <1>2 DEF Abort, End, Step
<1>3. ASSUME NEW t \in Tx, Begin(t)
      PROVE  step' \in [Tx -> Step]
  BY <1>1, <1>3 DEF Begin, BeginLifecycle, BeginDelete, BeginBatch, Step
<1>4. ASSUME NEW t \in Tx, Statement(t), ~Abort(t)
      PROVE  step' \in [Tx -> Step]
  BY <1>1, <1>4 DEF Statement, Flip, Look, Refresh, Displace, Place, Cascade,
                    TombstoneParent, UpsertNext, Dequeue, Commit, End, Step
<1>5. ASSUME NEW t \in Tx, Rollback(t) \/ DeadlockVictim(t)
      PROVE  step' \in [Tx -> Step]
  BY <1>2, <1>5 DEF Rollback, DeadlockVictim
<1>6. ASSUME UserWrite
      PROVE  UNCHANGED step
  BY <1>6 DEF UserWrite, CreateSnapshotStatement, UpdateSnapshotStatement, DeleteSnapshotStatement
<1> QED  BY <1>2, <1>3, <1>4, <1>5, <1>6 DEF TxNext, txVars

\* Type correctness: a transaction writes whole rows of the two tables, whatever
\* the other requests do to what it has read.
THEOREM TxTypeCorrect == TxSpec => []TxTypeOK
<1> DEFINE S == step \in [Tx -> Step]
<1>1. TxInit => S
  BY DEF TxInit, Step
<1>2. S /\ [TxNext]_txVars => S'
  BY StepsStay
<1>3. TxInv /\ S => TxTypeOK
  <2> SUFFICES ASSUME TxInv, S PROVE TxTypeOK
    OBVIOUS
  <2>1. IsTable(snap) /\ \A t \in Tx : IsTable(rows[t])
    BY DEF TxInv, Good, Written
  <2> QED  BY <2>1, ParentFacts DEF TxInv, TxTypeOK
<1> HIDE DEF S
<1> QED  BY <1>1, <1>2, <1>3, TxInvariance, PTL DEF TxSpec

\* Two live rows never stand in one committed cell, and the link of a committed
\* close row leads to an archived row of its cell, although the branch between
\* them is taken on a row that was read without a lock.
THEOREM TableSoundHolds == TxSpec => []TableSound
<1>1. TxInv => TableSound
  BY DEF TxInv, Good, OneLive, LinksDown, InCell, TableSound
<1> QED  BY <1>1, TxInvariance, PTL

\* What a transaction has written to a cell is what everyone reads in it once it
\* is committed.
LEMMA WroteReads ==
  ASSUME TxInv, NEW t \in Tx, Commit(t), NEW p, NEW m, NEW a, Wrote(rows[t], p, m, a)
  PROVE  Reads(snap', p, m, a)
<1>1. PICK i \in DOMAIN rows[t] :
        ~rows[t][i].deleted /\ InCell(rows[t][i], p, m) /\ rows[t][i].amount = a
  BY DEF Wrote
<1>2. i \in DOMAIN snap' /\ snap'[i] = rows[t][i]
  BY DEF Commit, Over
<1>3. i \in LiveAt(snap', p, m)
  BY <1>1, <1>2 DEF LiveAt, Live, InCell
<1> QED  BY <1>1, <1>2, <1>3 DEF Reads

\* The steps that leave the parent rows, or the snapshot table, alone.
LEMMA WhoCommits ==
  ASSUME [TxNext]_txVars
  PROVE  /\ position' # position => \E t \in Tx : Commit(t)
         /\ snap' # snap => UserWrite \/ \E t \in Tx : Commit(t)
<1>1. ASSUME NEW t \in Tx, Begin(t)
      PROVE  UNCHANGED <<position, snap>>
  BY <1>1 DEF Begin, BeginLifecycle, BeginDelete, BeginBatch
<1>2. ASSUME NEW t \in Tx, Statement(t), ~Commit(t)
      PROVE  UNCHANGED <<position, snap>>
  BY <1>2 DEF Statement, Flip, Look, Refresh, Displace, Place, Cascade, TombstoneParent,
              UpsertNext, UpsertHead, Dequeue, Abort
<1>3. ASSUME NEW t \in Tx, Rollback(t) \/ DeadlockVictim(t)
      PROVE  UNCHANGED <<position, snap>>
  BY <1>3 DEF Rollback, DeadlockVictim, Abort
<1>4. ASSUME UserWrite
      PROVE  UNCHANGED <<position, step>>
  BY <1>4 DEF UserWrite, CreateSnapshotStatement, UpdateSnapshotStatement, DeleteSnapshotStatement
<1> QED  BY <1>1, <1>2, <1>3, <1>4 DEF TxNext, txVars

\* The step that commits a termination leaves its month at zero: UpdateLifecycle
\* flips the row and writes the close snapshot in one transaction, and no other
\* writer gets into the cell between the two.
THEOREM TerminationReadsZeroHolds == TxSpec => TerminationReadsZero
<1> DEFINE P(p) == Terminates(p) => Reads(snap', p, position'[p].terminatedAt, Zero)
<1>1. ASSUME TxInv, [TxNext]_txVars, NEW p \in Position, Terminates(p)
      PROVE  Reads(snap', p, position'[p].terminatedAt, Zero)
  <2>1. PICK t \in Tx : Commit(t)
    BY <1>1, WhoCommits DEF Terminates
  <2> DEFINE r == req[t]
  <2>2. position' = Over(parent[t], position) /\ step[t] = "commit"
    BY <2>1 DEF Commit
  <2>3. p \in DOMAIN parent[t] /\ position'[p] = parent[t][p]
    BY <1>1, <2>2 DEF Terminates, Over, TxInv
  <2>4. Request("commit", r, rows[t], parent[t], snap)
    BY <1>1, <2>2 DEF TxInv
  <2>5. DOMAIN Empty = {}
    BY DEF Empty
  <2> HIDE DEF r
  <2>6. ASSUME Closing("commit", r, rows[t], parent[t], snap)
        PROVE  /\ p = r.pos /\ r.at = position'[p].terminatedAt
               /\ Wrote(rows[t], r.pos, r.at, Zero)
    <3>1. parent[t] = Flipped(r)
      BY <2>6 DEF Closing
    <3>2. p = r.pos /\ position'[p].terminatedAt = r.at
      BY <2>3, <3>1 DEF Flipped
    <3> QED  BY <1>1, <2>6, <3>2 DEF Closing, Terminates
  <2>7. ASSUME Deleting("commit", r, parent[t], snap)
        PROVE  FALSE
    BY <1>1, <2>3, <2>7 DEF Deleting, Terminates
  <2>8. ASSUME Batching("commit", r, rows[t], parent[t])
        PROVE  FALSE
    BY <2>3, <2>5, <2>8 DEF Batching
  <2> QED  BY <1>1, <2>1, <2>4, <2>6, <2>7, <2>8, WroteReads DEF Request
<1>2. TxInv /\ [TxNext]_txVars => \A p \in Position : P(p)
  BY <1>1
<1> QED  BY <1>2, TxInvariance, PTL DEF TxSpec, TerminationReadsZero

\* The step that commits a batch leaves every cell of it at the amount entered.
THEOREM BatchWholeHolds == TxSpec => BatchWhole
<1>1. ASSUME TxInv, [TxNext]_txVars, NEW t \in Tx, CommitsBatch(t), NEW c \in DOMAIN req[t].batch
      PROVE  Reads(snap', c[1], c[2], req[t].batch[c])
  <2> DEFINE r == req[t]
  <2>1. Commit(t)
    <3>1. ASSUME NEW u \in Tx, Commit(u), u # t
          PROVE  step'[t] = step[t]
      BY <1>1, <3>1 DEF Commit, End, Goto, TxInv
    <3>2. ASSUME UserWrite
          PROVE  step' = step
      BY <3>2 DEF UserWrite, CreateSnapshotStatement, UpdateSnapshotStatement, DeleteSnapshotStatement
    <3> QED  BY <1>1, <3>1, <3>2, WhoCommits DEF CommitsBatch
  <2>2. Request("commit", r, rows[t], parent[t], snap) /\ "batch" \in DOMAIN r
    BY <1>1 DEF TxInv, CommitsBatch
  <2> HIDE DEF r
  <2>3. r \notin LifecycleReq /\ r \notin DeleteReq
    BY <2>2 DEF LifecycleReq, DeleteReq
  <2>4. Batching("commit", r, rows[t], parent[t])
    BY <2>2, <2>3 DEF Request, Closing, Deleting
  <2>5. Wrote(rows[t], c[1], c[2], r.batch[c])
    BY <1>1, <2>4 DEF Batching, BatchReq, r
  <2> QED  BY <1>1, <2>1, <2>5, WroteReads DEF r
<1>2. TxInv /\ [TxNext]_txVars => \A t \in Tx : CommitsBatch(t) =>
        \A c \in DOMAIN req[t].batch : Reads(snap', c[1], c[2], req[t].batch[c])
  BY <1>1
<1> QED  BY <1>2, TxInvariance, PTL DEF TxSpec, BatchWhole
=============================================================================
