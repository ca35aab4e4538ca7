----------------------- MODULE InvestmentLedger_proofs -----------------------
(***************************************************************************)
(* Theorems about InvestmentLedger, for every set of investments, days,    *)
(* amounts, ids and clients, and any number of requests.                   *)
(*                                                                         *)
(* The snapshot table is sound (CloseSnapshot_proofs).  What it holds of an *)
(* investment is told cell by cell: which months are Marked, which of them *)
(* Closed, and what a close row owes.                                      *)
(***************************************************************************)
EXTENDS InvestmentLedger, CloseSnapshot_proofs, FiniteSetTheorems

Marked(t, p, n) == LiveAt(t, p, n) # {}

Closed(t, p, n) == CloseRows(t, p, n) # {}

\* The month n of p is in u what it was in t.
SameCell(t, u, p, n) ==
  /\ Marked(u, p, n) <=> Marked(t, p, n)
  /\ Closed(u, p, n) <=> Closed(t, p, n)
  /\ \A a : Reads(u, p, n, a) <=> Reads(t, p, n, a)
  /\ \A a : Owes(t, p, n, a) => Owes(u, p, n, a)

\* u differs from t in rows of month m of p alone.
OnlyAt(t, u, p, m) ==
  /\ DOMAIN t \subseteq DOMAIN u
  /\ \A j \in DOMAIN t : ~(t[j].pos = p /\ t[j].month = m) => u[j] = t[j]
  /\ \A j \in DOMAIN t : t[j].pos = p /\ t[j].month = m => u[j].pos = p /\ u[j].month = m
  /\ \A j \in DOMAIN u \ DOMAIN t : u[j].pos = p /\ u[j].month = m

LEMMA OnlyAtCells ==
  ASSUME NEW t, Linked(t), NEW u, NEW p, NEW m, OnlyAt(t, u, p, m),
         NEW q, NEW n, ~(q = p /\ n = m)
  PROVE  SameCell(t, u, q, n)
<1>1. LiveAt(u, q, n) = LiveAt(t, q, n) /\ \A j \in LiveAt(t, q, n) : u[j] = t[j]
  BY DEF LiveAt, Live, OnlyAt
<1>2. CloseRows(u, q, n) = CloseRows(t, q, n) /\ \A j \in CloseRows(t, q, n) : u[j] = t[j]
  BY <1>1 DEF CloseRows
<1>3. \A j \in CloseRows(t, q, n) : t[j].supersedes # Nil => u[t[j].supersedes] = t[t[j].supersedes]
  BY DEF CloseRows, LiveAt, Live, Linked, OnlyAt
<1>4. \A a : Owes(t, q, n, a) => Owes(u, q, n, a)
  BY <1>2, <1>3 DEF Owes
<1>5. \A a : Reads(u, q, n, a) <=> Reads(t, q, n, a)
  BY <1>1 DEF Reads
<1> QED
  BY <1>1, <1>2, <1>4, <1>5 DEF SameCell, Marked, Closed

\* A month reads zero exactly when it is closed.
LEMMA ClosedReadsZero ==
  ASSUME NEW t, NEW p, NEW n
  PROVE  /\ Closed(t, p, n) <=> Reads(t, p, n, Zero)
         /\ Closed(t, p, n) => Marked(t, p, n)
<1>1. Zero # Nil
  BY TableAssumption, NilAssumption
<1> QED
  BY <1>1 DEF Closed, Marked, Reads, CloseRows

LEMMA WriteCells ==
  ASSUME NEW t, NEW alive, NEW S, Sound(t, alive, S),
         NEW p \in Position, p \in alive, NEW m \in Month,
         NEW u \in WriteCloseSnapshot(t, p, m)
  PROVE  /\ \E T : Sound(u, alive, T)
         /\ \A q, n : ~(q = p /\ n = m) => SameCell(t, u, q, n)
         /\ Closed(u, p, m)
         /\ \A a : a # Zero /\ Reads(t, p, m, a) => Owes(u, p, m, a)
         /\ Closed(t, p, m) => u = t
<1>1. \E T : Sound(u, alive, T)
  BY WriteCloseSnapshotSound
<1>2. \A a : a # Zero /\ Reads(t, p, m, a) => Owes(u, p, m, a)
  BY WriteOwes
<1>3. Closed(t, p, m) => u = t
  BY WriteIdempotent DEF Closed
<1>4. OnlyAt(t, u, p, m) /\ Closed(u, p, m)
  <2>1. CASE \E i \in LiveAt(t, p, m) : t[i].amount = Zero /\ u = t
    BY <2>1 DEF OnlyAt, Closed, CloseRows, LiveAt, Live
  <2>2. CASE \E x \in LiveAt(t, p, m), n \in Free(t) :
               t[x].amount # Zero /\ u = Insert(Archive(t, x), n, NewRow(p, m, Zero, x))
    <3>1. PICK x \in LiveAt(t, p, m), n \in Free(t) :
            t[x].amount # Zero /\ u = Insert(Archive(t, x), n, NewRow(p, m, Zero, x))
      BY <2>2
    <3>2. Sound(u, alive, S \cup {n}) /\ Displaces(t, u, x, n, NewRow(p, m, Zero, x))
      BY <3>1, DisplaceSound
    <3>3. x \in DOMAIN t /\ t[x].pos = p /\ t[x].month = m /\ t[x] \in Row
      BY DEF LiveAt, Live, Sound, IsTable
    <3>4. Tombstone(t[x]).pos = p /\ Tombstone(t[x]).month = m
      BY <3>3 DEF Tombstone, Row
    <3>5. OnlyAt(t, u, p, m)
      BY <3>2, <3>3, <3>4 DEF Displaces, OnlyAt, NewRow
    <3>6. n \in CloseRows(u, p, m)
      BY <3>2 DEF Displaces, CloseRows, LiveAt, Live, NewRow
    <3> QED
      BY <3>5, <3>6 DEF Closed
  <2>3. CASE LiveAt(t, p, m) = {} /\ \E n \in Free(t) : u = Insert(t, n, NewRow(p, m, Zero, Nil))
    <3>1. PICK n \in Free(t) : u = Insert(t, n, NewRow(p, m, Zero, Nil))
      BY <2>3
    <3>2. Adds(t, u, n, NewRow(p, m, Zero, Nil))
      BY <2>3, <3>1, TableAssumption, InsertSound
    <3>3. n \in CloseRows(u, p, m)
      BY <3>2 DEF Adds, CloseRows, LiveAt, Live, NewRow
    <3>4. OnlyAt(t, u, p, m)
      BY <3>2 DEF Adds, OnlyAt, NewRow
    <3> QED
      BY <3>3, <3>4 DEF Closed
  <2> QED
    BY <2>1, <2>2, <2>3 DEF WriteCloseSnapshot
<1>5. \A q, n : ~(q = p /\ n = m) => SameCell(t, u, q, n)
  BY <1>4, OnlyAtCells DEF Sound
<1> QED
  BY <1>1, <1>2, <1>3, <1>4, <1>5

LEMMA RevertCells ==
  ASSUME NEW t, NEW alive, NEW S, Sound(t, alive, S), NEW p, NEW m,
         NEW u \in RevertCloseSnapshot(t, p, m)
  PROVE  /\ \E T : Sound(u, alive, T)
         /\ \A q, n : ~(q = p /\ n = m) => SameCell(t, u, q, n)
         /\ ~Closed(u, p, m)
         /\ Marked(u, p, m) => Marked(t, p, m)
         /\ \A a : Owes(t, p, m, a) => Reads(u, p, m, a)
<1>1. \E T : Sound(u, alive, T)
  BY RevertCloseSnapshotSound
<1>2. ~Closed(u, p, m)
  BY RevertNotZero, ClosedReadsZero
<1>3. \A a : Owes(t, p, m, a) => Reads(u, p, m, a)
  BY RevertPays
<1>4. Marked(u, p, m) => Marked(t, p, m)
  BY DEF Marked, RevertCloseSnapshot, CloseRows
<1>5. OnlyAt(t, u, p, m)
  <2>1. CASE CloseRows(t, p, m) = {}
    BY <2>1 DEF RevertCloseSnapshot, OnlyAt
  <2>2. CASE CloseRows(t, p, m) # {}
    <3>1. PICK c \in CloseRows(t, p, m) :
            \/ t[c].supersedes = Nil /\ u = Archive(t, c)
            \/ t[c].supersedes # Nil /\ u = Restore(Archive(t, c), t[c].supersedes)
      BY <2>2 DEF RevertCloseSnapshot
    <3>2. c \in DOMAIN t /\ t[c].pos = p /\ t[c].month = m /\ t[c].supersedes \in SnapId \cup {Nil}
      BY DEF CloseRows, LiveAt, Live, Sound, IsTable, Row
    <3>3. t[c].supersedes # Nil => /\ t[c].supersedes \in DOMAIN t
                                   /\ t[t[c].supersedes].pos = p /\ t[t[c].supersedes].month = m
      BY <3>2 DEF Sound, Linked
    <3>4. \A j \in DOMAIN t : t[j] \in Row
      BY DEF Sound, IsTable
    <3>5. CASE u = Archive(t, c)
      BY <3>2, <3>4, <3>5 DEF Archive, OnlyAt, Row
    <3>6. CASE t[c].supersedes # Nil /\ u = Restore(Archive(t, c), t[c].supersedes)
      <4> DEFINE b == Archive(t, c)
                 s == t[c].supersedes
      <4>1. /\ DOMAIN b = DOMAIN t
            /\ \A j \in DOMAIN t : /\ b[j].pos = t[j].pos /\ b[j].month = t[j].month /\ b[j] \in Row
                                   /\ j # c => b[j] = t[j]
        BY <3>4 DEF Archive, Row
      <4> HIDE DEF b, s
      <4>2. u = Restore(b, s) /\ s \in DOMAIN t /\ t[s].pos = p /\ t[s].month = m
        BY <3>3, <3>6 DEF b, s
      <4>3. /\ DOMAIN u = DOMAIN t
            /\ \A j \in DOMAIN t : /\ u[j].pos = t[j].pos /\ u[j].month = t[j].month
                                   /\ j # c /\ j # s => u[j] = t[j]
        BY <4>1, <4>2 DEF Restore, Row
      <4> QED
        BY <3>2, <4>2, <4>3 DEF OnlyAt
    <3> QED
      BY <3>1, <3>5, <3>6
  <2> QED
    BY <2>1, <2>2
<1>6. \A q, n : ~(q = p /\ n = m) => SameCell(t, u, q, n)
  BY <1>5, OnlyAtCells DEF Sound
<1> QED
  BY <1>1, <1>2, <1>3, <1>4, <1>6

\* A user's snapshot: a row of a month that had none.
LEMMA InsertCells ==
  ASSUME NEW t, NEW alive, NEW S, Sound(t, alive, S),
         NEW p \in Position, p \in alive, NEW m \in Month, NEW a \in UserAmount,
         LiveAt(t, p, m) = {}, NEW k \in Free(t),
         NEW u, u = Insert(t, k, NewRow(p, m, a, Nil))
  PROVE  /\ \E T : Sound(u, alive, T)
         /\ \A q, n : ~(q = p /\ n = m) => SameCell(t, u, q, n)
         /\ ~Closed(u, p, m)
<1>1. a \in Amount /\ a # Zero
  BY UserAssumption
<1> DEFINE row == NewRow(p, m, a, Nil)
<1>2. Sound(u, alive, S \cup {k}) /\ Adds(t, u, k, row)
  BY <1>1, InsertSound
<1>0. row.pos = p /\ row.month = m /\ row.amount = a
  BY DEF NewRow
<1> HIDE DEF row
<1>3. OnlyAt(t, u, p, m)
  BY <1>0, <1>2 DEF Adds, OnlyAt
<1>4. \A j \in LiveAt(u, p, m) : u[j].amount = a
  BY <1>0, <1>2 DEF Adds, LiveAt, Live
<1>5. ~Closed(u, p, m)
  BY <1>1, <1>4 DEF Closed, CloseRows
<1> QED
  BY <1>2, <1>3, <1>5, OnlyAtCells DEF Sound

LEMMA ArchiveCells ==
  ASSUME NEW t, NEW alive, NEW S, Sound(t, alive, S), NEW i \in Live(t),
         NEW u, u = Archive(t, i)
  PROVE  /\ \E T : Sound(u, alive, T)
         /\ \A q, n : ~(q = t[i].pos /\ n = t[i].month) => SameCell(t, u, q, n)
         /\ \A q, n : Marked(u, q, n) => Marked(t, q, n)
         /\ \A q, n : Closed(u, q, n) => Closed(t, q, n)
<1>1. (\E T : Sound(u, alive, T)) /\ Drops(t, u, i)
  BY ArchiveSound
<1>2. t[i] \in Row /\ i \in DOMAIN t
  BY DEF Live, Sound, IsTable
<1>3. Tombstone(t[i]).pos = t[i].pos /\ Tombstone(t[i]).month = t[i].month
  BY <1>2 DEF Tombstone, Row
<1>4. OnlyAt(t, u, t[i].pos, t[i].month)
  BY <1>1, <1>2, <1>3 DEF Drops, OnlyAt
<1>5. \A q, n : LiveAt(u, q, n) \subseteq LiveAt(t, q, n) /\ CloseRows(u, q, n) \subseteq CloseRows(t, q, n)
  BY <1>1 DEF Drops, LiveAt, Live, CloseRows
<1> QED
  BY <1>1, <1>4, <1>5, OnlyAtCells DEF Sound, Marked, Closed

LEMMA ArchiveAllCells ==
  ASSUME NEW t, NEW alive, NEW S, Sound(t, alive, S), NEW p,
         NEW u, u = ArchiveAll(t, p)
  PROVE  /\ \E T : Sound(u, alive \ {p}, T)
         /\ \A q, n : q # p => SameCell(t, u, q, n)
         /\ \A n : ~Marked(u, p, n)
<1>1. \E T : Sound(u, alive \ {p}, T)
  BY ArchiveAllSound
<1>2. /\ DOMAIN u = DOMAIN t
      /\ \A j \in DOMAIN t : /\ t[j].pos # p => u[j] = t[j]
                             /\ t[j].pos = p => u[j].deleted /\ u[j].pos = p
  BY DEF ArchiveAll, Sound, IsTable, Row
<1>3. \A n : ~Marked(u, p, n)
  BY <1>2 DEF Marked, LiveAt, Live
<1>4. ASSUME NEW q, NEW n, q # p PROVE SameCell(t, u, q, n)
  <2>1. LiveAt(u, q, n) = LiveAt(t, q, n) /\ \A j \in LiveAt(t, q, n) : u[j] = t[j]
    BY <1>2, <1>4 DEF LiveAt, Live
  <2>2. CloseRows(u, q, n) = CloseRows(t, q, n) /\ \A j \in CloseRows(t, q, n) : u[j] = t[j]
    BY <2>1 DEF CloseRows
  <2>3. \A j \in CloseRows(t, q, n) :
          t[j].supersedes # Nil => u[t[j].supersedes] = t[t[j].supersedes]
    BY <1>2, <1>4 DEF CloseRows, LiveAt, Live, Sound, Linked
  <2>4. \A a : Owes(t, q, n, a) => Owes(u, q, n, a)
    BY <2>2, <2>3 DEF Owes
  <2>5. \A a : Reads(u, q, n, a) <=> Reads(t, q, n, a)
    BY <2>1 DEF Reads
  <2> QED
    BY <2>1, <2>2, <2>4, <2>5 DEF SameCell, Marked, Closed
<1> QED
  BY <1>1, <1>3, <1>4

\* An upsert of some months of p.
LEMMA UpsertCells ==
  ASSUME NEW t, NEW alive, NEW S, Sound(t, alive, S), NEW p \in Position, p \in alive,
         NEW M \in SUBSET Month, NEW batch, DOMAIN batch = {p} \X M,
         \A c \in DOMAIN batch : batch[c] \in Amount,
         NEW id \in [NewCells(t, batch) -> Free(t)],
         \A c, d \in DOMAIN id : id[c] = id[d] => c = d,
         NEW u, u = Upsert(t, batch, id)
  PROVE  /\ \E T : Sound(u, alive, T)
         /\ \A q, n : ~(q = p /\ n \in M) => SameCell(t, u, q, n)
         /\ \A n \in M : Closed(u, p, n) <=> batch[<<p, n>>] = Zero
<1> DEFINE New == {id[c] : c \in DOMAIN id}
           cell(n) == CHOOSE c \in DOMAIN id : id[c] = n
<1>0. DOMAIN batch \subseteq (Position \cap alive) \X Month
  OBVIOUS
<1>1. /\ Sound(u, alive, S \cup New)
      /\ DOMAIN t \subseteq DOMAIN u
      /\ \A j \in DOMAIN t :
           t[j].deleted \/ <<t[j].pos, t[j].month>> \notin DOMAIN batch => u[j] = t[j]
  <2> HIDE DEF New
  <2>1. Sound(u, alive, S \cup {id[c] : c \in DOMAIN id})
    BY <1>0, UpsertSound
  <2> QED
    BY <1>0, <2>1, UpsertSound DEF New
<1>2. /\ DOMAIN u = DOMAIN t \cup New
      /\ New \cap DOMAIN t = {}
      /\ \A n \in New : cell(n) \in DOMAIN id /\ id[cell(n)] = n
      /\ \A n \in New : u[n] = NewRow(cell(n)[1], cell(n)[2], batch[cell(n)], Nil)
  BY DEF Upsert, Free
<1>3. \A c \in DOMAIN id : c \in DOMAIN batch /\ cell(id[c]) = c
  BY <1>2 DEF NewCells
<1>4. \A j \in DOMAIN t : /\ u[j].pos = t[j].pos /\ u[j].month = t[j].month
                          /\ u[j].deleted = t[j].deleted
                          /\ ~t[j].deleted /\ <<t[j].pos, t[j].month>> \in DOMAIN batch =>
                               u[j].amount = batch[<<t[j].pos, t[j].month>>]
  <2>1. \A j \in DOMAIN t : t[j] \in Row  BY DEF Sound, IsTable
  <2> QED  BY <2>1 DEF Upsert, Row
<1>5. ASSUME NEW j \in New
      PROVE  /\ u[j].pos = p /\ u[j].month \in M /\ ~u[j].deleted
             /\ u[j].amount = batch[<<p, u[j].month>>]
  <2>1. cell(j) \in DOMAIN batch
    BY <1>2, <1>3
  <2> DEFINE c == cell(j)
  <2>2. u[j] = NewRow(c[1], c[2], batch[c], Nil)
    BY <1>2
  <2> HIDE DEF cell, c
  <2>3. c \in {p} \X M
    BY <2>1 DEF c
  <2>4. c[1] = p /\ c[2] \in M /\ c = <<p, c[2]>>
    BY <2>3
  <2> QED
    BY <2>2, <2>4 DEF NewRow
<1> HIDE DEF New, cell
<1>6. ASSUME NEW q, NEW n, ~(q = p /\ n \in M) PROVE SameCell(t, u, q, n)
  <2>1. <<q, n>> \notin DOMAIN batch
    BY <1>6
  <2>a. \A j \in New : ~(u[j].pos = q /\ u[j].month = n)
    BY <1>5, <1>6
  <2>b. \A j \in DOMAIN t : t[j].pos = q /\ t[j].month = n => u[j] = t[j]
    BY <1>1, <2>1
  <2>c. \A j \in DOMAIN u : u[j].pos = q /\ u[j].month = n => j \in DOMAIN t /\ u[j] = t[j]
    BY <1>2, <1>4, <2>a, <2>b
  <2>2. LiveAt(u, q, n) = LiveAt(t, q, n) /\ \A j \in LiveAt(t, q, n) : u[j] = t[j]
    BY <1>2, <2>b, <2>c DEF LiveAt, Live
  <2>3. CloseRows(u, q, n) = CloseRows(t, q, n) /\ \A j \in CloseRows(t, q, n) : u[j] = t[j]
    BY <2>2 DEF CloseRows
  <2>4. \A j \in CloseRows(t, q, n) :
          t[j].supersedes # Nil => u[t[j].supersedes] = t[t[j].supersedes]
    <3>1. \A j \in CloseRows(t, q, n) : j \in DOMAIN t /\ t[j].pos = q /\ t[j].month = n
      BY DEF CloseRows, LiveAt, Live
    <3>2. \A j \in DOMAIN t : t[j].pos = q /\ t[j].month = n => u[j] = t[j]
      BY <1>1, <2>1
    <3> QED
      BY <3>1, <3>2 DEF Sound, Linked
  <2>5. \A a : Owes(t, q, n, a) => Owes(u, q, n, a)
    BY <2>3, <2>4 DEF Owes
  <2>6. \A a : Reads(u, q, n, a) <=> Reads(t, q, n, a)
    BY <2>2 DEF Reads
  <2> QED
    BY <2>2, <2>3, <2>5, <2>6 DEF SameCell, Marked, Closed
<1>7. ASSUME NEW n \in M PROVE Closed(u, p, n) <=> batch[<<p, n>>] = Zero
  <2>1. <<p, n>> \in DOMAIN batch
    OBVIOUS
  <2>2. ASSUME NEW j \in LiveAt(u, p, n) PROVE u[j].amount = batch[<<p, n>>]
    <3>1. j \in DOMAIN u /\ ~u[j].deleted /\ u[j].pos = p /\ u[j].month = n
      BY DEF LiveAt, Live
    <3>2. CASE j \in New
      BY <1>5, <3>1, <3>2
    <3>3. CASE j \in DOMAIN t
      BY <1>4, <2>1, <3>1, <3>3
    <3> QED
      BY <1>2, <3>1, <3>2, <3>3
  <2>3. LiveAt(u, p, n) # {}
    <3>1. CASE LiveAt(t, p, n) # {}
      <4>1. PICK j \in DOMAIN t : ~t[j].deleted /\ t[j].pos = p /\ t[j].month = n
        BY <3>1 DEF LiveAt, Live
      <4>2. j \in DOMAIN u /\ ~u[j].deleted /\ u[j].pos = p /\ u[j].month = n
        BY <1>2, <1>4, <4>1
      <4> QED
        BY <4>2 DEF LiveAt, Live
    <3>2. CASE LiveAt(t, p, n) = {}
      <4>1. <<p, n>> \in DOMAIN id
        <5>1. LiveAt(t, <<p, n>>[1], <<p, n>>[2]) = {}
          BY <3>2
        <5> QED
          BY <2>1, <5>1 DEF NewCells
      <4>2. id[<<p, n>>] \in DOMAIN u /\ u[id[<<p, n>>]] = NewRow(p, n, batch[<<p, n>>], Nil)
        BY <1>2, <1>3, <4>1 DEF New
      <4> QED
        BY <4>2 DEF LiveAt, Live, NewRow
    <3> QED
      BY <3>1, <3>2
  <2> QED
    BY <2>2, <2>3 DEF Closed, CloseRows
<1> QED
  BY <1>1, <1>6, <1>7

----------------------------------------------------------------------------
(* The invariant *)

Alive == {i \in Position : Exists(i)}

InvestmentsOK ==
  /\ DOMAIN investment \subseteq Position
  /\ \A i \in DOMAIN investment :
       /\ investment[i] \in Investment
       /\ (investment[i].at = Nil) <=> (investment[i].status = "active")
       /\ investment[i].from # Nil => investment[i].from \in DOMAIN investment

TableInv == \E S : Sound(snap, Alive, S)

LedgerOK ==
  /\ DOMAIN txn \subseteq TxnId
  /\ \A t \in DOMAIN txn : txn[t] \in Transaction /\ (txn[t].deleted \/ Exists(txn[t].of))

HistoryOK ==
  /\ held \in [Position -> Amount \cup {Nil, Forgotten}]
  /\ strayed \in [Position -> SUBSET Stray]
  /\ \A i \in Position \ DOMAIN investment : held[i] = Forgotten

\* What a request has read, and what of it is still so at its commit.
CreateOK(r) ==
  /\ r.of \in DOMAIN investment
  /\ r.type \in {"trade", "maturity"} /\ r.date \in Date
  /\ r.saw.status = "active"
  /\ r.saw.subtype = "time_deposit" => r.type = "maturity" /\ r.date \in r.saw.term

EditOK(r) ==
  /\ r.of \in DOMAIN investment
  /\ r.date \in Date /\ r.was \in Date
  /\ r.txn \in DOMAIN txn /\ txn[r.txn].of = r.of
  /\ txn[r.txn].type = "maturity" /\ r.saw.subtype = "time_deposit" => r.date \in r.saw.term

LifecycleOK(r) ==
  /\ r.of \in DOMAIN investment
  /\ r.status \in Status /\ r.date \in Date \cup {Nil}
  /\ (r.status = "active") <=> (r.date = Nil)
  /\ r.saw.at \in Date \cup {Nil}
  /\ r.settle => /\ r.saw.status = "active" /\ r.status # "active"
                 /\ SettlementTypeFor(r.of, r.status) # Nil

SnapshotOK(r) == r.of \in DOMAIN investment /\ r.month \in Month

LinkOK(r) ==
  /\ r.of \in DOMAIN investment /\ r.source \in DOMAIN investment /\ r.of # r.source
  /\ r.saw.from = Nil /\ r.sawSource.from # r.of /\ r.taken = {}

RequestOK(r) ==
  /\ r.op = "create"    => CreateOK(r)
  /\ r.op = "edit"      => EditOK(r)
  /\ r.op = "lifecycle" => LifecycleOK(r)
  /\ r.op = "snapshot"  => SnapshotOK(r)
  /\ r.op = "link"      => LinkOK(r)

RequestsOK ==
  /\ DOMAIN request = Client
  /\ \A c \in Client : request[c] # Nil => RequestOK(request[c])

\* One maturity, and none while the investment is active.
LedgerFine(i) ==
  Unstrayed(i, {"stale", "reopened"}) =>
    /\ \A t, u \in LiveMaturities(i) : t = u
    /\ investment[i].status = "active" => LiveMaturities(i) = {}

\* The maturity and the close row are where the investment ended.
EndFine(i) ==
  Unstrayed(i, {"stale", "redated", "reopened"}) =>
    /\ \A t \in LiveMaturities(i) :
         investment[i].at # Nil /\ SameMonth(investment[i].at, txn[t].date)
    /\ \A n : Closed(snap, i, n) => investment[i].at # Nil /\ MonthOf(investment[i].at) = n

ZeroFine(i) ==
  i \notin touched /\ Exists(i) /\ investment[i].at # Nil =>
    Closed(snap, i, MonthOf(investment[i].at))

TermFine(i) ==
  Exists(i) /\ IsDeposit(i) /\ Unstrayed(i, {"stale", "offTerm"}) =>
    /\ \A n : Marked(snap, i, n) => \E d \in investment[i].term : MonthOf(d) = n
    /\ \A t \in LiveTxns(i) : txn[t].type = "maturity" /\ txn[t].date \in investment[i].term

\* The close row owes what its month read before.
HeldFine(i) ==
  /\ Exists(i) /\ investment[i].at # Nil
  /\ held[i] \notin {Forgotten, Zero} /\ "stale" \notin strayed[i]
  => Owes(snap, i, MonthOf(investment[i].at), held[i])

Fine(i) == LedgerFine(i) /\ EndFine(i) /\ ZeroFine(i) /\ TermFine(i) /\ HeldFine(i)

ChainFine(i) ==
  Unstrayed(i, {"stale", "split"}) =>
    /\ \A j, k \in Successors(i) : j = k
    /\ investment[i].from # Nil => investment[i].from \notin Successors(i)

Inv ==
  /\ InvestmentsOK /\ TableInv /\ LedgerOK /\ HistoryOK /\ RequestsOK
  /\ \A i \in DOMAIN investment : Fine(i) /\ ChainFine(i)

----------------------------------------------------------------------------
(* What a step about one investment leaves alone *)

SameInvestment(i) ==
  /\ i \in DOMAIN investment /\ i \in DOMAIN investment'
  /\ investment'[i].subtype = investment[i].subtype
  /\ investment'[i].status = investment[i].status
  /\ investment'[i].at = investment[i].at
  /\ investment'[i].deleted = investment[i].deleted
  /\ investment'[i].term = investment[i].term

SameLedger(i) ==
  /\ LiveTxns(i)' = LiveTxns(i)
  /\ \A t \in LiveTxns(i) : txn'[t] = txn[t]

SameHistory(i) ==
  /\ held'[i] = held[i]
  /\ i \in touched => i \in touched'
  /\ strayed[i] \subseteq strayed'[i]

LEMMA StaysFine ==
  ASSUME NEW i, Fine(i), SameInvestment(i), SameLedger(i), SameHistory(i),
         \A n : SameCell(snap, snap', i, n)
  PROVE  Fine(i)'
<1>1. LiveMaturities(i)' = LiveMaturities(i) /\ \A t \in LiveMaturities(i) : txn'[t] = txn[t]
  BY DEF SameLedger, LiveMaturities
<1>2. \A how : Unstrayed(i, how)' => Unstrayed(i, how)
  BY DEF SameHistory, Unstrayed
<1>3. LedgerFine(i)'
  BY <1>1, <1>2 DEF Fine, LedgerFine, SameInvestment
<1>4. EndFine(i)'
  BY <1>1, <1>2 DEF Fine, EndFine, SameInvestment, SameCell
<1>5. ZeroFine(i)'
  BY DEF Fine, ZeroFine, SameInvestment, SameHistory, SameCell, Exists
<1>6. TermFine(i)'
  BY <1>2 DEF Fine, TermFine, SameInvestment, SameLedger, SameCell, Exists, IsDeposit
<1>7. HeldFine(i)'
  BY DEF Fine, HeldFine, SameInvestment, SameHistory, SameCell, Exists
<1> QED
  BY <1>3, <1>4, <1>5, <1>6, <1>7 DEF Fine

\* The tables only grow, and no row changes what it belongs to.
Grows ==
  /\ DOMAIN investment \subseteq DOMAIN investment'
  /\ \A i \in DOMAIN investment : investment'[i].subtype = investment[i].subtype
  /\ DOMAIN txn \subseteq DOMAIN txn'
  /\ \A t \in DOMAIN txn : txn'[t].of = txn[t].of /\ txn'[t].type = txn[t].type

Answered == request' = request \/ \E c \in Client : request' = [request EXCEPT ![c] = Nil]

LEMMA RequestStays ==
  ASSUME NEW r, RequestOK(r), Grows
  PROVE  RequestOK(r)'
<1>1. CreateOK(r) => CreateOK(r)'
  BY DEF Grows, CreateOK
<1>2. EditOK(r) => EditOK(r)'
  BY DEF Grows, EditOK
<1>3. LifecycleOK(r) => LifecycleOK(r)'
  BY DEF Grows, LifecycleOK, SettlementTypeFor, IsDeposit
<1>4. SnapshotOK(r) => SnapshotOK(r)'
  BY DEF Grows, SnapshotOK
<1>5. LinkOK(r) => LinkOK(r)'
  BY DEF Grows, LinkOK
<1> QED
  BY <1>1, <1>2, <1>3, <1>4, <1>5 DEF RequestOK

LEMMA RequestsStay ==
  ASSUME RequestsOK, Grows, Answered
  PROVE  RequestsOK'
<1>1. DOMAIN request' = Client /\ \A d \in Client : request'[d] \in {Nil, request[d]}
  BY DEF Answered, RequestsOK
<1>2. ASSUME NEW d \in Client, request'[d] # Nil, NEW r, r = request'[d] PROVE RequestOK(r)'
  <2>1. RequestOK(r)
    BY <1>1, <1>2 DEF RequestsOK
  <2> QED
    BY <2>1, RequestStays
<1> QED
  BY <1>1, <1>2 DEF RequestsOK

\* A step about investment i.
FocusInvestment(i) ==
  /\ i \in DOMAIN investment /\ Exists(i)
  /\ DOMAIN investment' = DOMAIN investment
  /\ \A j \in DOMAIN investment \ {i} : investment'[j] = investment[j]
  /\ investment'[i] \in Investment
  /\ (investment'[i].at = Nil) <=> (investment'[i].status = "active")
  /\ investment'[i].subtype = investment[i].subtype
  /\ investment'[i].from = investment[i].from
  /\ investment'[i].deleted = investment[i].deleted

FocusTxn(i) ==
  /\ DOMAIN txn \subseteq DOMAIN txn' /\ DOMAIN txn' \subseteq TxnId
  /\ \A t \in DOMAIN txn' : txn'[t] \in Transaction
  /\ \A t \in DOMAIN txn : /\ txn'[t].of = txn[t].of /\ txn'[t].type = txn[t].type
                           /\ txn[t].of # i => txn'[t] = txn[t]
  /\ \A t \in DOMAIN txn' \ DOMAIN txn : txn'[t].of = i

FocusHistory(i) ==
  /\ held' \in [Position -> Amount \cup {Nil, Forgotten}]
  /\ strayed' \in [Position -> SUBSET Stray]
  /\ strayed[i] \subseteq strayed'[i]
  /\ \A j \in Position \ {i} : /\ held'[j] = held[j] /\ strayed'[j] = strayed[j]
                               /\ j \in touched => j \in touched'

FocusTable(i) ==
  /\ \E S : Sound(snap', Alive, S)
  /\ \A j, n : j # i => SameCell(snap, snap', j, n)

LEMMA FocusInv ==
  ASSUME Inv, NEW i, FocusInvestment(i), FocusTxn(i), FocusHistory(i), FocusTable(i), Answered,
         Fine(i)'
  PROVE  Inv'
<1>1. \A j \in Position : Exists(j)' <=> Exists(j)
  BY DEF FocusInvestment, Exists
<1>2. \A j \in DOMAIN investment : /\ investment'[j].from = investment[j].from
                                   /\ investment'[j].subtype = investment[j].subtype
  BY DEF FocusInvestment
<1>3. InvestmentsOK'
  BY <1>2 DEF Inv, InvestmentsOK, FocusInvestment
<1>4. TableInv'
  <2>1. Alive' = Alive
    BY <1>1 DEF Alive
  <2> QED
    BY <2>1 DEF TableInv, FocusTable
<1>5. LedgerOK'
  <2>1. i \in Position
    BY DEF FocusInvestment, Inv, InvestmentsOK
  <2>2. Exists(i)'
    BY <1>1, <2>1 DEF FocusInvestment
  <2>3. ASSUME NEW t \in DOMAIN txn', NEW o, o = txn'[t].of PROVE txn'[t].deleted \/ Exists(o)'
    <3>1. CASE o = i
      BY <2>2, <3>1
    <3>2. CASE o # i
      <4>1. t \in DOMAIN txn /\ txn'[t] = txn[t]
        BY <2>3, <3>2 DEF FocusTxn
      <4>2. o \in Position /\ (txn[t].deleted \/ Exists(o))
        BY <2>3, <4>1 DEF Inv, LedgerOK, Transaction
      <4> QED
        BY <1>1, <4>1, <4>2
    <3> QED
      BY <3>1, <3>2
  <2> QED
    BY <2>3 DEF LedgerOK, FocusTxn
<1>6. HistoryOK'
  BY DEF Inv, HistoryOK, FocusHistory, FocusInvestment
<1>7. RequestsOK'
  <2>1. Grows
    BY <1>2 DEF Grows, FocusInvestment, FocusTxn
  <2> QED
    BY <2>1, RequestsStay DEF Inv
<1>8. ASSUME NEW j \in DOMAIN investment, j # i PROVE Fine(j)'
  <2>1. SameInvestment(j)
    BY <1>8 DEF SameInvestment, FocusInvestment
  <2>2. \A t \in DOMAIN txn' : txn'[t].of = j => t \in DOMAIN txn /\ txn'[t] = txn[t]
    BY <1>8 DEF FocusTxn
  <2>3. \A t \in DOMAIN txn : txn[t].of = j => t \in DOMAIN txn' /\ txn'[t] = txn[t]
    BY <1>8 DEF FocusTxn
  <2>4. SameLedger(j)
    BY <2>2, <2>3 DEF SameLedger, LiveTxns
  <2>5. SameHistory(j)
    BY <1>8 DEF SameHistory, FocusHistory, Inv, InvestmentsOK
  <2>6. \A n : SameCell(snap, snap', j, n)
    BY <1>8 DEF FocusTable
  <2> QED
    BY <2>1, <2>4, <2>5, <2>6, StaysFine DEF Inv
<1>9. ASSUME NEW j \in DOMAIN investment PROVE ChainFine(j)'
  <2>0. DOMAIN investment \subseteq Position
    BY DEF Inv, InvestmentsOK
  <2>1. Successors(j)' = Successors(j)
    BY <1>1, <1>2, <2>0 DEF Successors, FocusInvestment
  <2>2. strayed[j] \subseteq strayed'[j]
    BY <2>0 DEF FocusHistory
  <2> QED
    BY <1>2, <2>1, <2>2 DEF Inv, ChainFine, Unstrayed
<1> QED
  BY <1>3, <1>4, <1>5, <1>6, <1>7, <1>8, <1>9 DEF Inv, FocusInvestment

----------------------------------------------------------------------------
(* Parts of the steps *)

LEMMA StraysFact ==
  ASSUME HistoryOK, NEW i \in Position, NEW how \in SUBSET Stray, Strays(i, how)
  PROVE  /\ strayed' \in [Position -> SUBSET Stray]
         /\ strayed'[i] = strayed[i] \cup how
         /\ \A j \in Position \ {i} : strayed'[j] = strayed[j]
  BY DEF HistoryOK, Strays

LEMMA EndFact ==
  ASSUME InvestmentsOK, NEW i \in DOMAIN investment, Exists(i),
         NEW status \in Status, NEW at \in Date \cup {Nil}, (at = Nil) <=> (status = "active"),
         End(i, status, at)
  PROVE  /\ FocusInvestment(i)
         /\ investment'[i].status = status /\ investment'[i].at = at
         /\ investment'[i].term = investment[i].term
<1>1. investment[i] \in Investment
  BY DEF InvestmentsOK
<1>2. investment'[i] = [investment[i] EXCEPT !.status = status, !.at = at]
  BY DEF End
<1>3. /\ investment'[i] \in Investment
      /\ investment'[i].status = status /\ investment'[i].at = at
      /\ investment'[i].subtype = investment[i].subtype
      /\ investment'[i].from = investment[i].from
      /\ investment'[i].deleted = investment[i].deleted
      /\ investment'[i].term = investment[i].term
  BY <1>1, <1>2 DEF Investment
<1>4. DOMAIN investment' = DOMAIN investment
      /\ \A j \in DOMAIN investment \ {i} : investment'[j] = investment[j]
  BY DEF End
<1> QED
  BY <1>3, <1>4 DEF FocusInvestment

LEMMA SameInvestmentFact ==
  ASSUME InvestmentsOK, NEW i \in DOMAIN investment, Exists(i), UNCHANGED investment
  PROVE  FocusInvestment(i)
  BY DEF InvestmentsOK, FocusInvestment

\* A new transaction of i.
LEMMA NewTxnFact ==
  ASSUME LedgerOK, NEW i \in Position, NEW type \in {"trade", "maturity"}, NEW d \in Date,
         NEW t \in FreeTxn, txn' = With(txn, t, NewTxn(i, type, d))
  PROVE  /\ FocusTxn(i)
         /\ LiveTxns(i)' = LiveTxns(i) \cup {t}
         /\ LiveMaturities(i)' = LiveMaturities(i) \cup (IF type = "maturity" THEN {t} ELSE {})
         /\ \A x \in LiveTxns(i) : txn'[x] = txn[x]
         /\ txn'[t].type = type /\ txn'[t].date = d
<1> DEFINE row == NewTxn(i, type, d)
<1>1. row \in Transaction /\ ~row.deleted /\ row.of = i /\ row.type = type /\ row.date = d
  BY DEF NewTxn, Transaction
<1> HIDE DEF row
<1>2. /\ DOMAIN txn' = DOMAIN txn \cup {t} /\ t \notin DOMAIN txn /\ t \in TxnId
      /\ txn'[t] = row
      /\ \A x \in DOMAIN txn : txn'[x] = txn[x]
  BY DEF With, FreeTxn, row
<1>3. FocusTxn(i)
  BY <1>1, <1>2 DEF FocusTxn, LedgerOK
<1>4. LiveTxns(i)' = LiveTxns(i) \cup {t} /\ \A x \in LiveTxns(i) : txn'[x] = txn[x]
  BY <1>1, <1>2 DEF LiveTxns
<1>5. LiveMaturities(i)' = LiveMaturities(i) \cup (IF type = "maturity" THEN {t} ELSE {})
  BY <1>1, <1>2, <1>4 DEF LiveMaturities
<1> QED
  BY <1>1, <1>2, <1>3, <1>4, <1>5

LEMMA SameTxnFact ==
  ASSUME LedgerOK, NEW i, UNCHANGED txn
  PROVE  FocusTxn(i) /\ SameLedger(i)
<1>1. LiveTxns(i)' = LiveTxns(i)
  BY DEF LiveTxns
<1> QED
  BY <1>1 DEF LedgerOK, FocusTxn, SameLedger

\* What was held, and what a user's write makes of it.
LEMMA HoldsFact ==
  ASSUME HistoryOK, NEW i \in Position, NEW s, NEW d, held' \in Holds(i, s, d)
  PROVE  /\ held' \in [Position -> Amount \cup {Nil, Forgotten}]
         /\ Reads(s, i, MonthOf(d), held'[i])
         /\ \A j \in Position \ {i} : held'[j] = held[j]
  BY DEF HistoryOK, Holds

LEMMA ForgetFact ==
  ASSUME HistoryOK, NEW i \in Position, held' = [held EXCEPT ![i] = Forgotten]
  PROVE  /\ held' \in [Position -> Amount \cup {Nil, Forgotten}]
         /\ held'[i] = Forgotten
         /\ \A j \in Position \ {i} : held'[j] = held[j]
  BY DEF HistoryOK

LEMMA TouchFact ==
  ASSUME HistoryOK, NEW i \in DOMAIN investment, i \in Position, NEW m, Touch(i, m)
  PROVE  /\ held' \in [Position -> Amount \cup {Nil, Forgotten}]
         /\ \A j \in Position \ {i} : held'[j] = held[j]
         /\ \A j : j \in touched => j \in touched'
         /\ i \notin touched' \/ held'[i] # Forgotten =>
              /\ held'[i] = held[i]
              /\ investment[i].at = Nil \/ MonthOf(investment[i].at) # m
<1>1. CASE investment[i].at # Nil /\ MonthOf(investment[i].at) = m
  BY <1>1, ForgetFact DEF Touch
<1>2. CASE investment[i].at = Nil \/ MonthOf(investment[i].at) # m
  BY <1>2 DEF Touch, HistoryOK
<1> QED
  BY <1>1, <1>2

\* The table after a close row is written, or taken back.
LEMMA WriteFact ==
  ASSUME TableInv, NEW i \in Position, Exists(i), NEW d \in Date,
         snap' \in WriteCloseSnapshot(snap, i, MonthOf(d))
  PROVE  /\ FocusTable(i)
         /\ \A n : n # MonthOf(d) => SameCell(snap, snap', i, n)
         /\ Closed(snap', i, MonthOf(d))
         /\ \A a : a # Zero /\ Reads(snap, i, MonthOf(d), a) => Owes(snap', i, MonthOf(d), a)
         /\ Closed(snap, i, MonthOf(d)) => snap' = snap
<1>1. PICK S : Sound(snap, Alive, S)
  BY DEF TableInv
<1>2. MonthOf(d) \in Month /\ i \in Alive
  BY MonthOfAssumption DEF Alive
<1> QED
  BY <1>1, <1>2, WriteCells DEF FocusTable

LEMMA SameCellTwice ==
  ASSUME NEW t, NEW u, NEW v, NEW p, NEW n, SameCell(t, u, p, n), SameCell(u, v, p, n)
  PROVE  SameCell(t, v, p, n)
  BY DEF SameCell

LEMMA SameCellSelf ==
  ASSUME NEW t, NEW p, NEW n
  PROVE  SameCell(t, t, p, n)
  BY DEF SameCell

LEMMA SameTableFact ==
  ASSUME TableInv, NEW i, UNCHANGED snap
  PROVE  FocusTable(i) /\ \A n : SameCell(snap, snap', i, n)
  BY SameCellSelf DEF TableInv, FocusTable

LEMMA RevertFact ==
  ASSUME TableInv, NEW i, NEW m, snap' \in RevertCloseSnapshot(snap, i, m)
  PROVE  /\ FocusTable(i)
         /\ \A n : n # m => SameCell(snap, snap', i, n)
         /\ ~Closed(snap', i, m)
         /\ Marked(snap', i, m) => Marked(snap, i, m)
<1>1. PICK S : Sound(snap, Alive, S)
  BY DEF TableInv
<1> QED
  BY <1>1, RevertCells DEF FocusTable

\* The table a maturity's new close row is written to.
LEMMA LeftFact ==
  ASSUME TableInv, NEW i, NEW was, NEW d, NEW s \in Left(i, was, d)
  PROVE  /\ \E S : Sound(s, Alive, S)
         /\ \A q, n : ~(q = i /\ n = MonthOf(was)) => SameCell(snap, s, q, n)
         /\ SameMonth(was, d) => s = snap
         /\ ~SameMonth(was, d) => ~Closed(s, i, MonthOf(was))
         /\ \A n : Marked(s, i, n) => Marked(snap, i, n)
         /\ \A n : Closed(s, i, n) => Closed(snap, i, n)
         /\ SameCell(snap, s, i, MonthOf(d))
<1>1. PICK S : Sound(snap, Alive, S)
  BY DEF TableInv
<1>2. CASE SameMonth(was, d)
  BY <1>1, <1>2, SameCellSelf DEF Left
<1>3. CASE ~SameMonth(was, d)
  <2>1. s \in RevertCloseSnapshot(snap, i, MonthOf(was))
    BY <1>3 DEF Left
  <2>2. /\ \E T : Sound(s, Alive, T)
        /\ \A q, n : ~(q = i /\ n = MonthOf(was)) => SameCell(snap, s, q, n)
        /\ ~Closed(s, i, MonthOf(was))
        /\ Marked(s, i, MonthOf(was)) => Marked(snap, i, MonthOf(was))
    BY <1>1, <2>1, RevertCells
  <2>3. \A n : n # MonthOf(was) => SameCell(snap, s, i, n)
    BY <2>2
  <2>4. SameCell(snap, s, i, MonthOf(d))
    BY <1>3, <2>3 DEF SameMonth
  <2>5. \A n : Marked(s, i, n) => Marked(snap, i, n)
    BY <2>2, <2>3 DEF SameCell
  <2>6. \A n : Closed(s, i, n) => Closed(snap, i, n)
    BY <2>2, <2>3 DEF SameCell
  <2> QED
    BY <1>3, <2>2, <2>4, <2>5, <2>6
<1> QED
  BY <1>2, <1>3

LEMMA RelocatedFact ==
  ASSUME TableInv, NEW i \in Position, Exists(i), NEW was, NEW d \in Date,
         snap' \in Relocated(i, was, d)
  PROVE  /\ FocusTable(i)
         /\ Closed(snap', i, MonthOf(d))
         /\ ~SameMonth(was, d) => ~Closed(snap', i, MonthOf(was))
         /\ \A n : Marked(snap', i, n) => Marked(snap, i, n) \/ n = MonthOf(d)
         /\ \A n : Closed(snap', i, n) => Closed(snap, i, n) \/ n = MonthOf(d)
         /\ \A a : a # Zero /\ Reads(snap, i, MonthOf(d), a) => Owes(snap', i, MonthOf(d), a)
         /\ \A a : Owes(snap, i, MonthOf(d), a) => Owes(snap', i, MonthOf(d), a)
<1>1. PICK s \in Left(i, was, d) : snap' \in WriteCloseSnapshot(s, i, MonthOf(d))
  BY DEF Relocated
<1>2. MonthOf(d) \in Month /\ i \in Alive
  BY MonthOfAssumption DEF Alive
<1>3. PICK S : Sound(s, Alive, S)
  BY LeftFact
<1>4. /\ \E T : Sound(snap', Alive, T)
      /\ \A q, n : ~(q = i /\ n = MonthOf(d)) => SameCell(s, snap', q, n)
      /\ Closed(snap', i, MonthOf(d))
      /\ \A a : a # Zero /\ Reads(s, i, MonthOf(d), a) => Owes(snap', i, MonthOf(d), a)
      /\ Closed(s, i, MonthOf(d)) => snap' = s
  BY <1>1, <1>2, <1>3, WriteCells
<1>5. /\ \A q, n : ~(q = i /\ n = MonthOf(was)) => SameCell(snap, s, q, n)
      /\ ~SameMonth(was, d) => ~Closed(s, i, MonthOf(was))
      /\ \A n : Marked(s, i, n) => Marked(snap, i, n)
      /\ \A n : Closed(s, i, n) => Closed(snap, i, n)
      /\ SameCell(snap, s, i, MonthOf(d))
  BY LeftFact
<1>6. FocusTable(i)
  <2>1. ASSUME NEW j, NEW n, j # i PROVE SameCell(snap, snap', j, n)
    <3>1. SameCell(snap, s, j, n) /\ SameCell(s, snap', j, n)
      BY <1>4, <1>5, <2>1
    <3> QED
      BY <3>1, SameCellTwice
  <2> QED
    BY <1>4, <2>1 DEF FocusTable
<1>7. \A n : n # MonthOf(d) => SameCell(s, snap', i, n)
  BY <1>4
<1>8. ~SameMonth(was, d) => ~Closed(snap', i, MonthOf(was))
  BY <1>5, <1>7 DEF SameMonth, SameCell
<1>9. /\ \A n : Marked(snap', i, n) => Marked(snap, i, n) \/ n = MonthOf(d)
      /\ \A n : Closed(snap', i, n) => Closed(snap, i, n) \/ n = MonthOf(d)
  BY <1>5, <1>7 DEF SameCell
<1>10. \A a : a # Zero /\ Reads(snap, i, MonthOf(d), a) => Owes(snap', i, MonthOf(d), a)
  BY <1>4, <1>5 DEF SameCell
<1>11. \A a : Owes(snap, i, MonthOf(d), a) => Owes(snap', i, MonthOf(d), a)
  <2>1. ASSUME NEW a, Owes(snap, i, MonthOf(d), a) PROVE Owes(snap', i, MonthOf(d), a)
    <3>1. Owes(s, i, MonthOf(d), a)
      BY <1>5, <2>1 DEF SameCell
    <3>2. Closed(s, i, MonthOf(d))
      BY <3>1 DEF Owes, Closed
    <3> QED
      BY <1>4, <3>1, <3>2
  <2> QED
    BY <2>1
<1> QED
  BY <1>4, <1>6, <1>8, <1>9, <1>10, <1>11

\* An unstrayed step was an unstrayed state before.
LEMMA UnstrayedFact ==
  ASSUME NEW i, NEW how, strayed'[i] = strayed[i] \cup how, NEW H
  PROVE  Unstrayed(i, H)' => Unstrayed(i, H) /\ how \cap H = {}
  BY DEF Unstrayed

LEMMA AskedFact ==
  ASSUME Inv, NEW c \in Client, NEW r, r = request[c], r # Nil
  PROVE  RequestOK(r)
  BY DEF Inv, RequestsOK

----------------------------------------------------------------------------
(* The steps *)

LEMMA CommitTransactionInv ==
  ASSUME Inv, NEW c \in Client, request[c] # Nil, CommitTransaction(c)
  PROVE  Inv'
<1>0. PICK r, i : r = request[c] /\ i = r.of
  OBVIOUS
<1>1. r.op = "create" /\ Exists(i) /\ Answered /\ RequestOK(r)
  BY <1>0, AskedFact DEF CommitTransaction, Done, Answered
<1>2. /\ i \in DOMAIN investment /\ i \in Position /\ Fine(i)
      /\ r.type \in {"trade", "maturity"} /\ r.date \in Date
      /\ r.saw.status = "active"
      /\ r.saw.subtype = "time_deposit" => r.type = "maturity" /\ r.date \in r.saw.term
      /\ (investment[i].at = Nil) <=> (investment[i].status = "active")
  BY <1>0, <1>1 DEF RequestOK, CreateOK, Inv, InvestmentsOK
<1>3. PICK t \in FreeTxn : txn' = With(txn, t, NewTxn(i, r.type, r.date))
  BY <1>0 DEF CommitTransaction
<1>4. /\ FocusTxn(i)
      /\ LiveTxns(i)' = LiveTxns(i) \cup {t}
      /\ LiveMaturities(i)' = LiveMaturities(i) \cup (IF r.type = "maturity" THEN {t} ELSE {})
      /\ \A x \in LiveTxns(i) : txn'[x] = txn[x]
      /\ txn'[t].type = r.type /\ txn'[t].date = r.date
  BY <1>2, <1>3, NewTxnFact DEF Inv
<1>5. Strays(i, If(r.saw # investment[i], "stale")) /\ If(r.saw # investment[i], "stale") \in SUBSET Stray
  BY <1>0 DEF CommitTransaction, If, Stray
<1>6. /\ strayed' \in [Position -> SUBSET Stray]
      /\ strayed'[i] = strayed[i] \cup If(r.saw # investment[i], "stale")
      /\ \A j \in Position \ {i} : strayed'[j] = strayed[j]
  BY <1>2, <1>5, StraysFact DEF Inv
<1>7. ASSUME NEW H, "stale" \in H, Unstrayed(i, H)' PROVE Unstrayed(i, H) /\ r.saw = investment[i]
  BY <1>6, <1>7, UnstrayedFact DEF If
<1>8. CASE r.type = "trade"
  <2>1. UNCHANGED <<investment, snap, held, touched>>
    BY <1>0, <1>8 DEF CommitTransaction
  <2>2. LiveMaturities(i)' = LiveMaturities(i) /\ \A x \in LiveMaturities(i) : txn'[x] = txn[x]
    BY <1>4, <1>8 DEF LiveMaturities
  <2>3. LedgerFine(i)'
    BY <1>2, <1>7, <2>1, <2>2 DEF Fine, LedgerFine
  <2>4. EndFine(i)'
    BY <1>2, <1>7, <2>1, <2>2 DEF Fine, EndFine
  <2>5. ZeroFine(i)'
    BY <1>2, <2>1 DEF Fine, ZeroFine, Exists
  <2>6. TermFine(i)'
    BY <1>2, <1>7, <1>8, <2>1 DEF TermFine, IsDeposit
  <2>7. HeldFine(i)'
    BY <1>2, <1>6, <2>1 DEF Fine, HeldFine, Exists
  <2>8. FocusInvestment(i) /\ FocusTable(i)
    BY <1>1, <1>2, <2>1, SameInvestmentFact, SameTableFact DEF Inv
  <2>9. FocusHistory(i)
    BY <1>6, <2>1 DEF FocusHistory, Inv, HistoryOK
  <2> QED
    BY <1>1, <1>4, <2>3, <2>4, <2>5, <2>6, <2>7, <2>8, <2>9, FocusInv DEF Fine
<1>9. CASE r.type = "maturity"
  <2>0. /\ End(i, "matured", r.date) /\ snap' \in WriteCloseSnapshot(snap, i, MonthOf(r.date))
        /\ held' \in Holds(i, snap, r.date) /\ touched' = touched \ {i}
    BY <1>0, <1>9 DEF CommitTransaction
  <2>a. r.date # Nil
    BY <1>2, DateAssumption
  <2>1. /\ FocusInvestment(i)
        /\ investment'[i].status = "matured" /\ investment'[i].at = r.date
        /\ investment'[i].term = investment[i].term
    BY <1>1, <1>2, <2>0, <2>a, EndFact DEF Inv, Status
  <2>2. /\ FocusTable(i)
        /\ \A n : n # MonthOf(r.date) => SameCell(snap, snap', i, n)
        /\ Closed(snap', i, MonthOf(r.date))
        /\ \A a : a # Zero /\ Reads(snap, i, MonthOf(r.date), a) => Owes(snap', i, MonthOf(r.date), a)
    BY <1>1, <1>2, <2>0, WriteFact DEF Inv
  <2>3. /\ held' \in [Position -> Amount \cup {Nil, Forgotten}]
        /\ Reads(snap, i, MonthOf(r.date), held'[i])
        /\ \A j \in Position \ {i} : held'[j] = held[j]
    BY <1>2, <2>0, HoldsFact DEF Inv
  <2>4. FocusHistory(i)
    BY <1>6, <2>0, <2>3 DEF FocusHistory
  <2>5. LiveMaturities(i)' = LiveMaturities(i) \cup {t}
    BY <1>4, <1>9
  <2>6. LedgerFine(i)'
    BY <1>2, <1>7, <2>1, <2>5 DEF Fine, LedgerFine
  <2>7. EndFine(i)'
    <3>1. ASSUME Unstrayed(i, {"stale", "redated", "reopened"})'
          PROVE  LiveMaturities(i) = {} /\ \A n : ~Closed(snap, i, n)
      <4>1. Unstrayed(i, {"stale", "redated", "reopened"}) /\ investment[i].status = "active"
        BY <1>2, <1>7, <3>1
      <4>2. Unstrayed(i, {"stale", "reopened"})
        BY <4>1 DEF Unstrayed
      <4> QED
        BY <1>2, <4>1, <4>2 DEF Fine, LedgerFine, EndFine
    <3> QED
      BY <1>4, <2>a, <2>1, <2>2, <2>5, <3>1 DEF EndFine, SameMonth, SameCell
  <2>8. ZeroFine(i)'
    BY <2>1, <2>2 DEF ZeroFine
  <2>9. TermFine(i)'
    <3>1. ASSUME Exists(i)', IsDeposit(i)', Unstrayed(i, {"stale", "offTerm"})'
          PROVE  /\ \A n : Marked(snap', i, n) => \E d \in investment'[i].term : MonthOf(d) = n
                 /\ \A x \in LiveTxns(i)' : txn'[x].type = "maturity" /\ txn'[x].date \in investment'[i].term
      <4>1. r.saw = investment[i] /\ Unstrayed(i, {"stale", "offTerm"})
        BY <1>7, <3>1
      <4>2. IsDeposit(i)
        BY <2>1, <3>1 DEF IsDeposit, FocusInvestment
      <4>3. r.date \in investment'[i].term
        BY <1>2, <2>1, <4>1, <4>2 DEF IsDeposit
      <4>4. /\ \A n : Marked(snap, i, n) => \E d \in investment[i].term : MonthOf(d) = n
            /\ \A x \in LiveTxns(i) : txn[x].type = "maturity" /\ txn[x].date \in investment[i].term
        BY <1>1, <1>2, <4>1, <4>2 DEF Fine, TermFine
      <4> QED
        BY <1>4, <1>9, <2>1, <2>2, <4>3, <4>4 DEF SameCell
    <3> QED
      BY <3>1 DEF TermFine
  <2>10. HeldFine(i)'
    BY <2>1, <2>2, <2>3 DEF HeldFine
  <2> QED
    BY <1>1, <1>4, <2>1, <2>2, <2>4, <2>6, <2>7, <2>8, <2>9, <2>10, FocusInv DEF Fine
<1> QED
  BY <1>2, <1>8, <1>9

LEMMA EditTxnFact ==
  ASSUME LedgerOK, NEW i, NEW x \in DOMAIN txn, txn[x].of = i, NEW d \in Date,
         txn' = [txn EXCEPT ![x].date = d]
  PROVE  /\ FocusTxn(i)
         /\ LiveTxns(i)' = LiveTxns(i) /\ LiveMaturities(i)' = LiveMaturities(i)
         /\ \A y \in LiveTxns(i) : txn'[y].type = txn[y].type /\ (y # x => txn'[y] = txn[y])
         /\ txn'[x].date = d
<1>1. DOMAIN txn' = DOMAIN txn /\ \A y \in DOMAIN txn \ {x} : txn'[y] = txn[y]
  OBVIOUS
<1>2. txn[x] \in Transaction /\ txn'[x] = [txn[x] EXCEPT !.date = d]
  BY DEF LedgerOK
<1>3. /\ txn'[x] \in Transaction /\ txn'[x].of = txn[x].of /\ txn'[x].type = txn[x].type
      /\ txn'[x].deleted = txn[x].deleted /\ txn'[x].date = d
  BY <1>2 DEF Transaction
<1>4. FocusTxn(i)
  BY <1>1, <1>3 DEF FocusTxn, LedgerOK
<1>5. LiveTxns(i)' = LiveTxns(i)
  BY <1>1, <1>3 DEF LiveTxns
<1>6. \A y \in LiveTxns(i) : txn'[y].type = txn[y].type /\ (y # x => txn'[y] = txn[y])
  BY <1>1, <1>3 DEF LiveTxns
<1>7. LiveMaturities(i)' = LiveMaturities(i)
  BY <1>5, <1>6 DEF LiveMaturities
<1> QED
  BY <1>3, <1>4, <1>5, <1>6, <1>7

LEMMA CommitEditInv ==
  ASSUME Inv, NEW c \in Client, request[c] # Nil, CommitEdit(c)
  PROVE  Inv'
<1>0. PICK r, i, x : r = request[c] /\ i = r.of /\ x = r.txn
  OBVIOUS
<1>1. /\ r.op = "edit" /\ Exists(i) /\ Answered /\ RequestOK(r) /\ ~txn[x].deleted
      /\ txn' = [txn EXCEPT ![x].date = r.date]
  BY <1>0, AskedFact DEF CommitEdit, Done, Answered
<1>2. /\ i \in DOMAIN investment /\ i \in Position /\ Fine(i)
      /\ r.date \in Date /\ r.was \in Date
      /\ x \in DOMAIN txn /\ txn[x].of = i
      /\ txn[x].type = "maturity" /\ r.saw.subtype = "time_deposit" => r.date \in r.saw.term
      /\ (investment[i].at = Nil) <=> (investment[i].status = "active")
  BY <1>0, <1>1 DEF RequestOK, EditOK, Inv, InvestmentsOK
<1>3. x \in LiveTxns(i)
  BY <1>1, <1>2 DEF LiveTxns
<1>4. /\ FocusTxn(i)
      /\ LiveTxns(i)' = LiveTxns(i) /\ LiveMaturities(i)' = LiveMaturities(i)
      /\ \A y \in LiveTxns(i) : txn'[y].type = txn[y].type /\ (y # x => txn'[y] = txn[y])
      /\ txn'[x].date = r.date
  BY <1>1, <1>2, EditTxnFact DEF Inv
<1> DEFINE how == If(r.saw # investment[i] \/ r.was # txn[x].date, "stale")
<1>5. Strays(i, how) /\ how \in SUBSET Stray
  BY <1>0 DEF CommitEdit, If, Stray
<1>a. (r.saw # investment[i] \/ r.was # txn[x].date) => "stale" \in how
  BY DEF If
<1> HIDE DEF how
<1>6. /\ strayed' \in [Position -> SUBSET Stray]
      /\ strayed'[i] = strayed[i] \cup how
      /\ \A j \in Position \ {i} : strayed'[j] = strayed[j]
  BY <1>2, <1>5, StraysFact DEF Inv
<1>7. ASSUME NEW H, "stale" \in H, Unstrayed(i, H)'
      PROVE  Unstrayed(i, H) /\ r.saw = investment[i] /\ r.was = txn[x].date
  BY <1>a, <1>6, <1>7, UnstrayedFact
<1>8. CASE txn[x].type # "maturity"
  <2>1. UNCHANGED <<investment, snap, held, touched>>
    BY <1>0, <1>8 DEF CommitEdit
  <2>2. \A y \in LiveMaturities(i) : txn'[y] = txn[y]
    BY <1>4, <1>8 DEF LiveMaturities
  <2>3. LedgerFine(i)'
    BY <1>2, <1>4, <1>7, <2>1 DEF Fine, LedgerFine
  <2>4. EndFine(i)'
    BY <1>2, <1>4, <1>7, <2>1, <2>2 DEF Fine, EndFine
  <2>5. ZeroFine(i)'
    BY <1>2, <2>1 DEF Fine, ZeroFine, Exists
  <2>6. TermFine(i)'
    <3>1. ASSUME Exists(i)', IsDeposit(i)', Unstrayed(i, {"stale", "offTerm"})' PROVE FALSE
      <4>1. Exists(i) /\ IsDeposit(i) /\ Unstrayed(i, {"stale", "offTerm"})
        BY <1>7, <2>1, <3>1 DEF Exists, IsDeposit
      <4> QED
        BY <1>2, <1>3, <1>8, <4>1 DEF Fine, TermFine
    <3> QED
      BY <3>1 DEF TermFine
  <2>7. HeldFine(i)'
    BY <1>2, <1>6, <2>1 DEF Fine, HeldFine, Exists
  <2>8. FocusInvestment(i) /\ FocusTable(i)
    BY <1>1, <1>2, <2>1, SameInvestmentFact, SameTableFact DEF Inv
  <2>9. FocusHistory(i)
    BY <1>6, <2>1 DEF FocusHistory, Inv, HistoryOK
  <2> QED
    BY <1>1, <1>4, <2>3, <2>4, <2>5, <2>6, <2>7, <2>8, <2>9, FocusInv DEF Fine
<1>9. CASE txn[x].type = "maturity"
  <2>0. /\ End(i, "matured", r.date) /\ snap' \in Relocated(i, r.was, r.date)
        /\ touched' = touched \ {i}
        /\ IF investment[i].at # Nil /\ SameMonth(investment[i].at, r.date)
           THEN held' = held
           ELSE held' \in UNION {Holds(i, s, r.date) : s \in Left(i, r.was, r.date)}
    BY <1>0, <1>9 DEF CommitEdit
  <2>a. r.date # Nil
    BY <1>2, DateAssumption
  <2>1. /\ FocusInvestment(i)
        /\ investment'[i].status = "matured" /\ investment'[i].at = r.date
        /\ investment'[i].term = investment[i].term
    BY <1>1, <1>2, <2>0, <2>a, EndFact DEF Inv, Status
  <2> DEFINE m == MonthOf(r.date)
  <2>2. /\ FocusTable(i)
        /\ Closed(snap', i, m)
        /\ ~SameMonth(r.was, r.date) => ~Closed(snap', i, MonthOf(r.was))
        /\ \A n : Marked(snap', i, n) => Marked(snap, i, n) \/ n = m
        /\ \A n : Closed(snap', i, n) => Closed(snap, i, n) \/ n = m
        /\ \A a : a # Zero /\ Reads(snap, i, m, a) => Owes(snap', i, m, a)
        /\ \A a : Owes(snap, i, m, a) => Owes(snap', i, m, a)
    BY <1>1, <1>2, <2>0, RelocatedFact DEF Inv
  <2> HIDE DEF m
  <2>3. ASSUME investment[i].at # Nil /\ SameMonth(investment[i].at, r.date)
        PROVE  HeldFine(i)' /\ FocusHistory(i)
    <3>1. held' = held /\ MonthOf(investment[i].at) = m
      BY <2>0, <2>3 DEF SameMonth, m
    <3>2. HeldFine(i)'
      BY <1>1, <1>2, <1>6, <2>1, <2>2, <2>3, <3>1 DEF Fine, HeldFine, m
    <3> QED
      BY <1>6, <2>0, <3>1, <3>2 DEF FocusHistory, Inv, HistoryOK
  <2>4. ASSUME ~(investment[i].at # Nil /\ SameMonth(investment[i].at, r.date))
        PROVE  HeldFine(i)' /\ FocusHistory(i)
    <3>1. PICK s \in Left(i, r.was, r.date) : held' \in Holds(i, s, r.date)
      BY <2>0, <2>4
    <3>2. /\ held' \in [Position -> Amount \cup {Nil, Forgotten}]
          /\ Reads(s, i, m, held'[i])
          /\ \A j \in Position \ {i} : held'[j] = held[j]
      BY <1>2, <3>1, HoldsFact DEF Inv, m
    <3>3. SameCell(snap, s, i, m)
      BY <3>1, LeftFact DEF Inv, m
    <3>4. HeldFine(i)'
      BY <2>1, <2>2, <3>2, <3>3 DEF HeldFine, SameCell, m
    <3> QED
      BY <1>6, <2>0, <3>2, <3>4 DEF FocusHistory
  <2>5. HeldFine(i)' /\ FocusHistory(i)
    BY <2>3, <2>4
  <2>6. LedgerFine(i)'
    BY <1>2, <1>4, <1>7, <2>1 DEF Fine, LedgerFine
  <2>7. EndFine(i)'
    <3>1. ASSUME Unstrayed(i, {"stale", "redated", "reopened"})'
          PROVE  /\ LiveMaturities(i) = {x}
                 /\ \A n : Closed(snap', i, n) => n = m
      <4>1. /\ Unstrayed(i, {"stale", "redated", "reopened"}) /\ Unstrayed(i, {"stale", "reopened"})
            /\ r.was = txn[x].date
        BY <1>7, <3>1 DEF Unstrayed
      <4>2. x \in LiveMaturities(i)
        BY <1>3, <1>9 DEF LiveMaturities
      <4>3. LiveMaturities(i) = {x}
        BY <1>2, <4>1, <4>2 DEF Fine, LedgerFine
      <4>4. \A n : Closed(snap, i, n) => n = MonthOf(r.was)
        BY <1>2, <4>1, <4>2 DEF Fine, EndFine, SameMonth
      <4> QED
        BY <2>2, <4>3, <4>4 DEF SameMonth, m
    <3> QED
      BY <1>4, <2>a, <2>1, <3>1 DEF EndFine, SameMonth, m
  <2>8. ZeroFine(i)'
    BY <2>1, <2>2 DEF ZeroFine, m
  <2>9. TermFine(i)'
    <3>1. ASSUME Exists(i)', IsDeposit(i)', Unstrayed(i, {"stale", "offTerm"})'
          PROVE  /\ \A n : Marked(snap', i, n) => \E d \in investment'[i].term : MonthOf(d) = n
                 /\ \A y \in LiveTxns(i)' : txn'[y].type = "maturity" /\ txn'[y].date \in investment'[i].term
      <4>1. r.saw = investment[i] /\ Unstrayed(i, {"stale", "offTerm"})
        BY <1>7, <3>1
      <4>2. IsDeposit(i)
        BY <2>1, <3>1 DEF IsDeposit, FocusInvestment
      <4>3. r.date \in investment'[i].term
        BY <1>2, <1>9, <2>1, <4>1, <4>2 DEF IsDeposit
      <4>4. /\ \A n : Marked(snap, i, n) => \E d \in investment[i].term : MonthOf(d) = n
            /\ \A y \in LiveTxns(i) : txn[y].type = "maturity" /\ txn[y].date \in investment[i].term
        BY <1>1, <1>2, <4>1, <4>2 DEF Fine, TermFine
      <4> QED
        BY <1>4, <1>9, <2>1, <2>2, <4>3, <4>4 DEF m
    <3> QED
      BY <3>1 DEF TermFine
  <2> QED
    BY <1>1, <1>4, <2>1, <2>2, <2>5, <2>6, <2>7, <2>8, <2>9, FocusInv DEF Fine
<1> QED
  BY <1>8, <1>9

LEMMA CommitLifecycleInv ==
  ASSUME Inv, NEW c \in Client, request[c] # Nil, CommitLifecycle(c)
  PROVE  Inv'
<1>0. PICK r, i : r = request[c] /\ i = r.of
  OBVIOUS
<1>1. r.op = "lifecycle" /\ Exists(i) /\ Answered /\ RequestOK(r)
  BY <1>0, AskedFact DEF CommitLifecycle, Done, Answered
<1>2. /\ i \in DOMAIN investment /\ i \in Position /\ Fine(i)
      /\ r.status \in Status /\ r.date \in Date \cup {Nil}
      /\ (r.status = "active") <=> (r.date = Nil)
      /\ r.settle => /\ r.saw.status = "active" /\ r.status # "active"
                     /\ SettlementTypeFor(i, r.status) # Nil
      /\ (investment[i].at = Nil) <=> (investment[i].status = "active")
  BY <1>0, <1>1 DEF RequestOK, LifecycleOK, Inv, InvestmentsOK
<1> DEFINE was == investment[i].at
           how == If(r.saw # investment[i], "stale")
                  \cup If(r.date # Nil /\ ~InTermDate(i, r.date), "offTerm")
                  \cup If(r.date # Nil /\ was # Nil /\ ~SameMonth(was, r.date), "redated")
                  \cup If(r.date = Nil /\ LiveMaturities(i) # {}, "reopened")
<1>3. /\ End(i, r.status, r.date)
      /\ snap' \in ApplyCloseSnapshot(i, r.date, r.saw.at)
      /\ touched' = touched \ {i}
      /\ Strays(i, how)
      /\ IF r.settle
         THEN \E t \in FreeTxn : txn' = With(txn, t, NewTxn(i, SettlementTypeFor(i, r.status), r.date))
         ELSE UNCHANGED txn
      /\ r.date = Nil => held' = [held EXCEPT ![i] = Forgotten]
      /\ r.date # Nil /\ was = Nil => held' \in Holds(i, snap, r.date)
      /\ r.date # Nil /\ was # Nil => IF SameMonth(was, r.date) THEN held' = held
                                      ELSE held' = [held EXCEPT ![i] = Forgotten]
  <2>1. CASE r.date = Nil
    BY <1>0, <2>1 DEF CommitLifecycle
  <2>2. CASE r.date # Nil /\ was = Nil
    BY <1>0, <2>2 DEF CommitLifecycle
  <2>3. CASE r.date # Nil /\ was # Nil
    BY <1>0, <2>3 DEF CommitLifecycle
  <2> QED
    BY <2>1, <2>2, <2>3
<1>4. /\ r.saw # investment[i] => "stale" \in how
      /\ r.date # Nil /\ ~InTermDate(i, r.date) => "offTerm" \in how
      /\ r.date # Nil /\ was # Nil /\ ~SameMonth(was, r.date) => "redated" \in how
      /\ r.date = Nil /\ LiveMaturities(i) # {} => "reopened" \in how
      /\ how \in SUBSET Stray
  BY DEF If, Stray
<1> HIDE DEF how
<1>5. /\ strayed' \in [Position -> SUBSET Stray]
      /\ strayed'[i] = strayed[i] \cup how
      /\ \A j \in Position \ {i} : strayed'[j] = strayed[j]
  BY <1>2, <1>3, <1>4, StraysFact DEF Inv
<1>6. \A H : Unstrayed(i, H)' => Unstrayed(i, H) /\ how \cap H = {}
  BY <1>5, UnstrayedFact
<1>7. /\ FocusInvestment(i)
      /\ investment'[i].status = r.status /\ investment'[i].at = r.date
      /\ investment'[i].term = investment[i].term
  BY <1>1, <1>2, <1>3, EndFact DEF Inv
<1>8. FocusHistory(i)
  <2>1. CASE held' = [held EXCEPT ![i] = Forgotten]
    BY <1>2, <1>3, <1>5, <2>1, ForgetFact DEF Inv, FocusHistory
  <2>2. CASE held' = held
    BY <1>3, <1>5, <2>2 DEF Inv, HistoryOK, FocusHistory
  <2>3. CASE held' \in Holds(i, snap, r.date)
    BY <1>2, <1>3, <1>5, <2>3, HoldsFact DEF Inv, FocusHistory
  <2> QED
    BY <1>3, <2>1, <2>2, <2>3
<1>9. /\ FocusTxn(i)
      /\ \A x \in LiveTxns(i) : txn'[x] = txn[x]
      /\ ~r.settle => LiveTxns(i)' = LiveTxns(i) /\ LiveMaturities(i)' = LiveMaturities(i)
      /\ r.settle => \E t : /\ LiveTxns(i)' = LiveTxns(i) \cup {t}
                            /\ LiveMaturities(i)' \subseteq LiveMaturities(i) \cup {t}
                            /\ txn'[t].type = SettlementTypeFor(i, r.status) /\ txn'[t].date = r.date
  <2>1. CASE r.settle
    <3>1. PICK t \in FreeTxn : txn' = With(txn, t, NewTxn(i, SettlementTypeFor(i, r.status), r.date))
      BY <1>3, <2>1
    <3>2. SettlementTypeFor(i, r.status) \in {"trade", "maturity"} /\ r.date \in Date
      BY <1>2, <2>1 DEF SettlementTypeFor
    <3> DEFINE type == SettlementTypeFor(i, r.status)
    <3>3. type \in {"trade", "maturity"} /\ txn' = With(txn, t, NewTxn(i, type, r.date))
      BY <3>1, <3>2
    <3> HIDE DEF type
    <3>4. /\ FocusTxn(i)
          /\ LiveTxns(i)' = LiveTxns(i) \cup {t}
          /\ LiveMaturities(i)' = LiveMaturities(i) \cup (IF type = "maturity" THEN {t} ELSE {})
          /\ \A x \in LiveTxns(i) : txn'[x] = txn[x]
          /\ txn'[t].type = type /\ txn'[t].date = r.date
      BY <1>2, <3>2, <3>3, NewTxnFact DEF Inv
    <3>5. LiveMaturities(i)' \subseteq LiveMaturities(i) \cup {t}
      BY <3>4
    <3> QED
      BY <2>1, <3>4, <3>5 DEF type
  <2>2. CASE ~r.settle
    <3>1. UNCHANGED txn
      BY <1>3, <2>2
    <3>2. LiveTxns(i)' = LiveTxns(i) /\ LiveMaturities(i)' = LiveMaturities(i)
      BY <3>1 DEF LiveTxns, LiveMaturities
    <3> QED
      BY <2>2, <3>1, <3>2, SameTxnFact DEF Inv
  <2> QED
    BY <2>1, <2>2
<1>10. LedgerFine(i)'
  <2>1. SUFFICES ASSUME Unstrayed(i, {"stale", "reopened"})'
                 PROVE  /\ \A t, u \in LiveMaturities(i)' : t = u
                        /\ investment'[i].status = "active" => LiveMaturities(i)' = {}
    BY DEF LedgerFine
  <2>2. /\ Unstrayed(i, {"stale", "reopened"}) /\ r.saw = investment[i]
        /\ r.date = Nil => LiveMaturities(i) = {}
    BY <1>4, <1>6, <2>1
  <2>3. CASE r.settle
    <3>1. LiveMaturities(i) = {} /\ investment'[i].status # "active"
      BY <1>2, <1>7, <2>2, <2>3 DEF Fine, LedgerFine
    <3> QED
      BY <1>9, <2>3, <3>1
  <2>4. CASE ~r.settle
    BY <1>2, <1>7, <1>9, <2>2, <2>4 DEF Fine, LedgerFine
  <2> QED
    BY <2>3, <2>4
<1>11. CASE r.date = Nil
  <2>1. ~r.settle /\ LiveTxns(i)' = LiveTxns(i) /\ LiveMaturities(i)' = LiveMaturities(i)
    BY <1>2, <1>9, <1>11
  <2>2. /\ r.saw.at = Nil => snap' = snap
        /\ r.saw.at # Nil => snap' \in RevertCloseSnapshot(snap, i, MonthOf(r.saw.at))
    BY <1>3, <1>11 DEF ApplyCloseSnapshot
  <2>3. /\ FocusTable(i)
        /\ \A n : Marked(snap', i, n) => Marked(snap, i, n)
        /\ \A n : Closed(snap', i, n) => Closed(snap, i, n)
        /\ r.saw.at # Nil => ~Closed(snap', i, MonthOf(r.saw.at))
    <3>1. CASE r.saw.at = Nil
      BY <2>2, <3>1, SameTableFact DEF Inv
    <3>2. CASE r.saw.at # Nil
      <4> DEFINE m == MonthOf(r.saw.at)
      <4>1. snap' \in RevertCloseSnapshot(snap, i, m)
        BY <2>2, <3>2
      <4>2. /\ FocusTable(i)
            /\ \A n : n # m => SameCell(snap, snap', i, n)
            /\ ~Closed(snap', i, m)
            /\ Marked(snap', i, m) => Marked(snap, i, m)
        BY <4>1, RevertFact DEF Inv
      <4> QED
        BY <4>2 DEF SameCell
    <3> QED
      BY <3>1, <3>2
  <2>4. EndFine(i)'
    <3>1. ASSUME Unstrayed(i, {"stale", "redated", "reopened"})'
          PROVE  LiveMaturities(i) = {} /\ \A n : ~Closed(snap', i, n)
      <4>1. /\ Unstrayed(i, {"stale", "redated", "reopened"}) /\ r.saw = investment[i]
            /\ LiveMaturities(i) = {}
        BY <1>4, <1>6, <1>11, <3>1
      <4>2. \A n : Closed(snap, i, n) => r.saw.at # Nil /\ MonthOf(r.saw.at) = n
        BY <1>2, <4>1 DEF Fine, EndFine
      <4> QED
        BY <2>3, <4>1, <4>2
    <3> QED
      BY <2>1, <3>1 DEF EndFine
  <2>5. ZeroFine(i)' /\ HeldFine(i)'
    BY <1>7, <1>11 DEF ZeroFine, HeldFine
  <2>6. TermFine(i)'
    <3>1. SUFFICES ASSUME Exists(i)', IsDeposit(i)', Unstrayed(i, {"stale", "offTerm"})'
          PROVE  /\ \A n : Marked(snap', i, n) => \E d \in investment'[i].term : MonthOf(d) = n
                 /\ \A y \in LiveTxns(i)' : txn'[y].type = "maturity" /\ txn'[y].date \in investment'[i].term
      BY DEF TermFine
    <3>2. IsDeposit(i) /\ Unstrayed(i, {"stale", "offTerm"})
      BY <1>6, <1>7, <3>1 DEF IsDeposit, FocusInvestment
    <3> QED
      BY <1>1, <1>2, <1>7, <1>9, <2>1, <2>3, <3>2 DEF Fine, TermFine
  <2> QED
    BY <1>1, <1>7, <1>8, <1>9, <1>10, <2>3, <2>4, <2>5, <2>6, FocusInv DEF Fine
<1>12. CASE r.date # Nil
  <2>0. r.date \in Date /\ snap' \in WriteCloseSnapshot(snap, i, MonthOf(r.date))
    BY <1>2, <1>3, <1>12 DEF ApplyCloseSnapshot
  <2> DEFINE m == MonthOf(r.date)
  <2>1. /\ FocusTable(i)
        /\ \A n : n # m => SameCell(snap, snap', i, n)
        /\ Closed(snap', i, m)
        /\ \A a : a # Zero /\ Reads(snap, i, m, a) => Owes(snap', i, m, a)
        /\ Closed(snap, i, m) => snap' = snap
    BY <1>1, <1>2, <2>0, WriteFact DEF Inv
  <2> HIDE DEF m
  <2>2. EndFine(i)'
    <3>1. SUFFICES ASSUME Unstrayed(i, {"stale", "redated", "reopened"})'
                   PROVE  /\ \A t \in LiveMaturities(i)' : SameMonth(r.date, txn'[t].date)
                          /\ \A n : Closed(snap', i, n) => n = m
      BY <1>7, <1>12 DEF EndFine, m
    <3>2. /\ Unstrayed(i, {"stale", "redated", "reopened"})
          /\ was # Nil => SameMonth(was, r.date)
      BY <1>4, <1>6, <1>12, <3>1
    <3>3. /\ \A t \in LiveMaturities(i) : SameMonth(r.date, txn[t].date)
          /\ \A n : Closed(snap, i, n) => n = m
      BY <1>2, <3>2 DEF Fine, EndFine, SameMonth, m
    <3>4. \A t \in LiveMaturities(i)' : SameMonth(r.date, txn'[t].date)
      <4>1. \A t \in LiveMaturities(i) : SameMonth(r.date, txn'[t].date)
        BY <1>9, <3>3 DEF LiveMaturities
      <4>2. CASE r.settle
        <5>1. PICK t : LiveMaturities(i)' \subseteq LiveMaturities(i) \cup {t} /\ txn'[t].date = r.date
          BY <1>9, <4>2
        <5> QED
          BY <4>1, <5>1 DEF SameMonth
      <4>3. CASE ~r.settle
        BY <1>9, <4>1, <4>3
      <4> QED
        BY <4>2, <4>3
    <3> QED
      BY <2>1, <3>3, <3>4 DEF SameCell
  <2>3. ZeroFine(i)'
    BY <1>7, <2>1 DEF ZeroFine, m
  <2>4. TermFine(i)'
    <3>1. SUFFICES ASSUME Exists(i)', IsDeposit(i)', Unstrayed(i, {"stale", "offTerm"})'
          PROVE  /\ \A n : Marked(snap', i, n) => \E d \in investment'[i].term : MonthOf(d) = n
                 /\ \A y \in LiveTxns(i)' : txn'[y].type = "maturity" /\ txn'[y].date \in investment'[i].term
      BY DEF TermFine
    <3>2. IsDeposit(i) /\ Unstrayed(i, {"stale", "offTerm"})
      BY <1>6, <1>7, <3>1 DEF IsDeposit, FocusInvestment
    <3>3. r.date \in investment'[i].term
      BY <1>4, <1>6, <1>7, <1>12, <3>1, <3>2 DEF InTermDate
    <3>4. /\ \A n : Marked(snap, i, n) => \E d \in investment[i].term : MonthOf(d) = n
          /\ \A y \in LiveTxns(i) : txn[y].type = "maturity" /\ txn[y].date \in investment[i].term
      BY <1>1, <1>2, <3>2 DEF Fine, TermFine
    <3>5. \A n : Marked(snap', i, n) => \E d \in investment'[i].term : MonthOf(d) = n
      BY <1>7, <2>1, <3>3, <3>4 DEF SameCell, m
    <3>6. \A y \in LiveTxns(i) : txn'[y].type = "maturity" /\ txn'[y].date \in investment'[i].term
      BY <1>7, <1>9, <3>4
    <3>7. CASE r.settle
      <4>1. PICK t : /\ LiveTxns(i)' = LiveTxns(i) \cup {t}
                     /\ txn'[t].type = SettlementTypeFor(i, r.status) /\ txn'[t].date = r.date
        BY <1>9, <3>7
      <4>2. SettlementTypeFor(i, r.status) = "maturity"
        BY <1>2, <3>2, <3>7 DEF SettlementTypeFor
      <4> QED
        BY <3>3, <3>5, <3>6, <4>1, <4>2
    <3>8. CASE ~r.settle
      BY <1>9, <3>5, <3>6, <3>8
    <3> QED
      BY <3>7, <3>8
  <2>5. HeldFine(i)'
    <3>1. SUFFICES ASSUME held'[i] \notin {Forgotten, Zero}, "stale" \notin strayed'[i]
                   PROVE  Owes(snap', i, m, held'[i])
      BY <1>7 DEF HeldFine, m
    <3>2. CASE was = Nil
      <4>1. Reads(snap, i, m, held'[i])
        BY <1>2, <1>3, <1>12, <3>2, HoldsFact DEF Inv, m
      <4> QED
        BY <2>1, <3>1, <4>1
    <3>3. CASE was # Nil /\ SameMonth(was, r.date)
      <4>1. held' = held /\ MonthOf(was) = m
        BY <1>3, <1>12, <3>3 DEF SameMonth, m
      <4>2. Owes(snap, i, m, held[i])
        BY <1>1, <1>2, <1>5, <3>1, <3>3, <4>1 DEF Fine, HeldFine
      <4>3. Closed(snap, i, m)
        BY <4>2 DEF Owes, Closed
      <4> QED
        BY <2>1, <4>1, <4>2, <4>3
    <3>4. CASE was # Nil /\ ~SameMonth(was, r.date)
      <4>1. held' = [held EXCEPT ![i] = Forgotten]
        BY <1>3, <1>12, <3>4
      <4> QED
        BY <1>2, <3>1, <4>1, ForgetFact DEF Inv
    <3> QED
      BY <3>2, <3>3, <3>4
  <2> QED
    BY <1>1, <1>7, <1>8, <1>9, <1>10, <2>1, <2>2, <2>3, <2>4, <2>5, FocusInv DEF Fine
<1> QED
  BY <1>11, <1>12

\* What a user writes to a month closes nothing, and is within the term or a stray.
LEMMA UserWriteInv ==
  ASSUME Inv, NEW i \in DOMAIN investment, Exists(i), UNCHANGED <<investment, txn>>, Answered,
         NEW m, Touch(i, m), NEW how \in SUBSET Stray, Strays(i, how),
         FocusTable(i), \A n : n # m => SameCell(snap, snap', i, n),
         Closed(snap', i, m) => Closed(snap, i, m),
         Marked(snap', i, m) /\ ~Marked(snap, i, m) =>
           InTermMonth(i, m) \/ "stale" \in how \/ "offTerm" \in how
  PROVE  Inv'
<1>1. i \in Position /\ Fine(i) /\ HistoryOK
  BY DEF Inv, InvestmentsOK
<1>2. /\ held' \in [Position -> Amount \cup {Nil, Forgotten}]
      /\ \A j \in Position \ {i} : held'[j] = held[j]
      /\ \A j : j \in touched => j \in touched'
      /\ i \notin touched' \/ held'[i] # Forgotten =>
           /\ held'[i] = held[i]
           /\ investment[i].at = Nil \/ MonthOf(investment[i].at) # m
  BY <1>1, TouchFact
<1>3. /\ strayed' \in [Position -> SUBSET Stray]
      /\ strayed'[i] = strayed[i] \cup how
      /\ \A j \in Position \ {i} : strayed'[j] = strayed[j]
  BY <1>1, StraysFact
<1>4. \A H : Unstrayed(i, H)' => Unstrayed(i, H) /\ how \cap H = {}
  BY <1>3, UnstrayedFact
<1>5. /\ FocusInvestment(i) /\ FocusTxn(i) /\ LiveTxns(i)' = LiveTxns(i)
      /\ LiveMaturities(i)' = LiveMaturities(i)
  BY <1>1, SameInvestmentFact, SameTxnFact DEF Inv, SameLedger, LiveMaturities
<1>6. FocusHistory(i)
  BY <1>2, <1>3 DEF FocusHistory
<1>7. \A n : Closed(snap', i, n) => Closed(snap, i, n)
  BY DEF SameCell
<1>8. LedgerFine(i)' /\ EndFine(i)'
  BY <1>1, <1>4, <1>5, <1>7 DEF Fine, LedgerFine, EndFine
<1>9. ZeroFine(i)'
  BY <1>1, <1>2 DEF Fine, ZeroFine, Exists, SameCell
<1>10. HeldFine(i)'
  BY <1>1, <1>2, <1>3 DEF Fine, HeldFine, Exists, SameCell
<1>11. TermFine(i)'
  <2>1. SUFFICES ASSUME IsDeposit(i)', Unstrayed(i, {"stale", "offTerm"})'
        PROVE  /\ \A n : Marked(snap', i, n) => \E d \in investment[i].term : MonthOf(d) = n
               /\ \A y \in LiveTxns(i) : txn[y].type = "maturity" /\ txn[y].date \in investment[i].term
    BY <1>5 DEF TermFine
  <2>2. /\ IsDeposit(i) /\ Unstrayed(i, {"stale", "offTerm"})
        /\ "stale" \notin how /\ "offTerm" \notin how
    BY <1>4, <2>1 DEF IsDeposit
  <2>3. /\ \A n : Marked(snap, i, n) => \E d \in investment[i].term : MonthOf(d) = n
        /\ \A y \in LiveTxns(i) : txn[y].type = "maturity" /\ txn[y].date \in investment[i].term
    BY <1>1, <2>2 DEF Fine, TermFine
  <2>4. Marked(snap', i, m) => \E d \in investment[i].term : MonthOf(d) = m
    BY <2>2, <2>3 DEF InTermMonth
  <2> QED
    BY <2>3, <2>4 DEF SameCell
<1> QED
  BY <1>5, <1>6, <1>8, <1>9, <1>10, <1>11, FocusInv DEF Fine

LEMMA CommitSnapshotInv ==
  ASSUME Inv, NEW c \in Client, request[c] # Nil, CommitSnapshot(c)
  PROVE  Inv'
<1>0. PICK r, i, m : r = request[c] /\ i = r.of /\ m = r.month
  OBVIOUS
<1>1. r.op = "snapshot" /\ Exists(i) /\ Answered /\ RequestOK(r)
  BY <1>0, AskedFact DEF CommitSnapshot, Done, Answered
<1>2. i \in DOMAIN investment /\ i \in Position /\ m \in Month /\ i \in Alive
  BY <1>0, <1>1 DEF RequestOK, SnapshotOK, Inv, InvestmentsOK, Alive
<1> DEFINE how == If(~InTermMonth(i, m), "stale")
<1>3. /\ LiveAt(snap, i, m) = {} /\ Touch(i, m) /\ Strays(i, how)
      /\ UNCHANGED <<investment, txn>>
  BY <1>0 DEF CommitSnapshot
<1>4. PICK k \in Free(snap), a \in UserAmount : snap' = Insert(snap, k, NewRow(i, m, a, Nil))
  BY <1>0 DEF CommitSnapshot
<1>5. PICK S : Sound(snap, Alive, S)
  BY DEF Inv, TableInv
<1>6. /\ \E T : Sound(snap', Alive, T)
      /\ \A q, n : ~(q = i /\ n = m) => SameCell(snap, snap', q, n)
      /\ ~Closed(snap', i, m)
  BY <1>2, <1>3, <1>4, <1>5, InsertCells
<1>7. how \in SUBSET Stray /\ (InTermMonth(i, m) \/ "stale" \in how)
  BY DEF If, Stray
<1> HIDE DEF how
<1>8. FocusTable(i)
  BY <1>6 DEF FocusTable
<1> QED
  BY <1>1, <1>2, <1>3, <1>6, <1>7, <1>8, UserWriteInv

LEMMA DeleteSnapshotInv ==
  ASSUME Inv, NEW s, DeleteSnapshot(s)
  PROVE  Inv'
<1>0. PICK i, m : i = snap[s].pos /\ m = snap[s].month
  OBVIOUS
<1>1. /\ s \in Live(snap) /\ Exists(i) /\ snap' = Archive(snap, s)
      /\ Touch(i, m) /\ UNCHANGED <<investment, txn, strayed>> /\ Answered
  BY <1>0 DEF DeleteSnapshot, AtOnce, Answered
<1>2. PICK S : Sound(snap, Alive, S)
  BY DEF Inv, TableInv
<1>3. /\ \E T : Sound(snap', Alive, T)
      /\ \A q, n : ~(q = i /\ n = m) => SameCell(snap, snap', q, n)
      /\ Marked(snap', i, m) => Marked(snap, i, m)
      /\ Closed(snap', i, m) => Closed(snap, i, m)
  BY <1>0, <1>1, <1>2, ArchiveCells
<1>4. i \in DOMAIN investment /\ FocusTable(i)
  BY <1>1, <1>3 DEF Exists, FocusTable
<1>5. Strays(i, {})
  BY <1>1 DEF Inv, HistoryOK, Strays
<1> QED
  BY <1>1, <1>3, <1>4, <1>5, UserWriteInv

LEMMA UpsertFact ==
  ASSUME TableInv, NEW i \in Position, Exists(i), NEW M \in SUBSET Month,
         NEW batch, DOMAIN batch = {i} \X M, \A x \in DOMAIN batch : batch[x] \in Amount,
         NEW id \in [NewCells(snap, batch) -> Free(snap)],
         \A x, y \in DOMAIN id : id[x] = id[y] => x = y,
         snap' = Upsert(snap, batch, id)
  PROVE  /\ FocusTable(i)
         /\ \A n : n \notin M => SameCell(snap, snap', i, n)
         /\ \A n \in M : Closed(snap', i, n) <=> batch[<<i, n>>] = Zero
<1>1. PICK S : Sound(snap, Alive, S)
  BY DEF TableInv
<1>2. i \in Alive
  BY DEF Alive
<1>3. /\ \E T : Sound(snap', Alive, T)
      /\ \A q, n : ~(q = i /\ n \in M) => SameCell(snap, snap', q, n)
      /\ \A n \in M : Closed(snap', i, n) <=> batch[<<i, n>>] = Zero
  BY <1>1, <1>2, UpsertCells
<1> QED
  BY <1>3 DEF FocusTable

LEMMA UpsertSnapshotInv ==
  ASSUME Inv, NEW i, NEW m \in Month, NEW a \in UserAmount, UpsertSnapshot(i, m, a)
  PROVE  Inv'
<1> DEFINE cells == [x \in {<<i, m>>} |-> a]
           how == If(~InTermMonth(i, m), "offTerm")
<1>1. /\ Exists(i) /\ Touch(i, m) /\ Strays(i, how)
      /\ UNCHANGED <<investment, txn>> /\ Answered
  BY DEF UpsertSnapshot, AtOnce, Answered
<1>2. PICK id \in [NewCells(snap, cells) -> Free(snap)] : snap' = Upsert(snap, cells, id)
  BY DEF UpsertSnapshot
<1>3. TableInv
  BY DEF Inv
<1>4. i \in DOMAIN investment /\ i \in Position
  BY <1>1 DEF Exists, Inv, InvestmentsOK
<1> DEFINE M == {m}
<1>5. DOMAIN cells = {i} \X M /\ cells[<<i, m>>] = a
  OBVIOUS
<1>6. a # Zero /\ \A x \in DOMAIN cells : cells[x] \in Amount
  BY UserAssumption
<1>7. M \in SUBSET Month /\ m \in M /\ \A n : n # m => n \notin M
  OBVIOUS
<1>8. \A x, y \in DOMAIN id : id[x] = id[y] => x = y
  BY DEF NewCells
<1> HIDE DEF cells, M
<1>9. /\ FocusTable(i)
      /\ \A n : n \notin M => SameCell(snap, snap', i, n)
      /\ \A n \in M : Closed(snap', i, n) <=> cells[<<i, n>>] = Zero
  BY <1>1, <1>2, <1>3, <1>4, <1>5, <1>6, <1>7, <1>8, UpsertFact
<1>10. ~Closed(snap', i, m) /\ \A n : n # m => SameCell(snap, snap', i, n)
  BY <1>5, <1>6, <1>7, <1>9
<1>11. how \in SUBSET Stray /\ (InTermMonth(i, m) \/ "offTerm" \in how)
  BY DEF If, Stray
<1> HIDE DEF how
<1> QED
  BY <1>1, <1>4, <1>9, <1>10, <1>11, UserWriteInv

LEMMA DeleteTransactionInv ==
  ASSUME Inv, NEW t, DeleteTransaction(t)
  PROVE  Inv'
<1>0. PICK i : i = txn[t].of
  OBVIOUS
<1>1. /\ t \in DOMAIN txn /\ Exists(i) /\ txn' = [txn EXCEPT ![t].deleted = TRUE]
      /\ UNCHANGED <<investment, snap, held, touched, strayed>> /\ Answered
  BY <1>0 DEF DeleteTransaction, AtOnce, Answered
<1>2. i \in DOMAIN investment /\ i \in Position /\ Fine(i)
  BY <1>1 DEF Exists, Inv, InvestmentsOK
<1>3. /\ txn[t] \in Transaction /\ txn'[t] = [txn[t] EXCEPT !.deleted = TRUE]
      /\ DOMAIN txn' = DOMAIN txn /\ \A x \in DOMAIN txn \ {t} : txn'[x] = txn[x]
  BY <1>1 DEF Inv, LedgerOK
<1>4. /\ txn'[t] \in Transaction /\ txn'[t].of = i /\ txn'[t].type = txn[t].type /\ txn'[t].deleted
  BY <1>0, <1>3 DEF Transaction
<1>5. FocusTxn(i)
  BY <1>0, <1>3, <1>4 DEF FocusTxn, Inv, LedgerOK
<1>6. LiveTxns(i)' \subseteq LiveTxns(i) /\ \A x \in LiveTxns(i)' : txn'[x] = txn[x]
  BY <1>3, <1>4 DEF LiveTxns
<1>7. LiveMaturities(i)' \subseteq LiveMaturities(i) /\ \A x \in LiveMaturities(i)' : txn'[x] = txn[x]
  BY <1>6 DEF LiveMaturities
<1>8. LedgerFine(i)' /\ EndFine(i)'
  BY <1>1, <1>2, <1>7 DEF Fine, LedgerFine, EndFine, Unstrayed
<1>9. TermFine(i)'
  BY <1>1, <1>2, <1>6 DEF Fine, TermFine, Unstrayed, Exists, IsDeposit
<1>10. ZeroFine(i)' /\ HeldFine(i)'
  BY <1>1, <1>2 DEF Fine, ZeroFine, HeldFine, Exists
<1>11. FocusInvestment(i) /\ FocusTable(i) /\ FocusHistory(i)
  BY <1>1, <1>2, SameInvestmentFact, SameTableFact DEF Inv, HistoryOK, FocusHistory
<1> QED
  BY <1>1, <1>5, <1>8, <1>9, <1>10, <1>11, FocusInv DEF Fine

LEMMA UpdateTimeDepositInv ==
  ASSUME Inv, NEW i, NEW term \in SUBSET Date, UpdateTimeDeposit(i, term)
  PROVE  Inv'
<1>1. /\ Exists(i) /\ Fits(i, term) /\ Answered
      /\ investment' = [investment EXCEPT ![i].term = term]
      /\ UNCHANGED <<snap, txn, held, touched, strayed>>
  BY DEF UpdateTimeDeposit, AtOnce, Answered
<1>2. i \in DOMAIN investment /\ i \in Position /\ Fine(i) /\ investment[i] \in Investment
  BY <1>1 DEF Exists, Inv, InvestmentsOK
<1>3. /\ DOMAIN investment' = DOMAIN investment
      /\ \A j \in DOMAIN investment \ {i} : investment'[j] = investment[j]
      /\ investment'[i] = [investment[i] EXCEPT !.term = term]
  BY <1>1, <1>2
<1>4. /\ investment'[i] \in Investment
      /\ investment'[i].subtype = investment[i].subtype
      /\ investment'[i].status = investment[i].status
      /\ investment'[i].at = investment[i].at
      /\ investment'[i].from = investment[i].from
      /\ investment'[i].deleted = investment[i].deleted
      /\ investment'[i].term = term
  BY <1>2, <1>3 DEF Investment
<1>5. FocusInvestment(i)
  BY <1>1, <1>2, <1>3, <1>4 DEF FocusInvestment, Inv, InvestmentsOK
<1>6. LiveTxns(i)' = LiveTxns(i) /\ LiveMaturities(i)' = LiveMaturities(i)
  BY <1>1 DEF LiveTxns, LiveMaturities
<1>7. LedgerFine(i)' /\ EndFine(i)'
  BY <1>1, <1>2, <1>4, <1>6 DEF Fine, LedgerFine, EndFine, Unstrayed
<1>8. ZeroFine(i)' /\ HeldFine(i)'
  BY <1>1, <1>2, <1>4 DEF Fine, ZeroFine, HeldFine, Exists
<1>9. TermFine(i)'
  <2>1. \A n : Marked(snap, i, n) => \E d \in term : MonthOf(d) = n
    BY <1>1 DEF Fits, Marked, LiveAt
  <2>2. IsDeposit(i)' /\ Unstrayed(i, {"stale", "offTerm"})' =>
          \A y \in LiveTxns(i) : txn[y].type = "maturity"
    BY <1>1, <1>2, <1>4 DEF Fine, TermFine, IsDeposit, Unstrayed
  <2> QED
    BY <1>1, <1>4, <1>6, <2>1, <2>2 DEF TermFine, Fits
<1>10. FocusTxn(i) /\ FocusTable(i) /\ FocusHistory(i)
  BY <1>1, SameTxnFact, SameTableFact DEF Inv, HistoryOK, FocusHistory
<1> QED
  BY <1>1, <1>5, <1>7, <1>8, <1>9, <1>10, FocusInv DEF Fine

LEMMA CommitLinkInv ==
  ASSUME Inv, NEW c \in Client, request[c] # Nil, CommitLink(c)
  PROVE  Inv'
<1>0. PICK r, i, k : r = request[c] /\ i = r.of /\ k = r.source
  OBVIOUS
<1>1. /\ r.op = "link" /\ Exists(i) /\ Answered /\ RequestOK(r)
      /\ investment' = [investment EXCEPT ![i].from = k]
      /\ UNCHANGED <<snap, txn, held, touched>>
  BY <1>0, AskedFact DEF CommitLink, Done, Answered
<1>2. /\ i \in DOMAIN investment /\ k \in DOMAIN investment /\ i # k
      /\ r.saw.from = Nil /\ r.sawSource.from # i /\ r.taken = {}
      /\ DOMAIN investment \subseteq Position /\ investment[i] \in Investment
  BY <1>0, <1>1 DEF RequestOK, LinkOK, Inv, InvestmentsOK
<1> DEFINE crossed == r.saw # investment[i] \/ r.sawSource # investment[k] \/ Successors(k) # {}
<1>3. strayed' = [j \in Position |->
                    strayed[j] \cup If(j \in {i, k, Nil} /\ crossed, "stale")]
  BY <1>0, <1>2 DEF CommitLink
<1>a. strayed' \in [Position -> SUBSET Stray]
  BY <1>3 DEF Inv, HistoryOK, If, Stray
<1>4. /\ \A j \in Position : strayed[j] \subseteq strayed'[j]
      /\ \A j \in {i, k} : crossed => "stale" \in strayed'[j]
  <2> HIDE DEF crossed
  <2> QED
    BY <1>2, <1>3 DEF Inv, HistoryOK, If
<1>b. ~crossed => r.saw = investment[i] /\ r.sawSource = investment[k] /\ Successors(k) = {}
  OBVIOUS
<1> HIDE DEF crossed
<1>5. /\ DOMAIN investment' = DOMAIN investment
      /\ \A j \in DOMAIN investment \ {i} : investment'[j] = investment[j]
      /\ investment'[i] = [investment[i] EXCEPT !.from = k]
  BY <1>1, <1>2
<1>6. /\ investment'[i] \in Investment /\ investment'[i].from = k
      /\ investment'[i].subtype = investment[i].subtype
      /\ investment'[i].status = investment[i].status
      /\ investment'[i].at = investment[i].at
      /\ investment'[i].deleted = investment[i].deleted
      /\ investment'[i].term = investment[i].term
  BY <1>2, <1>5 DEF Investment
<1>7. \A j : Exists(j)' <=> Exists(j)
  BY <1>5, <1>6 DEF Exists
<1>8. InvestmentsOK'
  <2>1. ASSUME NEW j \in DOMAIN investment
        PROVE  /\ investment[j] \in Investment
               /\ (investment[j].at = Nil) <=> (investment[j].status = "active")
               /\ investment[j].from # Nil => investment[j].from \in DOMAIN investment
    BY DEF Inv, InvestmentsOK
  <2>2. ASSUME NEW j \in DOMAIN investment
        PROVE  /\ investment'[j] \in Investment
               /\ (investment'[j].at = Nil) <=> (investment'[j].status = "active")
               /\ investment'[j].from # Nil => investment'[j].from \in DOMAIN investment
    <3>1. CASE j = i
      BY <1>2, <1>6, <2>1, <3>1
    <3>2. CASE j # i
      BY <1>5, <2>1, <3>2
    <3> QED
      BY <3>1, <3>2
  <2> QED
    BY <1>2, <1>5, <2>2 DEF InvestmentsOK
<1>9. TableInv' /\ HistoryOK'
  <2>1. Alive' = Alive
    BY <1>7 DEF Alive
  <2> QED
    BY <1>1, <1>5, <1>a, <2>1 DEF Inv, TableInv, HistoryOK
<1>10. LedgerOK'
  <2>1. ASSUME NEW t \in DOMAIN txn, NEW o, o = txn[t].of PROVE txn[t].deleted \/ Exists(o)'
    BY <1>7, <2>1 DEF Inv, LedgerOK
  <2> QED
    BY <1>1, <2>1 DEF Inv, LedgerOK
<1>11. RequestsOK'
  <2>1. Grows
    BY <1>1, <1>5, <1>6 DEF Grows
  <2> QED
    BY <1>1, <2>1, RequestsStay DEF Inv
<1>12. ASSUME NEW j \in DOMAIN investment PROVE Fine(j)'
  <2>1. SameInvestment(j)
    BY <1>5, <1>6 DEF SameInvestment
  <2>2. SameLedger(j)
    BY <1>1 DEF SameLedger, LiveTxns
  <2>3. SameHistory(j)
    BY <1>1, <1>2, <1>4 DEF SameHistory
  <2>4. \A n : SameCell(snap, snap', j, n)
    BY <1>1, SameCellSelf
  <2> QED
    BY <2>1, <2>2, <2>3, <2>4, StaysFine DEF Inv
<1>13. ASSUME NEW j \in DOMAIN investment PROVE ChainFine(j)'
  <2>1. SUFFICES ASSUME Unstrayed(j, {"stale", "split"})'
        PROVE  /\ \A x, y \in Successors(j)' : x = y
               /\ investment'[j].from # Nil => investment'[j].from \notin Successors(j)'
    BY DEF ChainFine
  <2>2. /\ Unstrayed(j, {"stale", "split"})
        /\ j \in {i, k} => ~crossed
    BY <1>2, <1>4, <2>1 DEF Unstrayed
  <2>3. /\ \A x, y \in Successors(j) : x = y
        /\ investment[j].from # Nil => investment[j].from \notin Successors(j)
    BY <2>2 DEF Inv, ChainFine
  <2>4. ASSUME NEW x
        PROVE  x \in Successors(j)' <=> \/ x = i /\ j = k
                                        \/ x # i /\ x \in Successors(j)
    BY <1>1, <1>5, <1>6, <1>7 DEF Successors, Exists
  <2>5. CASE j \notin {i, k}
    BY <1>5, <2>3, <2>4, <2>5
  <2>6. CASE j = i
    <3>1. investment'[j].from = k /\ investment[k].from # i
      BY <1>2, <1>6, <1>b, <2>2, <2>6
    <3>2. k \notin Successors(j)
      BY <2>6, <3>1 DEF Successors
    <3> QED
      BY <1>2, <2>3, <2>4, <2>6, <3>1, <3>2
  <2>7. CASE j = k
    <3>1. Successors(j) = {} /\ investment[j].from # i /\ investment'[j] = investment[j]
      BY <1>2, <1>5, <1>b, <2>2, <2>7
    <3> QED
      BY <2>4, <2>7, <3>1
  <2> QED
    BY <2>5, <2>6, <2>7
<1> QED
  BY <1>5, <1>8, <1>9, <1>10, <1>11, <1>12, <1>13 DEF Inv

LEMMA DeleteInvestmentInv ==
  ASSUME Inv, NEW i, DeleteInvestment(i)
  PROVE  Inv'
<1>1. /\ Exists(i) /\ Answered /\ snap' = ArchiveAll(snap, i)
      /\ txn' = [t \in DOMAIN txn |-> IF txn[t].of = i THEN [txn[t] EXCEPT !.deleted = TRUE] ELSE txn[t]]
      /\ investment' = [investment EXCEPT ![i].deleted = TRUE]
      /\ UNCHANGED <<held, touched, strayed>>
  BY DEF DeleteInvestment, AtOnce, Answered
<1>2. i \in DOMAIN investment /\ i \in Position /\ investment[i] \in Investment
      /\ DOMAIN investment \subseteq Position
  BY <1>1 DEF Exists, Inv, InvestmentsOK
<1>3. /\ DOMAIN investment' = DOMAIN investment
      /\ \A j \in DOMAIN investment \ {i} : investment'[j] = investment[j]
      /\ investment'[i] = [investment[i] EXCEPT !.deleted = TRUE]
  BY <1>1, <1>2
<1>4. /\ investment'[i] \in Investment /\ investment'[i].deleted
      /\ investment'[i].subtype = investment[i].subtype
      /\ investment'[i].status = investment[i].status
      /\ investment'[i].at = investment[i].at
      /\ investment'[i].from = investment[i].from
  BY <1>2, <1>3 DEF Investment
<1>5. \A j : Exists(j)' <=> Exists(j) /\ j # i
  BY <1>3, <1>4 DEF Exists
<1>6. /\ DOMAIN txn' = DOMAIN txn
      /\ \A t \in DOMAIN txn : /\ txn'[t] \in Transaction
                               /\ txn'[t].of = txn[t].of /\ txn'[t].type = txn[t].type
                               /\ txn[t].of = i => txn'[t].deleted
                               /\ txn[t].of # i => txn'[t] = txn[t]
  BY <1>1 DEF Inv, LedgerOK, Transaction
<1>7. /\ \E T : Sound(snap', Alive \ {i}, T)
      /\ \A q, n : q # i => SameCell(snap, snap', q, n)
      /\ \A n : ~Marked(snap', i, n)
  <2>1. PICK S : Sound(snap, Alive, S)
    BY DEF Inv, TableInv
  <2> QED
    BY <1>1, <2>1, ArchiveAllCells
<1>8. InvestmentsOK' /\ HistoryOK'
  BY <1>1, <1>3, <1>4 DEF Inv, InvestmentsOK, HistoryOK
<1>9. TableInv'
  <2>1. Alive' = Alive \ {i}
    BY <1>5 DEF Alive
  <2> QED
    BY <1>7, <2>1 DEF TableInv
<1>10. LedgerOK'
  <2>1. ASSUME NEW t \in DOMAIN txn, NEW o, o = txn[t].of PROVE txn'[t].deleted \/ Exists(o)'
    BY <1>5, <1>6, <2>1 DEF Inv, LedgerOK
  <2> QED
    BY <1>6, <2>1 DEF Inv, LedgerOK
<1>11. RequestsOK'
  <2>1. Grows
    BY <1>3, <1>4, <1>6 DEF Grows
  <2> QED
    BY <1>1, <2>1, RequestsStay DEF Inv
<1>12. ASSUME NEW j \in DOMAIN investment, j # i PROVE Fine(j)'
  <2>1. SameInvestment(j)
    BY <1>3, <1>12 DEF SameInvestment
  <2>2. SameLedger(j)
    BY <1>6, <1>12 DEF SameLedger, LiveTxns
  <2>3. SameHistory(j)
    BY <1>1 DEF SameHistory
  <2> QED
    BY <1>7, <1>12, <2>1, <2>2, <2>3, StaysFine DEF Inv
<1>13. Fine(i)'
  <2>1. LiveTxns(i)' = {}
    BY <1>6 DEF LiveTxns
  <2>2. LiveMaturities(i)' = {}
    BY <2>1 DEF LiveMaturities
  <2>3. ~Exists(i)'
    BY <1>5
  <2>4. \A n : ~Closed(snap', i, n)
    BY <1>7, ClosedReadsZero
  <2>5. LedgerFine(i)' /\ EndFine(i)'
    BY <2>2, <2>4 DEF LedgerFine, EndFine
  <2>6. ZeroFine(i)' /\ TermFine(i)' /\ HeldFine(i)'
    BY <2>3 DEF ZeroFine, TermFine, HeldFine
  <2> QED
    BY <2>5, <2>6 DEF Fine
<1>14. ASSUME NEW j \in DOMAIN investment PROVE ChainFine(j)'
  <2>1. Successors(j)' \subseteq Successors(j)
    BY <1>3, <1>4, <1>5 DEF Successors, Exists
  <2>2. investment'[j].from = investment[j].from /\ strayed' = strayed
    BY <1>1, <1>3, <1>4
  <2> QED
    BY <2>1, <2>2 DEF Inv, ChainFine, Unstrayed
<1> QED
  BY <1>3, <1>8, <1>9, <1>10, <1>11, <1>12, <1>13, <1>14 DEF Inv

\* An investment that is not there yet has nothing.
LEMMA NothingYet ==
  ASSUME Inv, NEW i \in Position, i \notin DOMAIN investment
  PROVE  LiveTxns(i) = {} /\ held[i] = Forgotten /\ \A n : ~Marked(snap, i, n)
<1>1. ~Exists(i)
  BY DEF Exists
<1>2. LiveTxns(i) = {}
  BY <1>1 DEF LiveTxns, Inv, LedgerOK
<1>3. \A n : ~Marked(snap, i, n)
  BY <1>1 DEF Inv, TableInv, Sound, Alive, Marked, LiveAt
<1> QED
  BY <1>2, <1>3 DEF Inv, HistoryOK

\* A step that adds investment i.
LEMMA NewInvestmentInv ==
  ASSUME Inv, NEW i \in Position, i \notin DOMAIN investment, NEW row \in Investment,
         (row.at = Nil) <=> (row.status = "active"), ~row.deleted,
         row.from # Nil => Exists(row.from),
         investment' = With(investment, i, row),
         FocusTxn(i), UNCHANGED <<held, touched>>, Answered,
         strayed' \in [Position -> SUBSET Stray],
         \A j \in Position : strayed[j] \subseteq strayed'[j],
         row.from # Nil /\ Successors(row.from) # {} => "split" \in strayed'[row.from],
         \E S : Sound(snap', Alive \cup {i}, S),
         \A j, n : j # i => SameCell(snap, snap', j, n),
         Fine(i)'
  PROVE  Inv'
<1>1. /\ DOMAIN investment' = DOMAIN investment \cup {i} /\ investment'[i] = row
      /\ \A j \in DOMAIN investment : investment'[j] = investment[j]
      /\ i # Nil /\ DOMAIN investment \subseteq Position
  BY BornAssumption DEF With, Inv, InvestmentsOK
<1>2. \A j : Exists(j)' <=> Exists(j) \/ j = i
  BY <1>1 DEF Exists
<1>3. row.from # Nil => row.from \in DOMAIN investment /\ row.from # i
  BY DEF Exists
<1>4. InvestmentsOK'
  BY <1>1, <1>3 DEF Inv, InvestmentsOK
<1>5. TableInv' /\ HistoryOK'
  <2>1. Alive' = Alive \cup {i}
    BY <1>2 DEF Alive
  <2> QED
    BY <1>1, <2>1 DEF Inv, TableInv, HistoryOK
<1>6. LedgerOK'
  <2>1. ASSUME NEW t \in DOMAIN txn', NEW o, o = txn'[t].of PROVE txn'[t].deleted \/ Exists(o)'
    <3>1. CASE o = i
      BY <1>2, <3>1
    <3>2. CASE o # i
      BY <1>2, <2>1, <3>2 DEF FocusTxn, Inv, LedgerOK
    <3> QED
      BY <3>1, <3>2
  <2> QED
    BY <2>1 DEF LedgerOK, FocusTxn
<1>7. RequestsOK'
  <2>1. Grows
    BY <1>1 DEF Grows, FocusTxn
  <2> QED
    BY <2>1, RequestsStay DEF Inv
<1>8. ASSUME NEW j \in DOMAIN investment PROVE Fine(j)'
  <2>1. j # i /\ SameInvestment(j)
    BY <1>1 DEF SameInvestment
  <2>2. \A t \in DOMAIN txn' : txn'[t].of = j => t \in DOMAIN txn /\ txn'[t] = txn[t]
    BY <2>1 DEF FocusTxn
  <2>3. \A t \in DOMAIN txn : txn[t].of = j => t \in DOMAIN txn' /\ txn'[t] = txn[t]
    BY <2>1 DEF FocusTxn
  <2>4. SameLedger(j)
    BY <2>2, <2>3 DEF SameLedger, LiveTxns
  <2>5. SameHistory(j)
    BY <1>1 DEF SameHistory
  <2>6. \A n : SameCell(snap, snap', j, n)
    BY <2>1
  <2> QED
    BY <2>1, <2>4, <2>5, <2>6, StaysFine DEF Inv
<1>9. \A j, x : x \in Successors(j)' <=> x \in Successors(j) \/ (x = i /\ row.from = j)
  BY <1>1, <1>2 DEF Successors, Exists
<1>10. ChainFine(i)'
  <2>1. ASSUME NEW x \in Successors(i) PROVE FALSE
    <3>1. x \in DOMAIN investment /\ investment[x].from = i
      BY DEF Successors
    <3> QED
      BY <1>1, <3>1 DEF Inv, InvestmentsOK
  <2>2. Successors(i)' = {}
    BY <1>1, <1>3, <1>9, <2>1
  <2> QED
    BY <2>2 DEF ChainFine
<1>11. ASSUME NEW j \in DOMAIN investment PROVE ChainFine(j)'
  <2>1. SUFFICES ASSUME Unstrayed(j, {"stale", "split"})'
        PROVE  /\ \A x, y \in Successors(j)' : x = y
               /\ investment'[j].from # Nil => investment'[j].from \notin Successors(j)'
    BY DEF ChainFine
  <2>2. Unstrayed(j, {"stale", "split"}) /\ "split" \notin strayed'[j]
    BY <1>1, <2>1 DEF Unstrayed
  <2>3. /\ \A x, y \in Successors(j) : x = y
        /\ investment[j].from # Nil => investment[j].from \notin Successors(j)
        /\ investment[j].from # Nil => investment[j].from # i
        /\ j # Nil
    BY <1>1, <2>2, BornAssumption DEF Inv, ChainFine, InvestmentsOK
  <2>4. row.from = j => Successors(j) = {}
    BY <2>2, <2>3
  <2> QED
    BY <1>1, <1>9, <2>3, <2>4
<1> QED
  BY <1>1, <1>4, <1>5, <1>6, <1>7, <1>8, <1>10, <1>11 DEF Inv

LEMMA CreateTimeDepositInv ==
  ASSUME Inv, NEW i \in Position, NEW from \in Position \cup {Nil}, NEW term \in SUBSET Date,
         CreateTimeDeposit(i, from, term)
  PROVE  Inv'
<1> DEFINE row == Opened("time_deposit", from, term)
<1>1. /\ i \notin DOMAIN investment /\ Answered
      /\ from # Nil => Exists(from)
      /\ investment' = With(investment, i, row)
      /\ UNCHANGED <<snap, txn, held, touched>>
  BY DEF CreateTimeDeposit, AtOnce, Answered
<1>2. /\ row \in Investment /\ row.at = Nil /\ row.status = "active" /\ ~row.deleted
      /\ row.from = from
  BY DEF Opened, Investment, Subtype, Status
<1> HIDE DEF row
<1>3. /\ strayed' \in [Position -> SUBSET Stray]
      /\ \A j \in Position : strayed[j] \subseteq strayed'[j]
      /\ from # Nil /\ Successors(from) # {} => "split" \in strayed'[from]
  <2>1. strayed \in [Position -> SUBSET Stray]
    BY DEF Inv, HistoryOK
  <2>2. CASE from = Nil
    BY <2>1, <2>2 DEF CreateTimeDeposit
  <2>3. CASE from # Nil
    <3> DEFINE how == If(Successors(from) # {}, "split")
    <3>1. strayed' = [strayed EXCEPT ![from] = @ \cup how]
      BY <2>3 DEF CreateTimeDeposit
    <3>2. how \in SUBSET Stray /\ (Successors(from) # {} => "split" \in how)
      BY DEF If, Stray
    <3> HIDE DEF how
    <3> QED
      BY <2>1, <2>3, <3>1, <3>2
  <2> QED
    BY <2>2, <2>3
<1>4. LiveTxns(i) = {} /\ \A n : ~Marked(snap, i, n)
  BY <1>1, NothingYet
<1>5. investment'[i] = row
  BY <1>1 DEF With
<1>6. LiveTxns(i)' = {} /\ LiveMaturities(i)' = {}
  BY <1>1, <1>4 DEF LiveTxns, LiveMaturities
<1>7. Fine(i)'
  <2>1. \A n : ~Marked(snap', i, n) /\ ~Closed(snap', i, n)
    BY <1>1, <1>4, ClosedReadsZero
  <2>2. LedgerFine(i)' /\ EndFine(i)'
    BY <1>6, <2>1 DEF LedgerFine, EndFine
  <2>3. ZeroFine(i)' /\ TermFine(i)' /\ HeldFine(i)'
    BY <1>2, <1>5, <1>6, <2>1 DEF ZeroFine, TermFine, HeldFine
  <2> QED
    BY <2>2, <2>3 DEF Fine
<1>8. \E S : Sound(snap', Alive \cup {i}, S)
  BY <1>1 DEF Inv, TableInv, Sound
<1>9. FocusTxn(i) /\ \A j, n : j # i => SameCell(snap, snap', j, n)
  BY <1>1, SameTxnFact, SameCellSelf DEF Inv
<1> QED
  BY <1>1, <1>2, <1>3, <1>7, <1>8, <1>9, NewInvestmentInv

\* The snapshots of an investment that is not there yet.
LEMMA SeedFact ==
  ASSUME Inv, NEW i \in Position, i \notin DOMAIN investment, NEW M \in SUBSET Month,
         NEW batch, DOMAIN batch = {i} \X M, \A x \in DOMAIN batch : batch[x] \in Amount,
         NEW id \in [NewCells(snap, batch) -> Free(snap)],
         \A x, y \in DOMAIN id : id[x] = id[y] => x = y,
         snap' = Upsert(snap, batch, id)
  PROVE  /\ \E S : Sound(snap', Alive \cup {i}, S)
         /\ \A j, n : j # i => SameCell(snap, snap', j, n)
         /\ \A n : Marked(snap', i, n) => n \in M
         /\ \A n : Closed(snap', i, n) => n \in M /\ batch[<<i, n>>] = Zero
         /\ \A n \in M : batch[<<i, n>>] = Zero => Closed(snap', i, n)
<1> DEFINE alive == Alive \cup {i}
<1>1. PICK S : Sound(snap, Alive, S)
  BY DEF Inv, TableInv
<1>2. Sound(snap, alive, S) /\ i \in alive
  BY <1>1 DEF Sound
<1> HIDE DEF alive
<1>3. /\ \E T : Sound(snap', alive, T)
      /\ \A q, n : ~(q = i /\ n \in M) => SameCell(snap, snap', q, n)
      /\ \A n \in M : Closed(snap', i, n) <=> batch[<<i, n>>] = Zero
  BY <1>2, UpsertCells
<1>4. \A n : ~Marked(snap, i, n)
  BY NothingYet
<1>5. \A n : Marked(snap', i, n) => n \in M
  BY <1>3, <1>4 DEF SameCell
<1>6. \A n : Closed(snap', i, n) => n \in M
  BY <1>5, ClosedReadsZero
<1> QED
  BY <1>3, <1>5, <1>6 DEF alive

LEMMA SeedInvestmentInv ==
  ASSUME Inv, NEW i \in Position, NEW subtype \in Subtype, NEW term \in SUBSET Date,
         NEW months \in SUBSET Month, NEW maturity \in {{}} \cup {{d} : d \in Date},
         SeedInvestment(i, subtype, term, months, maturity)
  PROVE  Inv'
<1> DEFINE seeds == [x \in {i} \X months |-> CHOOSE a \in UserAmount : TRUE]
           all == months \cup {MonthOf(d) : d \in maturity}
           rows == [x \in {i} \X all |-> IF \E d \in maturity : x[2] = MonthOf(d) THEN Zero ELSE seeds[x]]
<1>1. /\ i \notin DOMAIN investment /\ Answered
      /\ subtype = "time_deposit" => /\ \A m \in months : \E d \in term : MonthOf(d) = m
                                     /\ maturity \subseteq term
      /\ UNCHANGED <<held, touched, strayed>>
  BY DEF SeedInvestment, AtOnce, Answered
<1>2. PICK id \in [DOMAIN rows -> Free(snap)] :
        /\ \A x, y \in DOMAIN id : id[x] = id[y] => x = y
        /\ snap' = Upsert(snap, rows, id)
  BY DEF SeedInvestment
<1>3. maturity = {} => /\ investment' = With(investment, i, Opened(subtype, Nil, term))
                       /\ UNCHANGED txn
  BY DEF SeedInvestment
<1>4. maturity # {} =>
        \E d \in maturity, t \in FreeTxn :
          /\ investment' = With(investment, i,
               [Opened(subtype, Nil, term) EXCEPT !.status = "matured", !.at = d])
          /\ txn' = With(txn, t, NewTxn(i, "maturity", d))
  BY DEF SeedInvestment
<1>5. LiveTxns(i) = {} /\ held[i] = Forgotten /\ \A n : ~Marked(snap, i, n)
  BY <1>1, NothingYet
<1>6. maturity \subseteq Date /\ \A d, e \in maturity : d = e
  OBVIOUS
<1>7. all \in SUBSET Month
  BY <1>6, MonthOfAssumption
<1>8. (CHOOSE a \in UserAmount : TRUE) \in UserAmount
  BY UserAssumption
<1>9. /\ DOMAIN rows = {i} \X all
      /\ \A x \in DOMAIN rows : rows[x] \in Amount
      /\ \A n \in all : rows[<<i, n>>] = Zero <=> \E d \in maturity : n = MonthOf(d)
  <2>1. DOMAIN rows = {i} \X all
    OBVIOUS
  <2>2. ASSUME NEW n \in all
        PROVE  /\ rows[<<i, n>>] = IF \E d \in maturity : n = MonthOf(d) THEN Zero ELSE seeds[<<i, n>>]
               /\ n \in months => seeds[<<i, n>>] \in UserAmount
    BY <1>8
  <2>3. \A n \in all : n \in months \/ \E d \in maturity : n = MonthOf(d)
    OBVIOUS
  <2> HIDE DEF all, rows, seeds
  <2>4. \A n \in all : /\ rows[<<i, n>>] \in Amount
                       /\ rows[<<i, n>>] = Zero <=> \E d \in maturity : n = MonthOf(d)
    BY <2>2, <2>3, UserAssumption, TableAssumption
  <2>5. \A x \in {i} \X all : x = <<i, x[2]>> /\ x[2] \in all
    OBVIOUS
  <2> QED
    BY <2>1, <2>4, <2>5
<1>10. NewCells(snap, rows) = DOMAIN rows
  <2>1. \A n : LiveAt(snap, i, n) = {}
    BY <1>5 DEF Marked
  <2> HIDE DEF rows
  <2>2. \A x \in DOMAIN rows : x[1] = i
    BY <1>9
  <2> QED
    BY <2>1, <2>2 DEF NewCells
<1>a. \A n : n \in all <=> n \in months \/ \E d \in maturity : n = MonthOf(d)
  OBVIOUS
<1> HIDE DEF all, rows, seeds
<1>11. /\ \E S : Sound(snap', Alive \cup {i}, S)
       /\ \A j, n : j # i => SameCell(snap, snap', j, n)
       /\ \A n : Marked(snap', i, n) => n \in all
       /\ \A n : Closed(snap', i, n) => n \in all /\ rows[<<i, n>>] = Zero
       /\ \A n \in all : rows[<<i, n>>] = Zero => Closed(snap', i, n)
  BY <1>1, <1>2, <1>7, <1>9, <1>10, SeedFact
<1>12. /\ \A n : Closed(snap', i, n) => \E d \in maturity : n = MonthOf(d)
       /\ \A d \in maturity : Closed(snap', i, MonthOf(d))
       /\ subtype = "time_deposit" =>
            \A n : Marked(snap', i, n) => \E d \in term : MonthOf(d) = n
  <2>1. \A n : Closed(snap', i, n) => \E d \in maturity : n = MonthOf(d)
    BY <1>9, <1>11
  <2>2. \A d \in maturity : Closed(snap', i, MonthOf(d))
    BY <1>9, <1>11, <1>a
  <2>3. ASSUME subtype = "time_deposit", NEW n, Marked(snap', i, n)
        PROVE  \E d \in term : MonthOf(d) = n
    <3>1. n \in months \/ \E d \in maturity : n = MonthOf(d)
      BY <1>11, <1>a, <2>3
    <3>2. (\A k \in months : \E d \in term : MonthOf(d) = k) /\ \A d \in maturity : d \in term
      BY <1>1, <2>3
    <3> QED
      BY <3>1, <3>2
  <2> QED
    BY <2>1, <2>2, <2>3
<1>13. ASSUME NEW row \in Investment, row.subtype = subtype, row.term = term, row.from = Nil,
              ~row.deleted, (row.at = Nil) <=> (row.status = "active"),
              maturity = {} => row.at = Nil, maturity # {} => row.at \in maturity,
              investment' = With(investment, i, row),
              FocusTxn(i), LiveMaturities(i)' \subseteq LiveTxns(i)',
              \A x, y \in LiveTxns(i)' : x = y,
              maturity = {} => LiveTxns(i)' = {},
              \A x \in LiveTxns(i)' : txn'[x].type = "maturity" /\ txn'[x].date = row.at
       PROVE  Inv'
  <2>1. investment'[i] = row
    BY <1>13 DEF With
  <2>a. \A d \in maturity : d # Nil
    BY <1>6, DateAssumption
  <2>2. LedgerFine(i)'
    BY <1>13, <2>1, <2>a DEF LedgerFine
  <2>3. EndFine(i)'
    BY <1>6, <1>12, <1>13, <2>1, <2>a DEF EndFine, SameMonth
  <2>4. ZeroFine(i)'
    BY <1>12, <1>13, <2>1 DEF ZeroFine
  <2>5. TermFine(i)'
    <3>1. SUFFICES ASSUME IsDeposit(i)'
                   PROVE  /\ \A n : Marked(snap', i, n) => \E d \in term : MonthOf(d) = n
                          /\ \A x \in LiveTxns(i)' : txn'[x].type = "maturity" /\ txn'[x].date \in term
      BY <1>13, <2>1 DEF TermFine
    <3>2. subtype = "time_deposit" /\ \A d \in maturity : d \in term
      BY <1>1, <1>13, <2>1, <3>1 DEF IsDeposit
    <3>3. \A x \in LiveTxns(i)' : txn'[x].type = "maturity" /\ txn'[x].date \in maturity
      BY <1>13
    <3> QED
      BY <1>12, <3>2, <3>3
  <2>6. HeldFine(i)'
    BY <1>1, <1>5 DEF HeldFine
  <2>7. /\ strayed' \in [Position -> SUBSET Stray]
        /\ \A j \in Position : strayed[j] \subseteq strayed'[j]
    BY <1>1 DEF Inv, HistoryOK
  <2> QED
    BY <1>1, <1>11, <1>13, <2>2, <2>3, <2>4, <2>5, <2>6, <2>7, NewInvestmentInv DEF Fine
<1>14. CASE maturity = {}
  <2> DEFINE row == Opened(subtype, Nil, term)
  <2>1. /\ row \in Investment /\ row.subtype = subtype /\ row.term = term /\ row.from = Nil
        /\ ~row.deleted /\ row.at = Nil /\ row.status = "active"
    BY DEF Opened, Investment, Status
  <2>2. investment' = With(investment, i, row) /\ UNCHANGED txn
    BY <1>3, <1>14
  <2> HIDE DEF row
  <2>3. FocusTxn(i) /\ LiveTxns(i)' = {} /\ LiveMaturities(i)' = {}
    BY <1>5, <2>2, SameTxnFact DEF Inv, LiveTxns, LiveMaturities
  <2> QED
    BY <1>13, <1>14, <2>1, <2>2, <2>3
<1>15. CASE maturity # {}
  <2>1. PICK d \in maturity, t \in FreeTxn :
          /\ investment' = With(investment, i,
               [Opened(subtype, Nil, term) EXCEPT !.status = "matured", !.at = d])
          /\ txn' = With(txn, t, NewTxn(i, "maturity", d))
    BY <1>4, <1>15
  <2> DEFINE row == [Opened(subtype, Nil, term) EXCEPT !.status = "matured", !.at = d]
  <2>2. d \in Date /\ d # Nil
    BY <1>6, DateAssumption
  <2>3. /\ row \in Investment /\ row.subtype = subtype /\ row.term = term /\ row.from = Nil
        /\ ~row.deleted /\ row.at = d /\ row.status = "matured"
    BY <2>2 DEF Opened, Investment, Status
  <2>4. investment' = With(investment, i, row)
    BY <2>1
  <2> HIDE DEF row
  <2>5. /\ FocusTxn(i) /\ LiveTxns(i)' = {t} /\ txn'[t].type = "maturity" /\ txn'[t].date = d
    BY <1>5, <2>1, <2>2, NewTxnFact DEF Inv
  <2>6. LiveMaturities(i)' \subseteq LiveTxns(i)'
    BY DEF LiveMaturities
  <2>7. /\ \A x, y \in LiveTxns(i)' : x = y
        /\ \A x \in LiveTxns(i)' : txn'[x].type = "maturity" /\ txn'[x].date = row.at
    BY <2>3, <2>5
  <2> QED
    BY <1>13, <1>15, <2>2, <2>3, <2>4, <2>5, <2>6, <2>7
<1> QED
  BY <1>14, <1>15

----------------------------------------------------------------------------
(* Requests asked, and given up *)

\* Nothing moves but the requests.
LEMMA RequestsInv ==
  ASSUME Inv, UNCHANGED <<investment, snap, txn, held, touched, strayed>>, RequestsOK'
  PROVE  Inv'
<1>1. InvestmentsOK' /\ TableInv' /\ LedgerOK' /\ HistoryOK'
  BY DEF Inv, InvestmentsOK, TableInv, Alive, Exists, LedgerOK, HistoryOK
<1>2. ASSUME NEW i \in DOMAIN investment PROVE Fine(i)' /\ ChainFine(i)'
  <2>1. SameInvestment(i)
    BY DEF SameInvestment
  <2>2. SameLedger(i)
    BY DEF SameLedger, LiveTxns
  <2>3. SameHistory(i)
    BY DEF SameHistory
  <2>4. \A n : SameCell(snap, snap', i, n)
    BY SameCellSelf
  <2>5. Successors(i)' = Successors(i)
    BY DEF Successors, Exists
  <2> QED
    BY <2>1, <2>2, <2>3, <2>4, <2>5, StaysFine DEF Inv, ChainFine, Unstrayed
<1> QED
  BY <1>1, <1>2 DEF Inv

LEMMA FailInv ==
  ASSUME Inv, NEW c \in Client, Fail(c)
  PROVE  Inv'
<1>1. UNCHANGED <<investment, snap, txn, held, touched, strayed>> /\ Answered
  BY DEF Fail, Done, Answered
<1>2. Grows
  BY <1>1 DEF Grows
<1> QED
  BY <1>1, <1>2, RequestsStay, RequestsInv DEF Inv

LEMMA AskInv ==
  ASSUME Inv, NEW c \in Client, NEW r, RequestOK(r), Ask(c, r)
  PROVE  Inv'
<1>1. /\ UNCHANGED <<investment, snap, txn, held, touched, strayed>>
      /\ request' = [request EXCEPT ![c] = r]
  BY DEF Ask
<1>2. Grows
  BY <1>1 DEF Grows
<1>3. DOMAIN request' = Client /\ \A d \in Client : request'[d] \in {r, request[d]}
  BY <1>1 DEF Inv, RequestsOK
<1>4. ASSUME NEW d \in Client, request'[d] # Nil, NEW q, q = request'[d] PROVE RequestOK(q)'
  <2>1. RequestOK(q)
    BY <1>3, <1>4 DEF Inv, RequestsOK
  <2> QED
    BY <1>2, <2>1, RequestStays
<1>5. RequestsOK'
  BY <1>3, <1>4 DEF RequestsOK
<1> QED
  BY <1>1, <1>5, RequestsInv

LEMMA AskTransactionInv ==
  ASSUME Inv, NEW c \in Client, NEW i, NEW type \in {"trade", "maturity"}, NEW d \in Date,
         AskTransaction(c, i, type, d)
  PROVE  Inv'
<1> DEFINE r == [op |-> "create", of |-> i, type |-> type, date |-> d, saw |-> investment[i]]
<1>1. PICK q : q = r
  OBVIOUS
<1>2. /\ i \in DOMAIN investment /\ investment[i].status = "active" /\ type \in Accepts(i)
      /\ InTermDate(i, d) /\ Ask(c, q)
  BY <1>1 DEF AskTransaction, Exists
<1>3. /\ q.op = "create" /\ q.of = i /\ q.type = type /\ q.date = d /\ q.saw = investment[i]
  BY <1>1
<1>4. CreateOK(q)
  BY <1>2, <1>3 DEF CreateOK, Accepts, InTermDate, IsDeposit
<1>5. RequestOK(q)
  BY <1>3, <1>4 DEF RequestOK
<1> QED
  BY <1>2, <1>5, AskInv

LEMMA AskEditInv ==
  ASSUME Inv, NEW c \in Client, NEW t, NEW d \in Date, AskEdit(c, t, d)
  PROVE  Inv'
<1> DEFINE i == txn[t].of
<1>1. PICK q : q = [op |-> "edit", of |-> i, txn |-> t, date |-> d, was |-> txn[t].date,
                    saw |-> investment[i]]
  OBVIOUS
<1>2. /\ t \in DOMAIN txn /\ i \in DOMAIN investment
      /\ txn[t].type = "maturity" => InTermDate(i, d)
      /\ Ask(c, q)
  BY <1>1 DEF AskEdit, Exists
<1>3. /\ q.op = "edit" /\ q.of = i /\ q.txn = t /\ q.date = d /\ q.was = txn[t].date
      /\ q.saw = investment[i]
  BY <1>1
<1>4. txn[t].date \in Date
  BY <1>2 DEF Inv, LedgerOK, Transaction
<1>5. EditOK(q)
  BY <1>2, <1>3, <1>4 DEF EditOK, InTermDate, IsDeposit
<1>6. RequestOK(q)
  BY <1>3, <1>5 DEF RequestOK
<1> QED
  BY <1>2, <1>6, AskInv

LEMMA AskLifecycleInv ==
  ASSUME Inv, NEW c \in Client, NEW i, NEW status \in Status, NEW at \in Date \cup {Nil},
         NEW settle, AskLifecycle(c, i, status, at, settle)
  PROVE  Inv'
<1>1. PICK q : q = [op |-> "lifecycle", of |-> i, status |-> status, date |-> at,
                    settle |-> settle, saw |-> investment[i]]
  OBVIOUS
<1>2. /\ i \in DOMAIN investment
      /\ (status = "active") <=> (at = Nil)
      /\ settle => /\ investment[i].status = "active" /\ status # "active"
                   /\ SettlementTypeFor(i, status) # Nil
      /\ Ask(c, q)
  BY <1>1 DEF AskLifecycle, Exists
<1>3. /\ q.op = "lifecycle" /\ q.of = i /\ q.status = status /\ q.date = at
      /\ (q.settle => settle) /\ q.saw = investment[i]
  BY <1>1
<1>4. investment[i].at \in Date \cup {Nil}
  <2>1. investment[i] \in Investment
    BY <1>2 DEF Inv, InvestmentsOK
  <2> QED
    BY <2>1 DEF Investment
<1>5. LifecycleOK(q)
  BY <1>2, <1>3, <1>4 DEF LifecycleOK
<1>6. RequestOK(q)
  BY <1>3, <1>5 DEF RequestOK
<1> QED
  BY <1>2, <1>6, AskInv

LEMMA AskSnapshotInv ==
  ASSUME Inv, NEW c \in Client, NEW i, NEW m \in Month, AskSnapshot(c, i, m)
  PROVE  Inv'
<1>1. PICK q : q = [op |-> "snapshot", of |-> i, month |-> m, saw |-> investment[i]]
  OBVIOUS
<1>2. i \in DOMAIN investment /\ Ask(c, q)
  BY <1>1 DEF AskSnapshot, Exists
<1>3. q.op = "snapshot" /\ q.of = i /\ q.month = m
  BY <1>1
<1>4. RequestOK(q)
  BY <1>2, <1>3 DEF RequestOK, SnapshotOK
<1> QED
  BY <1>2, <1>4, AskInv

LEMMA AskLinkInv ==
  ASSUME Inv, NEW c \in Client, NEW i, NEW j, AskLink(c, i, j)
  PROVE  Inv'
<1>1. PICK q : q = [op |-> "link", of |-> j, source |-> i, saw |-> investment[j],
                    sawSource |-> investment[i], taken |-> Successors(i)]
  OBVIOUS
<1>2. /\ i # j /\ i \in DOMAIN investment /\ j \in DOMAIN investment
      /\ investment[j].from = Nil /\ investment[i].from # j /\ Successors(i) = {}
      /\ Ask(c, q)
  BY <1>1 DEF AskLink, Exists
<1>3. /\ q.op = "link" /\ q.of = j /\ q.source = i /\ q.saw = investment[j]
      /\ q.sawSource = investment[i] /\ q.taken = Successors(i)
  BY <1>1
<1>4. RequestOK(q)
  BY <1>2, <1>3 DEF RequestOK, LinkOK
<1> QED
  BY <1>2, <1>4, AskInv

----------------------------------------------------------------------------
(* The invariant holds *)

\* The snapshots there are at first.
LEMMA StartFact ==
  ASSUME NEW t, NEW alive, Sound(t, alive, {}), DOMAIN t = {},
         NEW batch, DOMAIN batch \subseteq (Position \cap alive) \X Month,
         \A x \in DOMAIN batch : batch[x] \in Amount,
         NEW id \in [DOMAIN batch -> SnapId],
         \A x, y \in DOMAIN id : id[x] = id[y] => x = y,
         NEW u, u = Upsert(t, batch, id)
  PROVE  \E T : Sound(u, alive, T)
<1>1. NewCells(t, batch) = DOMAIN batch /\ Free(t) = SnapId
  BY DEF NewCells, Free, LiveAt, Live
<1>2. PICK f \in [NewCells(t, batch) -> Free(t)] : f = id
  BY <1>1
<1>3. PICK S : Sound(t, alive, S)
  OBVIOUS
<1>4. Sound(u, alive, S \cup {f[c] : c \in DOMAIN f})
  <2>1. u = Upsert(t, batch, f) /\ \A x, y \in DOMAIN f : f[x] = f[y] => x = y
    BY <1>2
  <2> QED
    BY <1>3, <2>1, UpsertSound
<1> QED
  BY <1>4

LEMMA InitInv == Init => Inv
<1>1. SUFFICES ASSUME Init PROVE Inv
  OBVIOUS
<1>2. PICK born \in {{}, Born}, months \in SUBSET Month :
        /\ investment \in [born -> {Opened(subtype, Nil, Date) : subtype \in Subtype}]
        /\ LET cells == [x \in born \X months |-> CHOOSE a \in UserAmount : TRUE]
           IN  \E id \in [DOMAIN cells -> SnapId] :
                 /\ \A x, y \in DOMAIN id : id[x] = id[y] => x = y
                 /\ snap = Upsert([s \in {} |-> Nil], cells, id)
  BY <1>1 DEF Init
<1> DEFINE cells == [x \in born \X months |-> CHOOSE a \in UserAmount : TRUE]
           empty == [s \in {} |-> Nil]
<1>3. PICK id \in [DOMAIN cells -> SnapId] :
        /\ \A x, y \in DOMAIN id : id[x] = id[y] => x = y
        /\ snap = Upsert(empty, cells, id)
  BY <1>2
<1>4. born \subseteq Position
  BY BornAssumption
<1>5. /\ DOMAIN investment = born
      /\ \A i \in born : /\ investment[i] \in Investment /\ investment[i].from = Nil
                         /\ investment[i].status = "active" /\ investment[i].at = Nil
                         /\ ~investment[i].deleted /\ investment[i].term = Date
  <2>1. \A subtype \in Subtype :
          LET row == Opened(subtype, Nil, Date)
          IN  /\ row \in Investment /\ row.from = Nil /\ row.status = "active" /\ row.at = Nil
              /\ ~row.deleted /\ row.term = Date
    BY DEF Opened, Investment, Status
  <2> QED
    BY <1>2, <2>1
<1>6. /\ txn = [t \in {} |-> Nil] /\ request = [c \in Client |-> Nil]
      /\ held = [i \in Position |-> Forgotten] /\ touched = {}
      /\ strayed = [i \in Position |-> {}]
  BY <1>1 DEF Init
<1>7. Alive = born
  BY <1>4, <1>5 DEF Alive, Exists
<1>8. /\ \A x \in DOMAIN cells : cells[x] \in Amount /\ cells[x] # Zero
      /\ DOMAIN cells = born \X months
  <2>1. (CHOOSE a \in UserAmount : TRUE) \in UserAmount
    BY UserAssumption
  <2> QED
    BY <2>1, UserAssumption
<1> HIDE DEF cells, empty
<1>9. DOMAIN empty = {}
  BY DEF empty
<1>10. Sound(empty, Alive, {})
  BY <1>9 DEF Sound, IsTable, OneLive, Linked, Live, LiveAt, Stacked
<1>12. DOMAIN cells \subseteq (Position \cap Alive) \X Month
  BY <1>4, <1>7, <1>8
<1>13. TableInv
  <2>1. \A x \in DOMAIN cells : cells[x] \in Amount
    BY <1>8
  <2> QED
    BY <1>3, <1>9, <1>10, <1>12, <2>1, StartFact DEF TableInv
<1>14. \A i, n : ~Closed(snap, i, n)
  <2>1. ASSUME NEW s \in DOMAIN snap PROVE snap[s].amount # Zero
    <3> DEFINE cell == CHOOSE x \in DOMAIN id : id[x] = s
    <3>1. s \in {id[x] : x \in DOMAIN id} /\ snap[s] = NewRow(cell[1], cell[2], cells[cell], Nil)
      BY <1>3, <1>9 DEF Upsert
    <3>2. cell \in DOMAIN cells
      BY <3>1
    <3> HIDE DEF cell
    <3> QED
      BY <1>8, <3>1, <3>2 DEF NewRow
  <2> QED
    BY <2>1 DEF Closed, CloseRows, LiveAt, Live
<1>15. InvestmentsOK /\ LedgerOK /\ HistoryOK /\ RequestsOK
  BY <1>4, <1>5, <1>6 DEF InvestmentsOK, LedgerOK, HistoryOK, RequestsOK
<1>16. ASSUME NEW i \in DOMAIN investment PROVE Fine(i) /\ ChainFine(i)
  <2>1. LiveTxns(i) = {} /\ LiveMaturities(i) = {}
    BY <1>6 DEF LiveTxns, LiveMaturities
  <2>2. Successors(i) = {}
    <3>1. i # Nil
      BY <1>4, <1>5, BornAssumption
    <3> QED
      BY <1>5, <3>1 DEF Successors
  <2>3. LedgerFine(i) /\ EndFine(i) /\ ZeroFine(i) /\ HeldFine(i)
    BY <1>5, <1>14, <2>1 DEF LedgerFine, EndFine, ZeroFine, HeldFine
  <2>4. TermFine(i)
    <3>1. \A n : Marked(snap, i, n) => n \in Month
      BY <1>13 DEF TableInv, Sound, IsTable, Row, Marked, LiveAt, Live
    <3> QED
      BY <1>5, <2>1, <3>1, DaysAssumption DEF TermFine
  <2>5. ChainFine(i)
    BY <2>2 DEF ChainFine
  <2> QED
    BY <2>3, <2>4, <2>5 DEF Fine
<1> QED
  BY <1>13, <1>15, <1>16 DEF Inv

LEMMA NextInv == Inv /\ [Next]_vars => Inv'
<1> SUFFICES ASSUME Inv, [Next]_vars PROVE Inv'
  OBVIOUS
<1>1. ASSUME NEW c \in Client, NEW i \in Busy, NEW d \in Date, NEW type \in {"trade", "maturity"},
             AskTransaction(c, i, type, d)
      PROVE  Inv'
  BY <1>1, AskTransactionInv
<1>2. ASSUME NEW c \in Client, NEW t \in TxnId, NEW d \in Date, AskEdit(c, t, d) PROVE Inv'
  BY <1>2, AskEditInv
<1>3. ASSUME NEW c \in Client, NEW i \in Busy, NEW status \in Status, NEW at \in Date \cup {Nil},
             NEW settle \in BOOLEAN, AskLifecycle(c, i, status, at, settle)
      PROVE  Inv'
  BY <1>3, AskLifecycleInv
<1>4. ASSUME NEW c \in Client, NEW i \in Busy, NEW m \in Month, AskSnapshot(c, i, m) PROVE Inv'
  BY <1>4, AskSnapshotInv
<1>5. ASSUME NEW c \in Client, NEW i \in Position, NEW j \in Position, AskLink(c, i, j) PROVE Inv'
  BY <1>5, AskLinkInv
<1>6. ASSUME NEW c \in Client, request[c] # Nil, CommitTransaction(c) PROVE Inv'
  BY <1>6, CommitTransactionInv
<1>7. ASSUME NEW c \in Client, request[c] # Nil, CommitEdit(c) PROVE Inv'
  BY <1>7, CommitEditInv
<1>8. ASSUME NEW c \in Client, request[c] # Nil, CommitLifecycle(c) PROVE Inv'
  BY <1>8, CommitLifecycleInv
<1>9. ASSUME NEW c \in Client, request[c] # Nil, CommitSnapshot(c) PROVE Inv'
  BY <1>9, CommitSnapshotInv
<1>10. ASSUME NEW c \in Client, request[c] # Nil, CommitLink(c) PROVE Inv'
  BY <1>10, CommitLinkInv
<1>11. ASSUME NEW c \in Client, Fail(c) PROVE Inv'
  BY <1>11, FailInv
<1>12. ASSUME NEW t \in TxnId, DeleteTransaction(t) PROVE Inv'
  BY <1>12, DeleteTransactionInv
<1>13. ASSUME NEW s \in SnapId, DeleteSnapshot(s) PROVE Inv'
  BY <1>13, DeleteSnapshotInv
<1>14. ASSUME NEW i \in Busy, NEW m \in Month, NEW a \in UserAmount, UpsertSnapshot(i, m, a) PROVE Inv'
  BY <1>14, UpsertSnapshotInv
<1>15. ASSUME NEW i \in Busy, NEW term \in Terms, UpdateTimeDeposit(i, term) PROVE Inv'
  <2>1. term \in SUBSET Date
    BY DEF Terms
  <2> QED
    BY <1>15, <2>1, UpdateTimeDepositInv
<1>16. ASSUME NEW i \in Position, DeleteInvestment(i) PROVE Inv'
  BY <1>16, DeleteInvestmentInv
<1>17. ASSUME NEW i \in Position, NEW from \in Position \cup {Nil}, CreateTimeDeposit(i, from, Date)
       PROVE  Inv'
  BY <1>17, CreateTimeDepositInv
<1>18. ASSUME NEW i \in Busy, NEW subtype \in {"bond", "time_deposit"}, NEW months \in SUBSET Month,
              NEW maturity \in {{}} \cup {{d} : d \in Date},
              SeedInvestment(i, subtype, Date, months, maturity)
       PROVE  Inv'
  <2>1. i \in Position /\ subtype \in Subtype /\ Date \in SUBSET Date
    BY BornAssumption DEF Subtype
  <2> QED
    BY <1>18, <2>1, SeedInvestmentInv
<1>19. ASSUME UNCHANGED vars PROVE Inv'
  <2>1. UNCHANGED <<investment, snap, txn, held, touched, strayed>> /\ request' = request
    BY <1>19 DEF vars
  <2>2. Grows /\ Answered
    BY <2>1 DEF Grows, Answered
  <2> QED
    BY <2>1, <2>2, RequestsStay, RequestsInv DEF Inv
<1> QED
  BY <1>1, <1>2, <1>3, <1>4, <1>5, <1>6, <1>7, <1>8, <1>9, <1>10, <1>11, <1>12, <1>13, <1>14,
     <1>15, <1>16, <1>17, <1>18, <1>19 DEF Next

\* The invariant holds in every state that the requests reach.
THEOREM Invariance == Spec => []Inv
  BY InitInv, NextInv, PTL DEF Spec

----------------------------------------------------------------------------
(* The properties *)

\* Type correctness: the rows of investments and transactions, and the snapshot table.
THEOREM TypeCorrect == Spec => []TypeOK
<1>1. Inv => TypeOK
  BY DEF Inv, InvestmentsOK, TableInv, Sound, LedgerOK, TypeOK
<1> QED
  BY <1>1, Invariance, PTL

\* One live snapshot a month, and what a close row supersedes is archived, with
\* any number of requests under way.
THEOREM TableSoundHolds == Spec => []TableSound
<1>1. Inv => TableSound
  <2> SUFFICES ASSUME Inv PROVE TableSound
    OBVIOUS
  <2>1. PICK S : Sound(snap, Alive, S)
    BY DEF Inv, TableInv
  <2>2. OneLive(snap) /\ Linked(snap) /\ Stacked(snap, S)
    BY <2>1 DEF Sound
  <2>3. \A s \in Live(snap) : LiveAt(snap, snap[s].pos, snap[s].month) = {s}
    BY <2>2 DEF OneLive, LiveAt
  <2>4. \A s \in Live(snap) : snap[s].supersedes # Nil =>
          LET u == snap[s].supersedes
          IN  snap[u].deleted /\ snap[u].pos = snap[s].pos /\ snap[u].month = snap[s].month
    BY <2>2 DEF Linked, Stacked, Live
  <2> QED
    BY <2>3, <2>4 DEF TableSound
<1> QED
  BY <1>1, Invariance, PTL

\* A deleted investment leaves no live snapshot or transaction, whatever
\* requests were under way when DeleteInvestment committed.
THEOREM NoLiveChildHolds == Spec => []NoLiveChild
<1>1. Inv => NoLiveChild
  BY DEF Inv, TableInv, Sound, Alive, LedgerOK, NoLiveChild
<1> QED
  BY <1>1, Invariance, PTL

\* An investment that has ended reads zero in the month of its end until a user
\* writes to it.
THEOREM EndedReadsZeroHolds == Spec => []EndedReadsZero
<1>1. Inv => EndedReadsZero
  <2> SUFFICES ASSUME Inv, NEW i \in DOMAIN investment, i \notin touched, Exists(i),
                      investment[i].at # Nil
               PROVE  Reads(snap, i, MonthOf(investment[i].at), Zero)
    BY DEF EndedReadsZero
  <2>1. Closed(snap, i, MonthOf(investment[i].at))
    BY DEF Inv, Fine, ZeroFine
  <2> QED
    BY <2>1, ClosedReadsZero
<1> QED
  BY <1>1, Invariance, PTL

\* The history of a deposit that did not stray lies within its term.
THEOREM DepositInTermHolds == Spec => []DepositInTerm
<1>1. Inv => DepositInTerm
  <2> SUFFICES ASSUME Inv, NEW i \in DOMAIN investment, Exists(i), IsDeposit(i),
                      Unstrayed(i, {"stale", "offTerm"})
               PROVE  /\ \A s \in Live(snap) : snap[s].pos = i => InTermMonth(i, snap[s].month)
                      /\ \A t \in LiveTxns(i) : InTermDate(i, txn[t].date)
    BY DEF DepositInTerm
  <2>1. /\ \A n : Marked(snap, i, n) => \E d \in investment[i].term : MonthOf(d) = n
        /\ \A t \in LiveTxns(i) : txn[t].date \in investment[i].term
    BY DEF Inv, Fine, TermFine
  <2>2. \A s \in Live(snap) : snap[s].pos = i => Marked(snap, i, snap[s].month)
    BY DEF Marked, LiveAt
  <2> QED
    BY <2>1, <2>2 DEF InTermMonth, InTermDate
<1> QED
  BY <1>1, Invariance, PTL

LEMMA OneAtMost ==
  ASSUME NEW S, \A x, y \in S : x = y
  PROVE  Cardinality(S) <= 1
<1>1. CASE S = {}
  BY <1>1, FS_EmptySet
<1>2. CASE S # {}
  <2>1. PICK x : S = {x}
    BY <1>2
  <2>2. Cardinality({x}) = 1
    BY FS_Singleton
  <2> QED
    BY <2>1, <2>2
<1> QED
  BY <1>1, <1>2

\* The ledger of a deposit that was not reopened over a maturity holds one at most.
THEOREM MaturesOnceHolds == Spec => []MaturesOnce
<1>1. Inv => MaturesOnce
  BY OneAtMost DEF Inv, Fine, LedgerFine, MaturesOnce
<1> QED
  BY <1>1, Invariance, PTL

\* The only close row of an investment is at the month of its end.
THEOREM CloseRowAtEndHolds == Spec => []CloseRowAtEnd
<1>1. Inv => CloseRowAtEnd
  <2> SUFFICES ASSUME Inv, NEW s \in Live(snap), NEW i, i = snap[s].pos, snap[s].amount = Zero,
                      Unstrayed(i, {"stale", "redated", "reopened"})
               PROVE  investment[i].at # Nil /\ MonthOf(investment[i].at) = snap[s].month
    BY DEF CloseRowAtEnd
  <2>1. i \in DOMAIN investment
    BY DEF Inv, TableInv, Sound, Alive, Exists
  <2>2. Closed(snap, i, snap[s].month)
    BY DEF Closed, CloseRows, LiveAt
  <2> QED
    BY <2>1, <2>2 DEF Inv, Fine, EndFine
<1> QED
  BY <1>1, Invariance, PTL

\* A deposit that was not split rolled over into one other at most, and not into
\* the one it came from.
THEOREM OneSuccessorHolds == Spec => []OneSuccessor
<1>1. Inv => OneSuccessor
  BY OneAtMost DEF Inv, ChainFine, OneSuccessor
<1> QED
  BY <1>1, Invariance, PTL

\* The end of an investment is taken back by a lifecycle request alone.
LEMMA ReopeningStep ==
  ASSUME Inv, [Next]_vars, NEW i \in DOMAIN investment,
         investment[i].at # Nil, investment'[i].at = Nil
  PROVE  \E c \in Client : /\ request[c] # Nil /\ CommitLifecycle(c)
                           /\ request[c].of = i /\ request[c].date = Nil
<1>1. ASSUME UNCHANGED investment PROVE FALSE
  BY <1>1
<1>2. ASSUME NEW j, NEW row, j \notin DOMAIN investment, investment' = With(investment, j, row)
      PROVE  FALSE
  BY <1>2 DEF With
<1>3. ASSUME NEW j, NEW status, NEW at, at # Nil, End(j, status, at) PROVE FALSE
  <2>1. investment[i] \in Investment
    BY DEF Inv, InvestmentsOK
  <2>2. CASE i # j
    BY <1>3, <2>2 DEF End
  <2>3. CASE i = j
    <3>1. investment'[i] = [investment[i] EXCEPT !.status = status, !.at = at]
      BY <1>3, <2>3 DEF End
    <3> QED
      BY <1>3, <2>1, <3>1 DEF Investment
  <2> QED
    BY <2>2, <2>3
<1>4. ASSUME NEW c \in Client, Fail(c) PROVE FALSE
  BY <1>1, <1>4 DEF Fail
<1>5. ASSUME NEW c \in Client, request[c] # Nil, CommitTransaction(c) PROVE FALSE
  <2>1. PICK r : r = request[c]
    OBVIOUS
  <2>2. r.op = "create" /\ r.date # Nil
    BY <1>5, <2>1, AskedFact, DateAssumption DEF CommitTransaction, RequestOK, CreateOK
  <2> QED
    BY <1>1, <1>3, <1>5, <2>1, <2>2 DEF CommitTransaction
<1>6. ASSUME NEW c \in Client, request[c] # Nil, CommitEdit(c) PROVE FALSE
  <2>1. PICK r : r = request[c]
    OBVIOUS
  <2>2. r.op = "edit" /\ r.date # Nil
    BY <1>6, <2>1, AskedFact, DateAssumption DEF CommitEdit, RequestOK, EditOK
  <2> QED
    BY <1>1, <1>3, <1>6, <2>1, <2>2 DEF CommitEdit
<1>7. ASSUME NEW c \in Client, request[c] # Nil, CommitLifecycle(c)
      PROVE  request[c].of = i /\ request[c].date = Nil
  <2>1. PICK r : r = request[c]
    OBVIOUS
  <2>2. End(r.of, r.status, r.date)
    BY <1>7, <2>1 DEF CommitLifecycle
  <2>3. r.date = Nil
    BY <1>3, <2>2
  <2>4. r.of = i
    BY <2>2 DEF End
  <2> QED
    BY <2>1, <2>3, <2>4
<1>8. ASSUME NEW j, NEW k, investment' = [investment EXCEPT ![j].from = k] PROVE FALSE
  BY <1>8 DEF Inv, InvestmentsOK, Investment
<1>9. ASSUME NEW j, investment' = [investment EXCEPT ![j].deleted = TRUE] PROVE FALSE
  BY <1>9 DEF Inv, InvestmentsOK, Investment
<1>10. ASSUME NEW j, NEW term, investment' = [investment EXCEPT ![j].term = term] PROVE FALSE
  BY <1>10 DEF Inv, InvestmentsOK, Investment
<1>11. ASSUME NEW j, NEW subtype, NEW term, NEW months, NEW maturity \in {{}} \cup {{d} : d \in Date},
              SeedInvestment(j, subtype, term, months, maturity)
       PROVE  FALSE
  <2>1. j \notin DOMAIN investment /\ \E row : investment' = With(investment, j, row)
    BY <1>11 DEF SeedInvestment
  <2> QED
    BY <1>2, <2>1
<1>12. ASSUME NEW c \in Client, request[c] # Nil, CommitSnapshot(c) \/ CommitLink(c) PROVE FALSE
  BY <1>1, <1>8, <1>12 DEF CommitSnapshot, CommitLink
<1>13. ASSUME \/ \E t \in TxnId : DeleteTransaction(t)
              \/ \E s \in SnapId : DeleteSnapshot(s)
              \/ \E j \in Busy, m \in Month, a \in UserAmount : UpsertSnapshot(j, m, a)
       PROVE  FALSE
  BY <1>1, <1>13 DEF DeleteTransaction, DeleteSnapshot, UpsertSnapshot
<1>14. ASSUME \/ \E j \in Busy, term \in Terms : UpdateTimeDeposit(j, term)
              \/ \E j \in Position : DeleteInvestment(j)
              \/ \E j \in Position, from \in Position \cup {Nil} : CreateTimeDeposit(j, from, Date)
       PROVE  FALSE
  BY <1>2, <1>9, <1>10, <1>14 DEF UpdateTimeDeposit, DeleteInvestment, CreateTimeDeposit
<1>15. ASSUME NEW c \in Client,
              \/ \E j \in Busy, d \in Date, type \in {"trade", "maturity"} : AskTransaction(c, j, type, d)
              \/ \E t \in TxnId, d \in Date : AskEdit(c, t, d)
              \/ \E j \in Busy, status \in Status, at \in Date \cup {Nil}, settle \in BOOLEAN :
                   AskLifecycle(c, j, status, at, settle)
              \/ \E j \in Busy, m \in Month : AskSnapshot(c, j, m)
              \/ \E j, k \in Position : AskLink(c, j, k)
       PROVE  FALSE
  BY <1>1, <1>15 DEF AskTransaction, AskEdit, AskLifecycle, AskSnapshot, AskLink, Ask
<1>16. ASSUME UNCHANGED vars PROVE FALSE
  BY <1>1, <1>16 DEF vars
<1> QED
  BY <1>4, <1>5, <1>6, <1>7, <1>11, <1>12, <1>13, <1>14, <1>15, <1>16 DEF Next

\* Making an investment active again gives the month of its end back what it
\* read before, also after the maturity that ended it was moved.
THEOREM ReopeningRestoresHolds == Spec => ReopeningRestores
<1>1. ASSUME Inv, [Next]_vars, NEW i \in DOMAIN investment,
             investment[i].at # Nil, investment'[i].at = Nil,
             held[i] \notin {Forgotten, Zero}, "stale" \notin strayed'[i]
      PROVE  Reads(snap', i, MonthOf(investment[i].at), held[i])
  <2>1. PICK c \in Client : /\ request[c] # Nil /\ CommitLifecycle(c)
                            /\ request[c].of = i /\ request[c].date = Nil
    BY <1>1, ReopeningStep
  <2>2. PICK r : r = request[c] /\ r.of = i /\ r.date = Nil
    BY <2>1
  <2>3. Exists(i) /\ snap' \in ApplyCloseSnapshot(i, r.date, r.saw.at)
    BY <2>1, <2>2 DEF CommitLifecycle
  <2>4. i \in Position /\ strayed \in [Position -> SUBSET Stray]
    BY <1>1 DEF Inv, InvestmentsOK, HistoryOK
  <2>5. "stale" \notin strayed[i] /\ r.saw = investment[i]
    <3> DEFINE how == If(r.saw # investment[i], "stale")
                      \cup If(r.date # Nil /\ ~InTermDate(i, r.date), "offTerm")
                      \cup If(r.date # Nil /\ investment[i].at # Nil
                              /\ ~SameMonth(investment[i].at, r.date), "redated")
                      \cup If(r.date = Nil /\ LiveMaturities(i) # {}, "reopened")
    <3>1. Strays(i, how)
      BY <2>1, <2>2 DEF CommitLifecycle
    <3>2. r.saw # investment[i] => "stale" \in how
      BY DEF If
    <3> HIDE DEF how
    <3> QED
      BY <1>1, <2>4, <3>1, <3>2 DEF Strays
  <2>6. snap' \in RevertCloseSnapshot(snap, i, MonthOf(investment[i].at))
    BY <1>1, <2>2, <2>3, <2>5 DEF ApplyCloseSnapshot
  <2>7. Owes(snap, i, MonthOf(investment[i].at), held[i])
    BY <1>1, <2>3, <2>5 DEF Inv, Fine, HeldFine
  <2>8. PICK S : Sound(snap, Alive, S)
    BY <1>1 DEF Inv, TableInv
  <2> QED
    BY <2>6, <2>7, <2>8, RevertCells
<1>2. Inv /\ [Next]_vars =>
        [\A i \in DOMAIN investment :
           /\ investment[i].at # Nil /\ investment'[i].at = Nil
           /\ held[i] \notin {Forgotten, Zero} /\ "stale" \notin strayed'[i]
           => Reads(snap', i, MonthOf(investment[i].at), held[i])]_vars
  BY <1>1
<1> QED
  BY <1>2, Invariance, PTL DEF Spec, ReopeningRestores
==============================================================================
