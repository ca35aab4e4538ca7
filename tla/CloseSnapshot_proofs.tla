------------------------ MODULE CloseSnapshot_proofs ------------------------
(***************************************************************************)
(* Lemmas about the statements of CloseSnapshot: each keeps a snapshot     *)
(* table sound.  A table is sound relative to the positions that exist     *)
(* (alive) and to a stack S of rows: the live rows and everything an       *)
(* un-terminate can still reach through `supersedes`.                      *)
(***************************************************************************)
EXTENDS CloseSnapshot, TLAPS

OneLive(t) ==
  \A i, j \in Live(t) : t[i].pos = t[j].pos /\ t[i].month = t[j].month => i = j

Linked(t) ==
  \A i \in DOMAIN t : t[i].supersedes # Nil =>
    /\ t[i].supersedes \in DOMAIN t
    /\ t[t[i].supersedes].pos = t[i].pos
    /\ t[t[i].supersedes].month = t[i].month

\* Every superseding row of the stack leads to an archived row of the stack
\* that carries a value, and to that row alone.
Stacked(t, S) ==
  /\ Live(t) \subseteq S
  /\ S \subseteq DOMAIN t
  /\ \A i \in S : t[i].supersedes # Nil =>
       /\ t[i].supersedes \in S
       /\ t[t[i].supersedes].deleted
       /\ t[t[i].supersedes].amount # Zero
  /\ \A i, j \in S : t[i].supersedes # Nil /\ t[i].supersedes = t[j].supersedes => i = j

Tombstone(row) == [row EXCEPT !.deleted = TRUE]

\* The rows of the other positions are untouched.
Frame(t, u, p) == /\ DOMAIN t \subseteq DOMAIN u
                  /\ \A j \in DOMAIN t : t[j].pos # p => u[j] = t[j]

\* The month m of p holds a close row that owes h: it displaced nothing, or it
\* displaced a row of amount h.
Owes(t, p, m, h) ==
  \E c \in CloseRows(t, p, m) :
    IF h = Nil THEN t[c].supersedes = Nil
    ELSE t[c].supersedes # Nil /\ t[t[c].supersedes].amount = h

\* What the statements do to the table: a row is changed, a row is archived, a row is added, a
\* row is archived and another takes its place, and the way back.
Keeps(t, u, i) ==
  /\ DOMAIN u = DOMAIN t
  /\ \A j \in DOMAIN t \ {i} : u[j] = t[j]

Drops(t, u, i) ==
  /\ Live(u) = Live(t) \ {i}
  /\ DOMAIN u = DOMAIN t
  /\ \A j \in DOMAIN t \ {i} : u[j] = t[j]
  /\ u[i] = Tombstone(t[i])

Adds(t, u, n, row) ==
  /\ Live(u) = Live(t) \cup {n}
  /\ DOMAIN u = DOMAIN t \cup {n}
  /\ \A j \in DOMAIN t : u[j] = t[j]
  /\ u[n] = row

Displaces(t, u, x, n, row) ==
  /\ Live(u) = (Live(t) \ {x}) \cup {n}
  /\ DOMAIN u = DOMAIN t \cup {n}
  /\ \A j \in DOMAIN t \ {x} : u[j] = t[j]
  /\ u[x] = Tombstone(t[x])
  /\ u[n] = row

Undisplaces(t, u, p, m, c, s) ==
  /\ Live(u) = (Live(t) \ {c}) \cup {s}
  /\ DOMAIN u = DOMAIN t
  /\ \A j \in DOMAIN t \ {c, s} : u[j] = t[j]
  /\ u[s].amount = t[s].amount
  /\ u[s].amount # Zero
  /\ t[s].pos = p
  /\ s \in LiveAt(u, p, m)

Sound(t, alive, S) ==
  /\ IsTable(t)
  /\ OneLive(t)
  /\ Linked(t)
  /\ \A i \in Live(t) : t[i].pos \in alive
  /\ Stacked(t, S)

----------------------------------------------------------------------------
(* One lemma per statement *)

\* UPDATE ... SET amount on a live row.
LEMMA SetAmountSound ==
  ASSUME NEW t, NEW alive, NEW S, Sound(t, alive, S),
         NEW i \in Live(t), NEW a \in Amount,
         NEW u, u = SetAmount(t, i, a)
  PROVE  Sound(u, alive, S) /\ Keeps(t, u, i)
<1>1. /\ DOMAIN u = DOMAIN t
      /\ \A j \in DOMAIN t : /\ u[j].pos = t[j].pos
                             /\ u[j].month = t[j].month
                             /\ u[j].deleted = t[j].deleted
                             /\ u[j].supersedes = t[j].supersedes
                             /\ u[j] \in Row
                             /\ j # i => u[j] = t[j]
  BY DEF SetAmount, Sound, IsTable, Row, Live
<1>2. Live(u) = Live(t)
  BY <1>1 DEF Live
<1>3. IsTable(u) /\ OneLive(u) /\ Linked(u)
  BY <1>1, <1>2 DEF Sound, IsTable, OneLive, Linked, Live
<1>4. Stacked(u, S)
  BY <1>1, <1>2 DEF Sound, Stacked, Live
<1> QED
  BY <1>1, <1>2, <1>3, <1>4 DEF Sound, Live, Keeps

\* UPDATE ... SET deleted_at on a live row: it leaves the stack.
LEMMA ArchiveSound ==
  ASSUME NEW t, NEW alive, NEW S, Sound(t, alive, S), NEW i \in Live(t),
         NEW u, u = Archive(t, i)
  PROVE  Sound(u, alive, S \ {i}) /\ Drops(t, u, i)
<1>1. /\ DOMAIN u = DOMAIN t
      /\ \A j \in DOMAIN t : /\ u[j].pos = t[j].pos
                             /\ u[j].month = t[j].month
                             /\ u[j].amount = t[j].amount
                             /\ u[j].supersedes = t[j].supersedes
                             /\ u[j] \in Row
                             /\ j # i => u[j] = t[j]
      /\ u[i] = Tombstone(t[i])
      /\ u[i].deleted
  BY DEF Archive, Sound, IsTable, Row, Live, Tombstone
<1>2. Live(u) = Live(t) \ {i}
  BY <1>1 DEF Live
<1>3. IsTable(u) /\ OneLive(u) /\ Linked(u)
  BY <1>1, <1>2 DEF Sound, IsTable, OneLive, Linked, Live
<1>4. Stacked(u, S \ {i})
  BY <1>1, <1>2 DEF Sound, Stacked, Live
<1> QED
  BY <1>1, <1>2, <1>3, <1>4 DEF Sound, Live, Drops

\* UPDATE ... SET deleted_at = NULL on a tombstone of the stack that no row of
\* the stack supersedes any more, at a month that holds no live row.
LEMMA RestoreSound ==
  ASSUME NEW t, NEW alive, NEW S, Sound(t, alive, S),
         NEW i \in S, CanRestore(t, i), t[i].pos \in alive,
         \A j \in S : t[j].supersedes # i,
         NEW u, u = Restore(t, i)
  PROVE  /\ Sound(u, alive, S)
         /\ Live(u) = Live(t) \cup {i}
         /\ DOMAIN u = DOMAIN t
         /\ \A j \in DOMAIN t \ {i} : u[j] = t[j]
         /\ u[i].amount = t[i].amount
<1>1. /\ DOMAIN u = DOMAIN t
      /\ \A j \in DOMAIN t : /\ u[j].pos = t[j].pos
                             /\ u[j].month = t[j].month
                             /\ u[j].amount = t[j].amount
                             /\ u[j].supersedes = t[j].supersedes
                             /\ u[j] \in Row
                             /\ j # i => u[j] = t[j]
      /\ ~u[i].deleted
  BY DEF Restore, CanRestore, Sound, IsTable, Row
<1>2. i \in DOMAIN t
  BY DEF CanRestore
<1>3. Live(u) = Live(t) \cup {i}
  BY <1>1, <1>2 DEF Live
<1>4. \A j \in Live(t) : ~(t[j].pos = t[i].pos /\ t[j].month = t[i].month)
  BY DEF CanRestore, LiveAt
<1>5. IsTable(u) /\ OneLive(u) /\ Linked(u)
  BY <1>1, <1>2, <1>3, <1>4 DEF Sound, IsTable, OneLive, Linked, Live
<1>6. Stacked(u, S)
  BY <1>1, <1>2, <1>3 DEF Sound, Stacked, Live
<1> QED
  BY <1>1, <1>2, <1>3, <1>5, <1>6 DEF Sound, Live

\* INSERT of a live row that supersedes nothing, at a month that holds no live
\* row: it joins the stack.
LEMMA InsertSound ==
  ASSUME NEW t, NEW alive, NEW S, Sound(t, alive, S),
         NEW p \in Position, p \in alive, NEW m \in Month, NEW a \in Amount,
         LiveAt(t, p, m) = {}, NEW n \in Free(t),
         NEW u, u = Insert(t, n, NewRow(p, m, a, Nil))
  PROVE  Sound(u, alive, S \cup {n}) /\ Adds(t, u, n, NewRow(p, m, a, Nil))
<1> DEFINE row == NewRow(p, m, a, Nil)
<1>1. /\ row \in Row
      /\ ~row.deleted
      /\ row.pos = p
      /\ row.month = m
      /\ row.supersedes = Nil
  BY DEF NewRow, Row
<1>0. u = Insert(t, n, row)
  OBVIOUS
<1> HIDE DEF row
<1>2. /\ DOMAIN u = DOMAIN t \cup {n}
      /\ \A j \in DOMAIN t : u[j] = t[j]
      /\ u[n] = row
      /\ n \notin DOMAIN t
      /\ n \in SnapId
  BY <1>0 DEF Insert, Free
<1>3. Live(u) = Live(t) \cup {n}
  BY <1>1, <1>2 DEF Live
<1>4. \A j \in Live(t) : ~(t[j].pos = p /\ t[j].month = m)
  BY DEF LiveAt
<1>5. IsTable(u) /\ OneLive(u) /\ Linked(u)
  BY <1>1, <1>2, <1>3, <1>4 DEF Sound, IsTable, OneLive, Linked, Live
<1>6. Stacked(u, S \cup {n})
  BY <1>1, <1>2, <1>3 DEF Sound, Stacked, Live
<1> QED
  BY <1>1, <1>2, <1>3, <1>5, <1>6 DEF Sound, Live, Adds, row

\* A live valued row is archived and a zero row that names it takes its month:
\* the row stays on the stack, under the new one.
LEMMA DisplaceSound ==
  ASSUME NEW t, NEW alive, NEW S, Sound(t, alive, S),
         NEW p, NEW m, NEW x \in LiveAt(t, p, m), t[x].amount # Zero,
         NEW n \in Free(t),
         NEW u, u = Insert(Archive(t, x), n, NewRow(p, m, Zero, x))
  PROVE  Sound(u, alive, S \cup {n}) /\ Displaces(t, u, x, n, NewRow(p, m, Zero, x))
<1> DEFINE row == NewRow(p, m, Zero, x)
           b == Archive(t, x)
<1>0. u = Insert(b, n, row)
  OBVIOUS
<1>1. x \in Live(t) /\ t[x].pos = p /\ t[x].month = m
  BY DEF LiveAt
<1>2. x \in SnapId /\ p \in Position /\ m \in Month /\ Nil # x
  BY <1>1, TableAssumption DEF Sound, IsTable, Live, Row
<1>3. /\ row \in Row
      /\ ~row.deleted
      /\ row.pos = p
      /\ row.month = m
      /\ row.supersedes = x
  BY <1>2, TableAssumption DEF NewRow, Row
<1>4. /\ Sound(b, alive, S \ {x})
      /\ Live(b) = Live(t) \ {x}
      /\ DOMAIN b = DOMAIN t
      /\ \A j \in DOMAIN t \ {x} : b[j] = t[j]
      /\ b[x] = Tombstone(t[x])
  <2>1. Sound(b, alive, S \ {x}) /\ Drops(t, b, x)
    BY <1>1, ArchiveSound
  <2> QED
    BY <2>1 DEF Drops
<1>5. /\ b[x].pos = p /\ b[x].month = m /\ b[x].deleted
      /\ b[x].amount = t[x].amount /\ b[x].supersedes = t[x].supersedes
  BY <1>1, <1>4 DEF Sound, IsTable, Live, Row, Tombstone
<1> HIDE DEF row, b
<1>6. /\ DOMAIN u = DOMAIN t \cup {n}
      /\ \A j \in DOMAIN t : u[j] = b[j]
      /\ u[n] = row
      /\ n \notin DOMAIN t
      /\ n \in SnapId
  BY <1>0, <1>4 DEF Insert, Free
<1>7. Live(u) = (Live(t) \ {x}) \cup {n}
  BY <1>3, <1>4, <1>6 DEF Live
<1>8. \A j \in Live(b) : ~(b[j].pos = p /\ b[j].month = m)
  BY <1>1, <1>4 DEF Sound, OneLive, Live
<1>9. IsTable(u) /\ OneLive(u) /\ Linked(u)
  <2>1. IsTable(u)
    BY <1>3, <1>4, <1>6 DEF Sound, IsTable
  <2>2. OneLive(u)
    BY <1>3, <1>4, <1>6, <1>7, <1>8 DEF Sound, OneLive, Live
  <2>3. Linked(u)
    <3>1. Linked(b) /\ x \in DOMAIN b
      BY <1>1, <1>4 DEF Sound, Live
    <3>2. ASSUME NEW i \in DOMAIN b, u[i].supersedes # Nil
          PROVE  /\ u[i].supersedes \in DOMAIN u
                 /\ u[u[i].supersedes].pos = u[i].pos
                 /\ u[u[i].supersedes].month = u[i].month
      BY <1>4, <1>6, <3>1, <3>2 DEF Linked
    <3>3. u[n].supersedes = x /\ u[x] = b[x] /\ u[n].pos = p /\ u[n].month = m
      BY <1>3, <1>4, <1>6, <3>1
    <3>4. u[u[n].supersedes].pos = u[n].pos /\ u[u[n].supersedes].month = u[n].month
      BY <1>5, <3>3
    <3>5. x \in DOMAIN u /\ DOMAIN u = DOMAIN b \cup {n}
      BY <1>4, <1>6, <3>1
    <3> QED
      BY <3>2, <3>3, <3>4, <3>5 DEF Linked
  <2> QED
    BY <2>1, <2>2, <2>3
<1>10. Stacked(u, S \cup {n})
  <2>1. Live(u) \subseteq S \cup {n} /\ S \cup {n} \subseteq DOMAIN u
    BY <1>6, <1>7 DEF Sound, Stacked
  <2>2. /\ S \subseteq DOMAIN t
        /\ x \in S
        /\ n \notin S
        /\ \A i \in S : /\ u[i].supersedes = t[i].supersedes
                        /\ u[i].amount = t[i].amount
                        /\ t[i].deleted => u[i].deleted
    <3>1. S \subseteq DOMAIN t /\ x \in S /\ n \notin S
      BY <1>1, <1>6 DEF Sound, Stacked
    <3>2. ~t[x].deleted
      BY <1>1 DEF Live
    <3>3. \A i \in S \ {x} : u[i] = t[i]
      BY <1>4, <1>6, <3>1
    <3>4. u[x] = b[x]
      BY <1>6, <3>1
    <3> QED
      BY <1>5, <3>1, <3>2, <3>3, <3>4
  <2>3. u[n].supersedes = x /\ u[x].deleted /\ u[x].amount # Zero
    BY <1>1, <1>3, <1>5, <1>6 DEF Live
  <2>4. \A i \in S : t[i].supersedes # x
    BY <1>1, <1>2 DEF Sound, Stacked, Live
  <2>5. ASSUME NEW i \in S \cup {n}, u[i].supersedes # Nil
        PROVE  /\ u[i].supersedes \in S \cup {n}
               /\ u[u[i].supersedes].deleted
               /\ u[u[i].supersedes].amount # Zero
    BY <2>2, <2>3, <2>5 DEF Sound, Stacked
  <2>6. ASSUME NEW i \in S \cup {n}, NEW j \in S \cup {n},
               u[i].supersedes # Nil, u[i].supersedes = u[j].supersedes
        PROVE  i = j
    BY <2>2, <2>3, <2>4, <2>6 DEF Sound, Stacked
  <2> QED
    BY <2>1, <2>5, <2>6 DEF Stacked
<1>11. \A i \in Live(u) : u[i].pos \in alive
  BY <1>1, <1>3, <1>4, <1>6, <1>7 DEF Sound, Live
<1>12. Sound(u, alive, S \cup {n})
  BY <1>9, <1>10, <1>11 DEF Sound
<1>13. (\A j \in DOMAIN t \ {x} : u[j] = t[j]) /\ u[x] = Tombstone(t[x])
  BY <1>1, <1>4, <1>6 DEF Live
<1> QED
  BY <1>6, <1>7, <1>12, <1>13 DEF Displaces, row, b

\* The cascade of a position's deletion archives its live rows, and its rows
\* leave the stack.
LEMMA ArchiveAllSound ==
  ASSUME NEW t, NEW alive, NEW S, Sound(t, alive, S), NEW p,
         NEW u, u = ArchiveAll(t, p)
  PROVE  /\ Sound(u, alive \ {p}, {i \in S : t[i].pos # p})
         /\ Frame(t, u, p)
<1> DEFINE R == {i \in S : t[i].pos # p}
<1>1. /\ DOMAIN u = DOMAIN t
      /\ \A j \in DOMAIN t : /\ u[j].pos = t[j].pos
                             /\ u[j].month = t[j].month
                             /\ u[j].amount = t[j].amount
                             /\ u[j].supersedes = t[j].supersedes
                             /\ u[j] \in Row
                             /\ t[j].pos = p => u[j].deleted
                             /\ t[j].pos # p => u[j] = t[j]
  BY DEF ArchiveAll, Sound, IsTable, Row
<1>2. Live(u) = {i \in Live(t) : t[i].pos # p}
  BY <1>1 DEF Live
<1>3. IsTable(u) /\ OneLive(u) /\ Linked(u)
  BY <1>1, <1>2 DEF Sound, IsTable, OneLive, Linked, Live
<1>4. Stacked(u, R)
  BY <1>1, <1>2 DEF Sound, Stacked, Linked, Live
<1> QED
  BY <1>1, <1>2, <1>3, <1>4 DEF Sound, Live, Frame
----------------------------------------------------------------------------
(* The procedures *)

\* writeCloseSnapshot keeps the table sound.
LEMMA WriteCloseSnapshotSound ==
  ASSUME NEW t, NEW alive, NEW S, Sound(t, alive, S),
         NEW p \in Position, p \in alive, NEW m \in Month,
         NEW u \in WriteCloseSnapshot(t, p, m)
  PROVE  /\ \E T : Sound(u, alive, T)
         /\ Frame(t, u, p)
<1>1. CASE \E i \in LiveAt(t, p, m) : t[i].amount = Zero /\ u = t
  BY <1>1 DEF Frame
<1>2. CASE \E x \in LiveAt(t, p, m), n \in Free(t) :
             t[x].amount # Zero /\ u = Insert(Archive(t, x), n, NewRow(p, m, Zero, x))
  <2>1. PICK x \in LiveAt(t, p, m), n \in Free(t) :
          t[x].amount # Zero /\ u = Insert(Archive(t, x), n, NewRow(p, m, Zero, x))
    BY <1>2
  <2>2. Sound(u, alive, S \cup {n}) /\ Displaces(t, u, x, n, NewRow(p, m, Zero, x))
    BY <2>1, DisplaceSound
  <2>3. Frame(t, u, p)
    BY <2>2 DEF Frame, Displaces, LiveAt
  <2> QED
    BY <2>2, <2>3
<1>3. CASE LiveAt(t, p, m) = {} /\ \E n \in Free(t) : u = Insert(t, n, NewRow(p, m, Zero, Nil))
  <2>1. PICK n \in Free(t) : u = Insert(t, n, NewRow(p, m, Zero, Nil))
    BY <1>3
  <2>2. Sound(u, alive, S \cup {n}) /\ Adds(t, u, n, NewRow(p, m, Zero, Nil))
    BY <1>3, <2>1, InsertSound, TableAssumption
  <2>3. Frame(t, u, p)
    BY <2>2 DEF Frame, Adds
  <2> QED
    BY <2>2, <2>3
<1> QED
  BY <1>1, <1>2, <1>3 DEF WriteCloseSnapshot

\* The displaced row of a live close row can be restored once the close row is
\* archived, and doing so keeps the table sound.
LEMMA UndisplaceSound ==
  ASSUME NEW t, NEW alive, NEW S, Sound(t, alive, S),
         NEW p, NEW m, NEW c \in LiveAt(t, p, m), t[c].supersedes # Nil,
         NEW u, u = Restore(Archive(t, c), t[c].supersedes)
  PROVE  /\ CanRestore(Archive(t, c), t[c].supersedes)
         /\ Sound(u, alive, S \ {c})
         /\ Undisplaces(t, u, p, m, c, t[c].supersedes)
<1> DEFINE s == t[c].supersedes
           b == Archive(t, c)
<1>1. c \in Live(t) /\ t[c].pos = p /\ t[c].month = m
  BY DEF LiveAt
<1>2. /\ Sound(b, alive, S \ {c})
      /\ Live(b) = Live(t) \ {c}
      /\ DOMAIN b = DOMAIN t
      /\ \A j \in DOMAIN t \ {c} : b[j] = t[j]
  <2>1. Sound(b, alive, S \ {c}) /\ Drops(t, b, c)
    BY <1>1, ArchiveSound
  <2> QED
    BY <2>1 DEF Drops
<1>3. c \in S /\ c \in DOMAIN t
  BY <1>1 DEF Sound, Stacked, Live
<1>4. /\ s \in S
      /\ s \in DOMAIN t
      /\ t[s].deleted
      /\ t[s].amount # Zero
      /\ t[s].pos = p
      /\ t[s].month = m
      /\ s # c
  <2>1. s \in S /\ s \in DOMAIN t /\ t[s].deleted /\ t[s].amount # Zero
    BY <1>3 DEF Sound, Stacked
  <2>2. t[s].pos = p /\ t[s].month = m
    BY <1>1, <1>3 DEF Sound, Linked
  <2>3. s # c
    BY <1>1, <2>1 DEF Live
  <2> QED
    BY <2>1, <2>2, <2>3
<1>5. b[s] = t[s]
  BY <1>2, <1>4
<1>6. LiveAt(b, p, m) = {}
  BY <1>1, <1>2 DEF Sound, OneLive, LiveAt, Live
<1>7. CanRestore(b, s)
  BY <1>2, <1>4, <1>5, <1>6 DEF CanRestore
<1>8. t[s].pos \in alive
  BY <1>1, <1>4 DEF Sound
<1>9. \A j \in S \ {c} : b[j].supersedes # s
  BY <1>2, <1>3 DEF Sound, Stacked
<1>0. u = Restore(b, s)
  OBVIOUS
<1> HIDE DEF b, s
<1>10. /\ Sound(u, alive, S \ {c})
       /\ Live(u) = Live(b) \cup {s}
       /\ DOMAIN u = DOMAIN b
       /\ \A j \in DOMAIN b \ {s} : u[j] = b[j]
       /\ u[s].amount = b[s].amount
  BY <1>2, <1>4, <1>5, <1>7, <1>8, <1>9, <1>0, RestoreSound
<1>11. s \in LiveAt(u, p, m)
  <2>1. u[s].pos = b[s].pos /\ u[s].month = b[s].month
    BY <1>0, <1>2, <1>4, <1>5 DEF Restore, Sound, IsTable, Row
  <2> QED
    BY <1>4, <1>5, <1>10, <2>1 DEF LiveAt
<1> QED
  BY <1>2, <1>4, <1>5, <1>7, <1>10, <1>11 DEF Undisplaces, b, s

\* revertCloseSnapshot always has an outcome, and every outcome is sound.
LEMMA RevertCloseSnapshotSound ==
  ASSUME NEW t, NEW alive, NEW S, Sound(t, alive, S), NEW p, NEW m
  PROVE  /\ RevertCloseSnapshot(t, p, m) # {}
         /\ \A u \in RevertCloseSnapshot(t, p, m) : /\ \E T : Sound(u, alive, T)
                                                    /\ Frame(t, u, p)
<1>1. CASE CloseRows(t, p, m) = {}
  BY <1>1 DEF RevertCloseSnapshot, Frame
<1>2. CASE CloseRows(t, p, m) # {}
  <2>1. PICK c \in CloseRows(t, p, m) : TRUE
    BY <1>2
  <2>2. c \in LiveAt(t, p, m)
    BY DEF CloseRows
  <2>3. ASSUME t[c].supersedes # Nil
        PROVE  CanRestore(Archive(t, c), t[c].supersedes)
    <3> DEFINE u == Restore(Archive(t, c), t[c].supersedes)
    <3>1. /\ CanRestore(Archive(t, c), t[c].supersedes)
          /\ Sound(u, alive, S \ {c})
          /\ Undisplaces(t, u, p, m, c, t[c].supersedes)
      BY <2>2, <2>3, UndisplaceSound
    <3> QED
      BY <3>1
  <2>4. RevertCloseSnapshot(t, p, m) # {}
    BY <1>2, <2>3 DEF RevertCloseSnapshot
  <2>5. ASSUME NEW u \in RevertCloseSnapshot(t, p, m)
        PROVE  (\E T : Sound(u, alive, T)) /\ Frame(t, u, p)
    <3>1. PICK d \in CloseRows(t, p, m) :
            \/ t[d].supersedes = Nil /\ u = Archive(t, d)
            \/ t[d].supersedes # Nil /\ u = Restore(Archive(t, d), t[d].supersedes)
      BY <1>2 DEF RevertCloseSnapshot
    <3>2. d \in LiveAt(t, p, m) /\ d \in Live(t) /\ t[d].pos = p
      BY DEF CloseRows, LiveAt
    <3>3. CASE t[d].supersedes = Nil /\ u = Archive(t, d)
      <4>1. Sound(u, alive, S \ {d}) /\ Drops(t, u, d)
        BY <3>2, <3>3, ArchiveSound
      <4>2. Frame(t, u, p)
        BY <3>2, <4>1 DEF Frame, Drops
      <4> QED
        BY <4>1, <4>2
    <3>4. CASE t[d].supersedes # Nil /\ u = Restore(Archive(t, d), t[d].supersedes)
      <4>1. /\ CanRestore(Archive(t, d), t[d].supersedes)
            /\ Sound(u, alive, S \ {d})
            /\ Undisplaces(t, u, p, m, d, t[d].supersedes)
        BY <3>2, <3>4, UndisplaceSound
      <4>2. Frame(t, u, p)
        BY <3>2, <4>1 DEF Frame, Undisplaces
      <4> QED
        BY <4>1, <4>2
    <3> QED
      BY <3>1, <3>3, <3>4
  <2> QED
    BY <2>4, <2>5
<1> QED
  BY <1>1, <1>2
----------------------------------------------------------------------------
(* The batch *)

\* Every cell of a batch ends up in the live row of its month, new cells in
\* fresh ids: the table stays sound and the new rows join the stack.
LEMMA UpsertSound ==
  ASSUME NEW t, NEW alive, NEW S, Sound(t, alive, S),
         NEW batch, DOMAIN batch \subseteq (Position \cap alive) \X Month,
         \A c \in DOMAIN batch : batch[c] \in Amount,
         NEW id \in [NewCells(t, batch) -> Free(t)],
         \A c, d \in DOMAIN id : id[c] = id[d] => c = d,
         NEW u, u = Upsert(t, batch, id)
  PROVE  /\ Sound(u, alive, S \cup {id[c] : c \in DOMAIN id})
         /\ DOMAIN t \subseteq DOMAIN u
         /\ \A j \in DOMAIN t :
              t[j].deleted \/ <<t[j].pos, t[j].month>> \notin DOMAIN batch => u[j] = t[j]
<1> DEFINE New == {id[c] : c \in DOMAIN id}
           cell(n) == CHOOSE c \in DOMAIN id : id[c] = n
<1>1. /\ New \subseteq Free(t)
      /\ \A n \in New : cell(n) \in DOMAIN id /\ id[cell(n)] = n
  OBVIOUS
<1>2. /\ New \subseteq SnapId
      /\ New \cap DOMAIN t = {}
  BY <1>1 DEF Free
<1>3. \A n \in New : /\ cell(n) \in NewCells(t, batch)
                     /\ cell(n) \in DOMAIN batch
                     /\ cell(n)[1] \in Position /\ cell(n)[1] \in alive
                     /\ cell(n)[2] \in Month
                     /\ <<cell(n)[1], cell(n)[2]>> = cell(n)
  <2>1. \A n \in New : cell(n) \in NewCells(t, batch)
    BY <1>1
  <2>2. \A n \in New : cell(n) \in DOMAIN batch
    BY <2>1 DEF NewCells
  <2>3. \A c \in DOMAIN batch : /\ c[1] \in Position /\ c[1] \in alive /\ c[2] \in Month
                                /\ <<c[1], c[2]>> = c
    OBVIOUS
  <2> HIDE DEF cell, New
  <2> QED
    BY <2>1, <2>2, <2>3
<1>4. DOMAIN u = DOMAIN t \cup New
  BY DEF Upsert
<1>5. \A i \in New : u[i] = NewRow(cell(i)[1], cell(i)[2], batch[cell(i)], Nil)
  BY <1>2 DEF Upsert
<1>6. \A i \in DOMAIN t : 
        u[i] = IF ~t[i].deleted /\ <<t[i].pos, t[i].month>> \in DOMAIN batch
               THEN [t[i] EXCEPT !.amount = batch[<<t[i].pos, t[i].month>>]]
               ELSE t[i]
  BY DEF Upsert
<1> HIDE DEF New, cell
<1>7. \A i \in DOMAIN t : /\ u[i] \in Row
                          /\ u[i].pos = t[i].pos
                          /\ u[i].month = t[i].month
                          /\ u[i].deleted = t[i].deleted
                          /\ u[i].supersedes = t[i].supersedes
                          /\ t[i].deleted => u[i] = t[i]
  BY <1>6 DEF Sound, IsTable, Row
<1>8. \A i \in New : /\ u[i] \in Row
                     /\ u[i].pos = cell(i)[1]
                     /\ u[i].month = cell(i)[2]
                     /\ ~u[i].deleted
                     /\ u[i].supersedes = Nil
  <2>1. \A c \in DOMAIN batch : batch[c] \in Amount
    OBVIOUS
  <2>2. \A p \in Position, m \in Month, a \in Amount :
          /\ NewRow(p, m, a, Nil) \in Row
          /\ NewRow(p, m, a, Nil).pos = p
          /\ NewRow(p, m, a, Nil).month = m
          /\ ~NewRow(p, m, a, Nil).deleted
          /\ NewRow(p, m, a, Nil).supersedes = Nil
    BY DEF NewRow, Row
  <2> QED
    BY <1>3, <1>5, <2>1, <2>2
<1>9. Live(u) = Live(t) \cup New
  BY <1>2, <1>4, <1>7, <1>8 DEF Live
<1>10. IsTable(u)
  BY <1>2, <1>4, <1>7, <1>8 DEF Sound, IsTable
<1>11. OneLive(u)
  <2>1. \A i \in New, j \in Live(t) : ~(u[i].pos = t[j].pos /\ u[i].month = t[j].month)
    BY <1>3, <1>8 DEF NewCells, LiveAt
  <2>2. \A i, j \in New : u[i].pos = u[j].pos /\ u[i].month = u[j].month => i = j
    BY <1>1, <1>3, <1>8
  <2>3. \A i, j \in Live(t) : u[i].pos = u[j].pos /\ u[i].month = u[j].month => i = j
    BY <1>7 DEF Sound, OneLive, Live
  <2>4. \A i \in Live(t) : u[i].pos = t[i].pos /\ u[i].month = t[i].month
    BY <1>7 DEF Live
  <2> QED
    BY <1>9, <2>1, <2>2, <2>3, <2>4 DEF OneLive
<1>12. Linked(u)
  BY <1>4, <1>7, <1>8 DEF Sound, Linked
<1>13. \A i \in Live(u) : u[i].pos \in alive
  BY <1>3, <1>7, <1>8, <1>9 DEF Sound, Live
<1>14. Stacked(u, S \cup New)
  <2>1. Live(u) \subseteq S \cup New /\ S \cup New \subseteq DOMAIN u /\ S \subseteq DOMAIN t
    BY <1>4, <1>9 DEF Sound, Stacked
  <2>2. ASSUME NEW i \in S \cup New, u[i].supersedes # Nil
        PROVE  /\ u[i].supersedes \in S \cup New
               /\ u[u[i].supersedes].deleted
               /\ u[u[i].supersedes].amount # Zero
    <3>1. i \in S /\ u[i].supersedes = t[i].supersedes
      BY <1>7, <1>8, <2>1, <2>2
    <3>2. /\ t[i].supersedes \in S
          /\ t[t[i].supersedes].deleted
          /\ t[t[i].supersedes].amount # Zero
      BY <2>2, <3>1 DEF Sound, Stacked
    <3> QED
      BY <1>7, <2>1, <3>1, <3>2
  <2>3. ASSUME NEW i \in S \cup New, NEW j \in S \cup New,
               u[i].supersedes # Nil, u[i].supersedes = u[j].supersedes
        PROVE  i = j
    <3>1. i \in S /\ j \in S /\ u[i].supersedes = t[i].supersedes /\ u[j].supersedes = t[j].supersedes
      BY <1>7, <1>8, <2>1, <2>3
    <3> QED
      BY <2>3, <3>1 DEF Sound, Stacked
  <2> QED
    BY <2>1, <2>2, <2>3 DEF Stacked
<1>15. \A j \in DOMAIN t :
         t[j].deleted \/ <<t[j].pos, t[j].month>> \notin DOMAIN batch => u[j] = t[j]
  BY <1>6
<1>16. Sound(u, alive, S \cup New)
  BY <1>10, <1>11, <1>12, <1>13, <1>14 DEF Sound
<1> QED
  BY <1>4, <1>15, <1>16 DEF New
----------------------------------------------------------------------------
(* What a close row owes *)

\* A debt survives every statement that leaves the tombstones of p and the live
\* rows of its month alone.
LEMMA OwesFrame ==
  ASSUME NEW t, NEW alive, NEW S, Sound(t, alive, S), NEW u, NEW p, NEW m, NEW h,
         Owes(t, p, m, h),
         DOMAIN t \subseteq DOMAIN u,
         \A j \in DOMAIN t :
           t[j].pos = p /\ (t[j].deleted \/ t[j].month = m) => u[j] = t[j]
  PROVE  Owes(u, p, m, h)
<1>1. PICK c \in CloseRows(t, p, m) :
        IF h = Nil THEN t[c].supersedes = Nil
        ELSE t[c].supersedes # Nil /\ t[t[c].supersedes].amount = h
  BY DEF Owes
<1>2. c \in DOMAIN t /\ t[c].pos = p /\ t[c].month = m /\ u[c] = t[c]
  BY DEF CloseRows, LiveAt, Live
<1>3. c \in CloseRows(u, p, m)
  BY <1>2 DEF CloseRows, LiveAt, Live
<1>4. t[c].supersedes # Nil => u[t[c].supersedes] = t[t[c].supersedes]
  BY <1>2 DEF Sound, Linked
<1> QED
  BY <1>1, <1>2, <1>3, <1>4 DEF Owes

\* writeCloseSnapshot leaves a close row that owes what the month read before.
LEMMA WriteOwes ==
  ASSUME NEW t, NEW alive, NEW S, Sound(t, alive, S),
         NEW p \in Position, p \in alive, NEW m \in Month,
         NEW u \in WriteCloseSnapshot(t, p, m),
         NEW a, Reads(t, p, m, a), a # Zero
  PROVE  Owes(u, p, m, a)
<1>1. \A i, j \in LiveAt(t, p, m) : i = j
  BY DEF Sound, OneLive, LiveAt
<1>2. \A i \in LiveAt(t, p, m) : t[i].amount \in Amount
  BY DEF LiveAt, Live, Sound, IsTable, Row
<1>3. CASE \E i \in LiveAt(t, p, m) : t[i].amount = Zero
  BY <1>1, <1>3 DEF Reads
<1>4. CASE \E x \in LiveAt(t, p, m), n \in Free(t) :
             t[x].amount # Zero /\ u = Insert(Archive(t, x), n, NewRow(p, m, Zero, x))
  <2>1. PICK x \in LiveAt(t, p, m), n \in Free(t) :
          t[x].amount # Zero /\ u = Insert(Archive(t, x), n, NewRow(p, m, Zero, x))
    BY <1>4
  <2>2. a = t[x].amount /\ a \in Amount /\ a # Nil
    BY <1>1, <1>2, NilAssumption DEF Reads
  <2>3. x \in DOMAIN t /\ n \notin DOMAIN t /\ x # Nil
    BY TableAssumption DEF LiveAt, Live, Free, Sound, IsTable
  <2>4. Sound(u, alive, S \cup {n}) /\ Displaces(t, u, x, n, NewRow(p, m, Zero, x))
    BY <2>1, DisplaceSound
  <2>5. /\ u[n].pos = p /\ u[n].month = m /\ u[n].amount = Zero
        /\ u[n].supersedes = x
    BY <2>4 DEF NewRow, Displaces
  <2>6. u[x].amount = t[x].amount
    BY <2>3, <2>4 DEF Sound, IsTable, Row, Tombstone, Displaces
  <2>7. n \in CloseRows(u, p, m)
    BY <2>4, <2>5 DEF CloseRows, LiveAt, Displaces
  <2> QED
    BY <2>2, <2>3, <2>5, <2>6, <2>7 DEF Owes
<1>5. CASE LiveAt(t, p, m) = {} /\ \E n \in Free(t) : u = Insert(t, n, NewRow(p, m, Zero, Nil))
  <2>1. PICK n \in Free(t) : u = Insert(t, n, NewRow(p, m, Zero, Nil))
    BY <1>5
  <2>2. a = Nil
    BY <1>5 DEF Reads
  <2>3. Sound(u, alive, S \cup {n}) /\ Adds(t, u, n, NewRow(p, m, Zero, Nil))
    BY <1>5, <2>1, InsertSound, TableAssumption
  <2>4. n \in CloseRows(u, p, m) /\ u[n].supersedes = Nil
    BY <2>3 DEF CloseRows, LiveAt, NewRow, Adds
  <2> QED
    BY <2>2, <2>4 DEF Owes
<1> QED
  BY <1>3, <1>4, <1>5 DEF WriteCloseSnapshot

\* Writing a close snapshot where one stands changes nothing.
LEMMA WriteIdempotent ==
  ASSUME NEW t, NEW alive, NEW S, Sound(t, alive, S), NEW p, NEW m,
         CloseRows(t, p, m) # {}, NEW u \in WriteCloseSnapshot(t, p, m)
  PROVE  u = t
<1>1. \A i, j \in LiveAt(t, p, m) : i = j
  BY DEF Sound, OneLive, LiveAt
<1>2. LiveAt(t, p, m) # {} /\ \A i \in LiveAt(t, p, m) : t[i].amount = Zero
  BY <1>1 DEF CloseRows
<1> QED
  BY <1>2 DEF WriteCloseSnapshot

\* revertCloseSnapshot pays the debt.
LEMMA RevertPays ==
  ASSUME NEW t, NEW alive, NEW S, Sound(t, alive, S), NEW p, NEW m,
         NEW a, Owes(t, p, m, a), NEW u \in RevertCloseSnapshot(t, p, m)
  PROVE  Reads(u, p, m, a)
<1>1. \A i, j \in LiveAt(t, p, m) : i = j
  BY DEF Sound, OneLive, LiveAt
<1>2. PICK c \in CloseRows(t, p, m) :
        IF a = Nil THEN t[c].supersedes = Nil
        ELSE t[c].supersedes # Nil /\ t[t[c].supersedes].amount = a
  BY DEF Owes
<1>3. c \in LiveAt(t, p, m) /\ c \in Live(t) /\ \A d \in CloseRows(t, p, m) : d = c
  BY <1>1 DEF CloseRows, LiveAt
<1>4. \/ t[c].supersedes = Nil /\ u = Archive(t, c)
      \/ t[c].supersedes # Nil /\ u = Restore(Archive(t, c), t[c].supersedes)
  BY <1>3 DEF RevertCloseSnapshot
<1>5. CASE t[c].supersedes = Nil
  <2>1. u = Archive(t, c) /\ a = Nil
    BY <1>2, <1>4, <1>5
  <2>2. Sound(u, alive, S \ {c}) /\ Drops(t, u, c)
    BY <1>3, <2>1, ArchiveSound
  <2>3. LiveAt(u, p, m) = {}
    BY <1>1, <1>3, <2>2 DEF LiveAt, Live, Drops
  <2> QED
    BY <2>1, <2>3 DEF Reads
<1>6. CASE t[c].supersedes # Nil
  <2>1. u = Restore(Archive(t, c), t[c].supersedes) /\ t[t[c].supersedes].amount = a
    BY <1>2, <1>4, <1>6
  <2>2. /\ CanRestore(Archive(t, c), t[c].supersedes)
        /\ Sound(u, alive, S \ {c})
        /\ Undisplaces(t, u, p, m, c, t[c].supersedes)
    BY <1>3, <1>6, <2>1, UndisplaceSound
  <2> QED
    BY <2>1, <2>2 DEF Reads, Undisplaces
<1> QED
  BY <1>5, <1>6

\* After revertCloseSnapshot the month does not read zero.
LEMMA RevertNotZero ==
  ASSUME NEW t, NEW alive, NEW S, Sound(t, alive, S), NEW p, NEW m,
         NEW u \in RevertCloseSnapshot(t, p, m)
  PROVE  ~Reads(u, p, m, Zero)
<1>1. Zero # Nil
  BY TableAssumption, NilAssumption
<1>2. CASE CloseRows(t, p, m) = {}
  BY <1>1, <1>2 DEF RevertCloseSnapshot, Reads, CloseRows
<1>3. CASE CloseRows(t, p, m) # {}
  <2>1. PICK c \in CloseRows(t, p, m) :
          \/ t[c].supersedes = Nil /\ u = Archive(t, c)
          \/ t[c].supersedes # Nil /\ u = Restore(Archive(t, c), t[c].supersedes)
    BY <1>3 DEF RevertCloseSnapshot
  <2>2. c \in LiveAt(t, p, m) /\ c \in Live(t)
    BY DEF CloseRows, LiveAt
  <2>3. CASE t[c].supersedes = Nil /\ u = Archive(t, c)
    <3>1. Owes(t, p, m, Nil)
      BY <2>3 DEF Owes
    <3>2. Reads(u, p, m, Nil)
      BY <3>1, RevertPays
    <3>3. Sound(u, alive, S \ {c}) /\ Drops(t, u, c)
      BY <2>2, <2>3, ArchiveSound
    <3>4. \A i \in LiveAt(u, p, m) : u[i].amount # Nil
      BY <3>3, NilAssumption DEF Sound, IsTable, Row, LiveAt, Live
    <3> QED
      BY <1>1, <3>2, <3>4 DEF Reads
  <2>4. CASE t[c].supersedes # Nil /\ u = Restore(Archive(t, c), t[c].supersedes)
    <3>1. /\ CanRestore(Archive(t, c), t[c].supersedes)
          /\ Sound(u, alive, S \ {c})
          /\ Undisplaces(t, u, p, m, c, t[c].supersedes)
      BY <2>2, <2>4, UndisplaceSound
    <3>2. \A i, j \in LiveAt(u, p, m) : i = j
      BY <3>1 DEF Sound, OneLive, LiveAt
    <3> QED
      BY <3>1, <3>2 DEF Reads, Undisplaces
  <2> QED
    BY <2>1, <2>3, <2>4
<1> QED
  BY <1>2, <1>3

----------------------------------------------------------------------------
(* Part of a table *)

\* u holds some of the rows of t, all live ones among them.
Part(t, u) ==
  /\ DOMAIN u \subseteq DOMAIN t
  /\ Live(t) \subseteq DOMAIN u
  /\ \A i \in DOMAIN u : u[i] = t[i]

\* What is live in a table can be told from the part.
LEMMA PartReads ==
  ASSUME NEW t, NEW u, Part(t, u), NEW p, NEW m
  PROVE  /\ LiveAt(u, p, m) = LiveAt(t, p, m)
         /\ CloseRows(u, p, m) = CloseRows(t, p, m)
         /\ \A a : Reads(t, p, m, a) <=> Reads(u, p, m, a)
<1>1. Live(u) = Live(t) /\ \A i \in Live(t) : u[i] = t[i]
  BY DEF Part, Live
<1>2. LiveAt(u, p, m) = LiveAt(t, p, m)
  BY <1>1 DEF LiveAt
<1>3. \A i \in LiveAt(t, p, m) : u[i] = t[i]
  BY <1>1 DEF LiveAt
<1> QED
  BY <1>2, <1>3 DEF CloseRows, Reads

\* Archiving and restoring a row that is in the part leaves a part.
LEMMA PartArchive ==
  ASSUME NEW t, NEW u, Part(t, u), IsTable(t), NEW i \in DOMAIN u
  PROVE  Part(Archive(t, i), Archive(u, i)) /\ IsTable(Archive(t, i))
<1>1. /\ DOMAIN Archive(t, i) = DOMAIN t /\ DOMAIN Archive(u, i) = DOMAIN u
      /\ \A j \in DOMAIN t : Archive(t, i)[j] = IF j = i THEN Tombstone(t[i]) ELSE t[j]
      /\ \A j \in DOMAIN u : Archive(u, i)[j] = IF j = i THEN Tombstone(u[i]) ELSE u[j]
  BY DEF Archive, Tombstone
<1>2. t[i] \in Row  BY DEF IsTable, Part
<1>3. Tombstone(t[i]) \in Row /\ Tombstone(t[i]).deleted
  BY <1>2 DEF Tombstone, Row
<1>4. IsTable(Archive(t, i))  BY <1>1, <1>3 DEF IsTable
<1>5. Live(Archive(t, i)) \subseteq DOMAIN Archive(u, i)
  BY <1>1 DEF Live, Part
<1> QED  BY <1>1, <1>4, <1>5 DEF Part

LEMMA PartRestore ==
  ASSUME NEW t, NEW u, Part(t, u), NEW i \in DOMAIN u
  PROVE  Part(Restore(t, i), Restore(u, i))
<1>1. /\ DOMAIN Restore(t, i) = DOMAIN t /\ DOMAIN Restore(u, i) = DOMAIN u
      /\ \A j \in DOMAIN t : Restore(t, i)[j] = IF j = i THEN [t[i] EXCEPT !.deleted = FALSE] ELSE t[j]
      /\ \A j \in DOMAIN u : Restore(u, i)[j] = IF j = i THEN [u[i] EXCEPT !.deleted = FALSE] ELSE u[j]
  BY DEF Restore
<1>2. \A j \in Live(Restore(t, i)) : j = i \/ j \in Live(t)
  BY <1>1 DEF Live
<1>3. Live(Restore(t, i)) \subseteq DOMAIN Restore(u, i)
  BY <1>1, <1>2 DEF Part
<1> QED  BY <1>1, <1>3 DEF Part

\* A part with the rows live rows supersede has all it takes to undo a close.
LEMMA PartRevert ==
  ASSUME NEW t, NEW u, Part(t, u), IsTable(t), NEW p, NEW m,
         \A i \in Live(t) : t[i].supersedes # Nil => t[i].supersedes \in DOMAIN u,
         NEW v \in RevertCloseSnapshot(t, p, m)
  PROVE  \E w \in RevertCloseSnapshot(u, p, m) : \A a : Reads(v, p, m, a) <=> Reads(w, p, m, a)
<1>1. CloseRows(u, p, m) = CloseRows(t, p, m)  BY PartReads
<1>2. \A i \in CloseRows(t, p, m) : i \in Live(t) /\ i \in DOMAIN u /\ u[i] = t[i]
  BY DEF CloseRows, LiveAt, Part
<1>3. CASE CloseRows(t, p, m) = {}
  BY <1>1, <1>3, PartReads DEF RevertCloseSnapshot
<1>4. ASSUME NEW c \in CloseRows(t, p, m), t[c].supersedes = Nil, v = Archive(t, c)
      PROVE  \E w \in RevertCloseSnapshot(u, p, m) : \A a : Reads(v, p, m, a) <=> Reads(w, p, m, a)
  <2>1. Archive(u, c) \in RevertCloseSnapshot(u, p, m)
    BY <1>1, <1>2, <1>4 DEF RevertCloseSnapshot
  <2>2. Part(v, Archive(u, c))  BY <1>2, <1>4, PartArchive
  <2> QED  BY <2>1, <2>2, PartReads
<1>5. ASSUME NEW c \in CloseRows(t, p, m), t[c].supersedes # Nil,
             CanRestore(Archive(t, c), t[c].supersedes), v = Restore(Archive(t, c), t[c].supersedes)
      PROVE  \E w \in RevertCloseSnapshot(u, p, m) : \A a : Reads(v, p, m, a) <=> Reads(w, p, m, a)
  <2> DEFINE s == t[c].supersedes
             at == Archive(t, c)
             au == Archive(u, c)
  <2>1. Part(at, au)  BY <1>2, PartArchive
  <2>2. s \in DOMAIN u /\ u[c].supersedes = s  BY <1>2, <1>5
  <2>3. DOMAIN au = DOMAIN u  BY DEF Archive
  <2>4. s \in DOMAIN au /\ au[s] = at[s]  BY <2>1, <2>2, <2>3 DEF Part
  <2> HIDE DEF at, au
  <2>5. CanRestore(au, s)
    <3>1. LiveAt(au, at[s].pos, at[s].month) = LiveAt(at, at[s].pos, at[s].month)
      BY <2>1, PartReads
    <3>2. CanRestore(at, s)  BY <1>5 DEF at
    <3> QED  BY <2>4, <3>1, <3>2 DEF CanRestore
  <2>6. Restore(au, s) \in RevertCloseSnapshot(u, p, m)
    BY <1>1, <1>2, <1>5, <2>2, <2>5 DEF RevertCloseSnapshot, au
  <2>7. Part(v, Restore(au, s))  BY <1>5, <2>1, <2>4, PartRestore DEF at
  <2> QED  BY <2>6, <2>7, PartReads
<1> QED  BY <1>3, <1>4, <1>5 DEF RevertCloseSnapshot
============================================================================
