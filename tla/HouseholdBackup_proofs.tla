----------------------- MODULE HouseholdBackup_proofs -----------------------
(***************************************************************************)
(* What holds of HouseholdBackup for households of any size, any number of *)
(* restores and erasures at a time, and any requests in between.           *)
(*                                                                         *)
(* Ids are never drawn twice, and a row changes nothing but its tombstone: *)
(* so there is one table, u below, that says of every id ever drawn which  *)
(* row it is, in the books, in an export under way and in a file, whatever *)
(* has been wiped and restored.  The rest of the invariant is told in u.   *)
(***************************************************************************)
EXTENDS HouseholdBackup, TLAPS

\* The order in which the wipe comes to the tables.
Rank(table) ==
  CASE table = "history" -> 1 [] table = "positions" -> 2 [] table = "users" -> 3 [] OTHER -> 4

\* The same row, but perhaps for its tombstone.
Same(r, s) == /\ r.table = s.table /\ r.home = s.home /\ r.up = s.up /\ r.also = s.also
              /\ r.who = s.who /\ r.sub = s.sub

\* r may reference s, whose id is j.
Fits(r, j, s) ==
  /\ s.home = r.home
  /\ Rank(s.table) >= Rank(r.table)
  /\ r.table = "history" /\ j \in r.up => s.table = "positions"
  /\ j \in r.also => \/ s.table = "users"
                     \/ s.table = "history" /\ r.table = "history" /\ s.up = r.up

\* u: the rows ever made.
Known(u) ==
  /\ next \in 1 .. MaxId + 1 /\ DOMAIN u \subseteq Id
  /\ \A i \in DOMAIN u :
       /\ u[i] \in Row /\ i < next
       /\ u[i].home \in DOMAIN u /\ u[u[i].home].table = "households"
       /\ u[i].table = "households" => u[i].home = i /\ Refs(u[i]) = {}
       /\ u[i].table \in {"users", "positions"} => u[i].home \in u[i].up
       /\ u[i].table = "history" => u[i].up # {}
       /\ \A j \in Refs(u[i]) : j \in DOMAIN u /\ Fits(u[i], j, u[j])

\* The rows of f are rows of u.
Below(f, u) ==
  \A i \in DOMAIN f :
    /\ i \in DOMAIN u /\ f[i] \in Row /\ Same(f[i], u[i])
    /\ f[i].deleted => f[i].table \in {"positions", "history"}

OneEach(f) == \A v, w \in Users(f) : f[v].who = f[w].who => v = w

Books(u) ==
  /\ db = [i \in DOMAIN db |-> db[i]]
  /\ Below(db, u) /\ Closed(db) /\ OneEach(db)
  /\ DOMAIN cred \subseteq Users(db) /\ \A v \in DOMAIN cred : cred[v] \in Id

\* f is a copy of rows of a household; as long as that is there, so are its users.
Copy(u, home, f) ==
  /\ home \in DOMAIN u
  /\ Below(f, u) /\ OneEach(f)
  /\ \A i \in DOMAIN f : f[i].home = home
  /\ home \in DOMAIN db => Users(f) \subseteq DOMAIN db

\* What the sections before the k-th carry of the books as they are.
Part(k, home, full) ==
  {i \in DOMAIN db : db[i].home = home /\ 5 - Rank(db[i].table) < k /\ Keeps(i, full)}

Exporting(u) ==
  export # Nil =>
    /\ file = Nil
    /\ DOMAIN export = {"home", "full", "k", "rows", "quiet"}
    /\ export.k \in 1 .. 4
    /\ Copy(u, export.home, export.rows)
    /\ \A i \in DOMAIN export.rows : 5 - Rank(export.rows[i].table) < export.k
    /\ export.k > 1 => export.home \in DOMAIN export.rows
    /\ export.quiet => export.rows = [i \in Part(export.k, export.home, export.full) |-> db[i]]

Exported(u) ==
  /\ file # Nil => Copy(u, file.home, file.rows) /\ file.home \in DOMAIN file.rows
  /\ QuietFileRestores

TxFields == {"caller", "by", "home", "load", "as", "stash", "k", "gone", "waits", "loaded",
             "raced", "reset"}

\* What a transaction has deleted is of its household, and no row is left that
\* references it.  It is through with the household, or found it restored.
Wiping(u, x) ==
  /\ x.k \in 1 .. 6 /\ (x.k = 6 => x.load)
  /\ x.home \in DOMAIN u /\ u[x.home].table = "households"
  /\ \A i \in x.gone : i \in DOMAIN db /\ db[i].home = x.home
  /\ \A i \in DOMAIN db \ x.gone : Refs(db[i]) \cap x.gone = {}
  /\ \A i \in x.waits : i \in DOMAIN u /\ u[i].home = x.home /\ Rank(u[i].table) = x.k
  /\ x.k >= 5 /\ x.home \in DOMAIN db \ x.gone =>
       x.gone = {} /\ x.raced /\ file # Nil /\ file.home = x.home

\* What it loads finds its place.
Loading(x) ==
  /\ x.loaded = IF x.k = 6 THEN file.rows ELSE << >>
  /\ x.load => /\ file # Nil /\ x.as \in Users(file.rows) /\ file.rows[x.as].who = x.by.who
               /\ x.by.sub => file.rows[x.as].sub
  /\ x.k = 6 => /\ DOMAIN file.rows \cap DOMAIN db \subseteq x.gone
                /\ Closed(file.rows)
                /\ \A v \in Users(db) \ x.gone, w \in Users(file.rows) : db[v].who # file.rows[w].who

\* As long as nothing has come in between, it has deleted all there is of the
\* tables it is past, and its caller is still there.
Alone(x) ==
  ~x.raced =>
    /\ x.gone = {i \in DOMAIN db : db[i].home = x.home /\ Rank(db[i].table) < x.k}
    /\ \/ x.waits = {}
       \/ x.waits = {i \in DOMAIN db : db[i].home = x.home /\ Rank(db[i].table) = x.k}
    /\ x.caller \in Users(db) /\ db[x.caller].home = x.home /\ db[x.caller].who = x.by.who

\* The password it carries over is still the caller's.
Carrying(u, x) ==
  /\ x.caller \in DOMAIN u
  /\ x.stash # Nil => x.load /\ x.stash \in Id
  /\ x.load /\ ~x.reset /\ ~x.by.sub =>
       x.stash = IF x.caller \in DOMAIN cred THEN cred[x.caller] ELSE Nil

Transaction(u, x) ==
  DOMAIN x = TxFields /\ Wiping(u, x) /\ Loading(x) /\ Alone(x) /\ Carrying(u, x)

Apart(x, y) == x.gone \cap y.gone = {} /\ ~(x.k = 6 /\ y.k = 6)

State(u) ==
  /\ Known(u) /\ Books(u) /\ Exporting(u) /\ Exported(u)
  /\ DOMAIN tx = Tx
  /\ \A t \in Open : Transaction(u, tx[t])
  /\ \A s, t \in Open : s # t => Apart(tx[s], tx[t])

Inv == \E u : State(u)

----------------------------------------------------------------------------
(* Tables *)

LEMMA Ranks == \A table \in Section : Rank(table) \in 1 .. 4
BY DEF Rank, Section

LEMMA WipeRanks ==
  ASSUME NEW k \in 1 .. 4, NEW table \in Section
  PROVE  table = wipeDeletes(k) <=> Rank(table) = k
BY DEF wipeDeletes, Rank, Section

LEMMA SectionRanks ==
  ASSUME NEW k \in 1 .. 4, NEW table \in Section
  PROVE  table = Sections[k] <=> 5 - Rank(table) = k
BY DEF Sections, Rank, Section

\* A table in which every reference resolves holds the households of its rows.
LEMMA Homed ==
  ASSUME NEW u, Known(u), NEW f, Below(f, u), Closed(f), NEW i \in DOMAIN f
  PROVE  u[i].home \in DOMAIN f /\ f[i].home = u[i].home /\ i \in DOMAIN u
<1>1. \A j \in DOMAIN f : j \in DOMAIN u /\ Same(f[j], u[j]) /\ Refs(f[j]) = Refs(u[j])
  BY DEF Below, Same, Refs
<1>2. \A j \in DOMAIN f : u[j].table \in Section
  BY <1>1 DEF Known, Row
<1>3. \A j \in DOMAIN f : u[j].table \in {"users", "positions"} => u[j].home \in DOMAIN f
  BY <1>1 DEF Known, Closed, Refs
<1>4. CASE u[i].table = "households"
  BY <1>1, <1>4 DEF Known, Same
<1>5. CASE u[i].table = "history"
  <2>1. PICK j : j \in u[i].up
    BY <1>1, <1>5 DEF Known
  <2>2. j \in Refs(u[i]) /\ j \in DOMAIN f
    BY <1>1, <2>1 DEF Refs, Closed
  <2>3. u[j].table = "positions" /\ u[j].home = u[i].home
    BY <1>1, <1>5, <2>1, <2>2 DEF Known, Fits
  <2> QED  BY <1>1, <1>3, <2>2, <2>3 DEF Same
<1> QED  BY <1>1, <1>2, <1>3, <1>4, <1>5 DEF Section, Same

\* What is left of the books when the rows a transaction has deleted are taken out.
LEMMA Left ==
  ASSUME NEW u, State(u), NEW x, Wiping(u, x), NEW f, f = Without(db, x.gone)
  PROVE  /\ DOMAIN f = DOMAIN db \ x.gone
         /\ \A i \in DOMAIN f : f[i] = db[i]
         /\ Below(f, u) /\ Closed(f)
         /\ \A i \in DOMAIN f : u[i].home \in DOMAIN f /\ f[i].home = u[i].home /\ i \in DOMAIN u
<1>1. DOMAIN f = DOMAIN db \ x.gone /\ \A i \in DOMAIN f : f[i] = db[i]
  BY DEF Without
<1>2. Below(f, u)
  BY <1>1 DEF State, Books, Below
<1>3. Closed(f)
  BY <1>1 DEF State, Books, Closed, Wiping
<1>4. \A i \in DOMAIN f : u[i].home \in DOMAIN f /\ f[i].home = u[i].home /\ i \in DOMAIN u
  BY <1>2, <1>3, Homed DEF State
<1> QED  BY <1>1, <1>2, <1>3, <1>4

----------------------------------------------------------------------------
(* Steps of one transaction *)

\* Nothing but t changes: it ends, or goes on apart from the others.
LEMMA TxStep ==
  ASSUME NEW u, State(u), NEW t \in Tx, NEW y,
         UNCHANGED <<db, cred, next, export, file>>, tx' = [tx EXCEPT ![t] = y],
         y # Nil => /\ Transaction(u, y)
                    /\ \A s \in Open \ {t} : Apart(y, tx[s])
  PROVE  Inv'
<1>1. tx'[t] = y /\ DOMAIN tx' = Tx /\ \A s \in Tx \ {t} : tx'[s] = tx[s]
  BY DEF State
<1>2. \A s \in Open' : s = t \/ s \in Open
  BY <1>1 DEF Open
<1>3. \A x : Transaction(u, x) => Transaction(u, x)'
  BY DEF Transaction, Wiping, Loading, Alone, Carrying, Users
<1>4. \A s \in Open' : Transaction(u, tx[s])'
  BY <1>1, <1>2, <1>3 DEF State, Open
<1>5. \A s, z \in Open' : s # z => Apart(tx'[s], tx'[z])
  BY <1>1, <1>2 DEF State, Open, Apart
<1>6. Known(u)' /\ Books(u)'
  BY DEF State, Known, Books, Users
<1>7. Exporting(u)' /\ Exported(u)'
  BY DEF State, Exporting, Exported, Copy, Part, Keeps, QuietFileRestores, Users
<1> QED  BY <1>1, <1>4, <1>5, <1>6, <1>7 DEF Inv, State

LEMMA RollbackInv ==
  ASSUME Inv, NEW t \in Tx, Rollback(t)
  PROVE  Inv'
<1>1. PICK u : State(u)
  BY DEF Inv
<1> QED  BY <1>1, TxStep DEF Rollback

LEMMA WipeWaitsInv ==
  ASSUME Inv, NEW t \in Tx, WipeWaits(t)
  PROVE  Inv'
<1>1. PICK u : State(u)
  BY DEF Inv
<1> DEFINE x == tx[t]
           T == Targets(t)
           y == [x EXCEPT !.waits = T]
<1>2. t \in Open /\ x.k <= 4 /\ x.waits = {}
  BY DEF WipeWaits, Waits, AtWipe, Open
<1>3. Transaction(u, x)
  BY <1>1, <1>2 DEF State
<1>4. /\ DOMAIN y = TxFields /\ y.caller = x.caller /\ y.by = x.by /\ y.home = x.home
      /\ y.load = x.load /\ y.as = x.as /\ y.stash = x.stash /\ y.k = x.k /\ y.gone = x.gone
      /\ y.waits = T /\ y.loaded = x.loaded /\ y.raced = x.raced /\ y.reset = x.reset
  BY <1>3 DEF Transaction, TxFields
<1>5. tx' = [tx EXCEPT ![t] = y] /\ UNCHANGED <<db, cred, next, export, file>>
  BY <1>1 DEF WipeWaits, State
<1>6. /\ x.k \in 1 .. 4
      /\ T = {i \in DOMAIN db \ x.gone : db[i].home = x.home /\ db[i].table = wipeDeletes(x.k)}
  BY <1>2, <1>3 DEF Targets, RowsIn, Without, Transaction, Wiping
<1> HIDE DEF x, T, y
<1>7. \A i \in DOMAIN db : /\ db[i].table \in Section /\ i \in DOMAIN u
                           /\ u[i].home = db[i].home /\ u[i].table = db[i].table
  BY <1>1 DEF State, Books, Below, Same, Row
<1>8. Wiping(u, y)
  <2>1. \A i \in y.waits : i \in DOMAIN u /\ u[i].home = y.home /\ Rank(u[i].table) = y.k
    BY <1>4, <1>6, <1>7, WipeRanks
  <2> QED  BY <1>3, <1>4, <2>1 DEF Transaction, Wiping
<1>9. Alone(y)
  <2>1. SUFFICES ASSUME ~x.raced
                 PROVE  y.waits = {i \in DOMAIN db : db[i].home = y.home /\ Rank(db[i].table) = y.k}
    BY <1>3, <1>4 DEF Transaction, Alone
  <2>2. \A i \in x.gone : Rank(db[i].table) < x.k
    BY <1>3, <2>1 DEF Transaction, Alone
  <2>3. \A i \in DOMAIN db : Rank(db[i].table) = x.k => i \notin x.gone
    BY <1>6, <1>7, <2>2, Ranks
  <2> QED  BY <1>4, <1>6, <1>7, <2>3, WipeRanks
<1>10. Loading(y) /\ Carrying(u, y)
  BY <1>3, <1>4 DEF Transaction, Loading, Carrying
<1>11. \A s \in Open \ {t} : Apart(y, tx[s])
  BY <1>1, <1>2, <1>4 DEF State, Apart, x
<1>12. Transaction(u, y)
  BY <1>4, <1>8, <1>9, <1>10 DEF Transaction
<1> QED  BY <1>1, <1>5, <1>11, <1>12, TxStep

LEMMA WipeInv ==
  ASSUME Inv, NEW t \in Tx, wipeHousehold(t)
  PROVE  Inv'
<1>1. PICK u : State(u)
  BY DEF Inv
<1> DEFINE x == tx[t]
           T == Targets(t)
           y == [x EXCEPT !.gone = @ \cup T, !.waits = {}, !.k = @ + 1]
<1>2. t \in Open /\ x.k <= 4 /\ ~WipeRefused(t) /\ ~Waits(t)
  BY DEF wipeHousehold, AtWipe, Open
<1>3. Transaction(u, x)
  BY <1>1, <1>2 DEF State
<1>4. /\ DOMAIN y = TxFields /\ y.caller = x.caller /\ y.by = x.by /\ y.home = x.home
      /\ y.load = x.load /\ y.as = x.as /\ y.stash = x.stash /\ y.k = x.k + 1
      /\ y.gone = x.gone \cup T /\ y.waits = {} /\ y.loaded = x.loaded
      /\ y.raced = x.raced /\ y.reset = x.reset
  BY <1>3 DEF Transaction, TxFields
<1>5. tx' = [tx EXCEPT ![t] = y] /\ UNCHANGED <<db, cred, next, export, file>>
  BY <1>1 DEF wipeHousehold, State
<1>6. /\ x.k \in 1 .. 4
      /\ \/ /\ x.waits = {}
            /\ T = {i \in DOMAIN db \ x.gone : db[i].home = x.home /\ db[i].table = wipeDeletes(x.k)}
         \/ x.waits # {} /\ T = x.waits \cap DOMAIN db
  BY <1>2, <1>3 DEF Targets, RowsIn, Without, Transaction, Wiping
<1>7. \A i \in DOMAIN db \ (x.gone \cup T) : Refs(db[i]) \cap T = {}
  BY <1>2 DEF WipeRefused, Without
<1>8. \A s \in Open \ {t} : T \cap tx[s].gone = {}
  BY <1>2 DEF Waits, AtWipe, GoneBy, Others, wipeHousehold
<1> HIDE DEF x, T, y
<1>9. \A i \in DOMAIN db : /\ db[i].table \in Section /\ i \in DOMAIN u
                           /\ u[i].home = db[i].home /\ u[i].table = db[i].table
  BY <1>1 DEF State, Books, Below, Same, Row
<1>10. T \subseteq DOMAIN db /\ \A i \in T : db[i].home = x.home /\ Rank(db[i].table) = x.k
  <2>1. CASE x.waits = {}
    BY <1>6, <1>9, <2>1, WipeRanks
  <2>2. CASE x.waits # {}
    BY <1>3, <1>6, <1>9, <2>2 DEF Transaction, Wiping
  <2> QED  BY <2>1, <2>2
<1>11. y.k >= 5 /\ y.home \in DOMAIN db => y.home \in y.gone
  <2>1. SUFFICES ASSUME x.k = 4, x.home \in DOMAIN db, x.home \notin x.gone
                 PROVE  x.home \in T
    BY <1>4, <1>6
  <2>2. u[x.home].table = "households" /\ db[x.home].table = "households"
    BY <1>3, <1>9, <2>1 DEF Transaction, Wiping
  <2>3. db[x.home].home = x.home
    BY <1>1, <1>9, <2>1, <2>2 DEF State, Known
  <2>4. CASE x.waits = {}
    BY <1>6, <2>1, <2>2, <2>3, <2>4 DEF wipeDeletes
  <2>5. CASE x.waits # {}
    <3>1. PICK i : i \in x.waits
      BY <2>5
    <3>2. i \in DOMAIN u /\ u[i].home = x.home /\ Rank(u[i].table) = 4
      BY <1>3, <2>1, <3>1 DEF Transaction, Wiping
    <3>3. u[i].table = "households"
      BY <1>1, <3>2 DEF Rank, State, Known, Row, Section
    <3>4. i = x.home
      BY <1>1, <3>2, <3>3 DEF State, Known
    <3> QED  BY <1>6, <2>1, <2>5, <3>1, <3>4
  <2> QED  BY <2>4, <2>5
<1>12. Wiping(u, y)
  <2>1. y.k \in 1 .. 6 /\ (y.k = 6 => y.load)
    BY <1>4, <1>6
  <2>2. \A i \in y.gone : i \in DOMAIN db /\ db[i].home = y.home
    BY <1>3, <1>4, <1>10 DEF Transaction, Wiping
  <2>3. \A i \in DOMAIN db \ y.gone : Refs(db[i]) \cap y.gone = {}
    BY <1>3, <1>4, <1>7 DEF Transaction, Wiping
  <2>4. y.home \in DOMAIN u /\ u[y.home].table = "households"
    BY <1>3, <1>4 DEF Transaction, Wiping
  <2> QED  BY <1>4, <1>11, <2>1, <2>2, <2>3, <2>4 DEF Wiping
<1>13. Alone(y)
  <2>1. SUFFICES ASSUME ~x.raced
                 PROVE  y.gone = {i \in DOMAIN db : db[i].home = y.home /\ Rank(db[i].table) < y.k}
    BY <1>3, <1>4 DEF Transaction, Alone
  <2>2. x.gone = {i \in DOMAIN db : db[i].home = x.home /\ Rank(db[i].table) < x.k}
    BY <1>3, <2>1 DEF Transaction, Alone
  <2>3. T = {i \in DOMAIN db : db[i].home = x.home /\ Rank(db[i].table) = x.k}
    <3>1. CASE x.waits = {}
      BY <1>6, <1>9, <2>2, <3>1, WipeRanks, Ranks
    <3>2. CASE x.waits # {}
      BY <1>3, <1>6, <2>1, <3>2 DEF Transaction, Alone
    <3> QED  BY <3>1, <3>2
  <2>4. \A i \in DOMAIN db : Rank(db[i].table) \in 1 .. 4
    BY <1>9, Ranks
  <2>5. \A i \in DOMAIN db : Rank(db[i].table) < x.k + 1 <=> (Rank(db[i].table) < x.k \/ Rank(db[i].table) = x.k)
    BY <1>6, <2>4
  <2> QED  BY <1>4, <2>2, <2>3, <2>5
<1>14. Loading(y)
  <2>1. x.k # 6 /\ y.k # 6
    BY <1>4, <1>6
  <2> QED  BY <1>3, <1>4, <2>1 DEF Transaction, Loading
<1>15. Carrying(u, y)
  BY <1>3, <1>4 DEF Transaction, Carrying
<1>16. \A s \in Open \ {t} : Apart(y, tx[s])
  BY <1>1, <1>2, <1>4, <1>6, <1>8 DEF State, Apart, x
<1>17. Transaction(u, y)
  BY <1>4, <1>12, <1>13, <1>14, <1>15 DEF Transaction
<1> QED  BY <1>1, <1>5, <1>16, <1>17, TxStep

LEMMA LoadInv ==
  ASSUME Inv, NEW t \in Tx, loadHousehold(t)
  PROVE  Inv'
<1>1. PICK u : State(u)
  BY DEF Inv
<1> DEFINE x == tx[t]
           rows == file.rows
           left == Without(db, x.gone)
           y == [x EXCEPT !.loaded = rows, !.k = 6]
<1>2. t \in Open /\ x.k = 5 /\ x.load /\ ~LoadRefused(t)
  BY DEF loadHousehold, AtLoad, Open
<1>3. Transaction(u, x)
  BY <1>1, <1>2 DEF State
<1>4. /\ DOMAIN y = TxFields /\ y.caller = x.caller /\ y.by = x.by /\ y.home = x.home
      /\ y.load = x.load /\ y.as = x.as /\ y.stash = x.stash /\ y.k = 6 /\ y.gone = x.gone
      /\ y.waits = x.waits /\ y.loaded = rows /\ y.raced = x.raced /\ y.reset = x.reset
  BY <1>3 DEF Transaction, TxFields
<1>5. tx' = [tx EXCEPT ![t] = y] /\ UNCHANGED <<db, cred, next, export, file>>
  BY <1>1 DEF loadHousehold, State
<1>6. /\ DOMAIN rows \cap DOMAIN left = {}
      /\ \A v \in Users(left), w \in Users(rows) : left[v].who # rows[w].who
      /\ \A i \in DOMAIN rows : Refs(rows[i]) \subseteq DOMAIN left \cup DOMAIN rows
  BY <1>2 DEF LoadRefused
<1>7. \A s \in Open \ {t} : DOMAIN rows \cap DOMAIN tx[s].loaded = {}
  BY DEF loadHousehold, Others
<1>8. file # Nil /\ Copy(u, file.home, rows) /\ file.home \in DOMAIN rows
  BY <1>1, <1>2, <1>3 DEF State, Exported, Transaction, Loading
<1>9. Wiping(u, x)
  BY <1>3 DEF Transaction
<1> HIDE DEF x, y, rows, left
<1>10. /\ DOMAIN left = DOMAIN db \ x.gone
       /\ \A i \in DOMAIN left : left[i] = db[i]
       /\ \A i \in DOMAIN left : u[i].home \in DOMAIN left /\ i \in DOMAIN u
  BY <1>1, <1>9, Left DEF left
<1>11. Closed(rows)
  <2>1. SUFFICES ASSUME NEW i \in DOMAIN rows, NEW j \in Refs(rows[i]), j \in DOMAIN left
                 PROVE  FALSE
    BY <1>6 DEF Closed
  <2>2. i \in DOMAIN u /\ Same(rows[i], u[i]) /\ rows[i].home = file.home
    BY <1>8 DEF Copy, Below
  <2>3. j \in Refs(u[i]) /\ u[i].home = file.home
    BY <2>1, <2>2 DEF Same, Refs
  <2>4. u[j].home = file.home
    BY <1>1, <2>2, <2>3 DEF State, Known, Fits
  <2>5. file.home \in DOMAIN left
    BY <1>10, <2>1, <2>4
  <2> QED  BY <1>6, <1>8, <2>5
<1>12. DOMAIN rows \cap DOMAIN db \subseteq x.gone
  BY <1>6, <1>10
<1>13. \A v \in Users(db) \ x.gone, w \in Users(rows) : db[v].who # rows[w].who
  BY <1>6, <1>10 DEF Users
<1>14. Loading(y)
  BY <1>3, <1>4, <1>11, <1>12, <1>13 DEF Transaction, Loading, rows
<1>15. x.waits = {}
  <2>1. \A i \in x.waits : i \in DOMAIN u /\ Rank(u[i].table) = 5
    BY <1>2, <1>9 DEF Wiping, x
  <2>2. \A i \in DOMAIN u : Rank(u[i].table) \in 1 .. 4
    BY <1>1, Ranks DEF State, Known, Row
  <2> QED  BY <2>1, <2>2
<1>16. Wiping(u, y)
  BY <1>2, <1>4, <1>9, <1>15 DEF Wiping, x
<1>17. Alone(y)
  <2>1. SUFFICES ASSUME ~x.raced
                 PROVE  y.gone = {i \in DOMAIN db : db[i].home = y.home /\ Rank(db[i].table) < 6}
    BY <1>3, <1>4, <1>15 DEF Transaction, Alone
  <2>2. x.gone = {i \in DOMAIN db : db[i].home = x.home /\ Rank(db[i].table) < 5}
    BY <1>2, <1>3, <2>1 DEF Transaction, Alone, x
  <2>3. \A i \in DOMAIN db : Rank(db[i].table) \in 1 .. 4
    BY <1>1, Ranks DEF State, Books, Below, Row
  <2> QED  BY <1>4, <2>2, <2>3
<1>18. Carrying(u, y)
  BY <1>3, <1>4 DEF Transaction, Carrying
<1>19. ASSUME NEW s \in Open \ {t}
       PROVE  Apart(y, tx[s])
  <2>1. tx[s].k # 6
    <3>1. tx[s].k = 6 => tx[s].loaded = rows
      BY <1>1 DEF State, Transaction, Loading, rows
    <3> QED  BY <1>7, <1>8, <3>1
  <2> QED  BY <1>1, <1>2, <1>4, <2>1 DEF State, Apart, x
<1>20. Transaction(u, y)
  BY <1>4, <1>14, <1>16, <1>17, <1>18 DEF Transaction
<1> QED  BY <1>1, <1>5, <1>19, <1>20, TxStep

\* A transaction begins: what its caller is was read before.
LEMMA BeginInv ==
  ASSUME NEW u, State(u), NEW t \in Tx, NEW caller, Live(caller, "users"),
         NEW load \in BOOLEAN, NEW as, Begin(t, caller, load, as),
         load => /\ file # Nil /\ as \in Users(file.rows)
                 /\ file.rows[as].who = db[caller].who
                 /\ db[caller].sub => file.rows[as].sub
  PROVE  Inv'
<1> DEFINE y == [caller |-> caller, by |-> db[caller], home |-> db[caller].home, load |-> load,
                 as |-> as, stash |-> IF load THEN Stash(caller) ELSE Nil, k |-> 1, gone |-> {},
                 waits |-> {}, loaded |-> << >>, raced |-> FALSE, reset |-> FALSE]
<1>1. tx' = [tx EXCEPT ![t] = y] /\ UNCHANGED <<db, cred, next, export, file>>
  BY DEF Begin
<1>2. /\ DOMAIN y = TxFields /\ y.caller = caller /\ y.by = db[caller] /\ y.home = db[caller].home
      /\ y.load = load /\ y.as = as /\ y.stash = IF load THEN Stash(caller) ELSE Nil
      /\ y.k = 1 /\ y.gone = {} /\ y.waits = {} /\ y.loaded = << >>
      /\ ~y.raced
  BY DEF TxFields
<1> HIDE DEF y
<1>3. caller \in Users(db) /\ caller \in DOMAIN u /\ u[caller].home = db[caller].home
  BY DEF Live, Users, State, Books, Below, Same
<1>4. Wiping(u, y)
  BY <1>2, <1>3 DEF Wiping, State, Known
<1>5. Loading(y)
  <2>1. y.k # 6
    BY <1>2
  <2>2. y.load => load
    BY <1>2
  <2>3. y.load => /\ file # Nil /\ y.as \in Users(file.rows) /\ file.rows[y.as].who = y.by.who
                  /\ y.by.sub => file.rows[y.as].sub
    BY <1>2, <2>2
  <2> QED  BY <1>2, <2>1, <2>3 DEF Loading
<1>6. Alone(y)
  <2>1. \A i \in DOMAIN db : Rank(db[i].table) \in 1 .. 4
    BY Ranks DEF State, Books, Below, Row
  <2>2. {i \in DOMAIN db : db[i].home = y.home /\ Rank(db[i].table) < 1} = {}
    BY <2>1
  <2> QED  BY <1>2, <1>3, <2>2 DEF Alone
<1>7. Carrying(u, y)
  <2>1. y.load /\ ~y.by.sub => y.stash = IF y.caller \in DOMAIN cred THEN cred[y.caller] ELSE Nil
    BY <1>2 DEF Stash
  <2>2. y.stash # Nil => y.load /\ y.stash \in Id
    BY <1>2 DEF Stash, State, Books
  <2> QED  BY <1>2, <1>3, <2>1, <2>2 DEF Carrying
<1>8. \A s \in Open \ {t} : Apart(y, tx[s])
  BY <1>2 DEF Apart
<1> QED  BY <1>1, <1>2, <1>4, <1>5, <1>6, <1>7, <1>8, TxStep DEF Transaction

LEMMA BeginsInv ==
  ASSUME Inv, NEW t \in Tx, NEW caller \in Id,
         handleRestoreCommit(t, caller) \/ handleEraseHousehold(t, caller)
  PROVE  Inv'
<1>1. PICK u : State(u)
  BY DEF Inv
<1>2. CASE handleRestoreCommit(t, caller)
  <2>1. PICK as \in matchCaller(file.rows, caller) : Begin(t, caller, TRUE, as)
    BY <1>2 DEF handleRestoreCommit
  <2>2. /\ file # Nil /\ Live(caller, "users") /\ as \in Users(file.rows)
        /\ file.rows[as].who = db[caller].who
        /\ db[caller].sub => file.rows[as].sub
    BY <1>2, <2>1 DEF handleRestoreCommit, matchCaller
  <2> QED  BY <1>1, <2>1, <2>2, BeginInv
<1>3. CASE handleEraseHousehold(t, caller)
  BY <1>1, <1>3, BeginInv DEF handleEraseHousehold
<1> QED  BY <1>2, <1>3

----------------------------------------------------------------------------
(* Exports *)

\* An export does not touch the books, nor what transactions know of the file,
\* which none has begun to load as long as there is none.
LEMMA ExportStep ==
  ASSUME NEW u, State(u), UNCHANGED <<db, cred, next, tx>>,
         file' = file \/ file = Nil,
         Exporting(u)', Exported(u)'
  PROVE  Inv'
<1>1. Known(u)' /\ Books(u)' /\ DOMAIN tx' = Tx /\ Open' = Open
  BY DEF State, Known, Books, Users, Open
<1>2. ASSUME NEW t \in Open
      PROVE  Transaction(u, tx[t])'
  <2> DEFINE x == tx[t]
  <2>1. Transaction(u, x)
    BY DEF State
  <2>2. x' = x
    OBVIOUS
  <2>3. file = Nil => ~x.load /\ x.k # 6
    BY <2>1 DEF Transaction, Loading, Wiping
  <2> HIDE DEF x
  <2>4. (Wiping(u, x) /\ Alone(x) /\ Carrying(u, x))'
    BY <2>1, <2>2, <2>3 DEF Transaction, Wiping, Alone, Carrying, Users
  <2>5. Loading(x)'
    <3>1. CASE file' = file
      BY <2>1, <2>2, <3>1 DEF Transaction, Loading, Users
    <3>2. CASE file = Nil
      BY <2>1, <2>2, <2>3, <3>2 DEF Transaction, Loading
    <3> QED  BY <3>1, <3>2
  <2> QED  BY <2>1, <2>2, <2>4, <2>5 DEF Transaction, x
<1>3. \A s, t \in Open' : s # t => Apart(tx'[s], tx'[t])
  BY <1>1 DEF State, Apart
<1> QED  BY <1>1, <1>2, <1>3 DEF Inv, State

\* y is under way from here on.
LEMMA ExportingStep ==
  ASSUME NEW u, NEW y, db' = db, file' = Nil, export' = y,
         DOMAIN y = {"home", "full", "k", "rows", "quiet"}, y.k \in 1 .. 4,
         Copy(u, y.home, y.rows),
         \A i \in DOMAIN y.rows : 5 - Rank(y.rows[i].table) < y.k,
         y.k > 1 => y.home \in DOMAIN y.rows,
         y.quiet => y.rows = [i \in Part(y.k, y.home, y.full) |-> db[i]]
  PROVE  Exporting(u)'
<1>1. Copy(u, y.home, y.rows)'
  BY DEF Copy, Users
<1>2. Part(y.k, y.home, y.full)' = Part(y.k, y.home, y.full)
  BY DEF Part, Keeps
<1>3. (y.quiet => y.rows = [i \in Part(y.k, y.home, y.full) |-> db[i]])'
  BY <1>2
<1>4. \A e : e = y => /\ Copy(u, e.home, e.rows)'
                      /\ (e.quiet => e.rows = [i \in Part(e.k, e.home, e.full) |-> db[i]])'
  BY <1>1, <1>3
<1> QED  BY <1>4 DEF Exporting

LEMMA HandleExportInv ==
  ASSUME Inv, NEW home \in Id, NEW full \in BOOLEAN, handleExport(home, full)
  PROVE  Inv'
<1>1. PICK u : State(u)
  BY DEF Inv
<1> DEFINE e == [home |-> home, full |-> full, k |-> 1, rows |-> << >>, quiet |-> TRUE]
<1>2. /\ DOMAIN e = {"home", "full", "k", "rows", "quiet"}
      /\ e.home = home /\ e.full = full /\ e.k = 1 /\ e.rows = << >>
  OBVIOUS
<1>3. export' = e /\ file = Nil /\ home \in DOMAIN db /\ UNCHANGED <<db, cred, next, file, tx>>
  BY DEF handleExport
<1> HIDE DEF e
<1>4. \A i \in DOMAIN db : db[i].table \in Section /\ i \in DOMAIN u
  BY <1>1 DEF State, Books, Below, Row
<1>5. DOMAIN e.rows = {} /\ e.rows = [i \in {} |-> db[i]]
  BY <1>2
<1>6. Part(1, home, full) = {}
  <2>1. \A i \in DOMAIN db : ~(5 - Rank(db[i].table) < 1)
    BY <1>4, Ranks
  <2> QED  BY <2>1 DEF Part
<1>7. Copy(u, home, e.rows)
  BY <1>3, <1>4, <1>5 DEF Copy, Below, OneEach, Users
<1>8. e.rows = [i \in Part(e.k, e.home, e.full) |-> db[i]]
  BY <1>2, <1>5, <1>6
<1>9. Exporting(u)'
  <2>1. PICK y : y = e
    OBVIOUS
  <2> QED  BY <1>2, <1>3, <1>5, <1>7, <1>8, <2>1, ExportingStep
<1>10. Exported(u)'
  BY <1>3 DEF Exported, QuietFileRestores
<1> QED  BY <1>1, <1>3, <1>9, <1>10, ExportStep

\* What a compacted export of the books as they are leaves out of the rows that a
\* row of it references.
LEMMA PartsClose ==
  ASSUME NEW u, State(u), NEW home, NEW full, NEW i \in Part(5, home, full),
         NEW j \in Refs(db[i]), j \notin Part(5, home, full)
  PROVE  ~full /\ (db[i].deleted \/ db[i].table = "positions")
<1>1. \A l \in DOMAIN db : /\ db[l] \in Row /\ l \in DOMAIN u /\ Same(db[l], u[l])
                           /\ db[l].table \in Section
                           /\ Refs(db[l]) = Refs(u[l]) /\ Refs(db[l]) \subseteq DOMAIN db
                           /\ db[l].deleted => db[l].table \in {"positions", "history"}
  BY DEF State, Books, Below, Same, Refs, Row, Closed
<1>2. \A l \in DOMAIN db : l \in Part(5, home, full) <=> db[l].home = home /\ Keeps(l, full)
  <2>1. \A l \in DOMAIN db : 5 - Rank(db[l].table) < 5
    BY <1>1, Ranks
  <2> QED  BY <2>1 DEF Part
<1>3. i \in DOMAIN db /\ db[i].home = home /\ Keeps(i, full)
  BY <1>2 DEF Part
<1>4. j \in DOMAIN db /\ Fits(db[i], j, db[j])
  BY <1>1, <1>3 DEF State, Known, Fits, Same
<1>5. ~Keeps(j, full)
  BY <1>2, <1>3, <1>4 DEF Fits
<1>6. ~full
  BY <1>5 DEF Keeps
<1>7. ASSUME ~db[i].deleted, db[i].table # "positions"
      PROVE  Keeps(j, full)
  <2>1. CASE db[i].table = "history"
    <3>1. \A p \in db[i].up : ~db[p].deleted
      BY <1>3, <1>6, <2>1 DEF Keeps
    <3>2. CASE j \in db[i].up
      BY <1>4, <2>1, <3>1, <3>2 DEF Keeps, Fits
    <3>3. CASE j \in db[i].also /\ db[j].table = "users"
      BY <1>1, <1>4, <3>3 DEF Keeps
    <3>4. CASE j \in db[i].also /\ db[j].table = "history" /\ db[j].up = db[i].up
      BY <1>3, <1>7, <2>1, <3>1, <3>4 DEF Keeps
    <3> QED  BY <1>4, <3>2, <3>3, <3>4 DEF Fits, Refs
  <2>2. CASE db[i].table \in {"users", "households"}
    <3>1. Rank(db[j].table) >= 3
      BY <1>4, <2>2 DEF Fits, Rank
    <3>2. db[j].table \notin {"history", "positions"}
      BY <3>1 DEF Rank
    <3> QED  BY <1>1, <1>4, <3>2 DEF Keeps
  <2> QED  BY <1>1, <1>3, <1>7, <2>1, <2>2 DEF Section
<1> QED  BY <1>5, <1>6, <1>7

LEMMA GatherInv ==
  ASSUME Inv, gather
  PROVE  Inv'
<1>1. PICK u : State(u)
  BY DEF Inv
<1> DEFINE e == export
           k == e.k
           part == {i \in RowsIn(db, Sections[k], e.home) : Keeps(i, e.full)}
           rows == Over(e.rows, [i \in part |-> db[i]])
           x == [e EXCEPT !.k = k + 1, !.rows = rows]
           f == [home |-> e.home, full |-> e.full, rows |-> rows, quiet |-> e.quiet]
<1>2. /\ e # Nil /\ UNCHANGED <<db, cred, next, tx>>
      /\ \/ k = 1 /\ part = {} /\ export' = Nil /\ file' = file
         \/ (k # 1 \/ part # {}) /\ k < Len(Sections) /\ export' = x /\ file' = file
         \/ (k # 1 \/ part # {}) /\ ~(k < Len(Sections)) /\ export' = Nil /\ file' = f
  BY DEF gather
<1>3. /\ file = Nil
      /\ DOMAIN e = {"home", "full", "k", "rows", "quiet"}
      /\ k \in 1 .. 4
      /\ Copy(u, e.home, e.rows)
      /\ \A i \in DOMAIN e.rows : 5 - Rank(e.rows[i].table) < k
      /\ k > 1 => e.home \in DOMAIN e.rows
      /\ e.quiet => e.rows = [i \in Part(k, e.home, e.full) |-> db[i]]
  BY <1>1, <1>2 DEF State, Exporting
<1>4. Len(Sections) = 4
  BY DEF Sections
<1>5. /\ DOMAIN x = {"home", "full", "k", "rows", "quiet"}
      /\ x.home = e.home /\ x.full = e.full /\ x.k = k + 1 /\ x.rows = rows /\ x.quiet = e.quiet
  BY <1>3
<1>6. f.home = e.home /\ f.full = e.full /\ f.rows = rows /\ f.quiet = e.quiet
  OBVIOUS
<1>7. /\ DOMAIN rows = DOMAIN e.rows \cup part
      /\ \A i \in part : rows[i] = db[i]
      /\ \A i \in DOMAIN e.rows \ part : rows[i] = e.rows[i]
  BY DEF Over
<1>8. \A i \in DOMAIN db : db[i].table \in Section /\ i \in DOMAIN u
  BY <1>1 DEF State, Books, Below, Row
<1>9. \A i : i \in part <=> /\ i \in DOMAIN db /\ db[i].home = e.home
                            /\ 5 - Rank(db[i].table) = k /\ Keeps(i, e.full)
  BY <1>3, <1>8, SectionRanks DEF RowsIn
<1> HIDE DEF e, k, part, rows, x, f
<1>10. part \cap DOMAIN e.rows = {}
  <2>1. ASSUME NEW i \in part, i \in DOMAIN e.rows
        PROVE  FALSE
    <3>1. e.rows[i].table = db[i].table
      BY <1>1, <1>3, <1>9, <2>1 DEF Copy, Below, State, Books, Same
    <3> QED  BY <1>3, <1>9, <2>1, <3>1
  <2> QED  BY <2>1
<1>11. Copy(u, e.home, rows)
  <2>1. Below(rows, u) /\ \A i \in DOMAIN rows : rows[i].home = e.home
    BY <1>1, <1>3, <1>7, <1>9 DEF Copy, Below, State, Books
  <2>2. \A i \in Users(rows) : \/ k = 2 /\ i \in part
                               \/ k # 2 /\ i \in Users(e.rows)
    <3>1. SUFFICES ASSUME NEW i \in DOMAIN rows, rows[i].table = "users"
                   PROVE  \/ k = 2 /\ i \in part
                          \/ k # 2 /\ i \in DOMAIN e.rows /\ e.rows[i].table = "users"
      BY DEF Users
    <3>2. Rank("users") = 3
      BY DEF Rank
    <3>3. CASE i \in part
      BY <1>7, <1>9, <3>1, <3>2, <3>3
    <3>4. CASE i \in DOMAIN e.rows \ part
      BY <1>3, <1>7, <3>1, <3>2, <3>4
    <3> QED  BY <1>7, <3>1, <3>3, <3>4
  <2>3. OneEach(rows)
    <3>1. SUFFICES ASSUME NEW v \in Users(rows), NEW w \in Users(rows), rows[v].who = rows[w].who
                   PROVE  v = w
      BY DEF OneEach
    <3>2. CASE k = 2
      <4>1. v \in part /\ w \in part /\ rows[v] = db[v] /\ rows[w] = db[w]
        BY <1>7, <2>2, <3>2
      <4> QED  BY <1>1, <1>9, <3>1, <4>1 DEF State, Books, OneEach, Users
    <3>3. CASE k # 2
      <4>1. /\ v \in Users(e.rows) /\ w \in Users(e.rows)
            /\ rows[v] = e.rows[v] /\ rows[w] = e.rows[w]
        BY <1>7, <1>10, <2>2, <3>3 DEF Users
      <4> QED  BY <1>3, <3>1, <4>1 DEF Copy, OneEach
    <3> QED  BY <3>2, <3>3
  <2>4. e.home \in DOMAIN db => Users(rows) \subseteq DOMAIN db
    BY <1>3, <1>9, <2>2 DEF Copy
  <2> QED  BY <1>3, <2>1, <2>3, <2>4 DEF Copy
<1>12. k # 1 \/ part # {} => e.home \in DOMAIN rows
  <2>1. CASE k # 1
    BY <1>3, <1>7, <2>1
  <2>2. ASSUME k = 1, part # {}
        PROVE  e.home \in DOMAIN rows
    <3>1. PICK i \in DOMAIN db : i \in part
      BY <1>9, <2>2
    <3>2. db[i].table = "households"
      BY <1>8, <1>9, <2>2, <3>1 DEF Rank, Section
    <3>3. i = db[i].home
      BY <1>1, <3>2 DEF State, Books, Below, Same, Known
    <3> QED  BY <1>7, <1>9, <3>1, <3>3
  <2> QED  BY <2>1, <2>2
<1>13. \A i \in DOMAIN rows : 5 - Rank(rows[i].table) < k + 1
  <2>1. \A i \in DOMAIN rows : rows[i].table \in Section
    BY <1>11 DEF Copy, Below, Row
  <2>2. \A i \in part : 5 - Rank(rows[i].table) = k
    BY <1>7, <1>9
  <2>3. \A i \in DOMAIN rows \ part : 5 - Rank(rows[i].table) < k
    BY <1>3, <1>7
  <2> QED  BY <1>3, <2>1, <2>2, <2>3, Ranks
<1>14. e.quiet => rows = [i \in Part(k + 1, e.home, e.full) |-> db[i]]
  <2>1. SUFFICES ASSUME e.rows = [i \in Part(k, e.home, e.full) |-> db[i]]
                 PROVE  rows = [i \in Part(k + 1, e.home, e.full) |-> db[i]]
    BY <1>3
  <2>2. \A i \in DOMAIN db : Rank(db[i].table) \in 1 .. 4
    BY <1>8, Ranks
  <2>3. \A i \in DOMAIN db : 5 - Rank(db[i].table) < k + 1 <=>
           (5 - Rank(db[i].table) < k \/ 5 - Rank(db[i].table) = k)
    BY <1>3, <2>2
  <2>4. Part(k + 1, e.home, e.full) = Part(k, e.home, e.full) \cup part
    BY <1>9, <2>3 DEF Part
  <2> QED  BY <2>1, <2>4 DEF rows, Over
<1>16. CASE export' = Nil /\ file' = file
  <2>1. Exporting(u)' /\ Exported(u)'
    BY <1>3, <1>16 DEF Exporting, Exported, QuietFileRestores
  <2> QED  BY <1>1, <1>2, <1>16, <2>1, ExportStep
<1>17. CASE (k # 1 \/ part # {}) /\ k < 4 /\ export' = x /\ file' = file
  <2>1. PICK y : y = x
    OBVIOUS
  <2>2. Exporting(u)'
    <3>1. y.k \in 1 .. 4 /\ (y.k > 1 => y.home \in DOMAIN y.rows)
      BY <1>3, <1>5, <1>12, <1>17, <2>1
    <3>2. Copy(u, y.home, y.rows) /\ DOMAIN y = {"home", "full", "k", "rows", "quiet"}
      BY <1>5, <1>11, <2>1
    <3>3. \A i \in DOMAIN y.rows : 5 - Rank(y.rows[i].table) < y.k
      BY <1>5, <1>13, <2>1
    <3>4. y.quiet => y.rows = [i \in Part(y.k, y.home, y.full) |-> db[i]]
      BY <1>5, <1>14, <2>1
    <3>5. db' = db /\ file' = Nil /\ export' = y
      BY <1>2, <1>3, <1>17, <2>1
    <3> QED  BY <3>1, <3>2, <3>3, <3>4, <3>5, ExportingStep
  <2>3. Exported(u)'
    BY <1>3, <1>17 DEF Exported, QuietFileRestores
  <2> QED  BY <1>1, <1>2, <1>17, <2>2, <2>3, ExportStep
<1>18. CASE (k # 1 \/ part # {}) /\ ~(k < 4) /\ export' = Nil /\ file' = f
  <2>1. Exporting(u)'
    BY <1>18 DEF Exporting
  <2>2. QuietFileRestores'
    <3>1. SUFFICES ASSUME f.quiet, NEW i \in DOMAIN rows, ~(Refs(rows[i]) \subseteq DOMAIN rows)
                   PROVE  ~f.full /\ (rows[i].deleted \/ rows[i].table = "positions")
      BY <1>6, <1>18 DEF QuietFileRestores
    <3>2. rows = [l \in Part(5, e.home, e.full) |-> db[l]]
      BY <1>3, <1>6, <1>14, <1>18, <3>1
    <3>3. PICK j \in Refs(db[i]) : j \notin Part(5, e.home, e.full)
      BY <3>1, <3>2
    <3> QED  BY <1>1, <1>6, <3>1, <3>2, <3>3, PartsClose
  <2>3. Exported(u)'
    <3>1. PICK y : y = f
      OBVIOUS
    <3>2. Copy(u, y.home, y.rows) /\ y.home \in DOMAIN y.rows
      BY <1>6, <1>11, <1>12, <1>18, <3>1
    <3>3. Copy(u, y.home, y.rows)'
      BY <1>2, <3>2 DEF Copy, Users
    <3>4. \A z : z = y => Copy(u, z.home, z.rows)'
      BY <3>3
    <3> QED  BY <1>18, <2>2, <3>1, <3>2, <3>4 DEF Exported
  <2> QED  BY <1>1, <1>2, <1>3, <1>18, <2>1, <2>3, ExportStep
<1> QED  BY <1>2, <1>4, <1>16, <1>17, <1>18

----------------------------------------------------------------------------
(* The members' requests *)

\* A copy stays one when the books grow.
LEMMA CopyGrows ==
  ASSUME NEW u, NEW w, NEW home, NEW f, Copy(u, home, f),
         DOMAIN u \subseteq DOMAIN w, \A i \in DOMAIN u : w[i] = u[i],
         DOMAIN db \subseteq DOMAIN db', (DOMAIN db' \ DOMAIN db) \cap DOMAIN u = {}
  PROVE  Copy(w, home, f)'
<1>1. Below(f, w) /\ OneEach(f)
  BY DEF Copy, Below
<1> QED  BY <1>1 DEF Copy

\* A request makes rows that reference nothing a transaction has deleted and
\* repeat no person one has loaded; it changes the password of c, or of none.
Request(u, w, c) ==
  /\ Known(w)' /\ Books(w)'
  /\ DOMAIN u \subseteq DOMAIN w /\ \A i \in DOMAIN u : w[i] = u[i]
  /\ DOMAIN db \subseteq DOMAIN db' /\ \A i \in DOMAIN db : Same(db'[i], db[i])
  /\ \A i \in DOMAIN db' \ DOMAIN db :
       /\ i \notin DOMAIN u /\ Refs(db'[i]) \cap Gone = {}
       /\ db'[i].table = "users" =>
            \A t \in Open : \A v \in Users(tx[t].loaded) : tx[t].loaded[v].who # db'[i].who
  /\ \A v \in DOMAIN u \ {c} : /\ v \in DOMAIN cred' <=> v \in DOMAIN cred
                               /\ v \in DOMAIN cred => cred'[v] = cred[v]

Met(x, c) == [x EXCEPT !.raced = TRUE, !.reset = @ \/ x.caller = c]

\* What a transaction knows of the books it meets a request in.
LEMMA TxMet ==
  ASSUME NEW u, NEW w, NEW c, State(u), Request(u, w, c), file' = file,
         NEW t \in Open, NEW y, y = Met(tx[t], c)
  PROVE  Transaction(w, y)' /\ y.k = tx[t].k /\ y.gone = tx[t].gone
<1>1. PICK x : x = tx[t]
  OBVIOUS
<1>2. Transaction(u, x)
  BY <1>1 DEF State
<1>3. /\ DOMAIN y = TxFields /\ y.caller = x.caller /\ y.by = x.by /\ y.home = x.home
      /\ y.load = x.load /\ y.as = x.as /\ y.stash = x.stash /\ y.k = x.k /\ y.gone = x.gone
      /\ y.waits = x.waits /\ y.loaded = x.loaded /\ y.raced
      /\ y.reset = (x.reset \/ x.caller = c)
  BY <1>1, <1>2 DEF Transaction, TxFields, Met
<1>4. x.gone \subseteq Gone
  BY <1>1 DEF Gone
<1>5. \A i \in DOMAIN db : /\ db'[i].home = db[i].home /\ Refs(db'[i]) = Refs(db[i])
                           /\ db'[i].who = db[i].who /\ db'[i].table = db[i].table
  BY DEF Request, Same, Refs
<1>6. Wiping(w, y)'
  <2>1. y.k \in 1 .. 6 /\ (y.k = 6 => y.load)
    BY <1>2, <1>3 DEF Transaction, Wiping
  <2>2. y.home \in DOMAIN w /\ w[y.home].table = "households" /\ y.home \in DOMAIN u
    BY <1>2, <1>3 DEF Transaction, Wiping, Request
  <2>3. \A i \in y.gone : i \in DOMAIN db' /\ db'[i].home = y.home
    BY <1>2, <1>3, <1>5 DEF Transaction, Wiping, Request
  <2>4. \A i \in DOMAIN db' \ y.gone : Refs(db'[i]) \cap y.gone = {}
    BY <1>2, <1>3, <1>4, <1>5 DEF Transaction, Wiping, Request
  <2>5. \A i \in y.waits : i \in DOMAIN w /\ w[i].home = y.home /\ Rank(w[i].table) = y.k
    BY <1>2, <1>3 DEF Transaction, Wiping, Request
  <2>6. y.k >= 5 /\ y.home \in DOMAIN db' \ y.gone =>
          y.gone = {} /\ y.raced /\ file' # Nil /\ file'.home = y.home
    BY <1>2, <1>3, <2>2 DEF Transaction, Wiping, Request
  <2> QED  BY <2>1, <2>2, <2>3, <2>4, <2>5, <2>6 DEF Wiping
<1>7. Loading(y)'
  <2>1. y.loaded = IF y.k = 6 THEN file.rows ELSE << >>
    BY <1>2, <1>3 DEF Transaction, Loading
  <2>2. y.load => /\ file # Nil /\ y.as \in Users(file.rows) /\ file.rows[y.as].who = y.by.who
                  /\ y.by.sub => file.rows[y.as].sub
    BY <1>2, <1>3 DEF Transaction, Loading
  <2>3. ASSUME y.k = 6
        PROVE  /\ DOMAIN file.rows \cap DOMAIN db' \subseteq y.gone
               /\ Closed(file.rows)
               /\ \A v \in Users(db') \ y.gone, z \in Users(file.rows) : db'[v].who # file.rows[z].who
    <3>1. x.k = 6 /\ x.load /\ tx[t].loaded = file.rows
      BY <1>1, <1>2, <1>3, <2>3 DEF Transaction, Loading, Wiping
    <3>2. \A i \in DOMAIN file.rows : i \in DOMAIN u
      BY <1>2, <3>1 DEF State, Exported, Copy, Below, Transaction, Loading
    <3>3. DOMAIN file.rows \cap DOMAIN db' \subseteq y.gone /\ Closed(file.rows)
      BY <1>2, <1>3, <3>1, <3>2 DEF Transaction, Loading, Request
    <3>4. ASSUME NEW v \in Users(db') \ y.gone, NEW z \in Users(file.rows)
          PROVE  db'[v].who # file.rows[z].who
      <4>1. v \in DOMAIN db' /\ db'[v].table = "users"
        BY DEF Users
      <4>2. CASE v \in DOMAIN db
        BY <1>2, <1>3, <1>5, <3>1, <4>1, <4>2 DEF Transaction, Loading, Users
      <4>3. CASE v \notin DOMAIN db
        BY <3>1, <4>1, <4>3 DEF Request
      <4> QED  BY <4>2, <4>3
    <3> QED  BY <3>3, <3>4
  <2> QED  BY <2>1, <2>2, <2>3 DEF Loading, Users
<1>8. Alone(y)'
  BY <1>3 DEF Alone
<1>9. Carrying(w, y)'
  <2>1. x.caller \in DOMAIN u
    BY <1>2 DEF Transaction, Carrying
  <2>2. ASSUME y.load, ~y.reset, ~y.by.sub
        PROVE  y.stash = IF y.caller \in DOMAIN cred' THEN cred'[y.caller] ELSE Nil
    <3>1. x.load /\ ~x.reset /\ ~x.by.sub /\ x.caller # c
      BY <1>3, <2>2
    <3>2. x.stash = IF x.caller \in DOMAIN cred THEN cred[x.caller] ELSE Nil
      BY <1>2, <3>1 DEF Transaction, Carrying
    <3> QED  BY <1>3, <2>1, <3>1, <3>2 DEF Request
  <2>3. y.stash # Nil => y.load /\ y.stash \in Id
    BY <1>2, <1>3 DEF Transaction, Carrying
  <2> QED  BY <1>3, <2>1, <2>2, <2>3 DEF Carrying, Request
<1> QED  BY <1>1, <1>3, <1>6, <1>7, <1>8, <1>9 DEF Transaction

LEMMA RequestInv ==
  ASSUME NEW u, NEW w, NEW c, State(u), Request(u, w, c), Meets(c), file' = file
  PROVE  Inv'
<1>1. /\ export' = IF export = Nil THEN Nil ELSE [export EXCEPT !.quiet = FALSE]
      /\ tx' = [t \in Tx |-> IF tx[t] = Nil THEN Nil ELSE Met(tx[t], c)]
  BY DEF Meets, Met
<1>2. DOMAIN tx' = Tx /\ \A t \in Open' : t \in Open
  BY <1>1 DEF Open
<1>3. ASSUME NEW t \in Open
      PROVE  Transaction(w, tx[t])' /\ tx'[t].k = tx[t].k /\ tx'[t].gone = tx[t].gone
  <2>1. PICK y : y = Met(tx[t], c)
    OBVIOUS
  <2>2. tx'[t] = y
    BY <1>1, <2>1 DEF Open
  <2>3. Transaction(w, y)' /\ y.k = tx[t].k /\ y.gone = tx[t].gone
    BY <2>1, TxMet
  <2>4. \A z : z = y => Transaction(w, z)'
    BY <2>3
  <2> QED  BY <2>2, <2>3, <2>4
<1>4. \A s, t \in Open' : s # t => Apart(tx[s], tx[t])'
  BY <1>2, <1>3 DEF State, Apart
<1>5. \A home, f : Copy(u, home, f) => Copy(w, home, f)'
  BY CopyGrows DEF Request
<1>6. Exporting(w)'
  <2>1. CASE export = Nil
    BY <1>1, <2>1 DEF Exporting
  <2>2. CASE export # Nil
    <3>1. PICK y : y = [export EXCEPT !.quiet = FALSE]
      OBVIOUS
    <3>2. /\ file = Nil
          /\ DOMAIN export = {"home", "full", "k", "rows", "quiet"}
          /\ export.k \in 1 .. 4
          /\ Copy(u, export.home, export.rows)
          /\ \A i \in DOMAIN export.rows : 5 - Rank(export.rows[i].table) < export.k
          /\ export.k > 1 => export.home \in DOMAIN export.rows
      BY <2>2 DEF State, Exporting
    <3>3. /\ DOMAIN y = {"home", "full", "k", "rows", "quiet"} /\ y.home = export.home
          /\ y.full = export.full /\ y.k = export.k /\ y.rows = export.rows /\ ~y.quiet
      BY <3>1, <3>2
    <3>4. /\ y.k \in 1 .. 4 /\ Copy(u, y.home, y.rows) /\ (y.k > 1 => y.home \in DOMAIN y.rows)
          /\ \A i \in DOMAIN y.rows : 5 - Rank(y.rows[i].table) < y.k
      BY <3>2, <3>3
    <3>5. \A z : z = y => Copy(w, z.home, z.rows)'
      BY <1>5, <3>4
    <3>6. export' = y /\ file' = Nil
      BY <1>1, <2>2, <3>1, <3>2
    <3> QED  BY <3>3, <3>4, <3>5, <3>6 DEF Exporting
  <2> QED  BY <2>1, <2>2
<1>7. Exported(w)'
  <2>1. ASSUME file # Nil
        PROVE  Copy(w, file.home, file.rows)' /\ file.home \in DOMAIN file.rows
    <3>1. PICK y : y = file
      OBVIOUS
    <3>2. Copy(w, y.home, y.rows)'
      BY <1>5, <2>1, <3>1 DEF State, Exported
    <3>3. \A z : z = y => Copy(w, z.home, z.rows)'
      BY <3>2
    <3>4. file' = y
      BY <3>1
    <3> QED  BY <2>1, <3>3, <3>4 DEF State, Exported
  <2>2. QuietFileRestores'
    BY DEF State, Exported, QuietFileRestores
  <2> QED  BY <2>1, <2>2 DEF Exported
<1> QED  BY <1>2, <1>3, <1>4, <1>6, <1>7 DEF Inv, State, Request

\* The books grow by the rows with the next ids, and rows of them get tombstones.
Grows ==
  /\ next' \in Nat /\ next <= next' /\ next' <= MaxId + 1
  /\ db' = [i \in DOMAIN db' |-> db'[i]]
  /\ DOMAIN db' = DOMAIN db \cup next .. next' - 1
  /\ \A i \in DOMAIN db : /\ db'[i] \in Row /\ Same(db'[i], db[i])
                          /\ db'[i].deleted => db'[i].table \in {"positions", "history"}

\* The row i that is made is as it should be.
Made(i) ==
  /\ db'[i] \in Row /\ ~db'[i].deleted
  /\ db'[i].home \in DOMAIN db' /\ db'[db'[i].home].table = "households"
  /\ db'[i].table = "households" => db'[i].home = i /\ Refs(db'[i]) = {}
  /\ db'[i].table \in {"users", "positions"} => db'[i].home \in db'[i].up
  /\ db'[i].table = "history" => db'[i].up # {}
  /\ \A j \in Refs(db'[i]) : j \in DOMAIN db' \ Gone /\ Fits(db'[i], j, db'[j])
  /\ db'[i].table = "users" =>
       /\ \A v \in Users(db') \ {i} : db'[v].who # db'[i].who
       /\ \A t \in Open : \A v \in Users(tx[t].loaded) : tx[t].loaded[v].who # db'[i].who

LEMMA GrowsInv ==
  ASSUME NEW u, State(u), NEW c, Meets(c), file' = file, Grows,
         \A i \in next .. next' - 1 : Made(i),
         DOMAIN cred' \subseteq Users(db'), \A v \in DOMAIN cred' : cred'[v] \in Id,
         \A v \in DOMAIN u \ {c} : /\ v \in DOMAIN cred' <=> v \in DOMAIN cred
                                   /\ v \in DOMAIN cred => cred'[v] = cred[v]
  PROVE  Inv'
<1> DEFINE new == next .. next' - 1
<1>1. PICK w : w = [i \in DOMAIN u \cup new |-> IF i \in DOMAIN u THEN u[i] ELSE db'[i]]
  OBVIOUS
<1>2. next \in Nat \ {0} /\ \A i \in DOMAIN u : i \in Id /\ i < next
  BY BackupAssumption DEF State, Known
<1>3. \A i \in new : i \in Id /\ i < next' /\ i >= next /\ i \notin DOMAIN u /\ i \in DOMAIN db'
  BY <1>2, BackupAssumption DEF Grows, Id
<1>4. \A i \in DOMAIN db : i \in DOMAIN u /\ Same(db[i], u[i]) /\ Same(db'[i], db[i])
  BY DEF State, Books, Below, Grows
<1>5. /\ DOMAIN w = DOMAIN u \cup new
      /\ \A i \in DOMAIN u : w[i] = u[i]
      /\ \A i \in new : w[i] = db'[i]
  BY <1>1, <1>3
<1> HIDE DEF new
<1>6. DOMAIN db' = DOMAIN db \cup new /\ \A i \in new : Made(i)
  BY DEF Grows, new
<1>7. \A j \in DOMAIN db' : j \in DOMAIN w /\ Same(db'[j], w[j])
  BY <1>4, <1>5, <1>6 DEF Same
<1>8. Known(w)'
  <2>1. next' \in 1 .. MaxId + 1 /\ DOMAIN w \subseteq Id
    BY <1>2, <1>3, <1>5, BackupAssumption DEF Grows
  <2>2. ASSUME NEW i \in DOMAIN u
        PROVE  /\ w[i] \in Row /\ i < next'
               /\ w[i].home \in DOMAIN w /\ w[w[i].home].table = "households"
               /\ w[i].table = "households" => w[i].home = i /\ Refs(w[i]) = {}
               /\ w[i].table \in {"users", "positions"} => w[i].home \in w[i].up
               /\ w[i].table = "history" => w[i].up # {}
               /\ \A j \in Refs(w[i]) : j \in DOMAIN w /\ Fits(w[i], j, w[j])
    <3>1. i < next'
      BY <1>2 DEF Grows, Id
    <3> QED  BY <1>5, <3>1 DEF State, Known
  <2>3. ASSUME NEW i \in new
        PROVE  /\ w[i] \in Row /\ i < next'
               /\ w[i].home \in DOMAIN w /\ w[w[i].home].table = "households"
               /\ w[i].table = "households" => w[i].home = i /\ Refs(w[i]) = {}
               /\ w[i].table \in {"users", "positions"} => w[i].home \in w[i].up
               /\ w[i].table = "history" => w[i].up # {}
               /\ \A j \in Refs(w[i]) : j \in DOMAIN w /\ Fits(w[i], j, w[j])
    <3>1. Made(i) /\ w[i] = db'[i] /\ i < next'
      BY <1>3, <1>5, <1>6
    <3>2. \A j \in Refs(db'[i]) : j \in DOMAIN w /\ Fits(db'[i], j, w[j])
      BY <1>7, <3>1 DEF Made, Fits, Same
    <3> QED  BY <1>7, <3>1, <3>2 DEF Made, Same
  <2> QED  BY <1>5, <2>1, <2>2, <2>3 DEF Known
<1>9. Books(w)'
  <2>1. Below(db, w)'
    BY <1>6, <1>7 DEF Below, Grows, Made
  <2>2. Closed(db')
    <3>1. \A i \in DOMAIN db : Refs(db'[i]) = Refs(db[i]) /\ Refs(db[i]) \subseteq DOMAIN db
      BY <1>4 DEF Same, Refs, State, Books, Closed
    <3> QED  BY <1>6, <3>1 DEF Closed, Made
  <2>3. OneEach(db')
    <3>1. SUFFICES ASSUME NEW v \in Users(db'), NEW z \in Users(db'), db'[v].who = db'[z].who
                   PROVE  v = z
      BY DEF OneEach
    <3>2. CASE v \in DOMAIN db /\ z \in DOMAIN db
      BY <1>4, <3>1, <3>2 DEF Users, Same, State, Books, OneEach
    <3>3. v \in DOMAIN db' /\ z \in DOMAIN db' /\ db'[v].table = "users" /\ db'[z].table = "users"
      BY DEF Users
    <3>4. CASE v \in new
      BY <1>6, <3>1, <3>3, <3>4 DEF Made
    <3>5. CASE z \in new
      BY <1>6, <3>1, <3>3, <3>5 DEF Made
    <3> QED  BY <1>6, <3>2, <3>3, <3>4, <3>5
  <2> QED  BY <2>1, <2>2, <2>3 DEF Books, Grows, Users
<1>10. \A i \in DOMAIN db' \ DOMAIN db : i \in new /\ i \notin DOMAIN u /\ Made(i)
  BY <1>3, <1>6
<1>11. Request(u, w, c)
  <2>1. \A i \in DOMAIN db' \ DOMAIN db : Refs(db'[i]) \cap Gone = {}
    BY <1>10 DEF Made
  <2>2. \A i \in DOMAIN db' \ DOMAIN db : db'[i].table = "users" =>
          \A t \in Open : \A v \in Users(tx[t].loaded) : tx[t].loaded[v].who # db'[i].who
    BY <1>10 DEF Made
  <2> QED  BY <1>4, <1>5, <1>6, <1>8, <1>9, <1>10, <2>1, <2>2 DEF Request
<1> QED  BY <1>11, RequestInv

\* The books themselves.
LEMMA BooksRows ==
  ASSUME NEW u, State(u)
  PROVE  /\ next \in Nat \ {0} /\ next <= MaxId + 1 /\ Gone \subseteq DOMAIN db
         /\ db = [i \in DOMAIN db |-> db[i]]
         /\ \A i \in DOMAIN db :
              /\ db[i] \in Row /\ i \in Id /\ i < next
              /\ db[i].deleted => db[i].table \in {"positions", "history"}
              /\ db[i].home \in DOMAIN db /\ db[db[i].home].table = "households"
              /\ db[db[i].home].home = db[i].home
              /\ db[i].table = "history" => db[i].up # {}
              /\ \A j \in Refs(db[i]) : j \in DOMAIN db /\ Fits(db[i], j, db[j])
<1>1. \A i \in DOMAIN db : i \in DOMAIN u /\ Same(db[i], u[i]) /\ Refs(db[i]) = Refs(u[i])
  BY DEF State, Books, Below, Same, Refs
<1>2. \A i \in DOMAIN db : db[i].home \in DOMAIN db /\ db[i].home = u[i].home
  BY Homed DEF State, Books
<1>3. \A i \in DOMAIN db : u[u[i].home].table = "households" /\ u[u[i].home].home = u[i].home
  BY <1>1 DEF State, Known
<1>4. \A i \in DOMAIN db : \A j \in Refs(db[i]) : j \in DOMAIN db /\ Fits(db[i], j, db[j])
  BY <1>1 DEF State, Books, Closed, Known, Fits, Same
<1>5. Gone \subseteq DOMAIN db
  BY DEF Gone, State, Transaction, Wiping
<1>6. /\ next \in Nat \ {0} /\ next <= MaxId + 1
      /\ \A i \in DOMAIN db : i \in Id /\ i < next /\ (u[i].table = "history" => u[i].up # {})
  BY <1>1, BackupAssumption DEF State, Known
<1>7. \A i \in DOMAIN db : db[i] \in Row /\ (db[i].deleted => db[i].table \in {"positions", "history"})
  BY DEF State, Books, Below
<1>8. db = [i \in DOMAIN db |-> db[i]]
  BY DEF State, Books
<1>9. \A i \in DOMAIN db : db[i].table = "history" => db[i].up # {}
  BY <1>1, <1>6 DEF Same
<1>10. \A i \in DOMAIN db : db[db[i].home].table = "households" /\ db[db[i].home].home = db[i].home
  BY <1>1, <1>2, <1>3 DEF Same
<1> QED  BY <1>2, <1>4, <1>5, <1>6, <1>7, <1>8, <1>9, <1>10

LEMMA MakesGrows ==
  ASSUME NEW u, State(u), NEW rows, Len(rows) \in Nat, Makes(rows)
  PROVE  /\ Grows /\ Meets(Nil) /\ file' = file
         /\ next' = next + Len(rows) /\ next' - 1 \in Nat /\ next' - 1 <= MaxId
         /\ DOMAIN db' = DOMAIN db \cup next .. next + Len(rows) - 1
         /\ \A i \in DOMAIN db : db'[i] = db[i]
         /\ \A i \in next .. next + Len(rows) - 1 : db'[i] = rows[i - next + 1]
<1> DEFINE n == Len(rows)
           g == [i \in next .. next + n - 1 |-> rows[i - next + 1]]
<1>1. /\ next' = next + n /\ next + n - 1 <= MaxId /\ db' = Over(db, g) /\ Meets(Nil) /\ file' = file
  BY DEF Makes
<1>2. DOMAIN g = next .. next + n - 1 /\ \A i \in DOMAIN g : g[i] = rows[i - next + 1]
  OBVIOUS
<1>3. next \in Nat \ {0} /\ n \in Nat /\ MaxId \in Nat
  BY BooksRows, BackupAssumption
<1> HIDE DEF g, n
<1>4. \A i \in DOMAIN db : i < next /\ i \in Id /\ db[i] \in Row
                           /\ (db[i].deleted => db[i].table \in {"positions", "history"})
  BY BooksRows
<1>5. \A i \in DOMAIN db : i \notin DOMAIN g
  BY <1>2, <1>3, <1>4 DEF Id
<1>6. /\ DOMAIN db' = DOMAIN db \cup DOMAIN g
      /\ \A i \in DOMAIN db : db'[i] = db[i]
      /\ \A i \in DOMAIN g : db'[i] = g[i]
  BY <1>1, <1>5 DEF Over
<1>7. next' - 1 = next + n - 1 /\ next' \in Nat /\ next <= next' /\ next' <= MaxId + 1
  BY <1>1, <1>3
<1>8. db' = [i \in DOMAIN db' |-> db'[i]]
  BY <1>1 DEF Over
<1>9. Grows
  BY <1>2, <1>4, <1>6, <1>7, <1>8 DEF Grows, Same
<1> QED  BY <1>1, <1>2, <1>3, <1>6, <1>7, <1>9 DEF n

LEMMA CreateFounderInv ==
  ASSUME Inv, NEW p \in Person, NEW sub \in BOOLEAN, CreateFounder(p, sub)
  PROVE  Inv'
<1>1. PICK u : State(u)
  BY DEF Inv
<1>2. PICK h : h = NewRow("households", next, {}, {})
  OBVIOUS
<1>3. PICK m : m = NewUser(next, {}, p, sub)
  OBVIOUS
<1>4. PICK g : g = Over(cred, [v \in {next + 1} |-> next + 1])
  OBVIOUS
<1>5. /\ Makes(<<h, m>>) /\ cred' = IF sub THEN cred ELSE g
      /\ \A v \in Users(db) : db[v].who # p
      /\ \A t \in Open : \A v \in DOMAIN tx[t].loaded : tx[t].loaded[v].who # p
  BY <1>2, <1>3, <1>4 DEF CreateFounder
<1>6. /\ Grows /\ Meets(Nil) /\ file' = file
      /\ next' = next + 2 /\ next' - 1 <= MaxId
      /\ DOMAIN db' = DOMAIN db \cup next .. next + 1
      /\ \A i \in DOMAIN db : db'[i] = db[i]
      /\ \A i \in next .. next + 1 : db'[i] = <<h, m>>[i - next + 1]
      /\ next \in Nat \ {0} /\ next .. next' - 1 = {next, next + 1}
  <2>1. PICK rows : rows = <<h, m>>
    OBVIOUS
  <2>2. Len(rows) = 2
    BY <2>1
  <2>3. next \in Nat \ {0}
    BY <1>1, BooksRows
  <2>4. Makes(rows)
    BY <1>5, <2>1
  <2>5. /\ Grows /\ Meets(Nil) /\ file' = file
        /\ next' = next + 2 /\ next' - 1 <= MaxId
        /\ DOMAIN db' = DOMAIN db \cup next .. next + 2 - 1
        /\ \A i \in DOMAIN db : db'[i] = db[i]
        /\ \A i \in next .. next + 2 - 1 : db'[i] = rows[i - next + 1]
    <3>1. Len(rows) \in Nat
      BY <2>2
    <3> HIDE <2>2
    <3>2. /\ Grows /\ Meets(Nil) /\ file' = file
          /\ next' = next + Len(rows) /\ next' - 1 \in Nat /\ next' - 1 <= MaxId
          /\ DOMAIN db' = DOMAIN db \cup next .. next + Len(rows) - 1
          /\ \A i \in DOMAIN db : db'[i] = db[i]
          /\ \A i \in next .. next + Len(rows) - 1 : db'[i] = rows[i - next + 1]
      BY <1>1, <2>4, <3>1, MakesGrows
    <3> QED  BY <2>2, <3>2
  <2> QED  BY <2>1, <2>3, <2>5
<1>7. /\ next \in Id /\ next + 1 \in Id /\ db'[next] = h /\ db'[next + 1] = m
      /\ DOMAIN db' = DOMAIN db \cup {next, next + 1}
  BY <1>6, BackupAssumption DEF Id
<1>8. /\ h \in Row /\ h.table = "households" /\ h.home = next /\ h.up = {} /\ h.also = {}
      /\ ~h.deleted /\ Refs(h) = {}
  <2>1. next \in Id
    BY <1>7
  <2> QED  BY <1>2, <2>1 DEF NewRow, Row, Refs, Section
<1>9. /\ m \in Row /\ m.table = "users" /\ m.home = next /\ m.up = {next} /\ m.also = {}
      /\ ~m.deleted /\ m.who = p /\ Refs(m) = {next}
  <2>1. next \in Id
    BY <1>7
  <2> QED  BY <1>3, <2>1 DEF NewUser, NewRow, Row, Refs, Section
<1>10. next \notin Gone /\ next \notin DOMAIN db /\ next + 1 \notin DOMAIN db
  BY <1>1, <1>6, BooksRows DEF Id
<1>11. Made(next)
  BY <1>7, <1>8 DEF Made
<1>12. \A v \in Users(db') \ {next + 1} : v \in Users(db) /\ db'[v].who = db[v].who
  BY <1>6, <1>7, <1>8 DEF Users
<1>13. Made(next + 1)
  <2>1. Fits(m, next, h)
    BY <1>8, <1>9 DEF Fits, Rank
  <2>2. \A t \in Open : \A v \in Users(tx[t].loaded) : tx[t].loaded[v].who # p
    BY <1>5 DEF Users
  <2> QED  BY <1>5, <1>7, <1>8, <1>9, <1>10, <1>12, <2>1, <2>2 DEF Made
<1>14. /\ DOMAIN cred \subseteq Users(db) /\ \A v \in DOMAIN cred : cred[v] \in Id
       /\ next + 1 \notin DOMAIN u
  BY <1>1, <1>6 DEF State, Books, Known, Id
<1>15. /\ DOMAIN g = DOMAIN cred \cup {next + 1} /\ g[next + 1] = next + 1
       /\ \A v \in DOMAIN cred \ {next + 1} : g[v] = cred[v]
  BY <1>4 DEF Over
<1>16. Users(db) \subseteq Users(db') /\ next + 1 \in Users(db')
  BY <1>6, <1>7, <1>9 DEF Users
<1>17. DOMAIN cred' \subseteq Users(db') /\ \A v \in DOMAIN cred' : cred'[v] \in Id
  BY <1>5, <1>7, <1>14, <1>15, <1>16
<1>18. \A v \in DOMAIN u : /\ v \in DOMAIN cred' <=> v \in DOMAIN cred
                           /\ v \in DOMAIN cred => cred'[v] = cred[v]
  BY <1>5, <1>14, <1>15
<1>19. \A i \in next .. next' - 1 : Made(i)
  BY <1>6, <1>11, <1>13
<1> QED  BY <1>1, <1>6, <1>17, <1>18, <1>19, GrowsInv

\* A request that makes one row, and nothing of a transaction's.
LEMMA MakesOneInv ==
  ASSUME NEW u, State(u), NEW r \in Row, Makes(<<r>>), ~r.deleted, r.table # "households",
         r.home \in DOMAIN db, db[r.home].table = "households",
         r.table \in {"users", "positions"} => r.home \in r.up,
         r.table = "history" => r.up # {},
         \A j \in Refs(r) : j \in DOMAIN db \ Gone /\ Fits(r, j, db[j]),
         r.table = "users" =>
           /\ \A v \in Users(db) : db[v].who # r.who
           /\ \A t \in Open : \A v \in DOMAIN tx[t].loaded : tx[t].loaded[v].who # r.who,
         \/ cred' = cred
         \/ r.table = "users" /\ cred' = Over(cred, [v \in {next} |-> next])
  PROVE  Inv'
<1>1. PICK rows : rows = <<r>>
  OBVIOUS
<1>2. Len(rows) = 1 /\ rows[1] = r
  BY <1>1
<1>3. /\ Grows /\ Meets(Nil) /\ file' = file
      /\ next' = next + Len(rows) /\ next' - 1 <= MaxId
      /\ DOMAIN db' = DOMAIN db \cup next .. next + Len(rows) - 1
      /\ \A i \in DOMAIN db : db'[i] = db[i]
      /\ \A i \in next .. next + Len(rows) - 1 : db'[i] = rows[i - next + 1]
  <2>1. Len(rows) \in Nat
    BY <1>2
  <2> HIDE <1>2
  <2> QED  BY <1>1, <2>1, MakesGrows
<1>4. next \in Nat \ {0} /\ \A i \in DOMAIN db : i \in Id /\ i < next
  BY BooksRows
<1>5. next .. next + 1 - 1 = {next} /\ next .. next + 1 - 1 = next .. next' - 1 /\ next \in Id
  BY <1>2, <1>3, <1>4, BackupAssumption DEF Id
<1>6. DOMAIN db' = DOMAIN db \cup {next} /\ db'[next] = r /\ next \notin DOMAIN db
  BY <1>2, <1>3, <1>4, <1>5 DEF Id
<1>7. Made(next)
  <2>1. \A j \in Refs(r) : j \in DOMAIN db' \ Gone /\ Fits(r, j, db'[j])
    BY <1>3, <1>6
  <2>2. db'[r.home].table = "households" /\ r.home \in DOMAIN db'
    BY <1>3, <1>6
  <2>3. \A v \in Users(db') \ {next} : v \in Users(db) /\ db'[v] = db[v]
    BY <1>3, <1>6 DEF Users
  <2>4. r.table = "users" =>
          /\ \A v \in Users(db') \ {next} : db'[v].who # r.who
          /\ \A t \in Open : \A v \in Users(tx[t].loaded) : tx[t].loaded[v].who # r.who
    BY <2>3 DEF Users
  <2> QED  BY <1>6, <2>1, <2>2, <2>4 DEF Made
<1>8. /\ DOMAIN cred \subseteq Users(db) /\ \A v \in DOMAIN cred : cred[v] \in Id
      /\ \A v \in DOMAIN u : v # next
  BY <1>4 DEF State, Books, Known, Id
<1>9. Users(db) \subseteq Users(db') /\ (r.table = "users" => next \in Users(db'))
  BY <1>3, <1>6 DEF Users
<1>10. /\ DOMAIN cred' \subseteq Users(db') /\ \A v \in DOMAIN cred' : cred'[v] \in Id
       /\ \A v \in DOMAIN u : /\ v \in DOMAIN cred' <=> v \in DOMAIN cred
                              /\ v \in DOMAIN cred => cred'[v] = cred[v]
  <2>1. CASE cred' = cred
    BY <1>8, <1>9, <2>1
  <2>2. ASSUME r.table = "users", NEW g, g = Over(cred, [v \in {next} |-> next]), cred' = g
        PROVE  /\ DOMAIN cred' \subseteq Users(db') /\ \A v \in DOMAIN cred' : cred'[v] \in Id
               /\ \A v \in DOMAIN u : /\ v \in DOMAIN cred' <=> v \in DOMAIN cred
                                      /\ v \in DOMAIN cred => cred'[v] = cred[v]
    <3>1. /\ DOMAIN g = DOMAIN cred \cup {next} /\ g[next] = next
          /\ \A v \in DOMAIN cred \ {next} : g[v] = cred[v]
      BY <2>2 DEF Over
    <3> QED  BY <1>5, <1>8, <1>9, <2>2, <3>1
  <2> QED  BY <2>1, <2>2
<1>11. \A i \in next .. next' - 1 : Made(i)
  BY <1>5, <1>7
<1> QED  BY <1>3, <1>10, <1>11, GrowsInv

\* What a user may reference who is in the books.
LEMMA UserRefs ==
  ASSUME NEW u, State(u), NEW v, Live(v, "users")
  PROVE  /\ v \in Id /\ v \in DOMAIN db /\ db[v].table = "users" /\ db[v].home \in Id
         /\ db[v].home \in DOMAIN db /\ db[db[v].home].table = "households"
         /\ db[db[v].home].home = db[v].home
BY BooksRows DEF Live, Row

LEMMA CreateMemberInv ==
  ASSUME Inv, NEW v \in Id, NEW p \in Person, NEW sub \in BOOLEAN, CreateMember(v, p, sub)
  PROVE  Inv'
<1>1. PICK u : State(u)
  BY DEF Inv
<1>2. PICK home : home = db[v].home
  OBVIOUS
<1>3. PICK r : r = NewUser(home, {v}, p, sub)
  OBVIOUS
<1>4. /\ Live(v, "users") /\ v \notin Gone /\ home \notin Gone /\ Makes(<<r>>)
      /\ \A z \in Users(db) : db[z].who # p
      /\ \A t \in Open : \A z \in DOMAIN tx[t].loaded : tx[t].loaded[z].who # p
      /\ cred' = cred \/ cred' = Over(cred, [z \in {next} |-> next])
  BY <1>2, <1>3 DEF CreateMember, Unlocked
<1>5. /\ v \in DOMAIN db /\ db[v].table = "users" /\ home \in Id
      /\ home \in DOMAIN db /\ db[home].table = "households" /\ db[home].home = home
  BY <1>1, <1>2, <1>4, UserRefs
<1>6. /\ r \in Row /\ r.table = "users" /\ r.home = home /\ r.up = {home} /\ r.also = {v}
      /\ ~r.deleted /\ r.who = p
  BY <1>3, <1>5 DEF NewUser, NewRow, Row, Section
<1>7. \A j \in Refs(r) : j \in DOMAIN db \ Gone /\ Fits(r, j, db[j])
  BY <1>2, <1>4, <1>5, <1>6 DEF Refs, Fits, Rank
<1> QED  BY <1>1, <1>4, <1>5, <1>6, <1>7, MakesOneInv

LEMMA CreatePositionInv ==
  ASSUME Inv, NEW v \in Id, NEW from \in {{}} \cup {{p} : p \in Id}, CreatePosition(v, from)
  PROVE  Inv'
<1>1. PICK u : State(u)
  BY DEF Inv
<1>2. PICK home : home = db[v].home
  OBVIOUS
<1>3. PICK r : r = NewRow("positions", home, {home} \cup from, {v})
  OBVIOUS
<1>4. /\ Live(v, "users") /\ v \notin Gone /\ home \notin Gone /\ from \cap Gone = {}
      /\ Makes(<<r>>) /\ cred' = cred
      /\ \A p \in from : p \in DOMAIN db /\ db[p].table = "positions" /\ db[p].home = home
  BY <1>2, <1>3 DEF CreatePosition, Unlocked, Live
<1>5. /\ v \in DOMAIN db /\ db[v].table = "users" /\ home \in Id
      /\ home \in DOMAIN db /\ db[home].table = "households" /\ db[home].home = home
  BY <1>1, <1>2, <1>4, UserRefs
<1>6. /\ r \in Row /\ r.table = "positions" /\ r.home = home /\ r.up = {home} \cup from
      /\ r.also = {v} /\ ~r.deleted
  <2>1. {home} \cup from \in SUBSET Id
    BY <1>5
  <2> QED  BY <1>3, <1>5, <2>1 DEF NewRow, Row, Section
<1>7. \A j \in Refs(r) : j \in DOMAIN db \ Gone /\ Fits(r, j, db[j])
  BY <1>2, <1>4, <1>5, <1>6 DEF Refs, Fits, Rank
<1> QED  BY <1>1, <1>4, <1>5, <1>6, <1>7, MakesOneInv

LEMMA CreateSnapshotInv ==
  ASSUME Inv, NEW v \in Id, NEW p \in Id, CreateSnapshot(v, p)
  PROVE  Inv'
<1>1. PICK u : State(u)
  BY DEF Inv
<1>2. PICK home : home = db[v].home
  OBVIOUS
<1>3. PICK r : r = NewRow("history", db[p].home, {p}, {v})
  OBVIOUS
<1>4. /\ Live(v, "users") /\ v \notin Gone /\ p \notin Gone
      /\ Makes(<<r>>) /\ cred' = cred
      /\ p \in DOMAIN db /\ db[p].table = "positions" /\ db[p].home = home
  BY <1>2, <1>3 DEF CreateSnapshot, Unlocked, Live
<1>5. /\ v \in DOMAIN db /\ db[v].table = "users" /\ home \in Id
      /\ home \in DOMAIN db /\ db[home].table = "households" /\ db[home].home = home
  BY <1>1, <1>2, <1>4, UserRefs
<1>6. /\ r \in Row /\ r.table = "history" /\ r.home = home /\ r.up = {p}
      /\ r.also = {v} /\ ~r.deleted
  BY <1>3, <1>4, <1>5 DEF NewRow, Row, Section
<1>7. \A j \in Refs(r) : j \in DOMAIN db \ Gone /\ Fits(r, j, db[j])
  BY <1>2, <1>4, <1>5, <1>6 DEF Refs, Fits, Rank
<1> QED  BY <1>1, <1>4, <1>5, <1>6, <1>7, MakesOneInv

LEMMA DisplaceSnapshotInv ==
  ASSUME Inv, NEW v \in Id, NEW h \in Id, DisplaceSnapshot(v, h)
  PROVE  Inv'
<1>1. PICK u : State(u)
  BY DEF Inv
<1>2. PICK r : r = NewRow("history", db[h].home, db[h].up, {v, h})
  OBVIOUS
<1>3. PICK g : g = [db EXCEPT ![h].deleted = TRUE]
  OBVIOUS
<1>4. PICK n : n = [i \in {next} |-> r]
  OBVIOUS
<1>5. /\ Live(v, "users") /\ v \notin Gone /\ h \notin Gone /\ db[h].up \cap Gone = {}
      /\ h \in DOMAIN db /\ db[h].table = "history" /\ db[h].home = db[v].home
      /\ next <= MaxId /\ next' = next + 1 /\ db' = Over(g, n)
      /\ Meets(Nil) /\ cred' = cred /\ file' = file
  BY <1>2, <1>3, <1>4 DEF DisplaceSnapshot, Unlocked, Live
<1>6. /\ next \in Nat \ {0}
      /\ \A i \in DOMAIN db : /\ db[i] \in Row /\ i \in Id /\ i < next
                              /\ db[i].deleted => db[i].table \in {"positions", "history"}
  BY <1>1, BooksRows
<1>7. /\ db[h].home \in DOMAIN db /\ db[db[h].home].table = "households" /\ db[h].up # {}
      /\ \A j \in Refs(db[h]) : j \in DOMAIN db /\ Fits(db[h], j, db[j])
  BY <1>1, <1>5, BooksRows
<1>8. v \in DOMAIN db /\ db[v].table = "users"
  BY <1>1, <1>5, UserRefs
<1>9. /\ r \in Row /\ r.table = "history" /\ r.home = db[h].home /\ r.up = db[h].up
      /\ r.also = {v, h} /\ ~r.deleted
  <2>1. db[h].home \in Id /\ db[h].up \in SUBSET Id
    BY <1>5, <1>6 DEF Row
  <2> QED  BY <1>2, <2>1 DEF NewRow, Row, Section
<1>10. /\ DOMAIN g = DOMAIN db /\ \A i \in DOMAIN db \ {h} : g[i] = db[i]
       /\ g[h] = [db[h] EXCEPT !.deleted = TRUE]
  BY <1>3, <1>5
<1>11. \A i \in DOMAIN db : /\ g[i] \in Row /\ Same(g[i], db[i])
                            /\ g[i].deleted => g[i].table \in {"positions", "history"}
  <2>1. g[h] \in Row /\ Same(g[h], db[h])
    BY <1>5, <1>6, <1>10 DEF Row, Same
  <2>2. g[h].table = "history"
    BY <1>5, <2>1 DEF Same
  <2> QED  BY <1>6, <1>10, <2>1, <2>2 DEF Same
<1>12. next \in Id /\ next .. next' - 1 = {next} /\ next \notin DOMAIN db
  BY <1>5, <1>6, BackupAssumption DEF Id
<1>13. /\ DOMAIN db' = DOMAIN db \cup {next} /\ db'[next] = r
       /\ \A i \in DOMAIN db : db'[i] = g[i]
       /\ db' = [i \in DOMAIN db' |-> db'[i]]
  BY <1>4, <1>5, <1>10, <1>12 DEF Over
<1>14. Grows
  BY <1>5, <1>6, <1>11, <1>12, <1>13, BackupAssumption DEF Grows
<1>15. Made(next)
  <2>1. \A j \in Refs(r) : j \in DOMAIN db \ Gone /\ Fits(r, j, db[j])
    BY <1>5, <1>7, <1>8, <1>9 DEF Refs, Fits, Rank
  <2>2. \A j \in DOMAIN db : db'[j].table = db[j].table /\ db'[j].home = db[j].home /\ db'[j].up = db[j].up
    BY <1>11, <1>13 DEF Same
  <2>3. \A j \in Refs(r) : j \in DOMAIN db' \ Gone /\ Fits(r, j, db'[j])
    BY <1>13, <2>1, <2>2 DEF Fits
  <2> QED  BY <1>7, <1>9, <1>13, <2>2, <2>3 DEF Made
<1>16. Users(db) \subseteq Users(db')
  BY <1>11, <1>13 DEF Users, Same
<1>17. DOMAIN cred' \subseteq Users(db') /\ \A z \in DOMAIN cred' : cred'[z] \in Id
  BY <1>1, <1>5, <1>16 DEF State, Books
<1> QED  BY <1>1, <1>5, <1>12, <1>14, <1>15, <1>17, GrowsInv

LEMMA DeletePositionInv ==
  ASSUME Inv, NEW p \in Id, DeletePosition(p)
  PROVE  Inv'
<1>1. PICK u : State(u)
  BY DEF Inv
<1>2. PICK dead : dead = {p} \cup {h \in DOMAIN db : db[h].table = "history" /\ p \in db[h].up}
  OBVIOUS
<1>3. /\ p \in DOMAIN db /\ db[p].table = "positions" /\ Meets(Nil)
      /\ db' = [i \in DOMAIN db |-> IF i \in dead THEN [db[i] EXCEPT !.deleted = TRUE] ELSE db[i]]
      /\ cred' = cred /\ next' = next /\ file' = file
  BY <1>2 DEF DeletePosition, Live
<1>4. /\ next \in Nat \ {0}
      /\ \A i \in DOMAIN db : /\ db[i] \in Row /\ i \in Id /\ i < next
                              /\ db[i].deleted => db[i].table \in {"positions", "history"}
  BY <1>1, BooksRows
<1>5. \A i \in DOMAIN db : /\ db'[i] \in Row /\ Same(db'[i], db[i])
                           /\ db'[i].deleted => db'[i].table \in {"positions", "history"}
  <2>1. SUFFICES ASSUME NEW i \in DOMAIN db
                 PROVE  /\ db'[i] \in Row /\ Same(db'[i], db[i])
                        /\ db'[i].deleted => db'[i].table \in {"positions", "history"}
    OBVIOUS
  <2>2. CASE i \in dead
    <3>1. db'[i] = [db[i] EXCEPT !.deleted = TRUE]
      BY <1>3, <2>2
    <3>2. db[i].table \in {"positions", "history"}
      BY <1>2, <1>3, <2>2
    <3>3. db'[i] \in Row /\ Same(db'[i], db[i])
      BY <1>4, <3>1 DEF Row, Same
    <3> QED  BY <3>2, <3>3 DEF Same
  <2>3. CASE i \notin dead
    BY <1>3, <1>4, <2>3 DEF Same
  <2> QED  BY <2>2, <2>3
<1>6. next \in Nat /\ next <= MaxId + 1 /\ next .. next' - 1 = {}
  BY <1>1, <1>3, <1>4, BooksRows
<1>7. DOMAIN db' = DOMAIN db /\ db' = [i \in DOMAIN db' |-> db'[i]]
  BY <1>3
<1>8. Grows
  <2>1. DOMAIN db' = DOMAIN db \cup next .. next' - 1
    BY <1>6, <1>7
  <2>2. next' \in Nat /\ next <= next' /\ next' <= MaxId + 1
    BY <1>3, <1>6
  <2> QED  BY <1>5, <1>7, <2>1, <2>2 DEF Grows
<1>9. Users(db) \subseteq Users(db')
  BY <1>5, <1>7 DEF Users, Same
<1>10. DOMAIN cred' \subseteq Users(db') /\ \A z \in DOMAIN cred' : cred'[z] \in Id
  BY <1>1, <1>3, <1>9 DEF State, Books
<1> QED  BY <1>1, <1>3, <1>6, <1>8, <1>10, GrowsInv

LEMMA SetPasswordInv ==
  ASSUME Inv, NEW v \in Id, SetPassword(v)
  PROVE  Inv'
<1>1. PICK u : State(u)
  BY DEF Inv
<1>2. /\ v \in DOMAIN cred /\ next <= MaxId /\ next' = next + 1
      /\ cred' = [cred EXCEPT ![v] = next] /\ Meets(v) /\ UNCHANGED <<db, file>>
  BY DEF SetPassword
<1>3. Known(u)'
  <2>1. next' \in 1 .. MaxId + 1 /\ \A i \in DOMAIN u : i < next'
    BY <1>1, <1>2, BackupAssumption DEF State, Known, Id
  <2> QED  BY <1>1, <2>1 DEF State, Known
<1>4. next \in Id
  BY <1>1, <1>2, BackupAssumption DEF State, Known, Id
<1>5. DOMAIN cred' = DOMAIN cred /\ cred'[v] = next /\ \A z \in DOMAIN cred \ {v} : cred'[z] = cred[z]
  BY <1>2
<1>6. Books(u)'
  BY <1>1, <1>2, <1>4, <1>5 DEF State, Books, Users
<1>7. Request(u, u, v)
  BY <1>2, <1>3, <1>5, <1>6 DEF Request, Same
<1> QED  BY <1>1, <1>2, <1>7, RequestInv

----------------------------------------------------------------------------
(* What a transaction commits *)

Rows(x) == IF x.load THEN file.rows ELSE << >>

\* What becomes of the books when x commits: they lose what it has deleted and
\* get rows it has loaded.
Outcome(u, x, rows) ==
  /\ db' = [i \in DOMAIN db' |-> db'[i]]
  /\ DOMAIN db' = (DOMAIN db \ x.gone) \cup DOMAIN rows
  /\ DOMAIN rows \cap (DOMAIN db \ x.gone) = {}
  /\ \A i \in DOMAIN db \ x.gone : db'[i] = db[i]
  /\ \A i \in DOMAIN rows : db'[i] = rows[i]
  /\ \A v \in Users(db) \ x.gone, w \in Users(rows) : db[v].who # rows[w].who
  /\ Below(rows, u) /\ Closed(rows) /\ OneEach(rows)
  /\ \A i \in DOMAIN rows : /\ x.load /\ file # Nil /\ rows[i].home = file.home
                           /\ u[i].home = file.home

LEMMA Committed ==
  ASSUME NEW u, State(u), NEW t \in Tx, Commit(t), NEW x, x = tx[t]
  PROVE  /\ t \in Open /\ Transaction(u, x) /\ (x.k = IF x.load THEN 6 ELSE 5)
         /\ Outcome(u, x, Rows(x))
<1>1. t \in Open /\ Transaction(u, x) /\ x.k = IF x.load THEN 6 ELSE 5
  BY DEF Commit, Open, State
<1> DEFINE rows == Rows(x)
<1>2. db' = Over(Without(db, x.gone), x.loaded)
  BY DEF Commit, View
<1>3. x.loaded = rows
  <2>1. CASE x.load
    BY <1>1, <2>1 DEF Transaction, Loading, Rows
  <2>2. CASE ~x.load
    BY <1>1, <2>2 DEF Transaction, Loading, Rows
  <2> QED  BY <2>1, <2>2
<1>4. /\ DOMAIN rows \cap DOMAIN db \subseteq x.gone /\ Closed(rows)
      /\ \A v \in Users(db) \ x.gone, w \in Users(rows) : db[v].who # rows[w].who
      /\ Below(rows, u) /\ OneEach(rows)
      /\ \A i \in DOMAIN rows : x.load /\ file # Nil /\ rows[i].home = file.home
  <2>1. CASE x.load
    <3>1. rows = file.rows /\ file # Nil /\ x.k = 6
      BY <1>1, <2>1 DEF Transaction, Loading, Rows
    <3>2. Copy(u, file.home, file.rows)
      BY <3>1 DEF State, Exported
    <3> QED  BY <1>1, <2>1, <3>1, <3>2 DEF Transaction, Loading, Copy
  <2>2. CASE ~x.load
    <3>1. rows = << >> /\ DOMAIN rows = {}
      BY <2>2 DEF Rows
    <3> QED  BY <3>1 DEF Closed, Below, OneEach, Users
  <2> QED  BY <2>1, <2>2
<1> HIDE DEF rows
<1>5. /\ DOMAIN db' = (DOMAIN db \ x.gone) \cup DOMAIN rows
      /\ db' = [i \in DOMAIN db' |-> db'[i]]
      /\ \A i \in DOMAIN db \ x.gone : i \notin DOMAIN rows /\ db'[i] = db[i]
      /\ \A i \in DOMAIN rows : db'[i] = rows[i]
  BY <1>2, <1>3, <1>4 DEF Over, Without
<1>6. \A i \in DOMAIN rows : u[i].home = file.home
  BY <1>4 DEF Below, Same
<1>7. Outcome(u, x, rows)
  BY <1>4, <1>5, <1>6 DEF Outcome
<1> QED  BY <1>1, <1>7 DEF rows

LEMMA CommitBooks ==
  ASSUME NEW u, State(u), NEW t \in Tx, Commit(t)
  PROVE  Known(u)' /\ Books(u)'
<1>1. PICK x : x = tx[t]
  OBVIOUS
<1>2. t \in Open /\ Transaction(u, x) /\ Outcome(u, x, Rows(x))
  BY <1>1, Committed
<1> DEFINE rows == Rows(x)
<1>3. /\ cred' = IF x.stash = Nil THEN Without(cred, x.gone)
                 ELSE Over(Without(cred, x.gone), [v \in {x.as} |-> x.stash])
      /\ next' = next
  BY <1>1 DEF Commit
<1>4. x.load => x.as \in Users(rows)
  BY <1>2 DEF Transaction, Loading, Rows
<1>5. Outcome(u, x, rows)
  BY <1>2
<1> HIDE DEF rows
<1>6. PICK left : left = Without(db, x.gone)
  OBVIOUS
<1>7. /\ DOMAIN left = DOMAIN db \ x.gone
      /\ \A i \in DOMAIN left : left[i] = db[i]
      /\ Below(left, u) /\ Closed(left)
  <2>1. Wiping(u, x)
    BY <1>2 DEF Transaction
  <2> QED  BY <1>6, <2>1, Left
<1>8. Below(db', u)
  BY <1>5, <1>7 DEF Below, Outcome
<1>9. Closed(db')
  <2>1. SUFFICES ASSUME NEW i \in DOMAIN db'
                 PROVE  Refs(db'[i]) \subseteq DOMAIN db'
    BY DEF Closed
  <2>2. CASE i \in DOMAIN rows
    BY <1>5, <2>2 DEF Closed, Outcome
  <2>3. CASE i \in DOMAIN left
    BY <1>5, <1>7, <2>3 DEF Closed, Outcome
  <2> QED  BY <1>5, <1>7, <2>2, <2>3 DEF Outcome
<1>10. \A v \in Users(db') : \/ v \in Users(db) \ x.gone /\ db'[v] = db[v]
                             \/ v \in Users(rows) /\ db'[v] = rows[v]
  BY <1>5 DEF Users, Outcome
<1>11. OneEach(db')
  <2>1. OneEach(db) /\ OneEach(rows)
    BY <1>5 DEF State, Books, Outcome
  <2>2. SUFFICES ASSUME NEW v \in Users(db'), NEW w \in Users(db'), db'[v].who = db'[w].who
                 PROVE  v = w
    BY DEF OneEach
  <2> QED  BY <1>5, <1>10, <2>1, <2>2 DEF OneEach, Outcome
<1>12. DOMAIN cred' \subseteq Users(db') /\ \A v \in DOMAIN cred' : cred'[v] \in Id
  <2>1. (Users(db) \ x.gone) \cup Users(rows) \subseteq Users(db')
    BY <1>5 DEF Users, Outcome
  <2>2. PICK rest : rest = Without(cred, x.gone)
    OBVIOUS
  <2>3. DOMAIN rest \subseteq Users(db) \ x.gone /\ \A v \in DOMAIN rest : rest[v] \in Id
    BY <2>2 DEF Without, State, Books
  <2>4. CASE x.stash = Nil
    BY <1>3, <2>1, <2>2, <2>3, <2>4
  <2>5. CASE x.stash # Nil
    <3>1. x.as \in Users(rows) /\ x.stash \in Id
      BY <1>2, <1>4, <2>5 DEF Transaction, Carrying
    <3>2. cred' = Over(rest, [v \in {x.as} |-> x.stash])
      BY <1>3, <2>2, <2>5
    <3>3. /\ DOMAIN cred' = DOMAIN rest \cup {x.as} /\ cred'[x.as] = x.stash
          /\ \A v \in DOMAIN rest \ {x.as} : cred'[v] = rest[v]
      BY <3>2 DEF Over
    <3> QED  BY <2>1, <2>3, <3>1, <3>3
  <2> QED  BY <2>4, <2>5
<1>13. Known(u)'
  BY <1>3 DEF State, Known
<1> QED  BY <1>5, <1>8, <1>9, <1>11, <1>12, <1>13 DEF Books, Users, Outcome

\* A copy keeps its users for as long as it has its household.
LEMMA CommitCopies ==
  ASSUME NEW u, State(u), NEW t \in Tx, Commit(t), NEW home, NEW f, Copy(u, home, f),
         \/ ~tx[t].load
         \/ f = file.rows
  PROVE  Copy(u, home, f)'
<1>1. PICK x : x = tx[t]
  OBVIOUS
<1>2. /\ Transaction(u, x) /\ (x.k = IF x.load THEN 6 ELSE 5)
      /\ DOMAIN db' = (DOMAIN db \ x.gone) \cup DOMAIN Rows(x)
  BY <1>1, Committed DEF Outcome
<1>3. ASSUME home \in DOMAIN db'
      PROVE  Users(f) \subseteq DOMAIN db'
  <2>1. CASE x.load
    <3>1. Rows(x) = f
      BY <1>1, <2>1 DEF Rows
    <3> QED  BY <1>2, <3>1 DEF Users
  <2>2. CASE ~x.load
    <3>1. DOMAIN Rows(x) = {}
      BY <2>2 DEF Rows
    <3>2. home \in DOMAIN db \ x.gone /\ x.k = 5 /\ Wiping(u, x)
      BY <1>2, <1>3, <2>2, <3>1 DEF Transaction
    <3>3. ASSUME NEW v \in Users(f), v \in x.gone
          PROVE  FALSE
      <4>1. v \in DOMAIN f /\ v \in DOMAIN db
        BY <3>2, <3>3 DEF Users, Copy
      <4>2. db[v].home = home
        BY <4>1 DEF Copy, Below, State, Books, Same
      <4>3. x.home = home
        BY <3>2, <3>3, <4>2 DEF Wiping
      <4> QED  BY <3>2, <3>3, <4>3 DEF Wiping
    <3>4. Users(f) \subseteq DOMAIN db
      BY <3>2 DEF Copy
    <3> QED  BY <1>2, <3>3, <3>4
  <2> QED  BY <2>1, <2>2
<1> QED  BY <1>3 DEF Copy, Users

\* Another transaction, z, goes on when x has committed.
LEMMA CommitOther ==
  ASSUME NEW u, State(u), NEW t \in Tx, Commit(t), NEW s \in Open \ {t},
         NEW x, x = tx[t], NEW z, z = tx[s], NEW y, y = tx'[s]
  PROVE  Transaction(u, y)' /\ y.gone = z.gone /\ (y.k = 6 => z.k = 6)
<1>1. /\ t \in Open /\ Transaction(u, x) /\ (x.k = IF x.load THEN 6 ELSE 5)
      /\ Outcome(u, x, Rows(x))
  BY Committed
<1>2. Transaction(u, z) /\ Apart(x, z) /\ tx' = AfterCommit(t) /\ file' = file
  BY <1>1 DEF State, Commit
<1>3. PICK rest : rest = z.waits \ x.gone
  OBVIOUS
<1>4. /\ DOMAIN y = TxFields /\ y.caller = z.caller /\ y.by = z.by /\ y.home = z.home
      /\ y.load = z.load /\ y.as = z.as /\ y.stash = z.stash /\ y.gone = z.gone
      /\ y.waits = rest /\ y.loaded = z.loaded /\ y.raced /\ y.reset
      /\ y.k = IF z.waits # {} /\ rest = {} THEN z.k + 1 ELSE z.k
  <2>1. y = [z EXCEPT !.raced = TRUE, !.reset = TRUE, !.waits = rest,
                      !.k = IF z.waits # {} /\ rest = {} THEN z.k + 1 ELSE z.k]
    BY <1>2, <1>3 DEF AfterCommit, Open
  <2> QED  BY <1>2, <2>1 DEF Transaction, TxFields
<1> DEFINE rows == Rows(x)
<1>5. Outcome(u, x, rows)
  BY <1>1
<1>6. ~x.load => DOMAIN rows = {}
  BY DEF Rows
<1>7. Wiping(u, z) /\ Wiping(u, x)
  BY <1>1, <1>2 DEF Transaction
<1> HIDE DEF rows
<1>8. \A i \in z.gone : i \in DOMAIN db \ x.gone /\ i \notin DOMAIN rows
  BY <1>2, <1>5, <1>7 DEF Apart, Outcome, Wiping
<1>9. z.waits # {} => z.k \in 1 .. 4
  <2>1. \A i \in DOMAIN u : Rank(u[i].table) \in 1 .. 4
    BY Ranks DEF State, Known, Row
  <2> QED  BY <1>7, <2>1 DEF Wiping
<1>10. /\ y.k \in 1 .. 6 /\ (y.k = 6 => z.k = 6 /\ y.load)
       /\ y.waits # {} => y.k = z.k
  BY <1>4, <1>7, <1>9 DEF Wiping
<1>11. ASSUME z.home \notin DOMAIN db \ x.gone
       PROVE  z.gone = {}
  <2>1. PICK left : left = Without(db, x.gone)
    OBVIOUS
  <2>2. /\ DOMAIN left = DOMAIN db \ x.gone
        /\ \A i \in DOMAIN left : left[i] = db[i]
        /\ \A i \in DOMAIN left : u[i].home \in DOMAIN left /\ left[i].home = u[i].home
    BY <1>7, <2>1, Left
  <2>3. \A i \in z.gone : i \in DOMAIN left /\ db[i].home = z.home
    BY <1>7, <1>8, <2>2 DEF Wiping
  <2> QED  BY <1>11, <2>2, <2>3
<1>12. ASSUME z.home \in DOMAIN rows
       PROVE  z.gone = {} /\ file # Nil /\ file.home = z.home
  <2>1. file # Nil /\ u[z.home].home = file.home /\ z.home \notin DOMAIN db \ x.gone
    BY <1>5, <1>12 DEF Outcome
  <2>2. u[z.home].home = z.home
    BY <1>7 DEF State, Known, Wiping
  <2> QED  BY <1>11, <2>1, <2>2
<1>13. ASSUME z.waits # {}, rest = {}, z.k = 4
       PROVE  z.home \in x.gone
  <2>1. PICK i : i \in z.waits
    BY <1>13
  <2>2. i \in DOMAIN u /\ u[i].home = z.home /\ Rank(u[i].table) = 4
    BY <1>7, <1>13, <2>1 DEF Wiping
  <2>3. u[i].table = "households"
    BY <2>2 DEF Rank, State, Known, Row, Section
  <2>4. i = z.home
    BY <2>2, <2>3 DEF State, Known
  <2> QED  BY <1>3, <1>13, <2>1, <2>4
<1>14. ASSUME y.k >= 5, y.home \in DOMAIN db' \ y.gone
       PROVE  y.gone = {} /\ y.raced /\ file' # Nil /\ file'.home = y.home
  <2>1. CASE z.home \in DOMAIN rows
    BY <1>2, <1>4, <1>12, <2>1
  <2>2. CASE z.home \in DOMAIN db \ x.gone
    <3>1. z.k >= 5
      BY <1>4, <1>7, <1>9, <1>13, <1>14, <2>2 DEF Wiping
    <3> QED  BY <1>2, <1>4, <1>7, <1>14, <2>2, <3>1 DEF Wiping
  <2> QED  BY <1>4, <1>5, <1>14, <2>1, <2>2 DEF Outcome
<1>15. Wiping(u, y)'
  <2>1. \A i \in y.gone : i \in DOMAIN db' /\ db'[i].home = y.home
    BY <1>4, <1>5, <1>7, <1>8 DEF Wiping, Outcome
  <2>2. \A i \in DOMAIN db' \ y.gone : Refs(db'[i]) \cap y.gone = {}
    <3>1. SUFFICES ASSUME NEW i \in DOMAIN db' \ z.gone
                   PROVE  Refs(db'[i]) \cap z.gone = {}
      BY <1>4
    <3>2. CASE i \in DOMAIN rows
      <4>1. Refs(db'[i]) \subseteq DOMAIN rows
        BY <1>5, <3>2 DEF Outcome, Closed
      <4> QED  BY <1>8, <4>1
    <3>3. CASE i \in DOMAIN db \ x.gone
      BY <1>5, <1>7, <3>1, <3>3 DEF Outcome, Wiping
    <3> QED  BY <1>5, <3>2, <3>3 DEF Outcome
  <2>3. \A i \in y.waits : i \in DOMAIN u /\ u[i].home = y.home /\ Rank(u[i].table) = y.k
    BY <1>3, <1>4, <1>7, <1>10 DEF Wiping
  <2>4. y.home \in DOMAIN u /\ u[y.home].table = "households"
    BY <1>4, <1>7 DEF Wiping
  <2> QED  BY <1>10, <1>14, <2>1, <2>2, <2>3, <2>4 DEF Wiping
<1>16. y.k = 6 <=> z.k = 6
  BY <1>4, <1>9, <1>10
<1>17. Loading(y)'
  <2>1. y.loaded = IF y.k = 6 THEN file.rows ELSE << >>
    BY <1>2, <1>4, <1>16 DEF Transaction, Loading
  <2>2. y.load => /\ file # Nil /\ y.as \in Users(file.rows) /\ file.rows[y.as].who = y.by.who
                  /\ y.by.sub => file.rows[y.as].sub
    BY <1>2, <1>4 DEF Transaction, Loading
  <2>3. ASSUME y.k = 6
        PROVE  /\ DOMAIN file.rows \cap DOMAIN db' \subseteq y.gone
               /\ Closed(file.rows)
               /\ \A v \in Users(db') \ y.gone, w \in Users(file.rows) : db'[v].who # file.rows[w].who
    <3>1. z.k = 6 /\ DOMAIN rows = {}
      BY <1>1, <1>2, <1>6, <1>16, <2>3 DEF Apart
    <3>2. DOMAIN db' = DOMAIN db \ x.gone /\ \A i \in DOMAIN db' : db'[i] = db[i]
      BY <1>5, <3>1 DEF Outcome
    <3>3. Users(db') \subseteq Users(db)
      BY <3>2 DEF Users
    <3>4. /\ DOMAIN file.rows \cap DOMAIN db \subseteq z.gone /\ Closed(file.rows)
          /\ \A v \in Users(db) \ z.gone, w \in Users(file.rows) : db[v].who # file.rows[w].who
      BY <1>2, <3>1 DEF Transaction, Loading
    <3>5. \A v \in Users(db') : db'[v] = db[v]
      BY <3>2 DEF Users
    <3> QED  BY <1>4, <3>2, <3>3, <3>4, <3>5
  <2> QED  BY <1>2, <2>1, <2>2, <2>3 DEF Loading, Users
<1>18. Alone(y)' /\ Carrying(u, y)'
  BY <1>2, <1>4 DEF Alone, Carrying, Transaction
<1> QED  BY <1>4, <1>10, <1>15, <1>17, <1>18 DEF Transaction

LEMMA CommitInv ==
  ASSUME Inv, NEW t \in Tx, Commit(t)
  PROVE  Inv'
<1>1. PICK u : State(u)
  BY DEF Inv
<1>2. /\ t \in Open /\ tx' = AfterCommit(t) /\ file' = file
      /\ export' = IF export = Nil THEN Nil ELSE [export EXCEPT !.quiet = FALSE]
  BY DEF Commit, Open
<1>3. DOMAIN tx' = Tx /\ \A s \in Open' : s \in Open \ {t}
  BY <1>2 DEF AfterCommit, Open
<1>4. ASSUME NEW s \in Open'
      PROVE  Transaction(u, tx[s])' /\ tx'[s].gone = tx[s].gone /\ (tx'[s].k = 6 => tx[s].k = 6)
  <2>1. PICK x : x = tx[t]
    OBVIOUS
  <2>2. PICK z : z = tx[s]
    OBVIOUS
  <2>3. PICK y : y = tx'[s]
    OBVIOUS
  <2>4. Transaction(u, y)' /\ y.gone = z.gone /\ (y.k = 6 => z.k = 6)
    BY <1>1, <1>3, <2>1, <2>2, <2>3, CommitOther
  <2>5. \A r : r = y => Transaction(u, r)'
    BY <2>4
  <2> QED  BY <2>2, <2>3, <2>4, <2>5
<1>5. \A r, s \in Open' : r # s => Apart(tx[r], tx[s])'
  BY <1>1, <1>3, <1>4 DEF State, Apart
<1>6. Known(u)' /\ Books(u)'
  BY <1>1, CommitBooks
<1>7. Exporting(u)'
  <2>1. CASE export = Nil
    BY <1>2, <2>1 DEF Exporting
  <2>2. CASE export # Nil
    <3>1. PICK y : y = [export EXCEPT !.quiet = FALSE]
      OBVIOUS
    <3>2. /\ file = Nil
          /\ DOMAIN export = {"home", "full", "k", "rows", "quiet"}
          /\ export.k \in 1 .. 4
          /\ Copy(u, export.home, export.rows)
          /\ \A i \in DOMAIN export.rows : 5 - Rank(export.rows[i].table) < export.k
          /\ export.k > 1 => export.home \in DOMAIN export.rows
      BY <1>1, <2>2 DEF State, Exporting
    <3>3. /\ DOMAIN y = {"home", "full", "k", "rows", "quiet"} /\ y.home = export.home
          /\ y.full = export.full /\ y.k = export.k /\ y.rows = export.rows /\ ~y.quiet
      BY <3>1, <3>2
    <3>4. /\ y.k \in 1 .. 4 /\ Copy(u, y.home, y.rows) /\ (y.k > 1 => y.home \in DOMAIN y.rows)
          /\ \A i \in DOMAIN y.rows : 5 - Rank(y.rows[i].table) < y.k
      BY <3>2, <3>3
    <3>5. ~tx[t].load
      BY <1>1, <1>2, <3>2 DEF State, Transaction, Loading
    <3>6. Copy(u, y.home, y.rows)'
      BY <1>1, <3>4, <3>5, CommitCopies
    <3>7. \A z : z = y => Copy(u, z.home, z.rows)'
      BY <3>6
    <3>8. export' = y /\ file' = Nil
      BY <1>2, <2>2, <3>1, <3>2
    <3> QED  BY <3>3, <3>4, <3>7, <3>8 DEF Exporting
  <2> QED  BY <2>1, <2>2
<1>8. Exported(u)'
  <2>1. ASSUME file # Nil
        PROVE  Copy(u, file.home, file.rows)' /\ file.home \in DOMAIN file.rows
    <3>1. PICK y : y = file
      OBVIOUS
    <3>2. Copy(u, y.home, y.rows) /\ file.home \in DOMAIN file.rows
      BY <1>1, <2>1, <3>1 DEF State, Exported
    <3>3. Copy(u, y.home, y.rows)'
      BY <1>1, <3>1, <3>2, CommitCopies
    <3>4. \A z : z = y => Copy(u, z.home, z.rows)'
      BY <3>3
    <3> QED  BY <1>2, <3>1, <3>2, <3>4
  <2>2. QuietFileRestores'
    BY <1>1, <1>2 DEF State, Exported, QuietFileRestores
  <2> QED  BY <1>2, <2>1, <2>2 DEF Exported
<1> QED  BY <1>3, <1>4, <1>5, <1>6, <1>7, <1>8 DEF Inv, State

----------------------------------------------------------------------------
(* The households there are to begin with *)

\* The table of a first household: the household, its founder, and perhaps a
\* member, a position, its history, and what came of it.
First(d, n) ==
  /\ n \in {2, 5, 6} /\ DOMAIN d = 1 .. n /\ d = [i \in DOMAIN d |-> d[i]]
  /\ \A i \in 1 .. n : d[i] \in Row /\ d[i].home = 1
  /\ d[1].table = "households" /\ Refs(d[1]) = {} /\ ~d[1].deleted
  /\ d[2].table = "users" /\ d[2].up = {1} /\ d[2].also = {} /\ ~d[2].deleted
  /\ n # 2 =>
       /\ d[3].table = "users" /\ d[3].up = {1} /\ d[3].also = {2} /\ ~d[3].deleted
       /\ d[3].who # d[2].who
       /\ d[4].table = "positions" /\ d[4].up = {1} /\ d[4].also = {2}
       /\ d[5].table = "history" /\ d[5].up = {4} /\ d[5].also = {2}
  /\ n = 6 =>
       /\ d[6].also \subseteq {2, 3, 5}
       /\ \/ d[6].table = "history" /\ d[6].up = {4}
          \/ d[6].table = "positions" /\ d[6].up = {1, 4} /\ d[6].also = {2}

LEMMA FirstKnown ==
  ASSUME NEW d, NEW n, First(d, n), NEW i \in 1 .. n
  PROVE  /\ d[i].table = "households" => i = 1 /\ Refs(d[i]) = {}
         /\ d[i].table \in {"users", "positions"} => 1 \in d[i].up
         /\ d[i].table = "history" => d[i].up # {}
         /\ \A j \in Refs(d[i]) : j \in 1 .. n /\ Fits(d[i], j, d[j])
         /\ d[i].deleted => d[i].table \in {"positions", "history"}
<1>1. \/ i = 1
      \/ i = 2
      \/ n # 2 /\ i \in {3, 4, 5}
      \/ n = 6 /\ i = 6
  BY DEF First
<1>2. n \in {2, 5, 6} /\ 1 \in 1 .. n /\ 2 \in 1 .. n /\ (n # 2 => {3, 4, 5} \subseteq 1 .. n)
  BY DEF First
<1>3. Rank("history") = 1 /\ Rank("positions") = 2 /\ Rank("users") = 3 /\ Rank("households") = 4
  BY DEF Rank
<1>4. \A l \in 1 .. n : d[l].home = 1
  BY DEF First
<1>5. CASE i = 1
  BY <1>5 DEF First
<1>6. CASE i = 2
  <2>1. Refs(d[2]) = {1}
    BY DEF First, Refs
  <2> QED  BY <1>2, <1>3, <1>4, <1>6, <2>1 DEF First, Fits
<1>7. CASE n # 2 /\ i = 3
  <2>1. Refs(d[3]) = {1, 2}
    BY <1>7 DEF First, Refs
  <2> QED  BY <1>2, <1>3, <1>4, <1>7, <2>1 DEF First, Fits
<1>8. CASE n # 2 /\ i = 4
  <2>1. Refs(d[4]) = {1, 2}
    BY <1>8 DEF First, Refs
  <2> QED  BY <1>2, <1>3, <1>4, <1>8, <2>1 DEF First, Fits
<1>9. CASE n # 2 /\ i = 5
  <2>1. Refs(d[5]) = {4, 2}
    BY <1>9 DEF First, Refs
  <2> QED  BY <1>2, <1>3, <1>4, <1>9, <2>1 DEF First, Fits
<1>10. CASE n = 6 /\ i = 6 /\ d[6].table = "history"
  <2>1. Refs(d[6]) \subseteq {2, 3, 4, 5} /\ d[6].up = {4} /\ d[6].also \subseteq {2, 3, 5}
    BY <1>10 DEF First, Refs
  <2> QED  BY <1>2, <1>3, <1>4, <1>10, <2>1 DEF First, Fits
<1>11. CASE n = 6 /\ i = 6 /\ d[6].table = "positions"
  <2>1. Refs(d[6]) = {1, 2, 4} /\ d[6].up = {1, 4} /\ d[6].also = {2}
    BY <1>11 DEF First, Refs
  <2> QED  BY <1>2, <1>3, <1>4, <1>11, <2>1 DEF First, Fits
<1>12. n = 6 => d[6].table \in {"history", "positions"}
  BY DEF First
<1> QED  BY <1>1, <1>5, <1>6, <1>7, <1>8, <1>9, <1>10, <1>11, <1>12

\* A table put together of two rows, three, and those of t.
LEMMA Joined ==
  ASSUME NEW S, NEW a \in S, NEW b \in S, NEW c \in S, NEW d \in S, NEW e \in S,
         NEW t \in Seq(S), NEW s, s = <<a, b>> \o (<<c, d, e>> \o t)
  PROVE  /\ s \in Seq(S) /\ Len(s) = 5 + Len(t)
         /\ s[1] = a /\ s[2] = b /\ s[3] = c /\ s[4] = d /\ s[5] = e
         /\ \A i \in 1 .. Len(t) : s[5 + i] = t[i]
<1>1. PICK r : r = <<c, d, e>> \o t
  OBVIOUS
<1>2. /\ r \in Seq(S) /\ Len(r) = 3 + Len(t) /\ r[1] = c /\ r[2] = d /\ r[3] = e
      /\ \A i \in 1 .. Len(t) : r[3 + i] = t[i]
  BY <1>1
<1>3. /\ s \in Seq(S) /\ Len(s) = 2 + Len(r) /\ s[1] = a /\ s[2] = b
      /\ \A i \in 1 .. Len(r) : s[2 + i] = r[i]
  BY <1>1, <1>2
<1> QED  BY <1>2, <1>3

LEMMA InitFirst ==
  ASSUME Init
  PROVE  \E n : First(db, n) /\ next = n + 1
<1>1. PICK f, m \in Person, fsub, msub \in BOOLEAN, past \in {"alone", "going", "ended", "rolled"} :
        /\ f # m
        /\ past = "alone" => ~msub
        /\ db = <<NewRow("households", 1, {}, {}), NewUser(1, {}, f, fsub)>> \o
                IF past = "alone" THEN << >>
                ELSE << NewUser(1, {2}, m, msub),
                        [NewRow("positions", 1, {1}, {2}) EXCEPT !.deleted = past = "rolled"],
                        [NewRow("history", 1, {4}, {2}) EXCEPT !.deleted = past # "going"] >> \o
                     CASE past = "going"  -> << >>
                       [] past = "ended"  -> <<NewRow("history", 1, {4}, {3, 5})>>
                       [] past = "rolled" -> <<NewRow("positions", 1, {1, 4}, {2})>>
        /\ cred = [u \in {i \in Users(db) : ~db[i].sub} |-> u]
        /\ next = Len(db) + 1
        /\ export = Nil /\ file = Nil
        /\ tx = [t \in Tx |-> Nil] /\ begun = 0 /\ asked = 0
  BY DEF Init
<1>2. PICK r1 : r1 = NewRow("households", 1, {}, {})
  OBVIOUS
<1>3. PICK r2 : r2 = NewUser(1, {}, f, fsub)
  OBVIOUS
<1>4. PICK r3 : r3 = NewUser(1, {2}, m, msub)
  OBVIOUS
<1>5. PICK r4 : r4 = [NewRow("positions", 1, {1}, {2}) EXCEPT !.deleted = past = "rolled"]
  OBVIOUS
<1>6. PICK r5 : r5 = [NewRow("history", 1, {4}, {2}) EXCEPT !.deleted = past # "going"]
  OBVIOUS
<1>7. PICK e6 : e6 = NewRow("history", 1, {4}, {3, 5})
  OBVIOUS
<1>8. PICK d6 : d6 = NewRow("positions", 1, {1, 4}, {2})
  OBVIOUS
<1>9. {1, 2, 3, 4, 5, 6} \subseteq Id
  BY RoomAssumption, BackupAssumption DEF Id
<1>10. /\ r1 \in Row /\ r1.home = 1 /\ r1.table = "households" /\ Refs(r1) = {} /\ ~r1.deleted
  BY <1>2, <1>9 DEF NewRow, Row, Section, Refs
<1>11. /\ r2 \in Row /\ r2.home = 1 /\ r2.table = "users" /\ r2.up = {1} /\ r2.also = {}
       /\ ~r2.deleted /\ r2.who = f
  BY <1>3, <1>9 DEF NewUser, NewRow, Row, Section
<1>12. /\ r3 \in Row /\ r3.home = 1 /\ r3.table = "users" /\ r3.up = {1} /\ r3.also = {2}
       /\ ~r3.deleted /\ r3.who = m
  BY <1>4, <1>9 DEF NewUser, NewRow, Row, Section
<1>13. /\ r4 \in Row /\ r4.home = 1 /\ r4.table = "positions" /\ r4.up = {1} /\ r4.also = {2}
  BY <1>5, <1>9 DEF NewRow, Row, Section
<1>14. /\ r5 \in Row /\ r5.home = 1 /\ r5.table = "history" /\ r5.up = {4} /\ r5.also = {2}
  BY <1>6, <1>9 DEF NewRow, Row, Section
<1>15. /\ e6 \in Row /\ e6.home = 1 /\ e6.table = "history" /\ e6.up = {4} /\ e6.also = {3, 5}
  BY <1>7, <1>9 DEF NewRow, Row, Section
<1>16. /\ d6 \in Row /\ d6.home = 1 /\ d6.table = "positions" /\ d6.up = {1, 4} /\ d6.also = {2}
  BY <1>8, <1>9 DEF NewRow, Row, Section
<1>17. /\ next = Len(db) + 1
       /\ db = <<r1, r2>> \o IF past = "alone" THEN << >>
                             ELSE <<r3, r4, r5>> \o CASE past = "going"  -> << >>
                                                      [] past = "ended"  -> <<e6>>
                                                      [] past = "rolled" -> <<d6>>
  BY <1>1, <1>2, <1>3, <1>4, <1>5, <1>6, <1>7, <1>8
<1>18. CASE past = "alone"
  <2>1. PICK d : d = <<r1, r2>> \o << >>
    OBVIOUS
  <2>2. d \in Seq(Row) /\ Len(d) = 2 /\ d[1] = r1 /\ d[2] = r2 /\ db = d
    BY <1>10, <1>11, <1>17, <1>18, <2>1
  <2>3. DOMAIN d = 1 .. 2 /\ d = [i \in DOMAIN d |-> d[i]]
    BY <2>2
  <2>4. \A i \in 1 .. 2 : i = 1 \/ i = 2
    OBVIOUS
  <2>5. First(d, 2)
    BY <1>10, <1>11, <2>2, <2>3, <2>4 DEF First
  <2> QED  BY <1>17, <2>2, <2>5
<1>19. ASSUME NEW t \in Seq(Row), db = <<r1, r2>> \o (<<r3, r4, r5>> \o t),
              t = << >> \/ t = <<e6>> \/ t = <<d6>>
       PROVE  \E n : First(db, n) /\ next = n + 1
  <2>1. PICK d : d = db
    OBVIOUS
  <2>2. /\ d \in Seq(Row) /\ Len(d) = 5 + Len(t)
        /\ d[1] = r1 /\ d[2] = r2 /\ d[3] = r3 /\ d[4] = r4 /\ d[5] = r5
        /\ \A i \in 1 .. Len(t) : d[5 + i] = t[i]
    <3>1. d = <<r1, r2>> \o (<<r3, r4, r5>> \o t) /\ t \in Seq(Row)
      BY <1>19, <2>1
    <3>2. r1 \in Row /\ r2 \in Row /\ r3 \in Row /\ r4 \in Row /\ r5 \in Row
      BY <1>10, <1>11, <1>12, <1>13, <1>14
    <3> QED  BY <3>1, <3>2, Joined
  <2>3. Len(t) \in {0, 1} /\ (Len(t) = 1 => t[1] = e6 \/ t[1] = d6)
    BY <1>19
  <2>4. Len(d) \in {5, 6} /\ (Len(d) = 6 => d[6] = e6 \/ d[6] = d6)
    BY <2>2, <2>3
  <2>5. DOMAIN d = 1 .. Len(d) /\ d = [i \in DOMAIN d |-> d[i]]
    BY <2>2
  <2>6. \A i \in 1 .. Len(d) : d[i] \in Row /\ d[i].home = 1
    <3>1. d[1] \in Row /\ d[2] \in Row /\ d[3] \in Row /\ d[4] \in Row /\ d[5] \in Row
      BY <1>10, <1>11, <1>12, <1>13, <1>14, <2>2
    <3>2. d[1].home = 1 /\ d[2].home = 1 /\ d[3].home = 1 /\ d[4].home = 1 /\ d[5].home = 1
      BY <1>10, <1>11, <1>12, <1>13, <1>14, <2>2
    <3>3. Len(d) = 6 => d[6] \in Row /\ d[6].home = 1
      BY <1>15, <1>16, <2>4
    <3>4. SUFFICES ASSUME NEW l \in {5, 6}, Len(d) = l, NEW i \in 1 .. l
                   PROVE  d[i] \in Row /\ d[i].home = 1
      BY <2>4
    <3>5. i = 1 \/ i = 2 \/ i = 3 \/ i = 4 \/ i = 5 \/ (l = 6 /\ i = 6)
      OBVIOUS
    <3> QED  BY <3>1, <3>2, <3>3, <3>4, <3>5
  <2>7. Len(d) = 6 =>
          /\ d[6].also \subseteq {2, 3, 5}
          /\ \/ d[6].table = "history" /\ d[6].up = {4}
             \/ d[6].table = "positions" /\ d[6].up = {1, 4} /\ d[6].also = {2}
    BY <1>15, <1>16, <2>4
  <2>8. First(d, Len(d))
    BY <1>1, <1>10, <1>11, <1>12, <1>13, <1>14, <2>2, <2>4, <2>5, <2>6, <2>7 DEF First
  <2> QED  BY <1>17, <2>1, <2>8
<1>20. CASE past = "going"
  <2>1. << >> \in Seq(Row) /\ db = <<r1, r2>> \o (<<r3, r4, r5>> \o << >>)
    BY <1>17, <1>20
  <2> QED  BY <1>19, <2>1
<1>21. CASE past = "ended"
  <2>1. <<e6>> \in Seq(Row) /\ db = <<r1, r2>> \o (<<r3, r4, r5>> \o <<e6>>)
    BY <1>15, <1>17, <1>21
  <2> QED  BY <1>19, <2>1
<1>22. CASE past = "rolled"
  <2>1. <<d6>> \in Seq(Row) /\ db = <<r1, r2>> \o (<<r3, r4, r5>> \o <<d6>>)
    BY <1>16, <1>17, <1>22
  <2> QED  BY <1>19, <2>1
<1> QED  BY <1>1, <1>18, <1>20, <1>21, <1>22

LEMMA InitInv == Init => Inv
<1> SUFFICES ASSUME Init PROVE Inv
  OBVIOUS
<1>1. PICK n : First(db, n) /\ next = n + 1
  BY InitFirst
<1>2. PICK u : u = db
  OBVIOUS
<1>3. /\ cred = [v \in {i \in Users(db) : ~db[i].sub} |-> v]
      /\ export = Nil /\ file = Nil /\ tx = [t \in Tx |-> Nil]
  BY DEF Init
<1>4. n \in 2 .. 6 /\ DOMAIN db = 1 .. n /\ DOMAIN db \subseteq Id
  BY <1>1, RoomAssumption, BackupAssumption DEF First, Id
<1>5. \A i \in DOMAIN db :
        /\ db[i] \in Row /\ db[i].home = 1
        /\ db[i].table = "households" => i = 1 /\ Refs(db[i]) = {}
        /\ db[i].table \in {"users", "positions"} => 1 \in db[i].up
        /\ db[i].table = "history" => db[i].up # {}
        /\ \A j \in Refs(db[i]) : j \in DOMAIN db /\ Fits(db[i], j, db[j])
        /\ db[i].deleted => db[i].table \in {"positions", "history"}
  <2>1. First(u, n) /\ DOMAIN u = 1 .. n /\ \A i \in 1 .. n : u[i] \in Row /\ u[i].home = 1
    BY <1>1, <1>2 DEF First
  <2>2. \A i \in 1 .. n :
          /\ u[i].table = "households" => i = 1 /\ Refs(u[i]) = {}
          /\ u[i].table \in {"users", "positions"} => 1 \in u[i].up
          /\ u[i].table = "history" => u[i].up # {}
          /\ \A j \in Refs(u[i]) : j \in 1 .. n /\ Fits(u[i], j, u[j])
          /\ u[i].deleted => u[i].table \in {"positions", "history"}
    BY <2>1, FirstKnown
  <2>3. \A i \in DOMAIN u :
          /\ u[i] \in Row /\ u[i].home = 1
          /\ u[i].table = "households" => i = 1 /\ Refs(u[i]) = {}
          /\ u[i].table \in {"users", "positions"} => 1 \in u[i].up
          /\ u[i].table = "history" => u[i].up # {}
          /\ \A j \in Refs(u[i]) : j \in DOMAIN u /\ Fits(u[i], j, u[j])
          /\ u[i].deleted => u[i].table \in {"positions", "history"}
    BY <2>1, <2>2
  <2> QED  BY <1>2, <2>3, Zenon
<1>6. 1 \in DOMAIN db /\ db[1].table = "households"
  BY <1>1, <1>4 DEF First
<1>7. Known(u)
  <2>1. next \in 1 .. MaxId + 1 /\ \A i \in DOMAIN db : i < next
    BY <1>1, <1>4, RoomAssumption, BackupAssumption
  <2> QED  BY <1>2, <1>4, <1>5, <1>6, <2>1 DEF Known
<1>8. OneEach(db)
  <2>1. \A i \in DOMAIN db : db[i].table = "users" => i = 2 \/ (n # 2 /\ i = 3)
    BY <1>1, <1>4 DEF First
  <2> QED  BY <1>1, <2>1 DEF OneEach, Users, First
<1>9. Books(u)
  <2>1. Below(db, u) /\ Closed(db)
    BY <1>2, <1>5 DEF Below, Same, Closed
  <2>2. DOMAIN cred \subseteq Users(db) /\ \A v \in DOMAIN cred : cred[v] \in Id
    BY <1>3, <1>4 DEF Users
  <2> QED  BY <1>1, <1>8, <2>1, <2>2 DEF Books, First
<1>10. Exporting(u) /\ Exported(u)
  BY <1>3 DEF Exporting, Exported, QuietFileRestores
<1>11. DOMAIN tx = Tx /\ Open = {}
  BY <1>3 DEF Open
<1> QED  BY <1>7, <1>9, <1>10, <1>11 DEF State, Inv

LEMMA NextInv == Inv /\ [Next]_vars => Inv'
<1> SUFFICES ASSUME Inv, [Next]_vars PROVE Inv'
  OBVIOUS
<1>1. CASE UNCHANGED vars
  <2>1. PICK u : State(u)
    BY DEF Inv
  <2>2. UNCHANGED <<db, cred, next, export, file, tx>>
    BY <1>1 DEF vars
  <2>3. Known(u)' /\ Books(u)' /\ Open' = Open
    BY <2>1, <2>2 DEF State, Known, Books, Users, Open
  <2>4. Exporting(u)' /\ Exported(u)'
    BY <2>1, <2>2 DEF State, Exporting, Exported, Copy, Part, Keeps, QuietFileRestores, Users
  <2>5. \A x : Transaction(u, x) => Transaction(u, x)'
    BY <2>2 DEF Transaction, Wiping, Loading, Alone, Carrying, Users
  <2>6. \A t \in Open' : Transaction(u, tx[t])'
    BY <2>1, <2>2, <2>3, <2>5 DEF State
  <2>7. \A s, t \in Open' : s # t => Apart(tx[s], tx[t])'
    BY <2>1, <2>2, <2>3 DEF State, Apart
  <2> QED  BY <2>1, <2>2, <2>3, <2>4, <2>6, <2>7 DEF Inv, State
<1>2. ASSUME NEW p \in Person, NEW sub \in BOOLEAN, CreateFounder(p, sub)
      PROVE  Inv'
  BY <1>2, CreateFounderInv
<1>3. ASSUME NEW v \in Id, NEW from \in {{}} \cup {{p} : p \in Id}, CreatePosition(v, from)
      PROVE  Inv'
  BY <1>3, CreatePositionInv
<1>4. ASSUME NEW v \in Id, NEW i \in Id, CreateSnapshot(v, i)
      PROVE  Inv'
  BY <1>4, CreateSnapshotInv
<1>5. ASSUME NEW v \in Id, NEW i \in Id, DisplaceSnapshot(v, i)
      PROVE  Inv'
  BY <1>5, DisplaceSnapshotInv
<1>6. ASSUME NEW v \in Id, SetPassword(v)
      PROVE  Inv'
  BY <1>6, SetPasswordInv
<1>7. ASSUME NEW v \in Id, NEW p \in Person, NEW sub \in BOOLEAN, CreateMember(v, p, sub)
      PROVE  Inv'
  BY <1>7, CreateMemberInv
<1>8. ASSUME NEW p \in Id, DeletePosition(p)
      PROVE  Inv'
  BY <1>8, DeletePositionInv
<1>9. ASSUME NEW home \in Id, NEW full \in BOOLEAN, handleExport(home, full)
      PROVE  Inv'
  BY <1>9, HandleExportInv
<1>10. CASE gather
  BY <1>10, GatherInv
<1>11. ASSUME NEW t \in Tx, NEW caller \in Id,
              handleRestoreCommit(t, caller) \/ handleEraseHousehold(t, caller)
       PROVE  Inv'
  BY <1>11, BeginsInv
<1>12. ASSUME NEW t \in Tx,
              WipeWaits(t) \/ wipeHousehold(t) \/ loadHousehold(t) \/ Commit(t) \/ Rollback(t)
       PROVE  Inv'
  BY <1>12, WipeWaitsInv, WipeInv, LoadInv, CommitInv, RollbackInv
<1> QED  BY <1>1, <1>2, <1>3, <1>4, <1>5, <1>6, <1>7, <1>8, <1>9, <1>10, <1>11, <1>12 DEF Next

----------------------------------------------------------------------------
(* Theorems *)

\* Whatever is exported, restored and erased, and whatever the members write
\* meanwhile, every id ever drawn stands for one row, in the books, in an export
\* and in a file, no committed row references one that is gone, and no two
\* transactions have deleted the same row or loaded the same file.
THEOREM Invariance == Spec => []Inv
BY InitInv, NextInv, PTL DEF Spec

\* The committed tables keep their keys: references resolve, a person signs in
\* as one user, and only users have passwords.
THEOREM TypeCorrect == Spec => []TypeOK
<1>1. Inv => TypeOK
  <2> SUFFICES ASSUME Inv PROVE TypeOK
    OBVIOUS
  <2>1. PICK u : State(u)
    BY DEF Inv
  <2>2. /\ DOMAIN db \subseteq Id /\ \A i \in DOMAIN db : db[i] \in Row
        /\ DOMAIN cred \subseteq Users(db) /\ Closed(db) /\ OneEach(db)
    BY <2>1 DEF State, Known, Books, Below
  <2>3. file # Nil => \A i \in DOMAIN file.rows : file.rows[i] \in Row /\ file.rows[i].home = file.home
    BY <2>1 DEF State, Exported, Copy, Below
  <2> QED  BY <2>2, <2>3 DEF TypeOK, OneEach
<1> QED  BY <1>1, Invariance, PTL

\* What gatherHousehold reads statement by statement, while nobody writes, is a
\* file whose references resolve, but for those a compacted file leaves out.
THEOREM QuietFileRestoresHolds == Spec => []QuietFileRestores
<1>1. Inv => QuietFileRestores
  BY DEF Inv, State, Exported
<1> QED  BY <1>1, Invariance, PTL

\* The rows that the statement t is at is to delete, if nothing has come in between.
LEMMA AllTargets ==
  ASSUME NEW u, State(u), NEW t \in Open, NEW x, x = tx[t], ~x.raced, x.k \in 1 .. 4
  PROVE  Targets(t) = {i \in DOMAIN db : db[i].home = x.home /\ Rank(db[i].table) = x.k}
<1>1. Transaction(u, x)
  BY DEF State
<1>2. \A i \in DOMAIN db : db[i].table \in Section
  BY DEF State, Books, Below, Row
<1>3. x.gone = {i \in DOMAIN db : db[i].home = x.home /\ Rank(db[i].table) < x.k}
  BY <1>1 DEF Transaction, Alone
<1>4. CASE x.waits = {}
  <2>1. Targets(t) = {i \in DOMAIN db \ x.gone : db[i].home = x.home /\ db[i].table = wipeDeletes(x.k)}
    BY <1>4 DEF Targets, RowsIn, Without
  <2> QED  BY <1>2, <1>3, <2>1, WipeRanks, Ranks
<1>5. CASE x.waits # {}
  <2>1. Targets(t) = x.waits \cap DOMAIN db
    BY <1>5 DEF Targets
  <2> QED  BY <1>1, <1>5, <2>1 DEF Transaction, Alone
<1> QED  BY <1>4, <1>5

\* The wipe deletes children before parents, so the database refuses none of its
\* statements unless something came in between; nor does it refuse the load, if
\* references of the file resolve and none of its persons lives elsewhere.
THEOREM OnlyRacesFailHolds == Spec => []OnlyRacesFail
<1>1. Inv => OnlyRacesFail
  <2> SUFFICES ASSUME Inv, NEW t \in Open, ~tx[t].raced,
                      tx[t].load => Closed(file.rows) /\ ~Elsewhere(t), Refused(t)
               PROVE  FALSE
    BY DEF OnlyRacesFail
  <2>1. PICK u : State(u)
    BY DEF Inv
  <2>2. PICK x : x = tx[t]
    OBVIOUS
  <2>3. Transaction(u, x) /\ ~x.raced
    BY <2>1, <2>2 DEF State
  <2>4. x.gone = {i \in DOMAIN db : db[i].home = x.home /\ Rank(db[i].table) < x.k}
    BY <2>3 DEF Transaction, Alone
  <2>5. \A i \in DOMAIN db : /\ Rank(db[i].table) \in 1 .. 4
                             /\ db[i].home \in DOMAIN db
                             /\ i \in DOMAIN u /\ Same(db[i], u[i])
                             /\ \A j \in Refs(db[i]) : j \in DOMAIN db /\ Fits(db[i], j, db[j])
    BY <2>1, BooksRows, Ranks DEF State, Books, Below, Row
  <2>6. ASSUME AtWipe(t), WipeRefused(t)
        PROVE  FALSE
    <3>1. x.k \in 1 .. 4
      BY <2>2, <2>3, <2>6 DEF AtWipe, Transaction, Wiping
    <3>2. Targets(t) = {i \in DOMAIN db : db[i].home = x.home /\ Rank(db[i].table) = x.k}
      BY <2>1, <2>2, <2>3, <3>1, AllTargets
    <3>3. PICK i \in DOMAIN db \ (x.gone \cup Targets(t)) : Refs(db[i]) \cap Targets(t) # {}
      BY <2>2, <2>6 DEF WipeRefused, Without
    <3>4. PICK j \in Refs(db[i]) : j \in Targets(t)
      BY <3>3
    <3>5. db[j].home = db[i].home /\ Rank(db[j].table) >= Rank(db[i].table)
      BY <2>5, <3>3, <3>4 DEF Fits
    <3>6. db[i].home = x.home /\ Rank(db[i].table) <= x.k
      BY <3>2, <3>4, <3>5
    <3> QED  BY <2>4, <2>5, <3>1, <3>2, <3>3, <3>6
  <2>7. ASSUME AtLoad(t), LoadRefused(t)
        PROVE  FALSE
    <3>1. x.k = 5 /\ tx[t].load /\ x.load
      BY <2>2, <2>7 DEF AtLoad
    <3>2. x.gone = {i \in DOMAIN db : db[i].home = x.home}
      BY <2>4, <2>5, <3>1
    <3>3. PICK left : left = Without(db, x.gone)
      OBVIOUS
    <3>4. DOMAIN left = DOMAIN db \ x.gone /\ \A i \in DOMAIN left : left[i] = db[i]
      BY <3>3 DEF Without
    <3>5. PICK rows : rows = file.rows
      OBVIOUS
    <3>6. /\ Closed(rows) /\ ~Elsewhere(t)
          /\ file # Nil /\ x.as \in Users(rows) /\ rows[x.as].who = x.by.who
      BY <2>3, <3>1, <3>5 DEF Transaction, Loading
    <3>7. Copy(u, file.home, rows)
      BY <2>1, <3>5, <3>6 DEF State, Exported
    <3>8. \/ DOMAIN rows \cap DOMAIN left # {}
          \/ \E v \in Users(left), w \in Users(rows) : left[v].who = rows[w].who
          \/ \E i \in DOMAIN rows : ~(Refs(rows[i]) \subseteq DOMAIN left \cup DOMAIN rows)
      BY <2>2, <2>7, <3>3, <3>5 DEF LoadRefused
    <3>9. ASSUME NEW i \in DOMAIN rows, i \in DOMAIN left
          PROVE  FALSE
      <4>1. db[i].home = file.home /\ file.home # x.home /\ i \in DOMAIN db
        BY <2>5, <3>2, <3>4, <3>7, <3>9 DEF Copy, Below, Same
      <4>2. file.home \in DOMAIN db
        BY <2>5, <4>1
      <4>3. x.as \in DOMAIN db /\ x.as \in DOMAIN rows /\ rows[x.as].table = "users"
        BY <3>6, <3>7, <4>2 DEF Copy, Users
      <4>4. /\ db[x.as].table = "users" /\ db[x.as].who = x.by.who
            /\ db[x.as].home = file.home
        BY <2>5, <3>6, <3>7, <4>3 DEF Copy, Below, Same
      <4>5. x.caller \in Users(db) /\ db[x.caller].home = x.home /\ db[x.caller].who = x.by.who
        BY <2>3 DEF Transaction, Alone
      <4>6. x.as = x.caller
        BY <2>1, <4>3, <4>4, <4>5 DEF State, Books, OneEach, Users
      <4> QED  BY <4>1, <4>4, <4>5, <4>6
    <3>10. ASSUME NEW v \in Users(left), NEW w \in Users(rows), left[v].who = rows[w].who
           PROVE  FALSE
      <4>1. v \in Users(db) /\ db[v].home # x.home /\ db[v].who = rows[w].who
        BY <3>2, <3>4, <3>10 DEF Users
      <4> QED  BY <2>2, <3>5, <3>6, <4>1 DEF Elsewhere
    <3> QED  BY <3>6, <3>8, <3>9, <3>10 DEF Closed
  <2> QED  BY <2>6, <2>7 DEF Refused
<1> QED  BY <1>1, Invariance, PTL

\* A committed restore leaves the rows of the file and no row more of either
\* household, a committed erasure none, or a household restored in between; the
\* rows of the other households stay as they are.
THEOREM RestoreIsWholeHolds == Spec => RestoreIsWhole
<1> DEFINE Whole ==
       \A t \in Open :
         Commit(t) =>
           LET homes == {tx[t].home} \cup (IF tx[t].load THEN {file.home} ELSE {})
               rest  == {i \in DOMAIN db : db[i].home \notin homes}
               rows  == IF tx[t].load THEN file.rows ELSE << >>
           IN  \/ db' = Over([i \in rest |-> db[i]], rows)
               \/ ~tx[t].load /\ BroughtBack(t) /\ db' = db
<1>1. Inv => Whole
  <2> SUFFICES ASSUME Inv, NEW t \in Open, Commit(t)
               PROVE  LET homes == {tx[t].home} \cup (IF tx[t].load THEN {file.home} ELSE {})
                          rest  == {i \in DOMAIN db : db[i].home \notin homes}
                          rows  == IF tx[t].load THEN file.rows ELSE << >>
                      IN  \/ db' = Over([i \in rest |-> db[i]], rows)
                          \/ ~tx[t].load /\ BroughtBack(t) /\ db' = db
    OBVIOUS
  <2>1. PICK u : State(u)
    BY DEF Inv
  <2>2. PICK x : x = tx[t]
    OBVIOUS
  <2>3. PICK rows : rows = Rows(x)
    OBVIOUS
  <2>4. PICK homes : homes = {x.home} \cup (IF x.load THEN {file.home} ELSE {})
    OBVIOUS
  <2>5. PICK rest : rest = {i \in DOMAIN db : db[i].home \notin homes}
    OBVIOUS
  <2>6. PICK g : g = [i \in rest |-> db[i]]
    OBVIOUS
  <2>7. Transaction(u, x) /\ (x.k = IF x.load THEN 6 ELSE 5) /\ Outcome(u, x, rows)
    BY <2>1, <2>2, <2>3, Committed DEF Open
  <2>8. Wiping(u, x)
    BY <2>7 DEF Transaction
  <2>9. PICK left : left = Without(db, x.gone)
    OBVIOUS
  <2>10. /\ DOMAIN left = DOMAIN db \ x.gone
         /\ \A i \in DOMAIN left : db[i].home \in DOMAIN left
    <3>1. /\ DOMAIN left = DOMAIN db \ x.gone
          /\ \A i \in DOMAIN left : left[i] = db[i]
          /\ \A i \in DOMAIN left : u[i].home \in DOMAIN left /\ left[i].home = u[i].home
      BY <2>1, <2>8, <2>9, Left
    <3> QED  BY <3>1
  <2>11. ASSUME DOMAIN db \ x.gone = rest
         PROVE  db' = Over(g, rows)
    <3>1. DOMAIN g = rest /\ \A i \in rest : g[i] = db[i]
      BY <2>6
    <3>2. DOMAIN db' = DOMAIN g \cup DOMAIN rows /\ db' = [i \in DOMAIN db' |-> db'[i]]
      BY <2>7, <2>11, <3>1 DEF Outcome
    <3>3. \A i \in DOMAIN db' : db'[i] = IF i \in DOMAIN rows THEN rows[i] ELSE g[i]
      BY <2>7, <2>11, <3>1, <3>2 DEF Outcome
    <3>4. db' = [i \in DOMAIN db' |-> IF i \in DOMAIN rows THEN rows[i] ELSE g[i]]
      BY <3>2, <3>3
    <3> QED  BY <3>2, <3>4 DEF Over
  <2>12. CASE x.load
    <3>1. rows = file.rows /\ homes = {x.home, file.home} /\ x.k = 6
      BY <2>3, <2>4, <2>7, <2>12 DEF Rows
    <3>2. file.home \in DOMAIN rows /\ file.home \notin DOMAIN left
      <4>1. file # Nil
        BY <2>7, <2>12 DEF Transaction, Loading
      <4>2. file.home \in DOMAIN rows
        BY <2>1, <3>1, <4>1 DEF State, Exported
      <4> QED  BY <2>7, <2>10, <4>2 DEF Outcome
    <3>3. x.home \notin DOMAIN left
      BY <2>8, <2>10, <3>1, <3>2 DEF Wiping
    <3>4. DOMAIN db \ x.gone = rest
      <4>1. \A i \in DOMAIN left : db[i].home \notin homes
        BY <2>10, <3>1, <3>2, <3>3
      <4>2. \A i \in x.gone : db[i].home \in homes
        BY <2>8, <3>1 DEF Wiping
      <4> QED  BY <2>5, <2>10, <4>1, <4>2
    <3>5. db' = Over(g, rows)
      BY <2>11, <3>4
    <3> QED  BY <2>2, <2>4, <2>5, <2>6, <2>12, <3>1, <3>5
  <2>13. CASE ~x.load
    <3>1. rows = << >> /\ homes = {x.home} /\ x.k = 5 /\ DOMAIN rows = {}
      BY <2>3, <2>4, <2>7, <2>13 DEF Rows
    <3>2. CASE x.home \in DOMAIN left
      <4>1. x.gone = {} /\ x.raced /\ file # Nil /\ file.home = x.home
        BY <2>8, <2>10, <3>1, <3>2 DEF Wiping
      <4>2. DOMAIN db' = DOMAIN db /\ \A i \in DOMAIN db : db'[i] = db[i]
        BY <2>7, <3>1, <4>1 DEF Outcome
      <4>3. db' = [i \in DOMAIN db' |-> db'[i]] /\ db = [i \in DOMAIN db |-> db[i]]
        BY <2>1, <2>7 DEF Outcome, State, Books
      <4>4. db' = db
        BY <4>2, <4>3
      <4> QED  BY <2>2, <2>13, <4>1, <4>4 DEF BroughtBack
    <3>3. CASE x.home \notin DOMAIN left
      <4>1. \A i \in DOMAIN left : db[i].home \notin homes
        BY <2>10, <3>1, <3>3
      <4>2. \A i \in x.gone : db[i].home \in homes
        BY <2>8, <3>1 DEF Wiping
      <4>3. DOMAIN db \ x.gone = rest
        BY <2>5, <2>10, <4>1, <4>2
      <4>4. db' = Over(g, rows)
        BY <2>11, <4>3
      <4> QED  BY <2>2, <2>4, <2>5, <2>6, <2>13, <3>1, <4>4
    <3> QED  BY <3>2, <3>3
  <2> QED  BY <2>12, <2>13
<1>2. Inv /\ [Next]_vars => [Whole]_vars
  BY <1>1
<1>3. RestoreIsWhole <=> [][Whole]_vars
  BY DEF RestoreIsWhole
<1> HIDE DEF Whole
<1> QED  BY <1>2, <1>3, Invariance, PTL DEF Spec

\* Who restores is a user of the household afterwards, the same person, and has
\* the password of before, unless that was reset meanwhile.
THEOREM RestorerComesBackHolds == Spec => RestorerComesBack
<1> DEFINE Back ==
       \A t \in Open :
         Commit(t) /\ tx[t].load =>
           LET u  == tx[t].caller
               by == tx[t].by
               v  == tx[t].as
           IN  /\ v \in Users(db') /\ db'[v].who = by.who
               /\ by.sub => db'[v].sub
               /\ u \in DOMAIN cred /\ ~by.sub /\ ~tx[t].reset =>
                    v \in DOMAIN cred' /\ cred'[v] = cred[u]
<1>1. Inv => Back
  <2> SUFFICES ASSUME Inv, NEW t \in Open, Commit(t), tx[t].load
               PROVE  /\ tx[t].as \in Users(db') /\ db'[tx[t].as].who = tx[t].by.who
                      /\ tx[t].by.sub => db'[tx[t].as].sub
                      /\ tx[t].caller \in DOMAIN cred /\ ~tx[t].by.sub /\ ~tx[t].reset =>
                           tx[t].as \in DOMAIN cred' /\ cred'[tx[t].as] = cred[tx[t].caller]
    OBVIOUS
  <2>1. PICK u : State(u)
    BY DEF Inv
  <2>2. PICK x : x = tx[t]
    OBVIOUS
  <2>3. x.load /\ Transaction(u, x) /\ Outcome(u, x, Rows(x))
    BY <2>1, <2>2, Committed DEF Open
  <2>4. PICK rows : rows = file.rows
    OBVIOUS
  <2>5. /\ x.as \in Users(rows) /\ rows[x.as].who = x.by.who
        /\ x.by.sub => rows[x.as].sub
    BY <2>3, <2>4 DEF Transaction, Loading
  <2>6. x.as \in DOMAIN db' /\ db'[x.as] = rows[x.as] /\ rows[x.as].table = "users"
    <3>1. Rows(x) = rows
      BY <2>3, <2>4 DEF Rows
    <3> QED  BY <2>3, <2>5, <3>1 DEF Outcome, Users
  <2>7. ASSUME x.caller \in DOMAIN cred, ~x.by.sub, ~x.reset
        PROVE  x.as \in DOMAIN cred' /\ cred'[x.as] = cred[x.caller]
    <3>1. x.stash = cred[x.caller] /\ cred[x.caller] \in Id
      BY <2>1, <2>3, <2>7 DEF Transaction, Carrying, State, Books
    <3>2. x.stash # Nil
      BY <3>1, BackupAssumption DEF Id
    <3>3. PICK rest : rest = Without(cred, x.gone)
      OBVIOUS
    <3>4. cred' = Over(rest, [v \in {x.as} |-> x.stash])
      BY <2>2, <3>2, <3>3 DEF Commit
    <3> QED  BY <3>1, <3>4 DEF Over
  <2> QED  BY <2>2, <2>5, <2>6, <2>7 DEF Users
<1>2. Inv /\ [Next]_vars => [Back]_vars
  BY <1>1
<1>3. RestorerComesBack <=> [][Back]_vars
  BY DEF RestorerComesBack
<1> HIDE DEF Back
<1> QED  BY <1>2, <1>3, Invariance, PTL DEF Spec
=============================================================================
