------------------------ MODULE CachedReports_proofs ------------------------
(***************************************************************************)
(* Proofs about the report cache.                                          *)
(*                                                                         *)
(* Of ReportCache: what can be missing from a cached report is newer than  *)
(* it, and reading through the cache implements ReportPromise.             *)
(*                                                                         *)
(* Of ReportRefresh: what can be wrong in the reports a read is shown is   *)
(* about rows whose latest write overlapped a refresh, or that were        *)
(* written during this very read.  The invariant says of each read what it *)
(* has seen so far, of the cache what NothingOlderMissing says of it when  *)
(* nothing overlaps, and of the read that is about to list the cache why   *)
(* each cached month is right.                                             *)
(***************************************************************************)
EXTENDS ReportCache, ReportRefresh, TLAPS

\* No stamp is ahead of the clock.
Stamped == /\ \A i \in DOMAIN books : books[i].at <= now
           /\ \A m \in DOMAIN cache : cache[m].at <= now

\* A cached report rests on facts about rows of the books that feed its month.
Grounded == \A m \in DOMAIN cache : \A f \in cache[m].facts :
              f.input \in DOMAIN books /\ Feeds(f.input, f.month, m)

Inv == TypeOK /\ Stamped /\ Grounded /\ NothingOlderMissing

\* A cached fact is about a row that has not moved to a later month since, unless
\* it was postponed, and a cache has only ever been filled with a snapshot around.
Steady == /\ \A m \in DOMAIN cache : \A f \in cache[m].facts :
               f.input \notin ParentRow \cup postponed => books[f.input].month <= f.month
          /\ DOMAIN cache # {} => SnapshotRow \cap DOMAIN books # {}

----------------------------------------------------------------------------
(* The report of a month *)

\* A report holds about each row what the row says now, if it feeds the month.
LEMMA ReportOf ==
  ASSUME NEW b, NEW j \in DOMAIN b, NEW m, NEW f
  PROVE  (f \in Report(Facts(b), m) /\ f.input = j)
           <=> (b[j].value # Gone /\ Feeds(j, b[j].month, m) /\ f = Fact(b, j))
  BY DEF Report, Facts, Said, Fact

\* A report says nothing of rows that do not exist.
LEMMA ReportFacts ==
  ASSUME NEW b, NEW m, NEW f \in Report(Facts(b), m)
  PROVE  f.input \in DOMAIN b /\ Feeds(f.input, f.month, m)
  BY DEF Report, Facts, Said, Fact

\* Writing one row changes what reports hold about that row alone.
LEMMA OtherRows ==
  ASSUME NEW b, NEW c, NEW j \in DOMAIN b, j \in DOMAIN c, c[j] = b[j], NEW m
  PROVE  {f \in Report(Facts(c), m) : f.input = j} = {f \in Report(Facts(b), m) : f.input = j}
<1>1. ASSUME NEW f PROVE (f \in Report(Facts(c), m) /\ f.input = j)
                           <=> (f \in Report(Facts(b), m) /\ f.input = j)
  <2>1. Fact(c, j) = Fact(b, j)  BY DEF Fact
  <2> QED  BY <2>1, ReportOf
<1> QED  BY <1>1

\* A generated report is a value the cache may hold.
LEMMA ReportTyped ==
  ASSUME NEW b, IsBooks(b), NEW m
  PROVE  Report(Facts(b), m) \in SUBSET [input : Input, month : Month, value : Value]
<1>1. ASSUME NEW i \in Said(b)
      PROVE  Fact(b, i) \in [input : Input, month : Month, value : Value]
  BY <1>1 DEF Fact, Said, IsBooks, BookRow
<1> QED  BY <1>1 DEF Report, Facts

----------------------------------------------------------------------------
(* Invariance *)

LEMMA InitInv == Init => Inv
<1> SUFFICES ASSUME Init PROVE Inv  OBVIOUS
<1>1. PICK m \in Month, v \in Value :
        books = [i \in ParentRow |-> [month |-> m, late |-> FALSE, value |-> v, at |-> 0]]
  BY DEF Init
<1>2. IsBooks(books)  BY <1>1 DEF IsBooks, BookRow, Input
<1>3. DOMAIN cache = {} /\ shown = {} /\ postponed = {} /\ now = 0  BY DEF Init, Empty
<1>4. today \in [User -> Month] /\ engine \in Engine  BY DEF Init
<1>5. TypeOK  BY <1>2, <1>3, <1>4 DEF TypeOK
<1>6. Stamped  BY <1>1, <1>3 DEF Stamped
<1> QED  BY <1>3, <1>5, <1>6 DEF Inv, Grounded, NothingOlderMissing

\* A write is newer than every report, and leaves the other rows alone.
LEMMA WriteInv ==
  ASSUME Inv, NEW i \in Input, NEW row \in BookRow, row.at = now + 1, Write(i, row)
  PROVE  Inv'
<1> USE DEF Write, Tick
<1>1. now \in Nat /\ now' = now + 1  BY DEF Inv, TypeOK
<1>2. /\ DOMAIN books' = DOMAIN books \cup {i}
      /\ books'[i] = row
      /\ \A j \in DOMAIN books \ {i} : books'[j] = books[j]
  OBVIOUS
<1>3. IsBooks(books')  BY <1>2 DEF Inv, TypeOK, IsBooks
<1>4. TypeOK'
  <2>1. postponed' \subseteq DOMAIN books'  BY <1>2 DEF Inv, TypeOK
  <2> QED  BY <1>1, <1>3, <2>1 DEF Inv, TypeOK
<1>5. Stamped'
  <2>1. ASSUME NEW j \in DOMAIN books' PROVE books'[j].at <= now'
    <3>1. CASE j = i  BY <3>1, <1>1, <1>2
    <3>2. CASE j # i
      <4>1. books[j].at \in Nat /\ books[j].at <= now
        BY <3>2, <1>2 DEF Inv, Stamped, TypeOK, IsBooks, BookRow
      <4> QED  BY <3>2, <4>1, <1>1, <1>2
    <3> QED  BY <3>1, <3>2
  <2>2. ASSUME NEW m \in DOMAIN cache' PROVE cache'[m].at <= now'
    <3>1. cache[m].at \in Nat /\ cache[m].at <= now
      BY DEF Inv, Stamped, TypeOK, CachedReport
    <3> QED  BY <3>1, <1>1
  <2> QED  BY <2>1, <2>2 DEF Stamped
<1>6. Grounded'  BY <1>2 DEF Inv, Grounded
<1>7. NothingOlderMissing'
  <2> SUFFICES ASSUME NEW m \in DOMAIN cache, NEW j \in DOMAIN books',
                      books'[j].at <= cache[m].at
               PROVE  {f \in cache[m].facts : f.input = j}
                        = {f \in Report(Facts(books'), m) : f.input = j}
    BY DEF NothingOlderMissing
  <2>1. cache[m].at \in Nat /\ cache[m].at <= now
    BY DEF Inv, Stamped, TypeOK, CachedReport
  <2>2. j # i /\ j \in DOMAIN books /\ books'[j] = books[j]  BY <2>1, <1>1, <1>2
  <2>3. {f \in cache[m].facts : f.input = j} = {f \in Report(Facts(books), m) : f.input = j}
    BY <2>2 DEF Inv, NothingOlderMissing
  <2> QED  BY <2>2, <2>3, OtherRows
<1> QED  BY <1>4, <1>5, <1>6, <1>7 DEF Inv

\* Reports generated from the books as they are, over any months, may replace
\* any part of the cache.
LEMMA StoreInv ==
  ASSUME Inv, NEW ms \in SUBSET Month, NEW kept \in SUBSET DOMAIN cache,
         Tick, UNCHANGED <<books, today, engine>>,
         \A s \in shown' : s.to \in User /\ DOMAIN s.reports \subseteq Month,
         postponed' \subseteq postponed,
         DOMAIN cache' = kept \cup ms,
         \A m \in ms : cache'[m] = [facts |-> Report(Facts(books), m),
                                    engine |-> engine, at |-> now + 1],
         \A m \in kept \ ms : cache'[m] = cache[m]
  PROVE  Inv'
<1>1. now \in Nat /\ now' = now + 1  BY DEF Inv, TypeOK, Tick
<1>2. IsBooks(books) /\ engine \in Engine  BY DEF Inv, TypeOK
<1>3. TypeOK'
  <2>1. ASSUME NEW m \in DOMAIN cache' PROVE cache'[m] \in CachedReport(Engine)
    <3>1. CASE m \in ms
      <4>1. Report(Facts(books), m) \in SUBSET [input : Input, month : Month, value : Value]
        BY <1>2, ReportTyped
      <4> QED  BY <3>1, <4>1, <1>1, <1>2 DEF CachedReport
    <3>2. CASE m \notin ms  BY <3>2 DEF Inv, TypeOK
    <3> QED  BY <3>1, <3>2
  <2> QED  BY <2>1, <1>1 DEF Inv, TypeOK
<1>4. \A i \in DOMAIN books : books[i].at \in Nat /\ books[i].at <= now
  BY DEF Inv, Stamped, TypeOK, IsBooks, BookRow
<1>5. Stamped'
  <2>1. ASSUME NEW m \in DOMAIN cache' PROVE cache'[m].at <= now'
    <3>1. CASE m \in ms  BY <3>1, <1>1
    <3>2. CASE m \notin ms
      <4>1. cache[m].at \in Nat /\ cache[m].at <= now
        BY <3>2 DEF Inv, Stamped, TypeOK, CachedReport
      <4> QED  BY <3>2, <4>1, <1>1
    <3> QED  BY <3>1, <3>2
  <2>2. \A i \in DOMAIN books' : books'[i].at <= now'  BY <1>1, <1>4
  <2> QED  BY <2>1, <2>2 DEF Stamped
<1>6. Grounded'
  <2> SUFFICES ASSUME NEW m \in DOMAIN cache', NEW f \in cache'[m].facts
               PROVE  f.input \in DOMAIN books /\ Feeds(f.input, f.month, m)
    BY DEF Grounded
  <2>1. CASE m \in ms  BY <2>1, ReportFacts
  <2>2. CASE m \notin ms  BY <2>2 DEF Inv, Grounded
  <2> QED  BY <2>1, <2>2
<1>7. NothingOlderMissing'
  <2> SUFFICES ASSUME NEW m \in DOMAIN cache', NEW i \in DOMAIN books,
                      books[i].at <= cache'[m].at
               PROVE  {f \in cache'[m].facts : f.input = i}
                        = {f \in Report(Facts(books), m) : f.input = i}
    BY DEF NothingOlderMissing
  <2>1. CASE m \in ms  BY <2>1
  <2>2. CASE m \notin ms  BY <2>2 DEF Inv, NothingOlderMissing
  <2> QED  BY <2>1, <2>2
<1> QED  BY <1>3, <1>5, <1>6, <1>7 DEF Inv

LEMMA NextInv == Inv /\ [Next]_vars => Inv'
<1> SUFFICES ASSUME Inv, [Next]_vars PROVE Inv'  OBVIOUS
<1>0. now \in Nat /\ now + 1 \in Nat  BY DEF Inv, TypeOK
<1>1. ASSUME NEW i \in Input, NEW m \in Month, NEW late \in BOOLEAN, NEW v \in Value,
             Record(i, m, late, v) \/ Amend(i, m, late, v)
      PROVE  Inv'
  <2>1. [month |-> m, late |-> late, value |-> v, at |-> now + 1] \in BookRow
    BY <1>0 DEF BookRow
  <2> QED  BY <1>1, <2>1, WriteInv DEF Record, Amend
<1>2. ASSUME NEW i \in Input, Delete(i) PROVE Inv'
  <2>1. books[i] \in BookRow  BY <1>2 DEF Delete, Said, Inv, TypeOK, IsBooks
  <2>2. [books[i] EXCEPT !.value = Gone, !.at = now + 1] \in BookRow
    BY <2>1, <1>0 DEF BookRow
  <2>3. [books[i] EXCEPT !.value = Gone, !.at = now + 1].at = now + 1
    BY <2>1 DEF BookRow
  <2> QED  BY <1>2, <2>2, <2>3, WriteInv DEF Delete
<1>3. ASSUME NEW u \in User, Regenerate(u), UNCHANGED <<books, today, engine>>,
             \A s \in shown' : s.to \in User /\ DOMAIN s.reports \subseteq Month
      PROVE  Inv'
  <2> DEFINE ms == Months(Facts(books), today[u])
  <2>1. ms \in SUBSET Month  BY DEF Months
  <2>2. cache' = [m \in ms |-> [facts |-> Report(Facts(books), m),
                                engine |-> engine, at |-> now + 1]]
    BY <1>3 DEF Regenerate, Store, Generate
  <2>3. Tick /\ postponed' \subseteq postponed  BY <1>3 DEF Regenerate
  <2> HIDE DEF ms
  <2>4. {} \in SUBSET DOMAIN cache  OBVIOUS
  <2>5. DOMAIN cache' = {} \cup ms  BY <2>2
  <2> QED  BY <1>3, <2>1, <2>2, <2>3, <2>4, <2>5, StoreInv
<1>4. ASSUME NEW u \in User, Read(u) PROVE Inv'
  <2>1. CASE IsStale(u)
    <3>1. Regenerate(u)  BY <1>4, <2>1 DEF Read, Refresh
    <3>2. DOMAIN cache' \subseteq Month  BY <3>1 DEF Regenerate, Store, Generate, Months
    <3>3. \A s \in shown' : s.to \in User /\ DOMAIN s.reports \subseteq Month
      BY <1>4, <3>2 DEF Read
    <3> QED  BY <1>3, <1>4, <3>1, <3>3 DEF Read
  <2>2. CASE ~IsStale(u)
    <3>1. UNCHANGED <<books, cache, now, today, engine, postponed>>
      BY <1>4, <2>2 DEF Read, Refresh
    <3>2. \A s \in shown' : s.to \in User /\ DOMAIN s.reports \subseteq Month
      BY <1>4, <3>1 DEF Read, Inv, TypeOK
    <3> QED  BY <3>1, <3>2 DEF Inv, TypeOK, Stamped, Grounded, NothingOlderMissing
  <2> QED  BY <2>1, <2>2
<1>5. ASSUME NEW u \in User, RebuildAll(u) PROVE Inv'
  BY <1>3, <1>5 DEF RebuildAll, Inv, TypeOK
<1>6. ASSUME NEW u \in User, NEW m \in Month, RebuildMonth(u, m) PROVE Inv'
  <2>1. {m} \in SUBSET Month /\ DOMAIN cache \in SUBSET DOMAIN cache  OBVIOUS
  <2>2. Generate(Facts(books), {m}, engine, now + 1)[m]
          = [facts |-> Report(Facts(books), m), engine |-> engine, at |-> now + 1]
    BY DEF Generate
  <2>3. /\ DOMAIN cache' = DOMAIN cache \cup {m}
        /\ cache'[m] = [facts |-> Report(Facts(books), m), engine |-> engine, at |-> now + 1]
        /\ \A x \in DOMAIN cache \ {m} : cache'[x] = cache[x]
    BY <1>6, <2>2 DEF RebuildMonth
  <2>4. Tick /\ shown' = {} /\ UNCHANGED <<books, today, engine, postponed>>
    BY <1>6 DEF RebuildMonth
  <2> QED  BY <2>1, <2>3, <2>4, StoreInv
<1>7. ASSUME NEW u \in User, MonthBegins(u) PROVE Inv'
  <2>1. today' \in [User -> Month]  BY <1>7 DEF MonthBegins, Inv, TypeOK
  <2> QED  BY <1>7, <2>1 DEF MonthBegins, Inv, TypeOK, Stamped, Grounded, NothingOlderMissing
<1>8. ASSUME Upgrade PROVE Inv'
  BY <1>8 DEF Upgrade, Inv, TypeOK, Stamped, Grounded, NothingOlderMissing
<1>9. CASE UNCHANGED vars
  BY <1>9 DEF vars, Inv, TypeOK, Stamped, Grounded, NothingOlderMissing
<1> QED  BY <1>1, <1>2, <1>4, <1>5, <1>6, <1>7, <1>8, <1>9 DEF Next

LEMMA Invariance == Spec => []Inv
<1>1. Init => Inv  BY InitInv
<1>2. Inv /\ [Next]_vars => Inv'  BY NextInv
<1> QED  BY <1>1, <1>2, PTL DEF Spec

\* ReportCache is type correct: every cached row is a report of some facts.
THEOREM TypeCorrect == Spec => []TypeOK
<1>1. Inv => TypeOK  BY DEF Inv
<1> QED  BY <1>1, Invariance, PTL

\* Whatever users do, what a cached report lacks or has too much comes from a
\* row written after it (the ground INV-STALENESS-01 stands on).
THEOREM NothingOlderMissingHolds == Spec => []NothingOlderMissing
<1>1. Inv => NothingOlderMissing  BY DEF Inv
<1> QED  BY <1>1, Invariance, PTL

----------------------------------------------------------------------------
(* Refinement *)

\* A cache that the staleness check accepts says of every row that is not
\* overlooked what the books say.
LEMMA CurrentCache ==
  ASSUME Inv, Steady, NEW u \in User, NEW months, months = Months(Facts(books), today[u]),
         DOMAIN cache = months,
         \A m \in months, t \in Stamps(books, months) : ~(cache[m].at < t),
         NEW m \in months
  PROVE  {f \in cache[m].facts : f.input \notin Overlooked[u]}
           = {f \in Report(Facts(books), m) : f.input \notin Overlooked[u]}
<1>1. ASSUME NEW i \in Watermarked(books, months)
      PROVE  {f \in cache[m].facts : f.input = i}
               = {f \in Report(Facts(books), m) : f.input = i}
  <2>1. i \in DOMAIN books  BY DEF Watermarked
  <2>2. books[i].at \in Stamps(books, months)  BY DEF Stamps
  <2>3. cache[m].at \in Nat /\ books[i].at \in Nat
    BY <2>1 DEF Inv, TypeOK, IsBooks, BookRow, CachedReport
  <2>4. books[i].at <= cache[m].at  BY <2>2, <2>3
  <2> QED  BY <2>1, <2>4 DEF Inv, NothingOlderMissing
<1>2. m \in Int  BY MonthAssumption DEF Inv, TypeOK
\* A row that is dated past the month has nothing to say there.
<1>3. ASSUME NEW i \in DOMAIN books \ Overlooked[u], i \notin Watermarked(books, months)
      PROVE  i \notin ParentRow \cup postponed /\ books[i].month \in Int /\ m < books[i].month
  <2>1. books[i].month \in Int
    BY MonthAssumption DEF Inv, TypeOK, IsBooks, BookRow
  <2>2. i \notin ParentRow /\ ~(books[i].month < m)  BY <1>3 DEF Watermarked
  <2>3. books[i].month \notin months /\ i \notin postponed  BY <1>3 DEF Overlooked
  <2> QED  BY <1>2, <2>1, <2>2, <2>3
<1>4. ASSUME NEW f \in cache[m].facts, f.input \notin Overlooked[u]
      PROVE  f \in Report(Facts(books), m)
  <2>1. f.input \in DOMAIN books /\ Feeds(f.input, f.month, m)
    BY DEF Inv, Grounded
  <2>2. f.month \in Int
    <3>1. f \in [input : Input, month : Month, value : Value]
      BY DEF Inv, TypeOK, CachedReport
    <3> QED  BY <3>1, MonthAssumption
  <2>3. f.input \in Watermarked(books, months)
    <3> SUFFICES ASSUME f.input \notin Watermarked(books, months) PROVE FALSE  OBVIOUS
    <3>1. /\ f.input \notin ParentRow \cup postponed
          /\ books[f.input].month \in Int /\ m < books[f.input].month
      BY <1>3, <1>4, <2>1
    <3>2. f.month <= m  BY <1>2, <2>1, <2>2, <3>1 DEF Feeds
    <3>3. books[f.input].month <= f.month  BY <3>1 DEF Steady
    <3> QED  BY <1>2, <2>2, <3>1, <3>2, <3>3
  <2> QED  BY <1>1, <2>3
<1>5. ASSUME NEW f \in Report(Facts(books), m), f.input \notin Overlooked[u]
      PROVE  f \in cache[m].facts
  <2>1. f.input \in DOMAIN books /\ Feeds(f.input, books[f.input].month, m)
    BY ReportFacts, ReportOf
  <2>2. f.input \in Watermarked(books, months)
    <3> SUFFICES ASSUME f.input \notin Watermarked(books, months) PROVE FALSE  OBVIOUS
    <3>1. /\ f.input \notin ParentRow
          /\ books[f.input].month \in Int /\ m < books[f.input].month
      BY <1>3, <1>5, <2>1
    <3> QED  BY <1>2, <2>1, <3>1 DEF Feeds
  <2> QED  BY <1>1, <2>2
<1> QED  BY <1>4, <1>5

\* With nothing to report on, no cache has been filled, or the last snapshot has
\* been deleted.
LEMMA NoMonthsNoCache ==
  ASSUME Inv, Steady, NEW t, Months(Facts(books), t) = {}
  PROVE  Stranded \/ DOMAIN cache = {}
<1> SUFFICES ASSUME Snapshots(Facts(books)) # {} PROVE FALSE  BY DEF Steady, Stranded
<1>1. PICK f \in Snapshots(Facts(books)) : TRUE  OBVIOUS
<1>2. f.month \in Month /\ f.month \in Int
  <2>1. PICK i \in DOMAIN books : f = Fact(books, i)
    BY <1>1 DEF Snapshots, Facts, Said
  <2> QED  BY <2>1, MonthAssumption DEF Fact, Inv, TypeOK, IsBooks, BookRow
<1>3. f.month \in Months(Facts(books), t)  BY <1>1, <1>2 DEF Months
<1> QED  BY <1>3

\* The two modules speak of the same reports.
LEMMA PromisedReports ==
  ASSUME NEW f, NEW t, NEW m
  PROVE  Promise!Months(f, t) = Months(f, t) /\ Promise!Report(f, m) = Report(f, m)
BY DEF Promise!Months, Months, Promise!Snapshots, Snapshots, Promise!Report, Report,
       Promise!Feeds, Feeds

\* A read through the cache is a read of the books.
LEMMA ReadPromised ==
  ASSUME Inv, Steady, NEW u \in User, Read(u)
  PROVE  Promise!Read(u)
<1> DEFINE ms == Months(Facts(books), today[u])
           reports == [m \in DOMAIN cache' |-> cache'[m].facts]
<1>1. UNCHANGED <<books, today>>  BY DEF Read
<1>2. Stranded \/ /\ DOMAIN cache' = ms
                  /\ \A m \in ms :
                       {f \in cache'[m].facts : f.input \notin Overlooked[u]}
                         = {f \in Report(Facts(books), m) : f.input \notin Overlooked[u]}
  <2>1. CASE IsStale(u)
    BY <2>1 DEF Read, Refresh, Regenerate, Store, Generate
  <2>2. CASE ~IsStale(u) /\ ms = {}
    <3>1. cache' = cache  BY <2>2 DEF Read, Refresh
    <3> QED  BY <2>2, <3>1, NoMonthsNoCache
  <2>3. CASE ~IsStale(u) /\ ms # {}
    <3>1. cache' = cache  BY <2>3 DEF Read, Refresh
    <3>2. ~NeedsRegen(ms, cache, Stamps(books, ms), engine)  BY <2>3 DEF IsStale
    <3>3. DOMAIN cache = ms /\ \A m \in ms, t \in Stamps(books, ms) : ~(cache[m].at < t)
      BY <3>2 DEF NeedsRegen
    <3> HIDE DEF ms
    <3>4. ms = Months(Facts(books), today[u])  BY DEF ms
    <3> QED  BY <3>1, <3>3, <3>4, CurrentCache
  <2> QED  BY <2>1, <2>2, <2>3
<1>3. /\ shown' = {[to |-> u, reports |-> reports]}
      /\ DOMAIN reports = DOMAIN cache'
      /\ \A m \in DOMAIN cache' : reports[m] = cache'[m].facts
  BY DEF Read
<1>4. Stranded \/ Promise!Faithful(u, reports)
  <2> HIDE DEF reports
  <2>1. Promise!Months(Facts(books), today[u]) = ms  BY PromisedReports
  <2>2. \A m : Promise!Report(Facts(books), m) = Report(Facts(books), m)
    BY PromisedReports
  <2> HIDE DEF ms
  <2> QED  BY <1>2, <1>3, <2>1, <2>2 DEF Promise!Faithful
<1>5. Facts(books)' = Facts(books) /\ Stranded' = Stranded
  BY <1>1 DEF Facts, Said, Fact, Stranded, Snapshots
<1> HIDE DEF reports
<1>6. \E s \in shown' : /\ shown' = {s} /\ s.to = u
                        /\ Stranded \/ Promise!Faithful(u, s.reports)
  BY <1>3, <1>4
<1> QED  BY <1>1, <1>5, <1>6 DEF Promise!Read

LEMMA InitSteady == Init => Steady
  BY DEF Init, Empty, Steady

\* A write postpones its row or moves it to no later month.
LEMMA WriteSteady ==
  ASSUME Inv, Steady, NEW i \in Input, NEW row \in BookRow, Write(i, row)
  PROVE  Steady'
<1>1. /\ DOMAIN books' = DOMAIN books \cup {i}
      /\ books'[i] = row
      /\ \A j \in DOMAIN books \ {i} : books'[j] = books[j]
      /\ cache' = cache
      /\ postponed \subseteq postponed'
      /\ i \in DOMAIN books /\ books[i].month < row.month => i \in postponed'
  BY DEF Write
<1>2. ASSUME NEW m \in DOMAIN cache, NEW f \in cache[m].facts,
             f.input \notin ParentRow \cup postponed'
      PROVE  books'[f.input].month <= f.month
  <2>1. f.input \in DOMAIN books /\ books[f.input].month <= f.month
    BY <1>1, <1>2 DEF Inv, Grounded, Steady
  <2>2. f.month \in Int /\ row.month \in Int /\ books[f.input].month \in Int
    <3>1. f \in [input : Input, month : Month, value : Value]
      BY <1>2 DEF Inv, TypeOK, CachedReport
    <3> QED  BY <2>1, <3>1, MonthAssumption DEF Inv, TypeOK, IsBooks, BookRow
  <2>3. CASE f.input = i
    <3>1. ~(books[i].month < row.month)  BY <1>1, <1>2, <2>1, <2>3
    <3> QED  BY <1>1, <2>1, <2>2, <2>3, <3>1
  <2>4. CASE f.input # i  BY <1>1, <2>1, <2>4
  <2> QED  BY <2>3, <2>4
<1> QED  BY <1>1, <1>2 DEF Steady

\* Reports of the books as they are may replace any part of the cache; the rows
\* postponed are forgotten when they replace all of it.
LEMMA StoreSteady ==
  ASSUME Inv, Steady, NEW ms \in SUBSET Month, NEW kept \in SUBSET DOMAIN cache,
         UNCHANGED books, SnapshotRow \cap DOMAIN books # {},
         DOMAIN cache' = kept \cup ms,
         \A m \in ms : cache'[m].facts = Report(Facts(books), m),
         \A m \in kept \ ms : cache'[m] = cache[m],
         kept = {} \/ postponed' = postponed
  PROVE  Steady'
<1>1. ASSUME NEW m \in DOMAIN cache', NEW f \in cache'[m].facts,
             f.input \notin ParentRow \cup postponed'
      PROVE  books[f.input].month <= f.month
  <2>1. CASE m \in ms
    <3>1. f.input \in DOMAIN books /\ f.month = books[f.input].month
      BY <1>1, <2>1, ReportFacts, ReportOf DEF Fact
    <3>2. books[f.input].month \in Int
      BY <3>1, MonthAssumption DEF Inv, TypeOK, IsBooks, BookRow
    <3> QED  BY <3>1, <3>2
  <2>2. CASE m \notin ms  BY <1>1, <2>2 DEF Steady
  <2> QED  BY <2>1, <2>2
<1> QED  BY <1>1 DEF Steady

\* Reports are for months only if there is a snapshot.
LEMMA MonthsSnapshotted ==
  ASSUME NEW u, NEW m \in Months(Facts(books), today[u])
  PROVE  SnapshotRow \cap DOMAIN books # {}
  BY DEF Months, Snapshots, Facts, Said, Fact

LEMMA NextSteady == Inv /\ Steady /\ [Next]_vars => Steady'
<1> SUFFICES ASSUME Inv, Steady, [Next]_vars PROVE Steady'  OBVIOUS
<1>0. now \in Nat /\ now + 1 \in Nat  BY DEF Inv, TypeOK
<1>1. ASSUME NEW i \in Input, NEW m \in Month, NEW late \in BOOLEAN, NEW v \in Value,
             Record(i, m, late, v) \/ Amend(i, m, late, v)
      PROVE  Steady'
  <2>1. [month |-> m, late |-> late, value |-> v, at |-> now + 1] \in BookRow
    BY <1>0 DEF BookRow
  <2> QED  BY <1>1, <2>1, WriteSteady DEF Record, Amend
<1>2. ASSUME NEW i \in Input, Delete(i) PROVE Steady'
  <2>1. books[i] \in BookRow  BY <1>2 DEF Delete, Said, Inv, TypeOK, IsBooks
  <2>2. [books[i] EXCEPT !.value = Gone, !.at = now + 1] \in BookRow
    BY <2>1, <1>0 DEF BookRow
  <2> QED  BY <1>2, <2>2, WriteSteady DEF Delete
<1>3. ASSUME NEW u \in User, Regenerate(u), UNCHANGED books,
             Months(Facts(books), today[u]) # {}
      PROVE  Steady'
  <2> DEFINE ms == Months(Facts(books), today[u])
  <2>1. ms \in SUBSET Month  BY DEF Months
  <2>2. cache' = [m \in ms |-> [facts |-> Report(Facts(books), m),
                                engine |-> engine, at |-> now + 1]]
    BY <1>3 DEF Regenerate, Store, Generate
  <2>3. SnapshotRow \cap DOMAIN books # {}  BY <1>3, MonthsSnapshotted
  <2> HIDE DEF ms
  <2>4. {} \in SUBSET DOMAIN cache  OBVIOUS
  <2>5. DOMAIN cache' = {} \cup ms  BY <2>2
  <2> QED  BY <1>3, <2>1, <2>2, <2>3, <2>4, <2>5, StoreSteady
<1>4. ASSUME NEW u \in User, Read(u) PROVE Steady'
  <2>1. CASE IsStale(u)
    BY <1>3, <1>4, <2>1 DEF Read, Refresh, IsStale
  <2>2. CASE ~IsStale(u)
    <3>1. UNCHANGED <<books, cache, postponed>>  BY <1>4, <2>2 DEF Read, Refresh
    <3> QED  BY <3>1 DEF Steady
  <2> QED  BY <2>1, <2>2
<1>5. ASSUME NEW u \in User, RebuildAll(u) PROVE Steady'
  BY <1>3, <1>5 DEF RebuildAll
<1>6. ASSUME NEW u \in User, NEW m \in Month, RebuildMonth(u, m) PROVE Steady'
  <2>1. {m} \in SUBSET Month /\ DOMAIN cache \in SUBSET DOMAIN cache  OBVIOUS
  <2>2. Generate(Facts(books), {m}, engine, now + 1)[m].facts = Report(Facts(books), m)
    BY DEF Generate
  <2>3. /\ DOMAIN cache' = DOMAIN cache \cup {m}
        /\ cache'[m].facts = Report(Facts(books), m)
        /\ \A x \in DOMAIN cache \ {m} : cache'[x] = cache[x]
    BY <1>6, <2>2 DEF RebuildMonth
  <2>4. SnapshotRow \cap DOMAIN books # {}  BY <1>6, MonthsSnapshotted DEF RebuildMonth
  <2>5. UNCHANGED <<books, postponed>>  BY <1>6 DEF RebuildMonth
  <2> QED  BY <2>1, <2>3, <2>4, <2>5, StoreSteady
<1>7. ASSUME UNCHANGED <<books, cache, postponed>> PROVE Steady'
  BY <1>7 DEF Steady
<1> QED  BY <1>1, <1>2, <1>4, <1>5, <1>6, <1>7 DEF Next, MonthBegins, Upgrade, vars

\* Every step is a read of the books or shows nobody anything.
LEMMA NextPromised == Inv /\ Steady /\ [Next]_vars =>
                        [Promise!Next]_<<Facts(books), today, Overlooked, Stranded, shown>>
<1> SUFFICES ASSUME Inv, Steady, [Next]_vars
             PROVE  Promise!Next \/ UNCHANGED <<Facts(books), today, Overlooked, Stranded, shown>>
  OBVIOUS
<1>1. ASSUME NEW u \in User, Read(u) PROVE Promise!Next
  BY <1>1, ReadPromised DEF Promise!Next
<1>2. ASSUME shown' = {} PROVE Promise!Next
  BY <1>2 DEF Promise!Next, Promise!Change
<1>3. CASE UNCHANGED vars
  <2>1. UNCHANGED <<books, today, shown, postponed>>  BY <1>3 DEF vars
  <2> QED  BY <2>1 DEF Facts, Said, Fact, Overlooked, Watermarked, Stranded, Snapshots
<1> QED  BY <1>1, <1>2, <1>3 DEF Next, Record, Amend, Delete, Write, RebuildAll,
                           RebuildMonth, MonthBegins, Upgrade

\* Whatever is written, moved, deleted, deployed or rebuilt, a read gives the
\* reports of the books as they are, but for the rows the staleness check
\* overlooks and while all snapshots are deleted (INV-STALENESS-01 and 02, when
\* requests do not overlap).
THEOREM ReadingKeepsPromise == Spec => KeepsPromise
<1>1. Init => Inv /\ Steady  BY InitInv, InitSteady
<1>2. (Inv /\ Steady) /\ [Next]_vars => (Inv /\ Steady)'  BY NextInv, NextSteady
<1>3. Inv /\ Steady /\ [Next]_vars =>
        [Promise!Next]_<<Facts(books), today, Overlooked, Stranded, shown>>
  BY NextPromised
<1>4. Init => Promise!Init  BY DEF Init, Promise!Init
<1> QED  BY <1>1, <1>2, <1>3, <1>4, PTL DEF Spec, KeepsPromise, Promise!Spec

----------------------------------------------------------------------------
(* Reading again *)

\* A report that was just generated is newer than every row, and one that was
\* accepted is accepted again.
LEMMA ReadLeavesCurrent ==
  ASSUME Inv, NEW u \in User, NEW v \in User, Read(u),
         Months(Facts(books), today[v]) = Months(Facts(books), today[u])
  PROVE  ~IsStale(v)'
<1> DEFINE ms == Months(Facts(books), today[u])
<1>1. UNCHANGED <<books, today, engine>>  BY DEF Read
<1>2. Months(Facts(books), today[v])' = ms /\ Stamps(books, ms)' = Stamps(books, ms)
  BY <1>1 DEF Facts, Said, Fact, Stamps, Watermarked
<1>3. CASE IsStale(u)
  <2>1. cache' = [m \in ms |-> [facts |-> Report(Facts(books), m),
                                engine |-> engine, at |-> now + 1]]
    BY <1>3 DEF Read, Refresh, Regenerate, Store, Generate
  <2>2. \A t \in Stamps(books, ms) : t \in Nat /\ t <= now
    BY DEF Stamps, Watermarked, Inv, TypeOK, Stamped, IsBooks, BookRow
  <2>3. now \in Nat  BY DEF Inv, TypeOK
  <2> HIDE DEF ms
  <2>4. DOMAIN cache' = ms /\ \A m \in ms : cache'[m].engine = engine /\ cache'[m].at = now + 1
    BY <2>1
  <2>5. \A t \in Stamps(books, ms) : ~(now + 1 < t)  BY <2>2, <2>3
  <2>6. ~NeedsRegen(ms, cache', Stamps(books, ms), engine)  BY <2>4, <2>5 DEF NeedsRegen
  <2> QED  BY <1>1, <1>2, <2>6 DEF IsStale
<1>4. CASE ~IsStale(u)
  <2>1. cache' = cache  BY <1>4 DEF Read, Refresh
  <2>2. ~(ms # {} /\ NeedsRegen(ms, cache, Stamps(books, ms), engine))  BY <1>4 DEF IsStale
  <2> HIDE DEF ms
  <2> QED  BY <1>1, <1>2, <2>1, <2>2 DEF IsStale
<1> QED  BY <1>3, <1>4

\* With inputs unchanged the next read leaves the cache alone, whichever member's
\* it is, unless that member's reports range over other months
\* (INV-STALENESS-01: the cache is not thrashed).
THEOREM NotThrashedHolds == Spec => NotThrashed
<1>1. Inv /\ [Next]_vars =>
        [\A u, v \in User :
           /\ Read(u)
           /\ Months(Facts(books), today[v]) = Months(Facts(books), today[u])
           => ~IsStale(v)']_vars
  BY ReadLeavesCurrent
<1> QED  BY <1>1, Invariance, PTL DEF Spec, NotThrashed

----------------------------------------------------------------------------
(* The reads taken apart into statements (ReportRefresh) *)

AFact == [input : Input, month : Month, value : Value]

----------------------------------------------------------------------------
(* What a read holds *)

\* The tables a read has still to load.
Remaining == {Tables, <<SnapshotRow, EntryRow, RateRow>>, <<EntryRow, RateRow>>,
              <<RateRow>>, <<>>}

UnreadOf(left) == {i \in Input : \E k \in DOMAIN left : i \in left[k]}

ReadRecord == [today : Month, facts : SUBSET AFact, left : Remaining,
               stamps : SUBSET Nat, at : Nat, since : SUBSET Input]

\* A month a read has written: pruned, or as its facts have it.
Written(r, m) == \/ held[r][m] = Gone
                 \/ held[r][m] = [facts |-> Report(req[r].facts, m),
                                  engine |-> Build, at |-> req[r].at]

ReadOK(r) ==
  /\ step[r] \in Step
  /\ DOMAIN held[r] \subseteq Month
  /\ step[r] \in {"upsert", "commit"} => \A m \in DOMAIN held[r] : Written(r, m)
  /\ step[r] \notin {"upsert", "commit"} => DOMAIN held[r] = {}
  /\ step[r] # "idle" =>
       /\ req[r] \in ReadRecord
       /\ step[r] = "load" <=> req[r].left # <<>>
  /\ step[r] = "commit" => Wanted(r) \subseteq DOMAIN held[r]

TypesOK ==
  /\ IsBooks(books) /\ IsBooks(open)
  /\ DOMAIN cache \subseteq Month /\ \A m \in DOMAIN cache : cache[m] \in CachedReport({Build})
  /\ now \in Nat
  /\ step \in [Request -> Step] /\ DOMAIN req = Request /\ DOMAIN held = Request
  /\ raced \subseteq Input

----------------------------------------------------------------------------
(* Clocks and rows *)

\* No stamp is ahead of the clock, and no two transactions have the same one.
Clocked ==
  /\ \A i \in DOMAIN open : open[i].at <= now /\ open[i].at # 0
  /\ \A m \in DOMAIN cache : cache[m].at <= now
  /\ \A i \in DOMAIN open, m \in DOMAIN cache : open[i].at # cache[m].at

ClockOf(r) ==
  /\ req[r].at <= now
  /\ \A i \in DOMAIN open : open[i].at # req[r].at

\* No row is late, and rows only ever move to earlier months.
Falling ==
  /\ \A i \in DOMAIN books : ~books[i].late
  /\ \A i \in DOMAIN open : ~open[i].late
  /\ \A i \in DOMAIN open \cap DOMAIN books : open[i].month <= books[i].month

\* Facts are about rows that are there, and have not moved to later months since.
Backed(facts) ==
  \A f \in facts : f.input \in DOMAIN books /\ books[f.input].month <= f.month

\* A report rests on facts that feed its month.
Feeding == \A m \in DOMAIN cache : \A f \in cache[m].facts : Feeds(f.input, f.month, m)

Recorded == Said(books) \cap SnapshotRow

\* Of the snapshots there are, one is not about to be deleted.
Standing ==
  /\ Recorded # {} => \E i \in Recorded : i \in DOMAIN open => open[i].value # Gone
  /\ DOMAIN cache # {} => Recorded # {}

----------------------------------------------------------------------------
(* What is right about the cache *)

\* The report of m says of row i what the books say.
Agrees(m, i) == About(cache[m].facts, i) = About(Report(Facts(books), m), i)

\* A cached report that is not older than the row agrees with it, unless the
\* latest write of the row overlapped a refresh.
OnlyRacedMissing ==
  \A m \in DOMAIN cache, i \in DOMAIN books \ raced : books[i].at <= cache[m].at => Agrees(m, i)

\* What a read has seen of the rows is true, but for those whose latest write
\* overlapped a refresh.
SeenRight(r) ==
  /\ \A i \in Input \ (raced \cup UnreadOf(req[r].left)) :
       About(req[r].facts, i) = About(Facts(books), i)
  /\ \A f \in req[r].facts : f.input \notin UnreadOf(req[r].left)

\* The stamps a read compares with are those of all rows not written since.
StampsRight(r) ==
  \A i \in Watermarked(books, Wanted(r)) \ req[r].since : books[i].at \in req[r].stamps

\* These months agree with all rows, but for those this read may be wrong about.
Right(r, months) == \A m \in months, i \in Input \ (raced \cup req[r].since) : Agrees(m, i)

\* A read that goes on to list, listing without a refresh when it saw no
\* snapshot; one that has pruned, of the months that came to be there since.
Shown(r) ==
  /\ step[r] = "list" => Right(r, DOMAIN cache)
  /\ step[r] = "load" /\ Len(req[r].left) <= 2 /\ Snapshots(req[r].facts) = {}
       => Right(r, DOMAIN cache)
  /\ step[r] \in {"upsert", "commit"} =>
       Right(r, DOMAIN cache \ (DOMAIN held[r] \cup Wanted(r)))

Reading(r) ==
  /\ ClockOf(r)
  /\ Backed(req[r].facts)
  /\ Snapshots(req[r].facts) # {} => Recorded # {}
  /\ step[r] \notin {"load", "list"} => Wanted(r) # {}
  /\ step[r] # "list" => SeenRight(r)
  /\ step[r] = "check" => StampsRight(r)
  /\ Shown(r)

RefreshInv ==
  /\ TypesOK
  /\ Clocked
  /\ Falling
  /\ \A m \in DOMAIN cache : Backed(cache[m].facts)
  /\ Feeding
  /\ Standing
  /\ OnlyRacedMissing
  /\ \A r \in Request : ReadOK(r) /\ (step[r] # "idle" => Reading(r))

----------------------------------------------------------------------------
(* Facts and months *)

\* Reports of the same facts about a row say the same of it.
LEMMA SameReports ==
  ASSUME NEW F, NEW G, NEW i, About(F, i) = About(G, i), NEW m
  PROVE  About(Report(F, m), i) = About(Report(G, m), i)
<1>1. ASSUME NEW f PROVE f \in About(Report(F, m), i) <=> f \in About(Report(G, m), i)
  <2>1. f \in About(F, i) <=> f \in About(G, i)  OBVIOUS
  <2> QED  BY <2>1 DEF About, Report
<1> QED  BY <1>1 DEF About

\* The facts about a row are what the row says.
LEMMA SameRow ==
  ASSUME NEW b, NEW c, NEW i, i \in DOMAIN b <=> i \in DOMAIN c,
         i \in DOMAIN b => c[i] = b[i]
  PROVE  About(Facts(b), i) = About(Facts(c), i)
<1>1. ASSUME NEW f PROVE f \in About(Facts(b), i) <=> f \in About(Facts(c), i)
  BY DEF About, Facts, Said, Fact
<1> QED  BY <1>1 DEF About

\* A fact of the books is about a row of the books, and says what the row says.
LEMMA FactOf ==
  ASSUME NEW b, IsBooks(b), NEW f \in Facts(b)
  PROVE  /\ f \in AFact
         /\ f.input \in Said(b) /\ f.input \in DOMAIN b
         /\ f.month = b[f.input].month
<1>1. PICK i \in Said(b) : f = Fact(b, i)  BY DEF Facts
<1>2. i \in DOMAIN b /\ b[i].value # Gone  BY DEF Said
<1>3. i \in Input /\ b[i] \in BookRow  BY <1>2 DEF IsBooks
<1>4. b[i].month \in Month /\ b[i].value \in Value  BY <1>2, <1>3 DEF BookRow
<1> QED  BY <1>1, <1>2, <1>3, <1>4 DEF Fact, AFact

\* There are months to report on as soon as there is a snapshot.
LEMMA MonthsIfSnapshot ==
  ASSUME NEW F \in SUBSET AFact, NEW t
  PROVE  Snapshots(F) # {} <=> Months(F, t) # {}
<1>1. ASSUME NEW f \in Snapshots(F) PROVE f.month \in Months(F, t)
  <2>1. f.month \in Month /\ f.month \in Int
    BY MonthAssumption DEF Snapshots, AFact
  <2>2. f.month <= f.month  BY <2>1
  <2> QED  BY <2>1, <2>2 DEF Months
<1>2. ASSUME NEW m \in Months(F, t) PROVE Snapshots(F) # {}
  BY DEF Months
<1> QED  BY <1>1, <1>2

\* Months are added together, and hold no more than the calendar's.
LEMMA MonthsTyped ==
  ASSUME NEW F, NEW t
  PROVE  Months(F, t) \subseteq Month
  BY DEF Months

\* Loading a table leaves the tables after it, and nothing of that one.
LEMMA TablesInTurn ==
  ASSUME NEW left \in Remaining, left # <<>>
  PROVE  /\ Tail(left) \in Remaining
         /\ Len(left) > 1 <=> Tail(left) # <<>>
         /\ UnreadOf(Tail(left)) = UnreadOf(left) \ Head(left)
         /\ Head(left) \subseteq UnreadOf(left)
         /\ Len(Tail(left)) <= 2 => Len(left) <= 2 \/ Head(left) = SnapshotRow
<1> DEFINE four == <<ParentRow, SnapshotRow, EntryRow, RateRow>>
           three == <<SnapshotRow, EntryRow, RateRow>>
           two == <<EntryRow, RateRow>>
           one == <<RateRow>>
<1>1. \A i : i \in UnreadOf(four) <=> i \in Input
  BY DEF UnreadOf, Input
<1>2. \A i : i \in UnreadOf(three) <=> i \in SnapshotRow \cup EntryRow \cup RateRow
  BY DEF UnreadOf, Input
<1>3. \A i : i \in UnreadOf(two) <=> i \in EntryRow \cup RateRow
  BY DEF UnreadOf, Input
<1>4. \A i : i \in UnreadOf(one) <=> i \in RateRow
  BY DEF UnreadOf, Input
<1>5. \A i : i \notin UnreadOf(<<>>)
  BY DEF UnreadOf
<1>6. left \in {four, three, two, one}  BY DEF Remaining, Tables
<1>7. CASE left = four
  <2>1. Tail(left) = three /\ Head(left) = ParentRow /\ Len(left) = 4 /\ Len(three) = 3
    BY <1>7
  <2>2. three # <<>>  OBVIOUS
  <2>3. \A i : i \in UnreadOf(three) <=> i \in UnreadOf(four) \ ParentRow
    BY <1>1, <1>2, RowAssumption DEF Input
  <2>4. ParentRow \subseteq UnreadOf(four)  BY <1>1 DEF Input
  <2> HIDE DEF four, three, two, one
  <2>5. UnreadOf(three) = UnreadOf(four) \ ParentRow  BY <2>3
  <2>6. three \in Remaining  BY DEF Remaining, three
  <2>7. Len(left) > 1 <=> Tail(left) # <<>>
    <3>1. Len(left) = 4 /\ 4 > 1  BY <2>1
    <3>2. Tail(left) # <<>>  BY <2>1, <2>2, Zenon
    <3> QED  BY <3>1, <3>2
  <2>8. UnreadOf(Tail(left)) = UnreadOf(left) \ Head(left) /\ Head(left) \subseteq UnreadOf(left)
    BY <1>7, <2>1, <2>4, <2>5, Zenon
  <2>9. Len(Tail(left)) <= 2 => Len(left) <= 2 \/ Head(left) = SnapshotRow  BY <2>1
  <2>10. Tail(left) \in Remaining  BY <2>1, <2>6
  <2> QED  BY <2>7, <2>8, <2>9, <2>10
<1>8. CASE left = three
  <2>1. Tail(left) = two /\ Head(left) = SnapshotRow /\ Len(left) = 3 /\ Len(two) = 2
    BY <1>8
  <2>2. two # <<>>  OBVIOUS
  <2>3. \A i : i \in UnreadOf(two) <=> i \in UnreadOf(three) \ SnapshotRow
    BY <1>2, <1>3, RowAssumption
  <2>4. SnapshotRow \subseteq UnreadOf(three)  BY <1>2
  <2> HIDE DEF four, three, two, one
  <2>5. UnreadOf(two) = UnreadOf(three) \ SnapshotRow  BY <2>3
  <2>6. two \in Remaining  BY DEF Remaining, two
  <2>7. Len(left) > 1 <=> Tail(left) # <<>>
    <3>1. Len(left) = 3 /\ 3 > 1  BY <2>1
    <3>2. Tail(left) # <<>>  BY <2>1, <2>2, Zenon
    <3> QED  BY <3>1, <3>2
  <2>8. UnreadOf(Tail(left)) = UnreadOf(left) \ Head(left) /\ Head(left) \subseteq UnreadOf(left)
    BY <1>8, <2>1, <2>4, <2>5, Zenon
  <2>9. Len(Tail(left)) <= 2 => Len(left) <= 2 \/ Head(left) = SnapshotRow  BY <2>1
  <2>10. Tail(left) \in Remaining  BY <2>1, <2>6
  <2> QED  BY <2>7, <2>8, <2>9, <2>10
<1>9. CASE left = two
  <2>1. Tail(left) = one /\ Head(left) = EntryRow /\ Len(left) = 2 /\ Len(one) = 1
    BY <1>9
  <2>2. one # <<>>  OBVIOUS
  <2>3. \A i : i \in UnreadOf(one) <=> i \in UnreadOf(two) \ EntryRow
    BY <1>3, <1>4, RowAssumption
  <2>4. EntryRow \subseteq UnreadOf(two)  BY <1>3
  <2> HIDE DEF four, three, two, one
  <2>5. UnreadOf(one) = UnreadOf(two) \ EntryRow  BY <2>3
  <2>6. one \in Remaining  BY DEF Remaining, one
  <2>7. Len(left) > 1 <=> Tail(left) # <<>>
    <3>1. Len(left) = 2 /\ 2 > 1  BY <2>1
    <3>2. Tail(left) # <<>>  BY <2>1, <2>2, Zenon
    <3> QED  BY <3>1, <3>2
  <2>8. UnreadOf(Tail(left)) = UnreadOf(left) \ Head(left) /\ Head(left) \subseteq UnreadOf(left)
    BY <1>9, <2>1, <2>4, <2>5, Zenon
  <2>9. Len(Tail(left)) <= 2 => Len(left) <= 2 \/ Head(left) = SnapshotRow  BY <2>1
  <2>10. Tail(left) \in Remaining  BY <2>1, <2>6
  <2> QED  BY <2>7, <2>8, <2>9, <2>10
<1>10. CASE left = one
  <2>1. Tail(left) = <<>> /\ Head(left) = RateRow /\ Len(left) = 1
    BY <1>10
  <2>3. \A i : i \in UnreadOf(<<>>) <=> i \in UnreadOf(one) \ RateRow
    BY <1>4, <1>5
  <2>4. RateRow \subseteq UnreadOf(one)  BY <1>4
  <2> HIDE DEF four, three, two, one
  <2>5. UnreadOf(<<>>) = UnreadOf(one) \ RateRow  BY <2>3
  <2>6. <<>> \in Remaining  BY DEF Remaining
  <2>7. Len(left) > 1 <=> Tail(left) # <<>>  BY <2>1
  <2>8. UnreadOf(Tail(left)) = UnreadOf(left) \ Head(left) /\ Head(left) \subseteq UnreadOf(left)
    BY <1>10, <2>1, <2>4, <2>5, Zenon
  <2>9. Len(Tail(left)) <= 2 => Len(left) <= 2 \/ Head(left) = SnapshotRow  BY <2>1
  <2>10. Tail(left) \in Remaining  BY <2>1, <2>6
  <2> QED  BY <2>7, <2>8, <2>9, <2>10
<1> QED  BY <1>6, <1>7, <1>8, <1>9, <1>10

----------------------------------------------------------------------------
(* What a step leaves alone *)

\* A month and a row that a step does not touch agree as before.
LEMMA KeptAgrees ==
  ASSUME NEW m, NEW i, cache'[m] = cache[m],
         i \in DOMAIN books' <=> i \in DOMAIN books,
         i \in DOMAIN books => books'[i] = books[i]
  PROVE  Agrees(m, i)' <=> Agrees(m, i)
<1>1. About(Facts(books'), i) = About(Facts(books), i)  BY SameRow
<1>2. About(Report(Facts(books'), m), i) = About(Report(Facts(books), m), i)
  BY <1>1, SameReports
<1> QED  BY <1>2 DEF Agrees

\* A read goes on as it was while the books and the cache stay.
LEMMA StillReading ==
  ASSUME NEW r, ReadOK(r), step[r] # "idle" => Reading(r),
         UNCHANGED <<books, cache, raced>>,
         step'[r] = step[r], req'[r] = req[r], held'[r] = held[r],
         step[r] # "idle" => ClockOf(r)'
  PROVE  ReadOK(r)' /\ (step'[r] # "idle" => Reading(r)')
<1>1. Wanted(r)' = Wanted(r)  BY DEF Wanted
<1>2. ReadOK(r)'
  <2>1. \A m : Written(r, m)' <=> Written(r, m)  BY DEF Written
  <2> QED  BY <1>1, <2>1 DEF ReadOK
<1>3. ASSUME step[r] # "idle" PROVE Reading(r)'
  <2>1. Backed(req[r].facts)'
    BY <1>3 DEF Reading, Backed
  <2>2. Recorded' = Recorded  BY DEF Recorded, Said
  <2>3. SeenRight(r)' <=> SeenRight(r)  BY DEF SeenRight
  <2>4. StampsRight(r)' <=> StampsRight(r)
    BY <1>1 DEF StampsRight, Watermarked
  <2>5. \A m, i : Agrees(m, i)' <=> Agrees(m, i)  BY DEF Agrees
  <2>6. ASSUME NEW ms, Right(r, ms) PROVE Right(r, ms)'
    BY <2>5, <2>6 DEF Right
  <2>7. Shown(r)'
    BY <1>1, <1>3, <2>6 DEF Reading, Shown
  <2> QED  BY <1>1, <1>3, <2>1, <2>2, <2>3, <2>4, <2>7 DEF Reading
<1> QED  BY <1>2, <1>3

\* A statement of one read that commits nothing concerns that read alone.
LEMMA ReaderStep ==
  ASSUME RefreshInv, NEW r \in Request, UNCHANGED <<books, open, cache, raced>>,
         now' \in Nat, now <= now',
         step' \in [Request -> Step], DOMAIN req' = Request, DOMAIN held' = Request,
         \A q \in Request \ {r} : step'[q] = step[q] /\ req'[q] = req[q] /\ held'[q] = held[q],
         ReadOK(r)', step'[r] # "idle" => Reading(r)'
  PROVE  RefreshInv'
<1>0. now \in Nat  BY DEF RefreshInv, TypesOK
<1>1. TypesOK'  BY DEF RefreshInv, TypesOK
<1>2. Clocked'
  <2>1. \A i \in DOMAIN open : open[i].at \in Nat
    BY DEF RefreshInv, TypesOK, IsBooks, BookRow
  <2>2. \A m \in DOMAIN cache : cache[m].at \in Nat
    BY DEF RefreshInv, TypesOK, CachedReport
  <2> QED  BY <1>0, <2>1, <2>2 DEF RefreshInv, Clocked
<1>3. ASSUME NEW q \in Request \ {r}
      PROVE  ReadOK(q)' /\ (step'[q] # "idle" => Reading(q)')
  <2>1. ReadOK(q) /\ (step[q] # "idle" => Reading(q))  BY DEF RefreshInv
  <2>2. ASSUME step[q] # "idle" PROVE ClockOf(q)'
    <3>1. req[q].at \in Nat  BY <2>1, <2>2 DEF ReadOK, ReadRecord
    <3>2. ClockOf(q)  BY <2>1, <2>2 DEF Reading
    <3> QED  BY <1>0, <3>1, <3>2 DEF ClockOf
  <2> QED  BY <2>1, <2>2, StillReading
<1>4. Falling' /\ Feeding'  BY DEF RefreshInv, Falling, Feeding
<1>5. ASSUME NEW m \in DOMAIN cache PROVE Backed(cache[m].facts)'
  BY DEF RefreshInv, Backed
<1>6. Standing'  BY DEF RefreshInv, Standing, Recorded, Said
<1>7. OnlyRacedMissing'
  <2>1. \A m, i : Agrees(m, i)' <=> Agrees(m, i)  BY DEF Agrees
  <2> QED  BY <2>1 DEF RefreshInv, OnlyRacedMissing
<1> QED  BY <1>1, <1>2, <1>3, <1>4, <1>5, <1>6, <1>7 DEF RefreshInv

----------------------------------------------------------------------------
(* The statements of a read *)

LEMMA RefreshInitInv == RefreshInit => RefreshInv
<1> SUFFICES ASSUME RefreshInit PROVE RefreshInv  OBVIOUS
<1>1. PICK rows \in SUBSET (SnapshotRow \cup EntryRow), m \in Month, v \in Value :
        books = [i \in ParentRow \cup rows |-> [month |-> m, late |-> FALSE, value |-> v, at |-> 0]]
  BY DEF RefreshInit
<1>2. DOMAIN open = {} /\ DOMAIN cache = {} /\ now = 0 /\ raced = {}
  BY DEF RefreshInit, Empty
<1>3. IsBooks(books)  BY <1>1 DEF IsBooks, BookRow, Input
<1>4. \A r \in Request : step[r] = "idle" /\ DOMAIN held[r] = {}
  BY DEF RefreshInit, Empty
<1>5. TypesOK
  <2>1. step \in [Request -> Step] /\ DOMAIN req = Request /\ DOMAIN held = Request
    BY DEF RefreshInit, Step
  <2> QED  BY <1>2, <1>3, <2>1 DEF TypesOK, IsBooks
<1>6. Clocked /\ Falling /\ Standing /\ OnlyRacedMissing /\ Feeding
  BY <1>1, <1>2 DEF Clocked, Falling, Standing, OnlyRacedMissing, Feeding, Recorded, Said
<1>7. \A r \in Request : ReadOK(r)  BY <1>4 DEF ReadOK, Step
<1> QED  BY <1>2, <1>4, <1>5, <1>6, <1>7 DEF RefreshInv

\* A read that begins knows nothing yet.
LEMMA BeginInv ==
  ASSUME RefreshInv, NEW r \in Request, Begin(r)
  PROVE  RefreshInv'
<1>1. PICK m \in Calendar :
        req' = [req EXCEPT ![r] = [today |-> m, facts |-> {}, left |-> Tables, stamps |-> {},
                                   at |-> 0, since |-> {}]]
  BY DEF Begin
<1>2. /\ step[r] = "idle" /\ step' = [step EXCEPT ![r] = "load"]
      /\ UNCHANGED <<books, open, cache, now, held, raced>>
  BY DEF Begin, Goto
<1>3. step \in [Request -> Step] /\ DOMAIN req = Request /\ DOMAIN held = Request /\ now \in Nat
  BY DEF RefreshInv, TypesOK
<1>4. /\ step'[r] = "load" /\ held'[r] = held[r] /\ DOMAIN held[r] = {}
      /\ req'[r] = [today |-> m, facts |-> {}, left |-> Tables, stamps |-> {},
                    at |-> 0, since |-> {}]
  <2>1. DOMAIN held[r] = {}  BY <1>2 DEF RefreshInv, ReadOK
  <2> QED  BY <1>1, <1>2, <1>3, <2>1
<1>5. Tables # <<>> /\ Len(Tables) = 4  BY DEF Tables
<1>6. req'[r] \in ReadRecord
  BY <1>4, CalendarAssumption DEF ReadRecord, Remaining
<1>7. /\ req'[r].facts = {} /\ req'[r].left = Tables /\ req'[r].at = 0
  BY <1>4
<1>8. ReadOK(r)'  BY <1>4, <1>5, <1>6, <1>7 DEF ReadOK, Step
<1>9. Reading(r)'
  <2>1. ClockOf(r)'  BY <1>2, <1>3, <1>7 DEF ClockOf, RefreshInv, Clocked
  <2>2. SeenRight(r)'
    <3>1. UnreadOf(Tables) = Input  BY DEF UnreadOf, Tables, Input
    <3> QED  BY <1>7, <3>1 DEF SeenRight
  <2>3. Shown(r)'
    <3>1. ~(Len(req'[r].left) <= 2)
      <4>1. Len(req'[r].left) = 4  BY <1>5, <1>7, Zenon
      <4> QED  BY <4>1
    <3> QED  BY <1>4, <3>1 DEF Shown
  <2> QED  BY <1>4, <1>7, <2>1, <2>2, <2>3 DEF Reading, Backed, Snapshots
<1> QED  BY <1>1, <1>2, <1>3, <1>8, <1>9, ReaderStep DEF Step

LEMMA EndInv ==
  ASSUME RefreshInv, NEW r \in Request, End(r)
  PROVE  RefreshInv'
<1>1. /\ step' = [step EXCEPT ![r] = "idle"] /\ req' = [req EXCEPT ![r] = Empty]
      /\ held' = [held EXCEPT ![r] = Empty]
      /\ UNCHANGED <<books, open, cache, now, raced>>
  BY DEF End, Goto
<1>2. step \in [Request -> Step] /\ DOMAIN req = Request /\ DOMAIN held = Request /\ now \in Nat
  BY DEF RefreshInv, TypesOK
<1>3. step'[r] = "idle" /\ DOMAIN held'[r] = {}  BY <1>1, <1>2 DEF Empty
<1>4. ReadOK(r)'  BY <1>3 DEF ReadOK, Step
<1> QED  BY <1>1, <1>2, <1>3, <1>4, ReaderStep DEF Step

\* A loaded table is the table as it is.
LEMMA LoadInv ==
  ASSUME RefreshInv, NEW r \in Request, Load(r)
  PROVE  RefreshInv'
<1> DEFINE read == {f \in Facts(books) : f.input \in Head(req[r].left)}
<1>1. PICK s : s = IF Len(req[r].left) > 1 THEN "load"
                   ELSE IF Wanted(r)' = {} THEN "list" ELSE "watermark"
  OBVIOUS
<1>2. /\ step[r] = "load" /\ step' = [step EXCEPT ![r] = s]
      /\ req' = [req EXCEPT ![r].facts = @ \cup read, ![r].left = Tail(@)]
      /\ UNCHANGED <<books, open, cache, now, held, raced>>
  BY <1>1 DEF Load, Goto
<1>3. step \in [Request -> Step] /\ DOMAIN req = Request /\ DOMAIN held = Request /\ now \in Nat
  BY DEF RefreshInv, TypesOK
<1>4. ReadOK(r) /\ Reading(r)  BY <1>2 DEF RefreshInv
<1>5. req[r] \in ReadRecord /\ req[r].left # <<>> /\ DOMAIN held[r] = {}
  BY <1>2, <1>4 DEF ReadOK
<1>6. IsBooks(books)  BY DEF RefreshInv, TypesOK
<1>7. PICK left \in Remaining : left = req[r].left  BY <1>5 DEF ReadRecord
<1>8. /\ Tail(left) \in Remaining
      /\ Len(left) > 1 <=> Tail(left) # <<>>
      /\ UnreadOf(Tail(left)) = UnreadOf(left) \ Head(left)
      /\ Head(left) \subseteq UnreadOf(left)
      /\ Len(Tail(left)) <= 2 => Len(left) <= 2 \/ Head(left) = SnapshotRow
  BY <1>5, <1>7, TablesInTurn
<1>9. /\ step'[r] = s /\ held'[r] = held[r]
      /\ req'[r] = [req[r] EXCEPT !.facts = @ \cup read, !.left = Tail(@)]
  BY <1>2, <1>3
<1>10. PICK F \in SUBSET AFact : F = req[r].facts \cup read
  <2>1. read \subseteq AFact  BY <1>6, FactOf
  <2> HIDE DEF read
  <2>2. req[r].facts \subseteq AFact  BY <1>5 DEF ReadRecord
  <2> QED  BY <2>1, <2>2
<1> HIDE DEF read
<1>11. /\ req'[r].facts = F /\ req'[r].left = Tail(left)
       /\ req'[r].at = req[r].at /\ req'[r].since = req[r].since /\ req'[r].today = req[r].today
       /\ req'[r] \in ReadRecord
  BY <1>5, <1>7, <1>8, <1>9, <1>10 DEF ReadRecord
<1>12. Wanted(r)' = {} <=> Snapshots(F) = {}
  BY <1>10, <1>11, MonthsIfSnapshot DEF Wanted
<1>13. /\ s = "load" <=> Tail(left) # <<>>
       /\ s \in {"load", "list", "watermark"}
       /\ s = "list" => Len(left) <= 1 /\ Snapshots(F) = {}
       /\ s = "watermark" => Wanted(r)' # {}
  <2>1. Len(left) \in Nat  BY DEF Remaining, Tables
  <2>2. CASE Len(left) > 1  BY <1>1, <1>7, <1>8, <2>1, <2>2
  <2>3. CASE ~(Len(left) > 1)
    <3>1. Len(left) <= 1  BY <2>1, <2>3
    <3>2. CASE Wanted(r)' = {}  BY <1>1, <1>7, <1>8, <1>12, <2>3, <3>1, <3>2
    <3>3. CASE Wanted(r)' # {}  BY <1>1, <1>7, <1>8, <2>3, <3>1, <3>3
    <3> QED  BY <3>2, <3>3
  <2> QED  BY <2>2, <2>3
<1>14. ReadOK(r)'
  BY <1>5, <1>9, <1>11, <1>13 DEF ReadOK, Step
<1>15. SeenRight(r)'
  <2> SUFFICES
        /\ \A i \in Input \ (raced \cup UnreadOf(Tail(left))) :
             About(F, i) = About(Facts(books), i)
        /\ \A f \in F : f.input \notin UnreadOf(Tail(left))
    BY <1>2, <1>11 DEF SeenRight
  <2>1. SeenRight(r)  BY <1>2, <1>4 DEF Reading
  <2>2. ASSUME NEW f \in F PROVE f.input \notin UnreadOf(Tail(left))
    <3>1. CASE f \in read  BY <1>7, <1>8, <3>1 DEF read
    <3>2. CASE f \in req[r].facts  BY <1>7, <1>8, <2>1, <3>2 DEF SeenRight
    <3> QED  BY <1>10, <3>1, <3>2
  <2>3. ASSUME NEW i \in Input \ (raced \cup UnreadOf(Tail(left)))
        PROVE  About(F, i) = About(Facts(books), i)
    <3>1. CASE i \in UnreadOf(left)
      <4>1. i \in Head(left)  BY <1>8, <2>3, <3>1
      <4>2. \A f \in req[r].facts : f.input # i  BY <1>7, <2>1, <3>1 DEF SeenRight
      <4>3. \A f : f \in About(F, i) <=> f \in About(Facts(books), i)
        BY <1>7, <1>10, <4>1, <4>2 DEF About, read
      <4> QED  BY <4>3 DEF About
    <3>2. CASE i \notin UnreadOf(left)
      <4>1. i \notin Head(left)  BY <1>8, <3>2
      <4>2. About(req[r].facts, i) = About(Facts(books), i)
        BY <1>7, <2>1, <2>3, <3>2 DEF SeenRight
      <4>3. \A f : f \in About(F, i) <=> f \in About(req[r].facts, i)
        BY <1>7, <1>10, <4>1 DEF About, read
      <4>4. About(F, i) = About(req[r].facts, i)  BY <4>3 DEF About
      <4> QED  BY <4>2, <4>4
    <3> QED  BY <3>1, <3>2
  <2> QED  BY <2>2, <2>3
<1>16. Backed(req[r].facts)' /\ (Snapshots(F) # {} => Recorded # {})
  <2>1. ASSUME NEW f \in F
        PROVE  /\ f.input \in DOMAIN books /\ books[f.input].month <= f.month
               /\ f.input \in SnapshotRow => Recorded # {}
    <3>1. CASE f \in req[r].facts
      <4>1. f.input \in SnapshotRow => Snapshots(req[r].facts) # {}
        BY <3>1 DEF Snapshots
      <4> QED  BY <1>4, <3>1, <4>1 DEF Reading, Backed
    <3>2. CASE f \in read
      <4>1. f \in Facts(books)  BY <3>2 DEF read
      <4>2. f.input \in Said(books) /\ f.input \in DOMAIN books /\ f.month = books[f.input].month
        BY <1>6, <4>1, FactOf
      <4>3. books[f.input].month \in Int
        BY <1>6, <4>2, MonthAssumption DEF IsBooks, BookRow
      <4> QED  BY <4>2, <4>3 DEF Recorded
    <3> QED  BY <1>10, <3>1, <3>2
  <2>2. Snapshots(F) # {} => Recorded # {}  BY <2>1 DEF Snapshots
  <2>3. Backed(req[r].facts)'
    <3>1. \A f \in F : f.input \in DOMAIN books /\ books[f.input].month <= f.month
      BY <2>1
    <3> QED  BY <1>2, <1>11, <3>1 DEF Backed
  <2> QED  BY <2>2, <2>3
<1>17. Shown(r)'
  <2>1. ASSUME Len(Tail(left)) <= 2 \/ Len(left) <= 1, Snapshots(F) = {}
        PROVE  Right(r, DOMAIN cache)
    <3>1. CASE Head(left) = SnapshotRow
      <4>1. Recorded = {}
        <5>1. ASSUME NEW i \in Recorded PROVE FALSE
          <6>1. Fact(books, i) \in read /\ Fact(books, i).input = i
            BY <1>7, <3>1 DEF read, Recorded, Facts, Fact
          <6> QED  BY <1>10, <2>1, <6>1 DEF Snapshots, Recorded
        <5> QED  BY <5>1
      <4>2. DOMAIN cache = {}  BY <4>1 DEF RefreshInv, Standing
      <4> QED  BY <4>2 DEF Right
    <3>2. CASE Len(left) <= 2
      <4>1. Snapshots(req[r].facts) = {}  BY <1>10, <2>1 DEF Snapshots
      <4> QED  BY <1>2, <1>4, <1>7, <3>2, <4>1 DEF Reading, Shown
    <3>3. Len(left) \in Nat  BY DEF Remaining, Tables
    <3> QED  BY <1>8, <2>1, <3>1, <3>2, <3>3
  <2>2. ASSUME NEW ms, Right(r, ms) PROVE Right(r, ms)'
    BY <1>2, <1>11, <2>2 DEF Right, Agrees
  <2>3. step'[r] = "list" => Right(r, DOMAIN cache)'
    BY <1>2, <1>9, <1>13, <2>1, <2>2
  <2>4. Len(Tail(left)) <= 2 /\ Snapshots(F) = {} => Right(r, DOMAIN cache)'
    BY <1>2, <2>1, <2>2
  <2> QED  BY <1>2, <1>9, <1>11, <1>13, <2>3, <2>4 DEF Shown
<1>18. ClockOf(r)'  BY <1>2, <1>4, <1>11 DEF Reading, ClockOf
<1>19. Recorded' = Recorded  BY <1>2 DEF Recorded, Said
<1>20. Reading(r)'
  BY <1>9, <1>11, <1>13, <1>15, <1>16, <1>17, <1>18, <1>19 DEF Reading
<1> QED  BY <1>2, <1>3, <1>13, <1>14, <1>20, ReaderStep DEF Step

\* The rows the stamps are compared with are those the reports rest on.
LEMMA WatermarkInv ==
  ASSUME RefreshInv, NEW r \in Request, Watermark(r)
  PROVE  RefreshInv'
<1>1. /\ step[r] = "watermark" /\ step' = [step EXCEPT ![r] = "check"]
      /\ req' = [req EXCEPT ![r].stamps = Stamps(books, Wanted(r))]
      /\ UNCHANGED <<books, open, cache, now, held, raced>>
  BY DEF Watermark, Goto
<1>2. step \in [Request -> Step] /\ DOMAIN req = Request /\ DOMAIN held = Request /\ now \in Nat
  BY DEF RefreshInv, TypesOK
<1>3. ReadOK(r) /\ Reading(r)  BY <1>1 DEF RefreshInv
<1>4. req[r] \in ReadRecord /\ req[r].left = <<>> /\ DOMAIN held[r] = {}
  BY <1>1, <1>3 DEF ReadOK
<1>5. Stamps(books, Wanted(r)) \subseteq Nat
  <2>1. \A i \in Watermarked(books, Wanted(r)) : books[i].at \in Nat
    BY DEF Watermarked, RefreshInv, TypesOK, IsBooks, BookRow
  <2> QED  BY <2>1 DEF Stamps
<1>6. /\ step'[r] = "check" /\ held'[r] = held[r]
      /\ req'[r] = [req[r] EXCEPT !.stamps = Stamps(books, Wanted(r))]
  BY <1>1, <1>2
<1>7. /\ req'[r].facts = req[r].facts /\ req'[r].left = <<>> /\ req'[r].at = req[r].at
      /\ req'[r].since = req[r].since /\ req'[r].today = req[r].today
      /\ req'[r].stamps = Stamps(books, Wanted(r)) /\ req'[r] \in ReadRecord
  BY <1>4, <1>5, <1>6 DEF ReadRecord
<1>8. Wanted(r)' = Wanted(r)  BY <1>7 DEF Wanted
<1>9. ReadOK(r)'  BY <1>4, <1>6, <1>7 DEF ReadOK, Step
<1>10. StampsRight(r)'  BY <1>1, <1>7, <1>8 DEF StampsRight, Stamps, Watermarked
<1>11. SeenRight(r)'
  <2>1. SeenRight(r)  BY <1>1, <1>3 DEF Reading
  <2> QED  BY <1>1, <1>4, <1>7, <2>1 DEF SeenRight
<1>12. ClockOf(r)' /\ Backed(req[r].facts)' /\ Recorded' = Recorded
  BY <1>1, <1>3, <1>7 DEF Reading, ClockOf, Backed, Recorded, Said
<1>13. Reading(r)'
  BY <1>1, <1>3, <1>6, <1>7, <1>8, <1>10, <1>11, <1>12 DEF Reading, Shown
<1> QED  BY <1>1, <1>2, <1>9, <1>13, ReaderStep DEF Step

\* A cache the staleness check accepts agrees with every row that was not written
\* since the read began.
LEMMA AcceptedRight ==
  ASSUME RefreshInv, NEW r \in Request, step[r] = "check",
         ~NeedsRegen(Wanted(r), cache, req[r].stamps, Build)
  PROVE  Right(r, DOMAIN cache)
<1>1. DOMAIN cache = Wanted(r) /\ \A m \in DOMAIN cache, t \in req[r].stamps : ~(cache[m].at < t)
  BY DEF NeedsRegen
<1>2. StampsRight(r)  BY DEF RefreshInv, Reading
<1> SUFFICES ASSUME NEW m \in DOMAIN cache, NEW i \in Input \ (raced \cup req[r].since)
             PROVE  Agrees(m, i)
  BY DEF Right
<1>3. cache[m] \in CachedReport({Build}) /\ m \in Int /\ IsBooks(books)
  BY MonthAssumption DEF RefreshInv, TypesOK
<1>4. CASE i \in DOMAIN books /\ (i \in ParentRow \/ books[i].month <= m)
  <2>1. books[i].month \in Int /\ books[i].at \in Nat /\ cache[m].at \in Nat /\ ~books[i].late
    BY <1>3, <1>4, MonthAssumption DEF IsBooks, BookRow, CachedReport, RefreshInv, Falling
  <2>2. i \in Watermarked(books, Wanted(r))  BY <1>1, <1>3, <1>4, <2>1 DEF Watermarked
  <2>3. books[i].at \in req[r].stamps  BY <1>2, <2>2 DEF StampsRight
  <2>4. books[i].at <= cache[m].at  BY <1>1, <2>1, <2>3
  <2> QED  BY <1>4, <2>4 DEF RefreshInv, OnlyRacedMissing
<1>5. CASE ~(i \in DOMAIN books /\ (i \in ParentRow \/ books[i].month <= m))
  <2>1. ASSUME NEW f \in cache[m].facts, f.input = i PROVE FALSE
    <3>1. /\ i \in DOMAIN books /\ books[i].month <= f.month
          /\ Feeds(i, f.month, m)
      BY <2>1 DEF RefreshInv, Backed, Feeding
    <3>2. f.month \in Int /\ books[i].month \in Int
      BY <1>3, <3>1, MonthAssumption DEF IsBooks, BookRow, CachedReport
    <3>3. i \in ParentRow \/ f.month <= m  BY <1>3, <3>1, <3>2 DEF Feeds
    <3> QED  BY <1>3, <1>5, <3>1, <3>2, <3>3
  <2>2. ASSUME NEW f \in Report(Facts(books), m), f.input = i PROVE FALSE
    <3>1. i \in DOMAIN books /\ f.month = books[i].month /\ Feeds(i, f.month, m)
      BY <1>3, <2>2, FactOf DEF Report
    <3>2. books[i].month \in Int
      BY <1>3, <3>1, MonthAssumption DEF IsBooks, BookRow
    <3>3. i \in ParentRow \/ books[i].month <= m  BY <1>3, <3>1, <3>2 DEF Feeds
    <3> QED  BY <1>5, <3>1, <3>3
  <2>3. About(cache[m].facts, i) = {}  BY <2>1 DEF About
  <2>4. About(Report(Facts(books), m), i) = {}  BY <2>2 DEF About
  <2> QED  BY <2>3, <2>4 DEF Agrees
<1> QED  BY <1>4, <1>5

LEMMA CheckInv ==
  ASSUME RefreshInv, NEW r \in Request, Check(r)
  PROVE  RefreshInv'
<1>1. PICK s : s = IF NeedsRegen(Wanted(r), cache, req[r].stamps, Build) THEN "begin" ELSE "list"
  OBVIOUS
<1>2. /\ step[r] = "check" /\ step' = [step EXCEPT ![r] = s]
      /\ UNCHANGED <<books, open, cache, now, req, held, raced>>
  BY <1>1 DEF Check, Goto
<1>3. step \in [Request -> Step] /\ DOMAIN req = Request /\ DOMAIN held = Request /\ now \in Nat
  BY DEF RefreshInv, TypesOK
<1>4. ReadOK(r) /\ Reading(r)  BY <1>2 DEF RefreshInv
<1>5. step'[r] = s /\ s \in {"begin", "list"}  BY <1>1, <1>2, <1>3
<1>6. s = "list" => Right(r, DOMAIN cache)  BY <1>1, <1>2, AcceptedRight
<1>7. ReadOK(r)'  BY <1>2, <1>4, <1>5 DEF ReadOK, Step
<1>8. Wanted(r)' = Wanted(r) /\ Recorded' = Recorded  BY <1>2 DEF Wanted, Recorded, Said
<1>9. SeenRight(r)'
  <2>1. SeenRight(r)  BY <1>2, <1>4 DEF Reading
  <2> QED  BY <1>2, <2>1 DEF SeenRight
<1>10. Shown(r)'
  <2>1. Right(r, DOMAIN cache) => Right(r, DOMAIN cache)'  BY <1>2 DEF Right, Agrees
  <2> QED  BY <1>5, <1>6, <2>1 DEF Shown
<1>11. ClockOf(r)' /\ Backed(req[r].facts)'
  BY <1>2, <1>4 DEF Reading, ClockOf, Backed
<1>12. Reading(r)'  BY <1>2, <1>4, <1>5, <1>8, <1>9, <1>10, <1>11 DEF Reading
<1> QED  BY <1>2, <1>3, <1>5, <1>7, <1>12, ReaderStep DEF Step

LEMMA BeginRegenerationInv ==
  ASSUME RefreshInv, NEW r \in Request, BeginRegeneration(r)
  PROVE  RefreshInv'
<1>1. /\ step[r] = "begin" /\ step' = [step EXCEPT ![r] = "prune"]
      /\ now' = now + 1 /\ req' = [req EXCEPT ![r].at = now + 1]
      /\ UNCHANGED <<books, open, cache, held, raced>>
  BY DEF BeginRegeneration, Goto
<1>2. step \in [Request -> Step] /\ DOMAIN req = Request /\ DOMAIN held = Request /\ now \in Nat
  BY DEF RefreshInv, TypesOK
<1>3. ReadOK(r) /\ Reading(r)  BY <1>1 DEF RefreshInv
<1>4. req[r] \in ReadRecord /\ req[r].left = <<>> /\ DOMAIN held[r] = {}
  BY <1>1, <1>3 DEF ReadOK
<1>5. step'[r] = "prune" /\ held'[r] = held[r] /\ req'[r] = [req[r] EXCEPT !.at = now + 1]
  BY <1>1, <1>2
<1>6. /\ req'[r].facts = req[r].facts /\ req'[r].left = <<>> /\ req'[r].at = now + 1
      /\ req'[r].since = req[r].since /\ req'[r].today = req[r].today
      /\ req'[r] \in ReadRecord
  BY <1>2, <1>4, <1>5 DEF ReadRecord
<1>7. Wanted(r)' = Wanted(r) /\ Recorded' = Recorded
  BY <1>1, <1>6 DEF Wanted, Recorded, Said
<1>8. ReadOK(r)'  BY <1>4, <1>5, <1>6 DEF ReadOK, Step
<1>9. SeenRight(r)'
  <2>1. SeenRight(r)  BY <1>1, <1>3 DEF Reading
  <2> QED  BY <1>1, <1>4, <1>6, <2>1 DEF SeenRight
<1>10. ClockOf(r)'
  <2>1. \A i \in DOMAIN open : open[i].at \in Nat /\ open[i].at <= now
    BY DEF RefreshInv, TypesOK, IsBooks, BookRow, Clocked
  <2>2. \A i \in DOMAIN open : open[i].at # now + 1  BY <1>2, <2>1
  <2> QED  BY <1>1, <1>2, <1>6, <2>2 DEF ClockOf
<1>11. Backed(req[r].facts)'  BY <1>1, <1>3, <1>6 DEF Reading, Backed
<1>12. Reading(r)'
  BY <1>1, <1>3, <1>5, <1>6, <1>7, <1>9, <1>10, <1>11 DEF Reading, Shown
<1> QED  BY <1>1, <1>2, <1>8, <1>12, ReaderStep DEF Step

\* When a read has pruned, no month is left but those it is going to write.
LEMMA PruneInv ==
  ASSUME RefreshInv, NEW r \in Request, Prune(r)
  PROVE  RefreshInv'
<1>1. /\ step[r] = "prune" /\ step' = [step EXCEPT ![r] = "upsert"]
      /\ held' = [held EXCEPT ![r] = [m \in Pruned(r) |-> Gone]]
      /\ UNCHANGED <<books, open, cache, now, req, raced>>
  BY DEF Prune, Goto
<1>2. step \in [Request -> Step] /\ DOMAIN req = Request /\ DOMAIN held = Request /\ now \in Nat
  BY DEF RefreshInv, TypesOK
<1>3. ReadOK(r) /\ Reading(r)  BY <1>1 DEF RefreshInv
<1>4. step'[r] = "upsert" /\ held'[r] = [m \in Pruned(r) |-> Gone]  BY <1>1, <1>2
<1>5. Pruned(r) = DOMAIN cache \ Wanted(r) /\ DOMAIN cache \subseteq Month
  BY DEF Pruned, RefreshInv, TypesOK
<1>6. DOMAIN held'[r] = DOMAIN cache \ Wanted(r) /\ \A m \in DOMAIN held'[r] : held'[r][m] = Gone
  BY <1>4, <1>5
<1>7. ReadOK(r)'
  <2>1. \A m \in DOMAIN held'[r] : Written(r, m)'  BY <1>6 DEF Written
  <2> QED  BY <1>1, <1>3, <1>4, <1>5, <1>6, <2>1 DEF ReadOK, Step
<1>8. Wanted(r)' = Wanted(r) /\ Recorded' = Recorded  BY <1>1 DEF Wanted, Recorded, Said
<1>9. SeenRight(r)'
  <2>1. SeenRight(r)  BY <1>1, <1>3 DEF Reading
  <2> QED  BY <1>1, <2>1 DEF SeenRight
<1>10. Shown(r)'
  <2>1. DOMAIN cache \ (DOMAIN held'[r] \cup Wanted(r)) = {}  BY <1>6
  <2>2. (DOMAIN cache \ (DOMAIN held[r] \cup Wanted(r)))' = {}  BY <1>1, <1>8, <2>1
  <2> QED  BY <1>4, <2>2 DEF Shown, Right
<1>11. ClockOf(r)' /\ Backed(req[r].facts)'
  BY <1>1, <1>3 DEF Reading, ClockOf, Backed
<1>12. Reading(r)'  BY <1>1, <1>3, <1>4, <1>8, <1>9, <1>10, <1>11 DEF Reading
<1> QED  BY <1>1, <1>2, <1>7, <1>12, ReaderStep DEF Step

\* An upsert writes the report of what the read has seen.
LEMMA UpsertInv ==
  ASSUME RefreshInv, NEW r \in Request, Upsert(r)
  PROVE  RefreshInv'
<1>1. PICK s, next, h : /\ s = IF Unwritten(r) \subseteq NextMonth(r) THEN "commit" ELSE "upsert"
                        /\ next = NextMonth(r)
                        /\ h = Over(Generate(req[r].facts, NextMonth(r), Build, req[r].at), held[r])
  OBVIOUS
<1>2. /\ step[r] = "upsert" /\ step' = [step EXCEPT ![r] = s]
      /\ held' = [held EXCEPT ![r] = h]
      /\ UNCHANGED <<books, open, cache, now, req, raced>>
  BY <1>1 DEF Upsert, Goto
<1>3. step \in [Request -> Step] /\ DOMAIN req = Request /\ DOMAIN held = Request /\ now \in Nat
  BY DEF RefreshInv, TypesOK
<1>4. ReadOK(r) /\ Reading(r)  BY <1>2 DEF RefreshInv
<1>5. step'[r] = s /\ s \in {"commit", "upsert"} /\ held'[r] = h  BY <1>1, <1>2, <1>3
<1>6. next \subseteq Wanted(r) /\ Wanted(r) \subseteq Month
  BY <1>1, MonthsTyped DEF NextMonth, Unwritten, Wanted
<1>7. /\ DOMAIN h = next \cup DOMAIN held[r]
      /\ \A m \in next : h[m] = [facts |-> Report(req[r].facts, m), engine |-> Build, at |-> req[r].at]
      /\ \A m \in DOMAIN held[r] \ next : h[m] = held[r][m]
  BY <1>1 DEF Over, Generate
<1>8. Wanted(r)' = Wanted(r) /\ Recorded' = Recorded  BY <1>2 DEF Wanted, Recorded, Said
<1>9. ReadOK(r)'
  <2>1. ASSUME NEW m \in DOMAIN h PROVE Written(r, m)'
    <3>1. CASE m \in next  BY <1>2, <1>5, <1>7, <3>1 DEF Written
    <3>2. CASE m \notin next
      <4>1. Written(r, m)  BY <1>2, <1>4, <1>7, <3>2 DEF ReadOK
      <4> QED  BY <1>2, <1>5, <1>7, <3>2, <4>1 DEF Written
    <3> QED  BY <3>1, <3>2
  <2>2. s = "commit" => Wanted(r) \subseteq DOMAIN h
    BY <1>1, <1>7 DEF Unwritten
  <2>3. DOMAIN h \subseteq Month  BY <1>2, <1>4, <1>6, <1>7 DEF ReadOK
  <2> QED  BY <1>2, <1>4, <1>5, <1>8, <2>1, <2>2, <2>3 DEF ReadOK, Step
<1>10. SeenRight(r)'
  <2>1. SeenRight(r)  BY <1>2, <1>4 DEF Reading
  <2> QED  BY <1>2, <2>1 DEF SeenRight
<1>11. Shown(r)'
  <2>1. Right(r, DOMAIN cache \ (DOMAIN held[r] \cup Wanted(r)))
    BY <1>2, <1>4 DEF Reading, Shown
  <2>2. Right(r, DOMAIN cache \ (DOMAIN h \cup Wanted(r)))  BY <1>7, <2>1 DEF Right
  <2>3. Right(r, DOMAIN cache \ (DOMAIN held[r] \cup Wanted(r)))'
    BY <1>2, <1>5, <1>8, <2>2 DEF Right, Agrees
  <2> QED  BY <1>5, <2>3 DEF Shown
<1>12. ClockOf(r)' /\ Backed(req[r].facts)'
  BY <1>2, <1>4 DEF Reading, ClockOf, Backed
<1>13. Reading(r)'  BY <1>2, <1>4, <1>5, <1>8, <1>10, <1>11, <1>12 DEF Reading
<1> QED  BY <1>2, <1>3, <1>5, <1>9, <1>13, ReaderStep DEF Step

\* A committed refresh replaces months by reports of what it has seen, which is
\* true of every row but those whose latest write overlapped it.
LEMMA CommitInv ==
  ASSUME RefreshInv, NEW r \in Request, Commit(r)
  PROVE  RefreshInv'
<1>1. /\ step[r] = "commit" /\ step' = [step EXCEPT ![r] = "list"]
      /\ held' = [held EXCEPT ![r] = Empty]
      /\ UNCHANGED <<books, open, now, req, raced>>
  BY DEF Commit, Goto
<1>2. step \in [Request -> Step] /\ DOMAIN req = Request /\ DOMAIN held = Request /\ now \in Nat
  BY DEF RefreshInv, TypesOK
<1>3. ReadOK(r) /\ Reading(r)  BY <1>1 DEF RefreshInv
<1>4. req[r] \in ReadRecord /\ req[r].left = <<>>  BY <1>1, <1>3 DEF ReadOK
<1>5. step'[r] = "list" /\ DOMAIN held'[r] = {}  BY <1>1, <1>2 DEF Empty
<1>6. ASSUME NEW m \in DOMAIN cache'
      PROVE  \/ /\ m \in DOMAIN held[r]
                /\ cache'[m] = [facts |-> Report(req[r].facts, m), engine |-> Build, at |-> req[r].at]
             \/ m \in DOMAIN cache \ DOMAIN held[r] /\ cache'[m] = cache[m]
  <2>1. PICK all : all = Over(held[r], cache)  OBVIOUS
  <2>2. cache' = [n \in {k \in DOMAIN all : all[k] # Gone} |-> all[n]]
    BY <2>1 DEF Commit, Publish
  <2>3. m \in DOMAIN all /\ all[m] # Gone /\ cache'[m] = all[m]  BY <2>2
  <2>4. CASE m \in DOMAIN held[r]
    <3>1. all[m] = held[r][m]  BY <2>1, <2>4 DEF Over
    <3>2. Written(r, m)  BY <1>1, <1>3, <2>4 DEF ReadOK
    <3> QED  BY <2>3, <2>4, <3>1, <3>2 DEF Written
  <2>5. CASE m \notin DOMAIN held[r]  BY <2>1, <2>3, <2>5 DEF Over
  <2> QED  BY <2>4, <2>5
<1>7. SeenRight(r)  BY <1>1, <1>3 DEF Reading
<1>8. ASSUME NEW m \in DOMAIN cache', m \in DOMAIN held[r], NEW i \in Input \ raced
      PROVE  Agrees(m, i)'
  <2>1. cache'[m].facts = Report(req[r].facts, m)  BY <1>6, <1>8
  <2>2. i \notin UnreadOf(<<>>)  BY DEF UnreadOf
  <2>3. About(req[r].facts, i) = About(Facts(books), i)  BY <1>4, <1>7, <2>2 DEF SeenRight
  <2>4. About(Report(req[r].facts, m), i) = About(Report(Facts(books), m), i)
    BY <2>3, SameReports
  <2> QED  BY <1>1, <2>1, <2>4 DEF Agrees
<1>9. ASSUME NEW m \in DOMAIN cache', m \notin DOMAIN held[r], NEW i, Agrees(m, i)
      PROVE  Agrees(m, i)'
  BY <1>1, <1>6, <1>9 DEF Agrees
<1>10. TypesOK'
  <2>1. ASSUME NEW m \in DOMAIN cache' PROVE m \in Month /\ cache'[m] \in CachedReport({Build})
    <3>1. CASE m \in DOMAIN held[r]
      <4>1. m \in Month  BY <1>3, <3>1 DEF ReadOK
      <4>2. Report(req[r].facts, m) \in SUBSET AFact  BY <1>4 DEF Report, ReadRecord
      <4>3. req[r].at \in Nat  BY <1>4 DEF ReadRecord
      <4>4. cache'[m] = [facts |-> Report(req[r].facts, m), engine |-> Build, at |-> req[r].at]
        BY <1>6, <3>1
      <4> QED  BY <4>1, <4>2, <4>3, <4>4 DEF CachedReport, AFact
    <3>2. CASE m \notin DOMAIN held[r]  BY <1>6, <3>2 DEF RefreshInv, TypesOK
    <3> QED  BY <3>1, <3>2
  <2>2. step' \in [Request -> Step] /\ DOMAIN held' = Request  BY <1>1, <1>2 DEF Step
  <2> QED  BY <1>1, <2>1, <2>2 DEF RefreshInv, TypesOK
<1>11. Clocked'
  <2>1. ASSUME NEW m \in DOMAIN cache'
        PROVE  cache'[m].at <= now /\ \A i \in DOMAIN open : open[i].at # cache'[m].at
    <3>1. CASE m \in DOMAIN held[r]
      <4>1. cache'[m].at = req[r].at  BY <1>6, <3>1
      <4> QED  BY <1>3, <4>1 DEF Reading, ClockOf
    <3>2. CASE m \notin DOMAIN held[r]  BY <1>6, <3>2 DEF RefreshInv, Clocked
    <3> QED  BY <3>1, <3>2
  <2> QED  BY <1>1, <2>1 DEF RefreshInv, Clocked
<1>12. ASSUME NEW m \in DOMAIN cache'
       PROVE  /\ Backed(cache'[m].facts)
              /\ \A f \in cache'[m].facts : Feeds(f.input, f.month, m)
  <2>1. CASE m \in DOMAIN held[r]
    <3>1. cache'[m].facts = Report(req[r].facts, m)  BY <1>6, <2>1
    <3> QED  BY <1>3, <3>1 DEF Reading, Backed, Report
  <2>2. CASE m \notin DOMAIN held[r]
    <3>1. m \in DOMAIN cache /\ cache'[m] = cache[m]  BY <1>6, <2>2
    <3> QED  BY <3>1 DEF RefreshInv, Feeding
  <2> QED  BY <2>1, <2>2
<1>13. Falling' /\ Feeding'  BY <1>1, <1>12 DEF RefreshInv, Falling, Feeding
<1>14. \A m \in DOMAIN cache' : Backed(cache[m].facts)'  BY <1>1, <1>12 DEF Backed
<1>15. Recorded' = Recorded /\ Recorded # {}
  <2>1. Wanted(r) # {}  BY <1>1, <1>3 DEF Reading
  <2>2. Snapshots(req[r].facts) # {}  BY <1>4, <2>1, MonthsIfSnapshot DEF Wanted, ReadRecord
  <2> QED  BY <1>1, <1>3, <2>2 DEF Reading, Recorded, Said
<1>16. Standing'  BY <1>1, <1>15 DEF RefreshInv, Standing
<1>17. OnlyRacedMissing'
  <2> SUFFICES ASSUME NEW m \in DOMAIN cache', NEW i \in DOMAIN books \ raced,
                      books[i].at <= cache'[m].at
               PROVE  Agrees(m, i)'
    BY <1>1 DEF OnlyRacedMissing
  <2>1. CASE m \in DOMAIN held[r]
    <3>1. i \in Input  BY DEF RefreshInv, TypesOK, IsBooks
    <3> QED  BY <1>8, <2>1, <3>1
  <2>2. CASE m \notin DOMAIN held[r]
    <3>1. m \in DOMAIN cache /\ cache'[m] = cache[m]  BY <1>6, <2>2
    <3>2. Agrees(m, i)  BY <3>1 DEF RefreshInv, OnlyRacedMissing
    <3> QED  BY <1>9, <2>2, <3>2
  <2> QED  BY <2>1, <2>2
<1>18. ASSUME NEW q \in Request, NEW ms, Right(q, ms \ DOMAIN held[r])
       PROVE  Right(q, ms \cap DOMAIN cache)'
  <2> SUFFICES ASSUME NEW m \in ms, m \in DOMAIN cache',
                      NEW i \in Input \ (raced \cup req[q].since)
               PROVE  Agrees(m, i)'
    BY <1>1 DEF Right
  <2>1. CASE m \in DOMAIN held[r]  BY <1>8, <2>1
  <2>2. CASE m \notin DOMAIN held[r]
    <3>1. Agrees(m, i)  BY <1>18, <2>2 DEF Right
    <3> QED  BY <1>9, <2>2, <3>1
  <2> QED  BY <2>1, <2>2
<1>19. ReadOK(r)'  BY <1>1, <1>4, <1>5 DEF ReadOK, Step
<1>20. Shown(r)'
  <2>1. Right(r, DOMAIN cache \ (DOMAIN held[r] \cup Wanted(r)))
    BY <1>1, <1>3 DEF Reading, Shown
  <2>2. Wanted(r) \subseteq DOMAIN held[r]  BY <1>1, <1>3 DEF ReadOK
  <2>3. DOMAIN cache \ (DOMAIN held[r] \cup Wanted(r)) = (DOMAIN cache \cup DOMAIN held[r]) \ DOMAIN held[r]
    BY <2>2
  <2>4. Right(r, ((DOMAIN cache \cup DOMAIN held[r]) \ DOMAIN held[r]))  BY <2>1, <2>3
  <2>5. PICK ms : ms = DOMAIN cache \cup DOMAIN held[r]  OBVIOUS
  <2>6. Right(r, ms \cap DOMAIN cache)'  BY <1>18, <2>4, <2>5
  <2>7. ms \cap DOMAIN cache' = DOMAIN cache'  BY <1>6, <2>5
  <2>8. Right(r, DOMAIN cache)'  BY <2>6, <2>7 DEF Right
  <2> QED  BY <1>5, <2>8 DEF Shown
<1>21. Reading(r)'
  <2>1. ClockOf(r)' /\ Backed(req[r].facts)'  BY <1>1, <1>3 DEF Reading, ClockOf, Backed
  <2> QED  BY <1>5, <1>15, <1>20, <2>1 DEF Reading
<1>22. ASSUME NEW q \in Request \ {r}
       PROVE  ReadOK(q)' /\ (step'[q] # "idle" => Reading(q)')
  <2>1. ReadOK(q) /\ (step[q] # "idle" => Reading(q))  BY DEF RefreshInv
  <2>2. step'[q] = step[q] /\ held'[q] = held[q]  BY <1>1, <1>2
  <2>3. Wanted(q)' = Wanted(q)  BY <1>1 DEF Wanted
  <2>4. ReadOK(q)'
    <3>1. \A m : Written(q, m)' <=> Written(q, m)  BY <1>1, <2>2 DEF Written
    <3> QED  BY <1>1, <2>1, <2>2, <2>3, <3>1 DEF ReadOK
  <2>5. ASSUME step[q] # "idle" PROVE Reading(q)'
    <3>1. Reading(q)  BY <2>1, <2>5
    <3>2. ClockOf(q)' /\ Backed(req[q].facts)'
      BY <1>1, <3>1 DEF Reading, ClockOf, Backed
    <3>3. SeenRight(q)' <=> SeenRight(q)  BY <1>1 DEF SeenRight
    <3>4. StampsRight(q)' <=> StampsRight(q)
      BY <1>1, <2>3 DEF StampsRight, Watermarked
    <3>5. PICK all : all = DOMAIN cache \cup DOMAIN held[r]  OBVIOUS
    <3>6. all \cap DOMAIN cache' = DOMAIN cache' /\ all \ DOMAIN held[r] = DOMAIN cache \ DOMAIN held[r]
      BY <1>6, <3>5
    <3>7. Right(q, DOMAIN cache) => Right(q, DOMAIN cache)'
      <4> SUFFICES ASSUME Right(q, DOMAIN cache) PROVE Right(q, DOMAIN cache)'  OBVIOUS
      <4>1. Right(q, all \ DOMAIN held[r])  BY <3>6 DEF Right
      <4>2. Right(q, all \cap DOMAIN cache)'  BY <1>18, <4>1
      <4> QED  BY <3>6, <4>2 DEF Right
    <3>8. PICK other : other = DOMAIN held[q] \cup Wanted(q)  OBVIOUS
    <3>9. Right(q, DOMAIN cache \ other) => Right(q, DOMAIN cache \ other)'
      <4> SUFFICES ASSUME Right(q, DOMAIN cache \ other) PROVE Right(q, DOMAIN cache \ other)'  OBVIOUS
      <4>1. Right(q, (all \ other) \ DOMAIN held[r])  BY <3>6 DEF Right
      <4>2. PICK ms : ms = all \ other  OBVIOUS
      <4>3. Right(q, ms \cap DOMAIN cache)'  BY <1>18, <4>1, <4>2
      <4>4. ms \cap DOMAIN cache' = DOMAIN cache' \ other  BY <3>6, <4>2
      <4> QED  BY <4>3, <4>4 DEF Right
    <3>10. (DOMAIN held[q] \cup Wanted(q))' = other  BY <2>2, <2>3, <3>8
    <3>11. Shown(q)'
      BY <1>1, <2>2, <3>1, <3>7, <3>8, <3>9, <3>10 DEF Reading, Shown
    <3> QED  BY <1>1, <1>15, <2>2, <2>3, <3>1, <3>2, <3>3, <3>4, <3>11 DEF Reading
  <2> QED  BY <2>2, <2>4, <2>5
<1> QED  BY <1>10, <1>11, <1>13, <1>14, <1>16, <1>17, <1>19, <1>21, <1>22 DEF RefreshInv

----------------------------------------------------------------------------
(* Writers *)

\* A write that begins is newer than everything, and moves its row to no later
\* month.
LEMMA BeginWriteInv ==
  ASSUME RefreshInv, NEW i \in Input, NEW m \in Month, NEW v \in Value \cup {Gone}, BeginWrite(i, m, v)
  PROVE  RefreshInv'
<1>1. /\ i \notin DOMAIN open /\ MayWrite(i, m, v) /\ now' = now + 1
      /\ UNCHANGED <<books, cache, step, req, held, raced>>
  BY DEF BeginWrite
<1>2. PICK row : row = [month |-> m, late |-> FALSE, value |-> v, at |-> now + 1]  OBVIOUS
<1>3. /\ DOMAIN open' = DOMAIN open \cup {i} /\ open'[i] = row
      /\ \A j \in DOMAIN open : open'[j] = open[j] /\ j # i
  BY <1>1, <1>2 DEF BeginWrite, Over
<1>4. now \in Nat /\ now + 1 \in Nat /\ IsBooks(books) /\ IsBooks(open)
  BY DEF RefreshInv, TypesOK
<1>5. row \in BookRow /\ row.at = now + 1 /\ row.month = m /\ row.value = v /\ ~row.late
  BY <1>2, <1>4 DEF BookRow
<1>6. TypesOK'
  <2>1. IsBooks(open')  BY <1>3, <1>4, <1>5 DEF IsBooks
  <2> QED  BY <1>1, <1>4, <2>1 DEF RefreshInv, TypesOK
<1>7. \A j \in DOMAIN open : open[j].at \in Nat /\ open[j].at <= now /\ open[j].at # 0
  BY <1>4 DEF IsBooks, BookRow, RefreshInv, Clocked
<1>8. \A n \in DOMAIN cache : cache[n].at \in Nat /\ cache[n].at <= now
  BY DEF RefreshInv, TypesOK, CachedReport, Clocked
<1>9. Clocked'
  <2>1. \A j \in DOMAIN open' : open'[j].at <= now + 1 /\ open'[j].at # 0
    BY <1>3, <1>4, <1>5, <1>7
  <2>2. \A n \in DOMAIN cache : cache[n].at <= now + 1 /\ cache[n].at # now + 1
    BY <1>4, <1>8
  <2>3. \A j \in DOMAIN open', n \in DOMAIN cache : open'[j].at # cache[n].at
    BY <1>3, <1>5, <2>2 DEF RefreshInv, Clocked
  <2> QED  BY <1>1, <2>1, <2>2, <2>3 DEF Clocked
<1>10. Falling'
  <2>1. i \in DOMAIN books => m <= books[i].month  BY <1>1 DEF MayWrite
  <2> QED  BY <1>1, <1>3, <1>5, <2>1 DEF RefreshInv, Falling
<1>11. Recorded' = Recorded  BY <1>1 DEF Recorded, Said
<1>12. Standing'
  <2> SUFFICES ASSUME Recorded # {}
               PROVE  \E j \in Recorded : j \in DOMAIN open' => open'[j].value # Gone
    BY <1>1, <1>11 DEF RefreshInv, Standing
  <2>1. CASE v = Gone
    <3>1. PICK j \in SnapshotRow \ ({i} \cup DOMAIN open) : j \in Said(books)
      BY <1>1, <2>1 DEF MayWrite
    <3> QED  BY <1>3, <3>1 DEF Recorded
  <2>2. CASE v # Gone
    <3>1. PICK j \in Recorded : j \in DOMAIN open => open[j].value # Gone  BY DEF RefreshInv, Standing
    <3> QED  BY <1>3, <1>5, <2>2, <3>1
  <2> QED  BY <2>1, <2>2
<1>13. ASSUME NEW r \in Request PROVE ReadOK(r)' /\ (step'[r] # "idle" => Reading(r)')
  <2>1. ReadOK(r) /\ (step[r] # "idle" => Reading(r))  BY DEF RefreshInv
  <2>2. ASSUME step[r] # "idle" PROVE ClockOf(r)'
    <3>1. req[r].at \in Nat  BY <2>1, <2>2 DEF ReadOK, ReadRecord
    <3>2. req[r].at <= now /\ \A j \in DOMAIN open : open[j].at # req[r].at
      BY <2>1, <2>2 DEF Reading, ClockOf
    <3>3. req[r].at <= now + 1 /\ req[r].at # now + 1  BY <1>4, <3>1, <3>2
    <3> QED  BY <1>1, <1>3, <1>5, <3>2, <3>3 DEF ClockOf
  <2> QED  BY <1>1, <2>1, <2>2, StillReading
<1>14. Feeding'  BY <1>1 DEF RefreshInv, Feeding
<1>15. \A n \in DOMAIN cache' : Backed(cache[n].facts)'  BY <1>1 DEF RefreshInv, Backed
<1>16. OnlyRacedMissing'
  <2>1. \A n, j : Agrees(n, j)' <=> Agrees(n, j)  BY <1>1 DEF Agrees
  <2> QED  BY <1>1, <2>1 DEF RefreshInv, OnlyRacedMissing
<1> QED  BY <1>6, <1>9, <1>10, <1>12, <1>13, <1>14, <1>15, <1>16 DEF RefreshInv

LEMMA RollbackWriteInv ==
  ASSUME RefreshInv, NEW i \in Input, RollbackWrite(i)
  PROVE  RefreshInv'
<1>1. UNCHANGED <<books, cache, now, step, req, held, raced>>  BY DEF RollbackWrite
<1>2. /\ DOMAIN open' = DOMAIN open \ {i}
      /\ \A j \in DOMAIN open' : j \in DOMAIN open /\ open'[j] = open[j]
  BY DEF RollbackWrite, Drop
<1>3. TypesOK'  BY <1>1, <1>2 DEF RefreshInv, TypesOK, IsBooks
<1>4. Clocked' /\ Falling'  BY <1>1, <1>2 DEF RefreshInv, Clocked, Falling
<1>5. Recorded' = Recorded  BY <1>1 DEF Recorded, Said
<1>6. Standing'  BY <1>1, <1>2, <1>5 DEF RefreshInv, Standing
<1>7. ASSUME NEW r \in Request PROVE ReadOK(r)' /\ (step'[r] # "idle" => Reading(r)')
  <2>1. ReadOK(r) /\ (step[r] # "idle" => Reading(r))  BY DEF RefreshInv
  <2>2. ASSUME step[r] # "idle" PROVE ClockOf(r)'
    BY <1>1, <1>2, <2>1, <2>2 DEF Reading, ClockOf
  <2> QED  BY <1>1, <2>1, <2>2, StillReading
<1>8. Feeding'  BY <1>1 DEF RefreshInv, Feeding
<1>9. \A n \in DOMAIN cache' : Backed(cache[n].facts)'  BY <1>1 DEF RefreshInv, Backed
<1>10. OnlyRacedMissing'
  <2>1. \A n, j : Agrees(n, j)' <=> Agrees(n, j)  BY <1>1 DEF Agrees
  <2> QED  BY <1>1, <2>1 DEF RefreshInv, OnlyRacedMissing
<1> QED  BY <1>3, <1>4, <1>6, <1>7, <1>8, <1>9, <1>10 DEF RefreshInv

\* A committed write either overlapped a refresh, or none that is under way has
\* read its table and no cached report is newer.
LEMMA CommitWriteInv ==
  ASSUME RefreshInv, NEW i \in Input, CommitWrite(i)
  PROVE  RefreshInv'
<1>1. /\ i \in DOMAIN open
      /\ raced' = IF Overlaps(i) THEN raced \cup {i} ELSE raced \ {i}
      /\ req' = [r \in Request |-> IF r \in InFlight THEN [req[r] EXCEPT !.since = @ \cup {i}]
                                                     ELSE req[r]]
      /\ UNCHANGED <<cache, now, step, held>>
  BY DEF CommitWrite
<1>2. /\ DOMAIN open' = DOMAIN open \ {i}
      /\ \A j \in DOMAIN open' : j \in DOMAIN open /\ open'[j] = open[j]
  BY DEF CommitWrite, Drop
<1>3. /\ DOMAIN books' = DOMAIN books \cup {i} /\ books'[i] = open[i]
      /\ \A j \in DOMAIN books' \ {i} : j \in DOMAIN books /\ books'[j] = books[j]
  BY DEF CommitWrite, Over
<1>4. IsBooks(books) /\ IsBooks(open) /\ open[i] \in BookRow /\ now \in Nat
  BY <1>1 DEF RefreshInv, TypesOK, IsBooks
<1>5. /\ \A j \in Input \ {i} : j \in raced' <=> j \in raced
      /\ i \notin raced' => ~Overlaps(i)
      /\ raced' \subseteq Input
  BY <1>1 DEF RefreshInv, TypesOK
<1>6. TypesOK'
  <2>1. IsBooks(books') /\ IsBooks(open')  BY <1>2, <1>3, <1>4 DEF IsBooks
  <2> QED  BY <1>1, <1>5, <2>1 DEF RefreshInv, TypesOK
<1>7. Clocked'  BY <1>1, <1>2 DEF RefreshInv, Clocked
<1>8. Falling'  BY <1>1, <1>2, <1>3 DEF RefreshInv, Falling
<1>9. ASSUME NEW F \in SUBSET AFact, Backed(F) PROVE Backed(F)'
  <2> SUFFICES ASSUME NEW f \in F PROVE f.input \in DOMAIN books' /\ books'[f.input].month <= f.month
    BY DEF Backed
  <2>1. f.input \in DOMAIN books /\ books[f.input].month <= f.month  BY <1>9 DEF Backed
  <2>2. CASE f.input = i
    <3>1. open[i].month <= books[i].month  BY <1>1, <2>1, <2>2 DEF RefreshInv, Falling
    <3>2. open[i].month \in Int /\ books[i].month \in Int /\ f.month \in Int
      BY <1>4, <2>1, <2>2, MonthAssumption DEF IsBooks, BookRow, AFact
    <3> QED  BY <1>3, <2>1, <2>2, <3>1, <3>2
  <2>3. CASE f.input # i  BY <1>3, <2>1, <2>3
  <2> QED  BY <2>2, <2>3
<1>10. \A m \in DOMAIN cache' : Backed(cache[m].facts)'
  <2>1. \A m \in DOMAIN cache : cache[m].facts \in SUBSET AFact
    BY DEF RefreshInv, TypesOK, CachedReport, AFact
  <2>2. \A m \in DOMAIN cache : Backed(cache[m].facts)  BY DEF RefreshInv
  <2>3. ASSUME NEW m \in DOMAIN cache PROVE Backed(cache[m].facts)'
    <3>1. PICK F \in SUBSET AFact : F = cache[m].facts  BY <2>1
    <3>2. Backed(F)'  BY <1>9, <2>2, <3>1
    <3> QED  BY <1>1, <3>1, <3>2 DEF Backed
  <2> QED  BY <1>1, <2>3
<1>11. Feeding'  BY <1>1 DEF RefreshInv, Feeding
<1>12. /\ \A j \in Recorded \ {i} : j \in Recorded'
       /\ open[i].value # Gone /\ i \in SnapshotRow => i \in Recorded'
       /\ \A j \in Recorded' : j \in Recorded \/ j = i
  BY <1>3 DEF Recorded, Said
<1>13. Recorded # {} => \E j \in Recorded' : j \in DOMAIN open' => open'[j].value # Gone
  <2> SUFFICES ASSUME Recorded # {}
               PROVE  \E j \in Recorded' : j \in DOMAIN open' => open'[j].value # Gone
    OBVIOUS
  <2>1. PICK j \in Recorded : j \in DOMAIN open => open[j].value # Gone  BY DEF RefreshInv, Standing
  <2>2. j \in SnapshotRow  BY DEF Recorded
  <2>3. j \in Recorded'  BY <1>1, <1>12, <2>1, <2>2
  <2> QED  BY <1>2, <2>1, <2>3
<1>14. Standing'
  <2>1. ASSUME Recorded' # {}, Recorded = {}
        PROVE  \E j \in Recorded' : j \in DOMAIN open' => open'[j].value # Gone
    BY <1>2, <1>12, <2>1
  <2>2. Recorded' # {} => \E j \in Recorded' : j \in DOMAIN open' => open'[j].value # Gone
    BY <1>13, <2>1
  <2>3. DOMAIN cache' # {} => Recorded' # {}
    BY <1>1, <1>13 DEF RefreshInv, Standing
  <2> QED  BY <2>2, <2>3 DEF Standing
<1>15. ASSUME NEW m \in DOMAIN cache, NEW j, j # i PROVE Agrees(m, j)' <=> Agrees(m, j)
  <2>1. cache'[m] = cache[m]  BY <1>1
  <2>2. j \in DOMAIN books' <=> j \in DOMAIN books  BY <1>3, <1>15
  <2>3. j \in DOMAIN books => books'[j] = books[j]  BY <1>3, <1>15
  <2> QED  BY <2>1, <2>2, <2>3, KeptAgrees
<1>16. OnlyRacedMissing'
  <2> SUFFICES ASSUME NEW m \in DOMAIN cache, NEW j \in DOMAIN books' \ raced',
                      books'[j].at <= cache[m].at
               PROVE  Agrees(m, j)'
    BY <1>1 DEF OnlyRacedMissing
  <2>1. CASE j = i
    <3>1. ~(open[i].at < cache[m].at) /\ open[i].at # cache[m].at
      BY <1>1, <1>5, <2>1 DEF Overlaps, RefreshInv, Clocked
    <3>2. open[i].at \in Nat /\ cache[m].at \in Nat
      BY <1>4 DEF BookRow, RefreshInv, TypesOK, CachedReport
    <3> QED  BY <1>3, <2>1, <3>1, <3>2
  <2>2. CASE j # i
    <3>1. j \in DOMAIN books /\ books'[j] = books[j] /\ j \in Input  BY <1>3, <1>4, <2>2 DEF IsBooks
    <3>2. j \notin raced  BY <1>5, <2>2, <3>1
    <3>3. Agrees(m, j)  BY <3>1, <3>2 DEF RefreshInv, OnlyRacedMissing
    <3> QED  BY <1>15, <2>2, <3>3
  <2> QED  BY <2>1, <2>2
<1>17. ASSUME NEW r \in Request PROVE ReadOK(r)' /\ (step'[r] # "idle" => Reading(r)')
  <2>1. ReadOK(r) /\ (step[r] # "idle" => Reading(r))  BY DEF RefreshInv
  <2>2. step'[r] = step[r] /\ held'[r] = held[r]  BY <1>1
  <2>3. CASE step[r] = "idle"  BY <2>1, <2>2, <2>3 DEF ReadOK
  <2>4. CASE step[r] # "idle"
    <3>1. req'[r] = [req[r] EXCEPT !.since = @ \cup {i}] /\ req[r] \in ReadRecord
      BY <1>1, <2>1, <2>4 DEF InFlight, ReadOK
    <3>2. /\ req'[r].facts = req[r].facts /\ req'[r].left = req[r].left
          /\ req'[r].at = req[r].at /\ req'[r].today = req[r].today
          /\ req'[r].stamps = req[r].stamps /\ req'[r].since = req[r].since \cup {i}
          /\ req'[r] \in ReadRecord
      BY <3>1 DEF ReadRecord
    <3>3. Wanted(r)' = Wanted(r)  BY <3>2 DEF Wanted
    <3>4. ReadOK(r)'
      <4>1. \A m : Written(r, m)' <=> Written(r, m)  BY <2>2, <3>2 DEF Written
      <4> QED  BY <2>1, <2>2, <3>2, <3>3, <4>1 DEF ReadOK
    <3>5. Reading(r)  BY <2>1, <2>4
    <3>6. ClockOf(r)'  BY <1>1, <1>2, <3>2, <3>5 DEF Reading, ClockOf
    <3>7. Backed(req[r].facts)'
      <4>1. PICK F \in SUBSET AFact : F = req[r].facts  BY <3>1 DEF ReadRecord
      <4>2. Backed(F)'  BY <1>9, <3>5, <4>1 DEF Reading
      <4> QED  BY <3>2, <4>1, <4>2 DEF Backed
    <3>8. Snapshots(req[r].facts)' # {} => Recorded' # {}
      BY <1>13, <3>2, <3>5 DEF Reading
    <3>9. step[r] # "list" => SeenRight(r)'
      <4> SUFFICES ASSUME step[r] # "list",
                          NEW j \in Input, j \notin raced', j \notin UnreadOf(req[r].left)
                   PROVE  About(req[r].facts, j) = About(Facts(books'), j)
        BY <3>2, <3>5 DEF SeenRight, Reading
      <4>1. j # i
        <5>1. r \in InFlight  BY <2>4 DEF InFlight
        <5>2. j = i => \E k \in DOMAIN req[r].left : i \in req[r].left[k]
          BY <1>5, <5>1 DEF Overlaps
        <5> QED  BY <5>2 DEF UnreadOf
      <4>2. j \notin raced  BY <1>5, <4>1
      <4>3. About(req[r].facts, j) = About(Facts(books), j)
        BY <3>5, <4>2 DEF SeenRight, Reading
      <4>4. About(Facts(books), j) = About(Facts(books'), j)  BY <1>3, <4>1, SameRow
      <4> QED  BY <4>3, <4>4
    <3>10. step[r] = "check" => StampsRight(r)'
      <4> SUFFICES ASSUME step[r] = "check",
                          NEW j \in Watermarked(books', Wanted(r)), j \notin req[r].since, j # i
                   PROVE  books'[j].at \in req[r].stamps
        BY <3>2, <3>3 DEF StampsRight
      <4>1. j \in Watermarked(books, Wanted(r)) /\ books'[j] = books[j]
        BY <1>3 DEF Watermarked
      <4> QED  BY <3>5, <4>1 DEF StampsRight, Reading
    <3>11. ASSUME NEW ms \in SUBSET DOMAIN cache, Right(r, ms) PROVE Right(r, ms)'
      <4> SUFFICES ASSUME NEW m \in ms, NEW j \in Input, j \notin raced', j \notin req[r].since, j # i
                   PROVE  Agrees(m, j)'
        BY <3>2 DEF Right
      <4>1. j \notin raced  BY <1>5
      <4>2. Agrees(m, j)  BY <3>11, <4>1 DEF Right
      <4> QED  BY <1>15, <4>2
    <3>12. Shown(r)'
      <4>1. Right(r, DOMAIN cache) => Right(r, DOMAIN cache)'
        <5>1. PICK ms \in SUBSET DOMAIN cache : ms = DOMAIN cache  OBVIOUS
        <5>2. Right(r, ms) => Right(r, ms)'  BY <3>11
        <5> QED  BY <1>1, <5>1, <5>2 DEF Right
      <4>2. PICK ms \in SUBSET DOMAIN cache : ms = DOMAIN cache \ (DOMAIN held[r] \cup Wanted(r))
        OBVIOUS
      <4>3. Right(r, ms) => Right(r, ms)'  BY <3>11
      <4>4. (DOMAIN cache \ (DOMAIN held[r] \cup Wanted(r)))' = ms  BY <1>1, <2>2, <3>3, <4>2
      <4> QED  BY <1>1, <2>2, <3>2, <3>5, <4>1, <4>2, <4>3, <4>4 DEF Reading, Shown
    <3>13. Reading(r)'
      BY <2>2, <3>2, <3>3, <3>5, <3>6, <3>7, <3>8, <3>9, <3>10, <3>12 DEF Reading
    <3> QED  BY <3>4, <3>13
  <2> QED  BY <2>3, <2>4
<1> QED  BY <1>6, <1>7, <1>8, <1>10, <1>11, <1>14, <1>16, <1>17 DEF RefreshInv

----------------------------------------------------------------------------
(* Invariance *)

LEMMA RefreshNextInv == RefreshInv /\ [RefreshNext]_refreshVars => RefreshInv'
<1> SUFFICES ASSUME RefreshInv, [RefreshNext]_refreshVars PROVE RefreshInv'  OBVIOUS
<1>1. ASSUME NEW i \in Input, NEW m \in Month, NEW v \in Value \cup {Gone}, BeginWrite(i, m, v)
      PROVE  RefreshInv'
  BY <1>1, BeginWriteInv
<1>2. ASSUME NEW i \in Input, CommitWrite(i) PROVE RefreshInv'  BY <1>2, CommitWriteInv
<1>3. ASSUME NEW i \in Input, RollbackWrite(i) PROVE RefreshInv'  BY <1>3, RollbackWriteInv
<1>4. ASSUME NEW r \in Request, Begin(r) PROVE RefreshInv'  BY <1>4, BeginInv
<1>5. ASSUME NEW r \in Request, Statement(r) PROVE RefreshInv'
  <2>1. CASE Load(r)  BY <2>1, LoadInv
  <2>2. CASE Watermark(r)  BY <2>2, WatermarkInv
  <2>3. CASE Check(r)  BY <2>3, CheckInv
  <2>4. CASE BeginRegeneration(r)  BY <2>4, BeginRegenerationInv
  <2>5. CASE Prune(r)  BY <2>5, PruneInv
  <2>6. CASE Upsert(r)  BY <2>6, UpsertInv
  <2>7. CASE Commit(r)  BY <2>7, CommitInv
  <2>8. CASE List(r)  BY <2>8, EndInv DEF List
  <2> QED  BY <1>5, <2>1, <2>2, <2>3, <2>4, <2>5, <2>6, <2>7, <2>8 DEF Statement
<1>6. ASSUME NEW r \in Request, Rollback(r) \/ DeadlockVictim(r) PROVE RefreshInv'
  BY <1>6, EndInv DEF Rollback, DeadlockVictim
<1>7. CASE UNCHANGED refreshVars
  <2>1. UNCHANGED <<books, open, cache, now, step, req, held, raced>>  BY <1>7 DEF refreshVars
  <2>2. ASSUME NEW r \in Request PROVE ReadOK(r)' /\ (step'[r] # "idle" => Reading(r)')
    <3>1. ReadOK(r) /\ (step[r] # "idle" => Reading(r))  BY DEF RefreshInv
    <3>2. step[r] # "idle" => ClockOf(r)'  BY <2>1, <3>1 DEF Reading, ClockOf
    <3> QED  BY <2>1, <3>1, <3>2, StillReading
  <2>3. TypesOK' /\ Clocked' /\ Falling' /\ Feeding'
    BY <2>1 DEF RefreshInv, TypesOK, Clocked, Falling, Feeding
  <2>4. Standing'  BY <2>1 DEF RefreshInv, Standing, Recorded, Said
  <2>5. \A m \in DOMAIN cache' : Backed(cache[m].facts)'  BY <2>1 DEF RefreshInv, Backed
  <2>6. OnlyRacedMissing'
    <3>1. \A m, i : Agrees(m, i)' <=> Agrees(m, i)  BY <2>1 DEF Agrees
    <3> QED  BY <2>1, <3>1 DEF RefreshInv, OnlyRacedMissing
  <2> QED  BY <2>2, <2>3, <2>4, <2>5, <2>6 DEF RefreshInv
<1> QED  BY <1>1, <1>2, <1>3, <1>4, <1>5, <1>6, <1>7 DEF RefreshNext

\* However reads and writes of a household interleave: what the reads have seen
\* and what is cached of a row is what the books say, but for rows whose latest
\* write overlapped a refresh.
THEOREM RefreshInvariance == RefreshSpec => []RefreshInv
<1>1. RefreshInit => RefreshInv  BY RefreshInitInv
<1>2. RefreshInv /\ [RefreshNext]_refreshVars => RefreshInv'  BY RefreshNextInv
<1> QED  BY <1>1, <1>2, PTL DEF RefreshSpec

\* ReportRefresh is type correct; a refresh only ever writes months of its reports.
THEOREM RefreshTypeCorrect == RefreshSpec => []RefreshTypeOK
<1>1. RefreshInv => RefreshTypeOK
  <2> SUFFICES ASSUME RefreshInv PROVE RefreshTypeOK  OBVIOUS
  <2>1. ASSUME NEW r \in Request, NEW m \in DOMAIN held[r]
        PROVE  m \in Month /\ held[r][m] \in CachedReport({Build}) \cup {Gone}
    <3>1. ReadOK(r)  BY DEF RefreshInv
    <3>2. step[r] \in {"upsert", "commit"} /\ m \in Month /\ Written(r, m)
      BY <3>1 DEF ReadOK
    <3>3. req[r] \in ReadRecord  BY <3>1, <3>2 DEF ReadOK
    <3>4. Report(req[r].facts, m) \in SUBSET AFact /\ req[r].at \in Nat
      BY <3>3 DEF Report, ReadRecord
    <3> QED  BY <3>2, <3>4 DEF Written, CachedReport, AFact
  <2> QED  BY <2>1 DEF RefreshTypeOK, RefreshInv, TypesOK
<1> QED  BY <1>1, RefreshInvariance, PTL

LEMMA ListedRight ==
  ASSUME RefreshInv, NEW r \in Request, step[r] = "list"
  PROVE  Right(r, DOMAIN cache)
<1>1. Reading(r)  BY DEF RefreshInv
<1> QED  BY <1>1 DEF Reading, Shown

\* A row a read is shown wrongly was written during this very read, or its latest
\* write overlapped a refresh.  The lists of reports are otherwise right, though
\* refreshes of users in different months prune and rewrite what others list.
THEOREM OnlyRacesGoStaleHolds == RefreshSpec => OnlyRacesGoStale
<1>1. ASSUME RefreshInv, [RefreshNext]_refreshVars
      PROVE  [\A r \in Request : List(r) =>
                \A m \in DOMAIN cache, i \in Input \ (raced \cup req[r].since) :
                  About(cache[m].facts, i) = About(Report(Facts(books), m), i)]_refreshVars
  <2>1. ASSUME NEW r \in Request, List(r), NEW m \in DOMAIN cache,
               NEW i \in Input \ (raced \cup req[r].since)
        PROVE  About(cache[m].facts, i) = About(Report(Facts(books), m), i)
    <3>1. step[r] = "list"  BY <2>1 DEF List
    <3>2. Right(r, DOMAIN cache)  BY <1>1, <3>1, ListedRight
    <3> QED  BY <3>2 DEF Right, Agrees
  <2> QED  BY <2>1
<1>2. RefreshInv /\ [RefreshNext]_refreshVars =>
        [\A r \in Request : List(r) =>
           \A m \in DOMAIN cache, i \in Input \ (raced \cup req[r].since) :
             About(cache[m].facts, i) = About(Report(Facts(books), m), i)]_refreshVars
  BY <1>1
<1> QED  BY <1>2, RefreshInvariance, PTL DEF RefreshSpec, OnlyRacesGoStale

=============================================================================
