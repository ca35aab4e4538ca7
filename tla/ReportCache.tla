---------------------------- MODULE ReportCache -----------------------------
(***************************************************************************)
(* The monthly_reports table of one household as a cache over its books:   *)
(* every request runs alone here, ReportRefresh interleaves them.          *)
(*                                                                         *)
(* Every transaction has a timestamp of its own (now() has microseconds).  *)
(* A request that writes takes the next one.                               *)
(***************************************************************************)
EXTENDS CachedReports

CONSTANTS
  User,        \* the members of the household
  Engine       \* the versions the engine goes through, a part of Nat

ASSUME UserAssumption == User # {}
ASSUME EngineAssumption == Engine \subseteq Nat

VARIABLES
  today,    \* the month on each user's calendar
  engine,   \* reportEngineVersion of the running build
  shown,    \* what a read that was just answered showed to whom, else {}
  postponed \* history: rows given a later month since the last full rebuild

vars == <<books, cache, now, today, engine, shown, postponed>>

TypeOK ==
  /\ IsBooks(books)
  /\ DOMAIN cache \subseteq Month
  /\ \A m \in DOMAIN cache : cache[m] \in CachedReport(Engine)
  /\ now \in Nat
  /\ today \in [User -> Month]
  /\ engine \in Engine
  /\ \A s \in shown : s.to \in User /\ DOMAIN s.reports \subseteq Month
  /\ postponed \subseteq DOMAIN books

Init ==
  /\ \E m \in Month, v \in Value :
       /\ books = [i \in ParentRow |-> [month |-> m, late |-> FALSE, value |-> v, at |-> 0]]
       /\ today = [u \in User |-> m]
  /\ cache = Empty
  /\ now = 0
  /\ engine \in Engine
  /\ shown = {}
  /\ postponed = {}

----------------------------------------------------------------------------
(* Writers *)

Tick == now < MaxTime /\ now' = now + 1

\* On the last day of a month the next one has begun somewhere.
HasBegun(m) == \E u \in User : m <= today[u] + 1

Write(i, row) ==
  /\ Tick
  /\ books' = [j \in DOMAIN books \cup {i} |-> IF j = i THEN row ELSE books[j]]
  /\ postponed' = postponed \cup {j \in {i} \cap DOMAIN books : books[j].month < row.month}
  /\ shown' = {}
  /\ UNCHANGED <<cache, today, engine>>

\* A snapshot cannot be recorded for a month that has begun nowhere, income and
\* rates can; an entry may be dated after the first of its month.
Record(i, m, late, v) ==
  /\ i \in Input \ DOMAIN books
  /\ i \in SnapshotRow => HasBegun(m)
  /\ late => i \in EntryRow
  /\ Write(i, [month |-> m, late |-> late, value |-> v, at |-> now + 1])

\* Only entries can be given another date.  A parent row is there from the start
\* and stays: archiving a position rewrites its row like any other amendment.
Amend(i, m, late, v) ==
  /\ i \in Said(books)
  /\ i \notin EntryRow => m = books[i].month
  /\ late => i \in EntryRow
  /\ Write(i, [month |-> m, late |-> late, value |-> v, at |-> now + 1])

Delete(i) ==
  /\ i \in Said(books) \ ParentRow
  /\ Write(i, [books[i] EXCEPT !.value = Gone, !.at = now + 1])

----------------------------------------------------------------------------
(* Readers *)

\* Broken: generated_at is not among the columns an upsert overwrites.
StoreKeepingStamp(reports) ==
  cache' = [m \in DOMAIN reports |->
              IF m \in DOMAIN cache THEN [reports[m] EXCEPT !.at = cache[m].at] ELSE reports[m]]

\* Prunes and upserts, so that the cache holds these months and no others.
Store(reports) == cache' = reports

Regenerate(u) ==
  LET facts == Facts(books)
  IN  /\ Tick
      /\ Store(Generate(facts, Months(facts, today[u]), engine, now + 1))
      /\ postponed' = {}

IsStale(u) ==
  LET months == Months(Facts(books), today[u])
  IN  months # {} /\ NeedsRegen(months, cache, Stamps(books, months), engine)

Refresh(u) == \/ IsStale(u) /\ Regenerate(u)
              \/ ~IsStale(u) /\ UNCHANGED <<cache, now, postponed>>

\* ListReports, and GetReport for each of its months.
Read(u) ==
  /\ Refresh(u)
  /\ shown' = {[to |-> u, reports |-> [m \in DOMAIN cache' |-> cache'[m].facts]]}
  /\ UNCHANGED <<books, today, engine>>

RebuildAll(u) ==
  /\ Months(Facts(books), today[u]) # {}
  /\ Regenerate(u)
  /\ shown' = {}
  /\ UNCHANGED <<books, today, engine>>

\* Broken: generated_at of the whole household moves with the one month.
RebuildMonthRestamping(u, m) ==
  LET facts == Facts(books)
  IN  /\ m \in Months(facts, today[u])
      /\ Tick
      /\ cache' = [x \in DOMAIN cache \cup {m} |->
                     IF x = m THEN Generate(facts, {m}, engine, now + 1)[m]
                     ELSE [cache[x] EXCEPT !.at = now + 1]]
      /\ shown' = {}
      /\ UNCHANGED <<books, today, engine, postponed>>

RebuildMonth(u, m) ==
  LET facts == Facts(books)
  IN  /\ m \in Months(facts, today[u])
      /\ Tick
      /\ cache' = [x \in DOMAIN cache \cup {m} |->
                     IF x = m THEN Generate(facts, {m}, engine, now + 1)[m] ELSE cache[x]]
      /\ shown' = {}
      /\ UNCHANGED <<books, today, engine, postponed>>

----------------------------------------------------------------------------
(* The world *)

\* The next month begins for u; calendars are less than a day apart.
MonthBegins(u) ==
  /\ today[u] + 1 \in Month
  /\ \A v \in User : today[u] <= today[v]
  /\ today' = [today EXCEPT ![u] = @ + 1]
  /\ shown' = {}
  /\ UNCHANGED <<books, cache, now, engine, postponed>>

\* A new build is deployed.
Upgrade ==
  /\ \E e \in Engine : e > engine /\ engine' = e
  /\ shown' = {}
  /\ UNCHANGED <<books, cache, now, today, postponed>>

Next ==
  \/ \E i \in Input, m \in Month, late \in BOOLEAN, v \in Value :
       Record(i, m, late, v) \/ Amend(i, m, late, v)
  \/ \E i \in Input : Delete(i)
  \/ \E u \in User : Read(u) \/ RebuildAll(u) \/ MonthBegins(u)
  \/ \E u \in User, m \in Month : RebuildMonth(u, m)
  \/ Upgrade

Spec == Init /\ [][Next]_vars

----------------------------------------------------------------------------
(* Properties *)

\* A cached report that is not older than a row of the books rests on that row
\* as it is: what can be missing from a report is always newer than it.
NothingOlderMissing ==
  \A m \in DOMAIN cache, i \in DOMAIN books :
    books[i].at <= cache[m].at =>
      {f \in cache[m].facts : f.input = i} = {f \in Report(Facts(books), m) : f.input = i}

\* The rows the staleness check of u's read does not see: an entry dated later
\* in the last month than its first, or given a date after that month.
Overlooked ==
  [u \in User |->
     LET months == Months(Facts(books), today[u])
     IN  {i \in DOMAIN books \ Watermarked(books, months) :
            books[i].month \in months \/ i \in postponed}]

\* The last snapshot has been deleted.
Stranded == Snapshots(Facts(books)) = {} /\ SnapshotRow \cap DOMAIN books # {}

\* Whatever was written, moved, deleted, rebuilt and deployed in between, and
\* whichever member reads, a read shows the reports of the books as they are:
\* the cache cannot be told from no cache, but for the rows the check overlooks
\* and while all snapshots are deleted (INV-STALENESS-01 and 02).
Promise == INSTANCE ReportPromise WITH
             facts <- Facts(books), overlooked <- Overlooked, stranded <- Stranded

KeepsPromise == Promise!Spec

\* A read never serves a value computed from stale inputs (INV-STALENESS-01).
NeverServesStale ==
  [][\A u \in User : Read(u) =>
       \A s \in shown', m \in Month :
         m \in DOMAIN s.reports => s.reports[m] = Report(Facts(books), m)]_vars

\* The cached months are the months of the reports (INV-STALENESS-02).
MonthRangeCoherent ==
  [][\A u \in User : Read(u) =>
       \A s \in shown' : DOMAIN s.reports = Months(Facts(books), today[u])]_vars

\* After a read the cache is current, and with inputs unchanged the next read
\* leaves it alone, whoever's it is (INV-STALENESS-01: it is not thrashed), unless
\* the month on that member's calendar gives the reports another range.
NotThrashed ==
  [][\A u, v \in User :
       /\ Read(u)
       /\ Months(Facts(books), today[v]) = Months(Facts(books), today[u])
       => ~IsStale(v)']_vars
============================================================================
