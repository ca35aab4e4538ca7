--------------------------- MODULE ReportRefresh ----------------------------
(***************************************************************************)
(* The reads of ReportCache taken apart into the statements they send,     *)
(* several reads and writes of one household at a time.  A refresh loads   *)
(* the input tables one by one and outside a transaction, decides, and     *)
(* then writes the months in one transaction (READ COMMITTED).  now() is   *)
(* the time a transaction began, for updated_at and generated_at alike.    *)
(*                                                                         *)
(* Left to ReportCache, where requests run alone: rows the staleness check *)
(* overlooks (dated after the first of the last month, moved to a later    *)
(* one), the deletion of the last snapshot, and new builds.                *)
(***************************************************************************)
EXTENDS CachedReports, Sequences, FiniteSets

CONSTANTS
  Request,    \* reads in flight at one time
  Calendar,   \* what the members' calendars show: a month, two at its turn
  MaxOpen     \* bounds the writes in flight

ASSUME CalendarAssumption == Calendar \subseteq Month /\ Calendar # {}

VARIABLES
  open,     \* input rows written and not committed
  step,     \* the next statement of each read
  req,      \* what the read holds in memory
  held,     \* months a read has written and not committed, Gone if pruned
  raced     \* history: rows whose latest write overlapped a refresh

refreshVars == <<books, open, cache, now, step, req, held, raced>>

Step == {"idle", "load", "watermark", "check", "begin", "prune", "upsert", "commit", "list"}

\* No build ever changes here.
Build == 1

RefreshTypeOK ==
  /\ IsBooks(books) /\ IsBooks(open)
  /\ DOMAIN cache \subseteq Month /\ \A m \in DOMAIN cache : cache[m] \in CachedReport({Build})
  /\ now \in Nat
  /\ step \in [Request -> Step]
  /\ DOMAIN req = Request /\ DOMAIN held = Request
  /\ \A r \in Request : \A m \in DOMAIN held[r] :
       m \in Month /\ held[r][m] \in CachedReport({Build}) \cup {Gone}
  /\ raced \subseteq Input

RefreshInit ==
  /\ \E rows \in SUBSET (SnapshotRow \cup EntryRow), m \in Month, v \in Value :
       books = [i \in ParentRow \cup rows |-> [month |-> m, late |-> FALSE, value |-> v, at |-> 0]]
  /\ open = Empty
  /\ cache = Empty
  /\ now = 0
  /\ step = [r \in Request |-> "idle"]
  /\ req = [r \in Request |-> Empty]
  /\ held = [r \in Request |-> Empty]
  /\ raced = {}

Over(f, g) == [x \in DOMAIN f \cup DOMAIN g |-> IF x \in DOMAIN f THEN f[x] ELSE g[x]]

InFlight == {r \in Request : step[r] # "idle"}

\* A bound of the model: what starts may take its timestamp later.
RoomToStart == now + Cardinality(InFlight) < MaxTime

----------------------------------------------------------------------------
(* Writers *)

\* What the handlers accept, but for what is left to ReportCache.
MayWrite(i, m, v) ==
  /\ i \notin DOMAIN books => v # Gone
  /\ i \in DOMAIN books =>
       /\ i \in Said(books)
       /\ m <= books[i].month /\ (i \notin EntryRow => m = books[i].month)
  /\ v = Gone => /\ i \notin ParentRow
                 /\ \E j \in SnapshotRow \ ({i} \cup DOMAIN open) : j \in Said(books)

\* The transaction begins and writes row i, waiting for nobody.
BeginWrite(i, m, v) ==
  /\ RoomToStart
  /\ Cardinality(DOMAIN open) < MaxOpen
  /\ i \notin DOMAIN open
  /\ MayWrite(i, m, v)
  /\ now' = now + 1
  /\ open' = Over([j \in {i} |-> [month |-> m, late |-> FALSE, value |-> v, at |-> now + 1]], open)
  /\ UNCHANGED <<books, cache, step, req, held, raced>>

Drop(i) == open' = [j \in DOMAIN open \ {i} |-> open[j]]

RollbackWrite(i) ==
  /\ i \in DOMAIN open
  /\ Drop(i)
  /\ UNCHANGED <<books, cache, now, step, req, held, raced>>

\* Too late for a refresh that has read the table of i, or stamped older than a
\* report that was computed without it.
Overlaps(i) ==
  \/ \E r \in InFlight : /\ step[r] # "list"
                         /\ \A k \in DOMAIN req[r].left : i \notin req[r].left[k]
  \/ \E m \in DOMAIN cache : open[i].at < cache[m].at

CommitWrite(i) ==
  /\ i \in DOMAIN open
  /\ books' = Over([j \in {i} |-> open[i]], books)
  /\ Drop(i)
  /\ raced' = IF Overlaps(i) THEN raced \cup {i} ELSE raced \ {i}
  /\ req' = [r \in Request |-> IF r \in InFlight THEN [req[r] EXCEPT !.since = @ \cup {i}]
                                                 ELSE req[r]]
  /\ UNCHANGED <<cache, now, step, held>>

----------------------------------------------------------------------------
(* A read: refresh, then ListMonthlyReports *)

\* The order loadEngineInput reads the tables in.
Tables == <<ParentRow, SnapshotRow, EntryRow, RateRow>>

Goto(r, s) == step' = [step EXCEPT ![r] = s]

Begin(r) ==
  /\ step[r] = "idle"
  /\ RoomToStart
  /\ \E m \in Calendar :
       req' = [req EXCEPT ![r] = [today |-> m, facts |-> {}, left |-> Tables, stamps |-> {},
                                  at |-> 0, since |-> {}]]
  /\ Goto(r, "load")
  /\ UNCHANGED <<books, open, cache, now, held, raced>>

\* The months to write, once everything is loaded.
Wanted(r) == Months(req[r].facts, req[r].today)

\* With no snapshot there is nothing to refresh.
Load(r) ==
  LET read == {f \in Facts(books) : f.input \in Head(req[r].left)}
  IN  /\ step[r] = "load"
      /\ req' = [req EXCEPT ![r].facts = @ \cup read, ![r].left = Tail(@)]
      /\ Goto(r, IF Len(req[r].left) > 1 THEN "load"
                 ELSE IF Wanted(r)' = {} THEN "list" ELSE "watermark")
      /\ UNCHANGED <<books, open, cache, now, held, raced>>

Watermark(r) ==
  /\ step[r] = "watermark"
  /\ req' = [req EXCEPT ![r].stamps = Stamps(books, Wanted(r))]
  /\ Goto(r, "check")
  /\ UNCHANGED <<books, open, cache, now, held, raced>>

Check(r) ==
  /\ step[r] = "check"
  /\ Goto(r, IF NeedsRegen(Wanted(r), cache, req[r].stamps, Build) THEN "begin" ELSE "list")
  /\ UNCHANGED <<books, open, cache, now, req, held, raced>>

BeginRegeneration(r) ==
  /\ step[r] = "begin"
  /\ now' = now + 1
  /\ req' = [req EXCEPT ![r].at = now + 1]
  /\ Goto(r, "prune")
  /\ UNCHANGED <<books, open, cache, held, raced>>

Pruned(r) == DOMAIN cache \ Wanted(r)

Unwritten(r) == Wanted(r) \ DOMAIN held[r]

\* The earliest month left to write, on its own.
NextMonth(r) == {m \in Unwritten(r) : \A n \in Unwritten(r) : m <= n}

\* The reads whose end the next statement of r has to wait for.
Blockers(r) ==
  {q \in Request \ {r} :
     \/ step[r] = "prune" /\ Pruned(r) \cap DOMAIN held[q] # {}
     \/ step[r] = "upsert" /\ NextMonth(r) \cap DOMAIN held[q] # {}}

Prune(r) ==
  /\ step[r] = "prune"
  /\ Blockers(r) = {}
  /\ held' = [held EXCEPT ![r] = [m \in Pruned(r) |-> Gone]]
  /\ Goto(r, "upsert")
  /\ UNCHANGED <<books, open, cache, now, req, raced>>

\* Broken: the loop asks what is left before it has written the month.
UpsertOneMore(r) ==
  /\ step[r] = "upsert"
  /\ Blockers(r) = {}
  /\ NextMonth(r) # {}
  /\ held' = [held EXCEPT ![r] =
                Over(Generate(req[r].facts, NextMonth(r), Build, req[r].at), @)]
  /\ Goto(r, IF Unwritten(r) = {} THEN "commit" ELSE "upsert")
  /\ UNCHANGED <<books, open, cache, now, req, raced>>

Upsert(r) ==
  /\ step[r] = "upsert"
  /\ Blockers(r) = {}
  /\ NextMonth(r) # {}
  /\ held' = [held EXCEPT ![r] =
                Over(Generate(req[r].facts, NextMonth(r), Build, req[r].at), @)]
  /\ Goto(r, IF Unwritten(r) \subseteq NextMonth(r) THEN "commit" ELSE "upsert")
  /\ UNCHANGED <<books, open, cache, now, req, raced>>

Publish(r) ==
  LET all == Over(held[r], cache)
  IN  cache' = [m \in {n \in DOMAIN all : all[n] # Gone} |-> all[m]]

Commit(r) ==
  /\ step[r] = "commit"
  /\ Publish(r)
  /\ held' = [held EXCEPT ![r] = Empty]
  /\ Goto(r, "list")
  /\ UNCHANGED <<books, open, now, req, raced>>

\* The read ends; its transaction, if it has one, is rolled back.
End(r) ==
  /\ Goto(r, "idle")
  /\ req' = [req EXCEPT ![r] = Empty]
  /\ held' = [held EXCEPT ![r] = Empty]
  /\ UNCHANGED <<books, open, cache, now, raced>>

\* ListMonthlyReports: the reader is shown what the cache holds now.
List(r) == step[r] = "list" /\ End(r)

\* The client is gone, a statement failed.
Rollback(r) == step[r] # "idle" /\ End(r)

\* Reads that wait for one another in a ring: one of them is chosen to fail.
Ring == {s \in SUBSET Request : s # {} /\ \A q \in s : Blockers(q) \cap s # {}}

DeadlockVictim(r) ==
  /\ \E s \in Ring : r \in s /\ \A z \in Ring : z \subseteq s => z = s
  /\ End(r)

----------------------------------------------------------------------------

Statement(r) == \/ Load(r) \/ Watermark(r) \/ Check(r) \/ BeginRegeneration(r)
                \/ Prune(r) \/ Upsert(r) \/ Commit(r) \/ List(r)

RefreshNext ==
  \/ \E i \in Input : \/ \E m \in Month, v \in Value \cup {Gone} : BeginWrite(i, m, v)
                      \/ CommitWrite(i) \/ RollbackWrite(i)
  \/ \E r \in Request : Begin(r) \/ Statement(r) \/ Rollback(r) \/ DeadlockVictim(r)

RefreshSpec == RefreshInit /\ [][RefreshNext]_refreshVars

\* A read goes on while its statements can run, PostgreSQL queues the waiters of a
\* row, and its deadlock detector fires.
FairSpec == RefreshSpec /\ \A r \in Request : SF_refreshVars(Statement(r)) /\ WF_refreshVars(DeadlockVictim(r))

----------------------------------------------------------------------------
(* Properties *)

About(facts, i) == {f \in facts : f.input = i}

\* What is shown about a row is what the books say, unless the row was written
\* during this very read or its latest write overlapped a refresh: two reads, of
\* users whose calendars differ too, never spoil the cache for one another.
OnlyRacesGoStale ==
  [][\A r \in Request : List(r) =>
       \A m \in DOMAIN cache, i \in Input \ (raced \cup req[r].since) :
         About(cache[m].facts, i) = About(Report(Facts(books), m), i)]_refreshVars

\* A read that no write overlaps reflects every write before it
\* (INV-STALENESS-01): more than the code keeps, see OnlyRacesGoStale.
ReadAfterWrite ==
  [][\A r \in Request : List(r) /\ req[r].since = {} =>
       \A m \in DOMAIN cache : cache[m].facts = Report(Facts(books), m)]_refreshVars

\* Every read is answered: two refreshes lock months in the order their ranges
\* give them, which a ring of waits may come of.
EveryReadEnds == \A r \in Request : step[r] # "idle" ~> step[r] = "idle"
=============================================================================
