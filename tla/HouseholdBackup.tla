---------------------------- MODULE HouseholdBackup ----------------------------
(***************************************************************************)
(* Export, restore and erasure of a household (package backup).  The tables *)
(* are one graph of rows: what matters is which table a row is in, whose     *)
(* household it belongs to, and the rows it references.  Positions stand for *)
(* tags, positions and details, history for snapshots and transactions.      *)
(*                                                                          *)
(* An export reads its sections one statement at a time, outside any        *)
(* transaction.  A restore or an erasure is one transaction that deletes    *)
(* table by table; the members' requests go on meanwhile.                   *)
(***************************************************************************)
EXTENDS Integers, Sequences, FiniteSets

CONSTANTS
  Person,
  Tx,       \* restores and erasures
  Nil,
  MaxId,    \* bound on the rows that are ever made
  MaxTx,    \* bound on the restores and erasures
  MaxRequests, \* bound on the members' requests
  Idle      \* bound: do members write with no export, restore or erasure under way?

ASSUME BackupAssumption == MaxId \in Nat /\ MaxTx \in Nat /\ MaxRequests \in Nat
                           /\ Idle \in BOOLEAN /\ Nil \notin Person \cup 1 .. MaxId

\* The households there are to begin with have up to this many rows.
ASSUME RoomAssumption == MaxId >= 6

VARIABLES
  db,       \* id |-> row, the committed rows
  cred,     \* user |-> its password, for the users that have one
  next,     \* the next id, and the next password
  export,   \* the export under way, or Nil
  file,     \* the last file exported, or Nil
  tx,       \* transaction |-> its state, or Nil
  begun,    \* how many transactions there were
  asked     \* how many requests of members

vars == <<db, cred, next, export, file, tx, begun, asked>>

Id == 1 .. MaxId

Section == {"households", "users", "positions", "history"}

\* up: the references validateGraph checks; also: those it leaves to the
\* database (created_by, supersedes).
Row == [table : Section, home : Id, up : SUBSET Id, also : SUBSET Id, deleted : BOOLEAN,
        who : Person \cup {Nil}, sub : BOOLEAN]

NewRow(table, home, up, also) ==
  [table |-> table, home |-> home, up |-> up, also |-> also, deleted |-> FALSE,
   who |-> Nil, sub |-> FALSE]

NewUser(home, also, p, sub) ==
  [NewRow("users", home, {home}, also) EXCEPT !.who = p, !.sub = sub]

Refs(row) == row.up \cup row.also

Closed(rows) == \A i \in DOMAIN rows : Refs(rows[i]) \subseteq DOMAIN rows

Without(f, S) == [i \in DOMAIN f \ S |-> f[i]]

Over(f, g) == [i \in DOMAIN f \cup DOMAIN g |-> IF i \in DOMAIN g THEN g[i] ELSE f[i]]

RowsIn(rows, table, home) == {i \in DOMAIN rows : rows[i].table = table /\ rows[i].home = home}

Users(rows) == {i \in DOMAIN rows : rows[i].table = "users"}

TypeOK ==
  /\ DOMAIN db \subseteq Id /\ \A i \in DOMAIN db : db[i] \in Row
  /\ Closed(db)
  /\ \A i, j \in Users(db) : db[i].who = db[j].who => i = j
  /\ DOMAIN cred \subseteq Users(db)
  /\ file # Nil => \A i \in DOMAIN file.rows : file.rows[i] \in Row /\ file.rows[i].home = file.home

Open == {t \in Tx : tx[t] # Nil}

\* f has a household, alone or with a member m, a position and its history; the
\* position may have ended, or been rolled over and deleted since.
Init ==
  \E f, m \in Person, fsub, msub \in BOOLEAN, past \in {"alone", "going", "ended", "rolled"} :
    /\ f # m
    /\ past = "alone" => ~msub
    /\ db = <<NewRow("households", 1, {}, {}), NewUser(1, {}, f, fsub)>> \o
            IF past = "alone" THEN << >>
            ELSE << NewUser(1, {2}, m, msub),
                    [NewRow("positions", 1, {1}, {2}) EXCEPT !.deleted = past = "rolled"],
                    [NewRow("history", 1, {4}, {2}) EXCEPT !.deleted = past # "going"] >> \o
                 CASE past = "going"  -> << >>
                   [] past = "ended"  -> <<NewRow("history", 1, {4}, {3, 5})>>
                   [] past = "rolled" -> <<NewRow("positions", 1, {1, 4}, {2})>>
    /\ cred = [u \in {i \in Users(db) : ~db[i].sub} |-> u]
    /\ next = Len(db) + 1
    /\ export = Nil /\ file = Nil
    /\ tx = [t \in Tx |-> Nil] /\ begun = 0 /\ asked = 0

----------------------------------------------------------------------------
(* The members' requests, one transaction each *)

\* What open transactions have deleted and inserted and not committed.
Gone == UNION {tx[t].gone : t \in Open}

Loaded == UNION {DOMAIN tx[t].loaded : t \in Open}

\* A request that touches, references or would repeat a row an open transaction
\* has written waits for that transaction.
Unlocked(ids) == ids \cap (Gone \cup Loaded) = {}

\* Exports and transactions that were under way have met a request.
Meets(u) ==
  /\ asked < MaxRequests /\ asked' = asked + 1
  /\ Idle \/ export # Nil \/ Open # {} \/ 1 \notin DOMAIN db
  /\ export' = IF export = Nil THEN Nil ELSE [export EXCEPT !.quiet = FALSE]
  /\ tx' = [t \in Tx |-> IF tx[t] = Nil THEN Nil
                         ELSE [tx[t] EXCEPT !.raced = TRUE, !.reset = @ \/ tx[t].caller = u]]

\* The request makes these rows, with the ids from next on.
Makes(rows) ==
  /\ next + Len(rows) - 1 <= MaxId
  /\ next' = next + Len(rows)
  /\ db' = Over(db, [i \in next .. next + Len(rows) - 1 |-> rows[i - next + 1]])
  /\ Meets(Nil)
  /\ UNCHANGED <<file, begun>>

Live(i, table) == i \in DOMAIN db /\ db[i].table = table /\ ~db[i].deleted

\* A person the instance does not know founds a household.
CreateFounder(p, sub) ==
  /\ \A u \in Users(db) : db[u].who # p
  /\ \A t \in Open : \A u \in DOMAIN tx[t].loaded : tx[t].loaded[u].who # p
  /\ Makes(<<NewRow("households", next, {}, {}), NewUser(next, {}, p, sub)>>)
  /\ cred' = IF sub THEN cred ELSE Over(cred, [u \in {next + 1} |-> next + 1])

\* An invitation of u is accepted.
CreateMember(u, p, sub) ==
  /\ Live(u, "users") /\ Unlocked({u, db[u].home})
  /\ \A v \in Users(db) : db[v].who # p
  /\ \A t \in Open : \A v \in DOMAIN tx[t].loaded : tx[t].loaded[v].who # p
  /\ Makes(<<NewUser(db[u].home, {u}, p, sub)>>)
  /\ cred' = IF sub THEN cred ELSE Over(cred, [v \in {next} |-> next])

\* from is what a deposit was rolled over from.
CreatePosition(u, from) ==
  /\ Live(u, "users") /\ Unlocked({u, db[u].home} \cup from)
  /\ \A p \in from : Live(p, "positions") /\ db[p].home = db[u].home
  /\ Makes(<<NewRow("positions", db[u].home, {db[u].home} \cup from, {u})>>)
  /\ UNCHANGED cred

CreateSnapshot(u, p) ==
  /\ Live(u, "users") /\ Live(p, "positions") /\ db[p].home = db[u].home
  /\ Unlocked({u, p})
  /\ Makes(<<NewRow("history", db[p].home, {p}, {u})>>)
  /\ UNCHANGED cred

\* A termination displaces the row recorded for its month.
DisplaceSnapshot(u, h) ==
  /\ Live(u, "users") /\ Live(h, "history") /\ db[h].home = db[u].home
  /\ Unlocked({u, h} \cup db[h].up)
  /\ next <= MaxId /\ next' = next + 1
  /\ db' = Over([db EXCEPT ![h].deleted = TRUE],
                [i \in {next} |-> NewRow("history", db[h].home, db[h].up, {u, h})])
  /\ Meets(Nil)
  /\ UNCHANGED <<cred, file, begun>>

DeletePosition(p) ==
  LET dead == {p} \cup {h \in DOMAIN db : db[h].table = "history" /\ p \in db[h].up}
  IN  /\ Live(p, "positions") /\ Unlocked(dead)
      /\ db' = [i \in DOMAIN db |-> IF i \in dead THEN [db[i] EXCEPT !.deleted = TRUE] ELSE db[i]]
      /\ Meets(Nil)
      /\ UNCHANGED <<cred, next, file, begun>>

\* A new password, by a reset.
SetPassword(u) ==
  /\ u \in DOMAIN cred /\ Unlocked({u})
  /\ next <= MaxId /\ next' = next + 1
  /\ cred' = [cred EXCEPT ![u] = next]
  /\ Meets(u)
  /\ UNCHANGED <<db, file, begun>>

----------------------------------------------------------------------------
(* Export *)

Sections == <<"households", "users", "positions", "history">>

\* Broken: full fidelity only concerns the history.
KeepsHistory(i, full) ==
  \/ ~db[i].deleted
  \/ full /\ db[i].table = "history"

\* What a section's query carries.  Its liveness follows the parent, and a row
\* that a live close row supersedes is carried by a compacted file too.
Keeps(i, full) ==
  \/ full
  \/ /\ db[i].table = "history" => \A p \in db[i].up : ~db[p].deleted
     /\ ~db[i].deleted \/ \E c \in DOMAIN db : ~db[c].deleted /\ db[c].table = "history" /\ i \in db[c].also

handleExport(home, full) ==
  /\ export = Nil /\ file = Nil
  /\ home \in DOMAIN db /\ db[home].table = "households"
  /\ export' = [home |-> home, full |-> full, k |-> 1, rows |-> << >>, quiet |-> TRUE]
  /\ UNCHANGED <<db, cred, next, file, tx, begun, asked>>

\* The next section, in one statement; with the last one the file is complete.
\* The first finds no household if it has been erased meanwhile.
gather ==
  LET part == {i \in RowsIn(db, Sections[export.k], export.home) : Keeps(i, export.full)}
      rows == Over(export.rows, [i \in part |-> db[i]])
  IN  /\ export # Nil
      /\ IF export.k = 1 /\ part = {} THEN export' = Nil /\ UNCHANGED file
         ELSE IF export.k < Len(Sections)
         THEN export' = [export EXCEPT !.k = @ + 1, !.rows = rows] /\ UNCHANGED file
         ELSE /\ export' = Nil
              /\ file' = [home |-> export.home, full |-> export.full, rows |-> rows,
                          quiet |-> export.quiet]
      /\ UNCHANGED <<db, cred, next, tx, begun, asked>>

----------------------------------------------------------------------------
(* Restore and erasure *)

validateGraph(rows) == \A i \in DOMAIN rows : rows[i].up \subseteq DOMAIN rows

\* The users of the file that are the caller: a Google account by its subject,
\* a local one by its address, which may belong to a Google account there.
matchCaller(rows, caller) ==
  {u \in Users(rows) : rows[u].who = db[caller].who /\ (db[caller].sub => rows[u].sub)}

\* Broken: the password is left behind.
StashNothing(caller) == Nil

Stash(caller) == IF ~db[caller].sub /\ caller \in DOMAIN cred THEN cred[caller] ELSE Nil

Begin(t, caller, load, as) ==
  /\ tx[t] = Nil /\ begun < MaxTx
  /\ begun' = begun + 1
  /\ tx' = [tx EXCEPT ![t] =
       [caller |-> caller, by |-> db[caller], home |-> db[caller].home, load |-> load, as |-> as,
        stash |-> IF load THEN Stash(caller) ELSE Nil,
        k |-> 1, gone |-> {}, waits |-> {}, loaded |-> << >>, raced |-> FALSE, reset |-> FALSE]]
  /\ UNCHANGED <<db, cred, next, export, file, asked>>

\* The file is parsed and validated again, then the transaction begins.  (On an
\* instance without local accounts a file with a local member is refused.)
handleRestoreCommit(t, caller) ==
  /\ Live(caller, "users") /\ Unlocked({caller})
  /\ file # Nil /\ validateGraph(file.rows)
  /\ \E as \in matchCaller(file.rows, caller) : Begin(t, caller, TRUE, as)

\* Founders only; the typed name is compared before.
handleEraseHousehold(t, caller) ==
  /\ Live(caller, "users") /\ Unlocked({caller})
  /\ \A u \in Users(db) : u \notin db[caller].also
  /\ Begin(t, caller, FALSE, Nil)

\* Broken: positions before the history that references them.
WipeParentsFirst(k) == <<"positions", "history", "users", "households">>[k]

wipeDeletes(k) == <<"history", "positions", "users", "households">>[k]

Others(t) == Open \ {t}

GoneBy(S) == UNION {tx[s].gone : s \in S}

\* Broken: the file is merged into what there is.
ViewMerged(t) == Over(db, tx[t].loaded)

\* What t sees: the committed rows and its own changes.
View(t) == Over(Without(db, tx[t].gone), tx[t].loaded)

\* What the statement t is at is to delete: fixed when it starts, and held while
\* it waits for rows another transaction has deleted.
Targets(t) == IF tx[t].waits # {} THEN tx[t].waits \cap DOMAIN db
              ELSE RowsIn(Without(db, tx[t].gone), wipeDeletes(tx[t].k), tx[t].home)

AtWipe(t) == tx[t] # Nil /\ tx[t].k <= 4

Waits(t) == AtWipe(t) /\ Targets(t) \cap GoneBy(Others(t)) # {}

\* No row may be left that references what the statement deletes.
WipeRefused(t) ==
  LET left == Without(db, tx[t].gone \cup Targets(t))
  IN  \E i \in DOMAIN left : Refs(left[i]) \cap Targets(t) # {}

WipeWaits(t) ==
  /\ Waits(t) /\ tx[t].waits = {}
  /\ tx' = [tx EXCEPT ![t].waits = Targets(t)]
  /\ UNCHANGED <<db, cred, next, export, file, begun, asked>>

wipeHousehold(t) ==
  /\ AtWipe(t) /\ ~Waits(t) /\ ~WipeRefused(t)
  /\ tx' = [tx EXCEPT ![t].gone = @ \cup Targets(t), ![t].waits = {}, ![t].k = @ + 1]
  /\ UNCHANGED <<db, cred, next, export, file, begun, asked>>

AtLoad(t) == tx[t] # Nil /\ tx[t].k = 5 /\ tx[t].load

\* The ids and the persons of the file must be free, its references resolve.
LoadRefused(t) ==
  LET left == Without(db, tx[t].gone)
      rows == file.rows
  IN  \/ DOMAIN rows \cap DOMAIN left # {}
      \/ \E u \in Users(left), v \in Users(rows) : left[u].who = rows[v].who
      \/ \E i \in DOMAIN rows : ~(Refs(rows[i]) \subseteq DOMAIN left \cup DOMAIN rows)

loadHousehold(t) ==
  /\ AtLoad(t) /\ ~LoadRefused(t)
  /\ \A s \in Others(t) : DOMAIN file.rows \cap (DOMAIN tx[s].loaded \cup tx[s].gone) = {}
  /\ tx' = [tx EXCEPT ![t].loaded = file.rows, ![t].k = 6]
  /\ UNCHANGED <<db, cred, next, export, file, begun, asked>>

\* The statements of the other transactions find the rows deleted that they
\* were waiting for, and know nothing of the rows inserted meanwhile; one that
\* waited for all its rows is done.
AfterCommit(t) ==
  [s \in Tx |->
     IF s = t \/ tx[s] = Nil THEN Nil
     ELSE LET left == tx[s].waits \ tx[t].gone
          IN  [tx[s] EXCEPT !.raced = TRUE, !.reset = TRUE, !.waits = left,
                            !.k = IF tx[s].waits # {} /\ left = {} THEN @ + 1 ELSE @]]

\* Restoring ends by giving the caller the password of before, under the id of
\* the file; passwords of users who are gone have gone with them.
Commit(t) ==
  LET rest == Without(cred, tx[t].gone)
  IN  /\ tx[t] # Nil /\ tx[t].k = IF tx[t].load THEN 6 ELSE 5
      /\ db' = View(t)
      /\ cred' = IF tx[t].stash = Nil THEN rest
                 ELSE Over(rest, [u \in {tx[t].as} |-> tx[t].stash])
      /\ export' = IF export = Nil THEN Nil ELSE [export EXCEPT !.quiet = FALSE]
      /\ tx' = AfterCommit(t)
      /\ UNCHANGED <<next, file, begun, asked>>

\* A statement failed, or the server is gone.
Rollback(t) ==
  /\ tx[t] # Nil
  /\ tx' = [tx EXCEPT ![t] = Nil]
  /\ UNCHANGED <<db, cred, next, export, file, begun, asked>>

----------------------------------------------------------------------------

Next ==
  \/ \E p \in Person, sub \in BOOLEAN : CreateFounder(p, sub)
  \/ \E u \in Id : \/ \E from \in {{}} \cup {{p} : p \in Id} : CreatePosition(u, from)
                   \/ \E i \in Id : CreateSnapshot(u, i) \/ DisplaceSnapshot(u, i)
                   \/ SetPassword(u)
                   \/ \E p \in Person, sub \in BOOLEAN : CreateMember(u, p, sub)
  \/ \E p \in Id : DeletePosition(p)
  \/ \E home \in Id, full \in BOOLEAN : handleExport(home, full)
  \/ gather
  \/ \E t \in Tx : \/ \E caller \in Id : handleRestoreCommit(t, caller) \/ handleEraseHousehold(t, caller)
                   \/ WipeWaits(t) \/ wipeHousehold(t) \/ loadHousehold(t) \/ Commit(t) \/ Rollback(t)

Spec == Init /\ [][Next]_vars

----------------------------------------------------------------------------
(* Properties *)

\* What an export wrote while nobody wrote to the books can be restored: in full
\* fidelity every reference resolves (INV-BACKUP-10, an exact round-trip).  Of a
\* compacted file two references may be missing, though INV-BACKUP-16 knows of
\* none: what a deposit was rolled over from, if that is deleted, and what a
\* displaced row had displaced before (PositionLifecycle, CompactedFileClosed).
QuietFileRestores ==
  file # Nil /\ file.quiet =>
    \A i \in DOMAIN file.rows :
      ~(Refs(file.rows[i]) \subseteq DOMAIN file.rows) =>
        ~file.full /\ (file.rows[i].deleted \/ file.rows[i].table = "positions")

\* A restore of such a file, or an erasure, is refused by the database only
\* when a request or another restore came in between, or when a person of the
\* file has founded another household since.
Refused(t) == \/ AtWipe(t) /\ ~Waits(t) /\ WipeRefused(t)
              \/ AtLoad(t) /\ LoadRefused(t)

Elsewhere(t) ==
  \E u \in Users(db), v \in Users(file.rows) :
    db[u].home # tx[t].home /\ db[u].who = file.rows[v].who

OnlyRacesFail ==
  \A t \in Open :
    ~tx[t].raced /\ (tx[t].load => Closed(file.rows) /\ ~Elsewhere(t)) => ~Refused(t)

\* The household that t is to erase has been restored under it.
BroughtBack(t) == tx[t].raced /\ file # Nil /\ file.home = tx[t].home

\* Whatever came in between, a restore that commits leaves the rows of the file,
\* tombstones included, and no row more of either household; an erasure leaves
\* none, or finds the household restored in between and leaves it all; other
\* households keep theirs (INV-BACKUP-09, 10 and 13).
RestoreIsWhole ==
  [][\A t \in Open :
       Commit(t) =>
         LET homes == {tx[t].home} \cup (IF tx[t].load THEN {file.home} ELSE {})
             rest  == {i \in DOMAIN db : db[i].home \notin homes}
             rows  == IF tx[t].load THEN file.rows ELSE << >>
         IN  \/ db' = Over([i \in rest |-> db[i]], rows)
             \/ ~tx[t].load /\ BroughtBack(t) /\ db' = db]_vars

\* Who restores is the same person afterwards, and signs in as before: by Google,
\* or with the password, unless that was reset, or another restore committed,
\* during this one (INV-AUTH-22 and 23).
RestorerComesBack ==
  [][\A t \in Open :
       Commit(t) /\ tx[t].load =>
         LET u  == tx[t].caller
             by == tx[t].by
             v  == tx[t].as
         IN  /\ v \in Users(db') /\ db'[v].who = by.who
             /\ by.sub => db'[v].sub
             /\ u \in DOMAIN cred /\ ~by.sub /\ ~tx[t].reset =>
                  v \in DOMAIN cred' /\ cred'[v] = cred[u]]_vars

\* "A file that previews cleanly is one that commit will accept"
\* (backup/restore_handler.go).
PreviewIsKept == file # Nil /\ validateGraph(file.rows) => Closed(file.rows)
================================================================================
