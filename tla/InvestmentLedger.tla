-------------------------- MODULE InvestmentLedger --------------------------
(***************************************************************************)
(* Investments, their snapshots and their transactions.  A transaction may  *)
(* end an investment (a maturity), the end of an investment may write a     *)
(* transaction (a settlement), the term of a deposit confines both, and     *)
(* deposits roll over into one another.                                     *)
(*                                                                          *)
(* A handler reads the investment, decides, and then writes in one          *)
(* transaction, which checks little of what was read again: a request is    *)
(* two steps, Ask and the commit of what was asked, and others may come in  *)
(* between.  The statements within a transaction are LifecycleTx's subject. *)
(***************************************************************************)
EXTENDS CloseSnapshot

CONSTANTS
  Born,         \* the investments there are at first
  Busy,         \* bound: those that are written to; the others only roll over
  Date,         \* days
  DaysPerMonth,
  UserAmount,   \* the amounts users record
  TxnId,
  Client,
  Forgotten,    \* see held
  MaxRequests   \* bound

ASSUME DateAssumption == Date \subseteq Int /\ Nil \notin Date /\ DaysPerMonth \in Int
ASSUME BornAssumption == Born \subseteq Position /\ Busy \subseteq Position /\ Nil \notin Position
ASSUME UserAssumption == UserAmount \subseteq Amount \ {Zero} /\ UserAmount # {}
ASSUME HeldAssumption == Forgotten \notin Amount \cup {Nil}

VARIABLES
  investment,  \* id |-> row
  snap,        \* the snapshot table
  txn,         \* the transaction table: id |-> row
  request,     \* client |-> what it asked for and what it saw, or Nil
  asked,       \* how many requests there were
  \* History:
  held,        \* what the month of its end read before an investment ended
  touched,     \* the investments whose month of end a user wrote to since
  strayed      \* what happened to an investment that the code does not guard

vars == <<investment, snap, txn, request, asked, held, touched, strayed>>

MonthOf(d) == d \div DaysPerMonth

ASSUME MonthOfAssumption == \A d \in Date : MonthOf(d) \in Month
ASSUME DaysAssumption == \A m \in Month : \E d \in Date : MonthOf(d) = m

Status == {"active", "sold", "matured", "untracked"}

Stray == {"stale", "offTerm", "redated", "reopened", "split"}

Subtype == {"stock", "bond", "time_deposit"}

Investment == [subtype : Subtype, status : Status, at : Date \cup {Nil}, deleted : BOOLEAN,
               from : Position \cup {Nil}, term : SUBSET Date]

Transaction == [of : Position, type : {"trade", "maturity"}, date : Date, deleted : BOOLEAN]

TypeOK ==
  /\ DOMAIN investment \subseteq Position
  /\ \A i \in DOMAIN investment :
       investment[i] \in Investment /\ ((investment[i].at = Nil) <=> (investment[i].status = "active"))
  /\ IsTable(snap)
  /\ DOMAIN txn \subseteq TxnId /\ \A t \in DOMAIN txn : txn[t] \in Transaction

Opened(subtype, from, term) ==
  [subtype |-> subtype, status |-> "active", at |-> Nil, deleted |-> FALSE, from |-> from, term |-> term]

\* No investments yet, or those of Born with snapshots of some months.
Init ==
  /\ \E born \in {{}, Born} :
       /\ investment \in [born -> {Opened(subtype, Nil, Date) : subtype \in Subtype}]
       /\ \E months \in SUBSET Month :
            LET cells == [x \in born \X months |-> CHOOSE a \in UserAmount : TRUE]
            IN  \E id \in [DOMAIN cells -> SnapId] :
                  /\ \A x, y \in DOMAIN id : id[x] = id[y] => x = y
                  /\ snap = Upsert([s \in {} |-> Nil], cells, id)
  /\ txn = [t \in {} |-> Nil]
  /\ request = [c \in Client |-> Nil]
  /\ asked = 0
  /\ held = [i \in Position |-> Forgotten] /\ touched = {}
  /\ strayed = [i \in Position |-> {}]

----------------------------------------------------------------------------
(* What is in the tables *)

Exists(i) == i \in DOMAIN investment /\ ~investment[i].deleted

LiveTxns(i) == {t \in DOMAIN txn : ~txn[t].deleted /\ txn[t].of = i}

LiveMaturities(i) == {t \in LiveTxns(i) : txn[t].type = "maturity"}

IsDeposit(i) == investment[i].subtype = "time_deposit"

\* The term is a set of consecutive days; only deposits have one.
InTermDate(i, d) == IsDeposit(i) => d \in investment[i].term

InTermMonth(i, m) == IsDeposit(i) => \E d \in investment[i].term : MonthOf(d) = m

Accepts(i) == CASE IsDeposit(i) -> {"maturity"}
                [] investment[i].subtype = "bond" -> {"trade", "maturity"}
                [] OTHER -> {"trade"}

\* The transaction that settles an end of this status, or Nil.
SettlementTypeFor(i, status) ==
  CASE status = "matured" /\ investment[i].subtype # "stock" -> "maturity"
    [] status = "sold" /\ ~IsDeposit(i)                     -> "trade"
    [] OTHER                                                   -> Nil

Successors(i) == {j \in DOMAIN investment : Exists(j) /\ investment[j].from = i}

With(f, x, v) == [y \in DOMAIN f \cup {x} |-> IF y = x THEN v ELSE f[y]]

NewTxn(i, type, d) == [of |-> i, type |-> type, date |-> d, deleted |-> FALSE]

FreeTxn == TxnId \ DOMAIN txn

----------------------------------------------------------------------------
(* Requests *)

Ask(c, r) ==
  /\ request[c] = Nil /\ asked < MaxRequests
  /\ asked' = asked + 1
  /\ request' = [request EXCEPT ![c] = r]
  /\ UNCHANGED <<investment, snap, txn, held, touched, strayed>>

Done(c) == request' = [request EXCEPT ![c] = Nil] /\ UNCHANGED asked

\* A request that is done at once.
AtOnce == asked < MaxRequests /\ asked' = asked + 1 /\ UNCHANGED request

Strays(i, how) == strayed' = [strayed EXCEPT ![i] = @ \cup how]

If(happened, how) == IF happened THEN {how} ELSE {}

\* An error or a lost client: the transaction rolls back.
Fail(c) ==
  /\ request[c] # Nil
  /\ Done(c)
  /\ UNCHANGED <<investment, snap, txn, held, touched, strayed>>

AskTransaction(c, i, type, d) ==
  /\ Exists(i)
  /\ type \in Accepts(i) /\ InTermDate(i, d)
  /\ investment[i].status = "active"
  /\ Ask(c, [op |-> "create", of |-> i, type |-> type, date |-> d, saw |-> investment[i]])

AskEdit(c, t, d) ==
  /\ t \in DOMAIN txn /\ ~txn[t].deleted /\ Exists(txn[t].of)
  /\ txn[t].type = "maturity" => InTermDate(txn[t].of, d)
  /\ Ask(c, [op |-> "edit", of |-> txn[t].of, txn |-> t, date |-> d, was |-> txn[t].date,
             saw |-> investment[txn[t].of]])

\* Broken: a re-asserted end is settled again.
AskLifecycleSettlingAgain(c, i, status, at, settle) ==
  /\ Exists(i)
  /\ (status = "active") <=> (at = Nil)
  /\ status \notin {"active", "untracked", investment[i].status} => SettlementTypeFor(i, status) # Nil
  /\ settle => status # "active" /\ SettlementTypeFor(i, status) # Nil
  /\ Ask(c, [op |-> "lifecycle", of |-> i, status |-> status, date |-> at, settle |-> settle,
             saw |-> investment[i]])

AskLifecycle(c, i, status, at, settle) ==
  /\ Exists(i)
  /\ (status = "active") <=> (at = Nil)
  /\ status \notin {"active", "untracked", investment[i].status} => SettlementTypeFor(i, status) # Nil
  /\ settle => /\ investment[i].status = "active" /\ status # "active"
               /\ SettlementTypeFor(i, status) # Nil
  /\ Ask(c, [op |-> "lifecycle", of |-> i, status |-> status, date |-> at, settle |-> settle,
             saw |-> investment[i]])

\* A snapshot by its own form; the term it must be in is read before.
AskSnapshot(c, i, m) ==
  /\ Exists(i)
  /\ InTermMonth(i, m)
  /\ Ask(c, [op |-> "snapshot", of |-> i, month |-> m, saw |-> investment[i]])

\* Broken: a deposit may roll over twice.
AskLinkAnyway(c, i, j) ==
  /\ i # j /\ Exists(i) /\ Exists(j) /\ IsDeposit(i) /\ IsDeposit(j)
  /\ investment[j].from = Nil /\ investment[i].from # j
  /\ Ask(c, [op |-> "link", of |-> j, source |-> i, saw |-> investment[j],
             sawSource |-> investment[i], taken |-> Successors(i)])

\* Deposit i rolled over into deposit j.
AskLink(c, i, j) ==
  /\ i # j /\ Exists(i) /\ Exists(j) /\ IsDeposit(i) /\ IsDeposit(j)
  /\ investment[j].from = Nil /\ investment[i].from # j
  /\ Successors(i) = {}
  /\ Ask(c, [op |-> "link", of |-> j, source |-> i, saw |-> investment[j],
             sawSource |-> investment[i], taken |-> Successors(i)])

----------------------------------------------------------------------------
(* What the end of an investment does *)

\* What the new month of end reads before the close row is written to s.
Holds(i, s, at) ==
  {[held EXCEPT ![i] = a] : a \in {b \in Amount \cup {Nil} : Reads(s, i, MonthOf(at), b)}}

SameMonth(d, e) == MonthOf(d) = MonthOf(e)

End(i, status, at) == investment' = [investment EXCEPT ![i].status = status, ![i].at = at]

CommitTransaction(c) ==
  LET r == request[c]
      i == r.of
  IN  /\ r.op = "create" /\ Exists(i)
      /\ \E t \in FreeTxn : txn' = With(txn, t, NewTxn(i, r.type, r.date))
      /\ IF r.type = "maturity"
         THEN /\ End(i, "matured", r.date)
              /\ snap' \in WriteCloseSnapshot(snap, i, MonthOf(r.date))
              /\ held' \in Holds(i, snap, r.date) /\ touched' = touched \ {i}
         ELSE UNCHANGED <<investment, snap, held, touched>>
      /\ Strays(i, If(r.saw # investment[i], "stale"))
      /\ Done(c)

\* Broken: the close row is not taken along.
RelocatedNotReverted(i, was, d) == WriteCloseSnapshot(snap, i, MonthOf(d))

\* Broken: the month that is left is reverted last, and whether it is left or not.
RelocatedThenReverted(i, was, d) ==
  UNION {RevertCloseSnapshot(s, i, MonthOf(was)) : s \in WriteCloseSnapshot(snap, i, MonthOf(d))}

Left(i, was, d) == IF SameMonth(was, d) THEN {snap} ELSE RevertCloseSnapshot(snap, i, MonthOf(was))

\* The close row follows the maturity to its new month.
Relocated(i, was, d) == UNION {WriteCloseSnapshot(s, i, MonthOf(d)) : s \in Left(i, was, d)}

CommitEdit(c) ==
  LET r == request[c]
      i == r.of
  IN  /\ r.op = "edit" /\ Exists(i) /\ ~txn[r.txn].deleted
      /\ txn' = [txn EXCEPT ![r.txn].date = r.date]
      /\ IF txn[r.txn].type = "maturity"
         THEN /\ End(i, "matured", r.date)
              /\ snap' \in Relocated(i, r.was, r.date)
              /\ IF investment[i].at # Nil /\ SameMonth(investment[i].at, r.date)
                 THEN held' = held
                 ELSE held' \in UNION {Holds(i, s, r.date) : s \in Left(i, r.was, r.date)}
              /\ touched' = touched \ {i}
         ELSE UNCHANGED <<investment, snap, held, touched>>
      /\ Strays(i, If(r.saw # investment[i] \/ r.was # txn[r.txn].date, "stale"))
      /\ Done(c)

ApplyCloseSnapshot(i, at, prior) ==
  IF at # Nil THEN WriteCloseSnapshot(snap, i, MonthOf(at))
  ELSE IF prior # Nil THEN RevertCloseSnapshot(snap, i, MonthOf(prior))
  ELSE {snap}

CommitLifecycle(c) ==
  LET r == request[c]
      i == r.of
      was == investment[i].at
  IN  /\ r.op = "lifecycle" /\ Exists(i)
      /\ End(i, r.status, r.date)
      /\ IF r.settle
         THEN \E t \in FreeTxn :
                txn' = With(txn, t, NewTxn(i, SettlementTypeFor(i, r.status), r.date))
         ELSE UNCHANGED txn
      /\ snap' \in ApplyCloseSnapshot(i, r.date, r.saw.at)
      /\ CASE r.date = Nil -> held' = [held EXCEPT ![i] = Forgotten]
           [] r.date # Nil /\ was = Nil -> held' \in Holds(i, snap, r.date)
           [] r.date # Nil /\ was # Nil -> IF SameMonth(was, r.date) THEN held' = held
                                           ELSE held' = [held EXCEPT ![i] = Forgotten]
      /\ touched' = touched \ {i}
      /\ Strays(i, If(r.saw # investment[i], "stale")
                   \cup If(r.date # Nil /\ ~InTermDate(i, r.date), "offTerm")
                   \cup If(r.date # Nil /\ was # Nil /\ ~SameMonth(was, r.date), "redated")
                   \cup If(r.date = Nil /\ LiveMaturities(i) # {}, "reopened"))
      /\ Done(c)

\* A write of the user's to month m of i.
Touch(i, m) ==
  LET ended == i \in DOMAIN investment /\ investment[i].at # Nil /\ MonthOf(investment[i].at) = m
  IN  /\ touched' = IF ended THEN touched \cup {i} ELSE touched
      /\ held' = IF ended THEN [held EXCEPT ![i] = Forgotten] ELSE held

CommitSnapshot(c) ==
  LET r == request[c]
  IN  /\ r.op = "snapshot" /\ Exists(r.of)
      /\ LiveAt(snap, r.of, r.month) = {}
      /\ \E n \in Free(snap), a \in UserAmount : snap' = Insert(snap, n, NewRow(r.of, r.month, a, Nil))
      /\ Touch(r.of, r.month)
      /\ Strays(r.of, If(~InTermMonth(r.of, r.month), "stale"))
      /\ Done(c)
      /\ UNCHANGED <<investment, txn>>

CommitLink(c) ==
  LET r == request[c]
  IN  /\ r.op = "link" /\ Exists(r.of)
      /\ investment' = [investment EXCEPT ![r.of].from = r.source]
      /\ strayed' = [i \in Position |->
           strayed[i] \cup
             If(i \in {r.of, r.source, r.saw.from}
                /\ (\/ r.saw # investment[r.of] \/ r.sawSource # investment[r.source]
                    \/ Successors(r.source) # r.taken), "stale")]
      /\ Done(c)
      /\ UNCHANGED <<snap, txn, held, touched>>

----------------------------------------------------------------------------
(* Requests of one transaction or statement *)

\* A maturity that is deleted leaves the status and the close row as they are.
DeleteTransaction(t) ==
  /\ AtOnce
  /\ t \in DOMAIN txn /\ ~txn[t].deleted /\ Exists(txn[t].of)
  /\ txn' = [txn EXCEPT ![t].deleted = TRUE]
  /\ UNCHANGED <<investment, snap, held, touched, strayed>>

DeleteSnapshot(s) ==
  /\ AtOnce
  /\ s \in Live(snap) /\ Exists(snap[s].pos)
  /\ snap' = Archive(snap, s)
  /\ Touch(snap[s].pos, snap[s].month)
  /\ UNCHANGED <<investment, txn, strayed>>

\* The monthly entry and the import know nothing of a deposit's term.
UpsertSnapshot(i, m, a) ==
  /\ AtOnce
  /\ Exists(i)
  /\ LET cells == [x \in {<<i, m>>} |-> a]
     IN  \E id \in [NewCells(snap, cells) -> Free(snap)] : snap' = Upsert(snap, cells, id)
  /\ Touch(i, m)
  /\ Strays(i, If(~InTermMonth(i, m), "offTerm"))
  /\ UNCHANGED <<investment, txn>>

\* The children go first; snapshots and transactions.
DeleteInvestmentKeepingLedger(i) ==
  /\ AtOnce
  /\ Exists(i)
  /\ snap' = ArchiveAll(snap, i)
  /\ investment' = [investment EXCEPT ![i].deleted = TRUE]
  /\ UNCHANGED <<txn, held, touched, strayed>>

DeleteInvestment(i) ==
  /\ AtOnce
  /\ Exists(i)
  /\ snap' = ArchiveAll(snap, i)
  /\ txn' = [t \in DOMAIN txn |-> IF txn[t].of = i THEN [txn[t] EXCEPT !.deleted = TRUE] ELSE txn[t]]
  /\ investment' = [investment EXCEPT ![i].deleted = TRUE]
  /\ UNCHANGED <<held, touched, strayed>>

\* Broken: only the snapshots are looked at.
FitsSnapshots(i, term) == \A s \in Live(snap) : snap[s].pos = i => \E d \in term : MonthOf(d) = snap[s].month

\* The history of i lies within term.
Fits(i, term) ==
  /\ \A s \in Live(snap) : snap[s].pos = i => \E d \in term : MonthOf(d) = snap[s].month
  /\ \A t \in LiveTxns(i) : txn[t].date \in term

Terms == {{d \in Date : a <= d /\ d <= b} : a, b \in Date} \ ({{}} \cup {{d} : d \in Date})

UpdateTimeDeposit(i, term) ==
  /\ AtOnce
  /\ Exists(i) /\ IsDeposit(i) /\ Fits(i, term)
  /\ investment' = [investment EXCEPT ![i].term = term]
  /\ UNCHANGED <<snap, txn, held, touched, strayed>>

\* The source is only looked for.
CreateTimeDeposit(i, from, term) ==
  /\ AtOnce
  /\ i \notin DOMAIN investment
  /\ from # Nil => Exists(from)
  /\ investment' = With(investment, i, Opened("time_deposit", from, term))
  /\ strayed' = IF from = Nil THEN strayed
                ELSE [strayed EXCEPT ![from] = @ \cup If(Successors(from) # {}, "split")]
  /\ UNCHANGED <<snap, txn, held, touched>>

\* From a list: the position with snapshots of some months and, last, a maturity.
SeedInvestment(i, subtype, term, months, maturity) ==
  LET seeds == [x \in {i} \X months |-> CHOOSE a \in UserAmount : TRUE]
      all == months \cup {MonthOf(d) : d \in maturity}
      rows == [x \in {i} \X all |-> IF \E d \in maturity : x[2] = MonthOf(d) THEN Zero ELSE seeds[x]]
  IN  /\ AtOnce
      /\ i \notin DOMAIN investment
      /\ subtype = "time_deposit" => /\ \A m \in months : \E d \in term : MonthOf(d) = m
                                     /\ maturity \subseteq term
      /\ \E id \in [DOMAIN rows -> Free(snap)] :
           /\ \A x, y \in DOMAIN id : id[x] = id[y] => x = y
           /\ snap' = Upsert(snap, rows, id)
      /\ IF maturity = {} THEN /\ investment' = With(investment, i, Opened(subtype, Nil, term))
                               /\ UNCHANGED txn
         ELSE \E d \in maturity, t \in FreeTxn :
                /\ investment' = With(investment, i,
                     [Opened(subtype, Nil, term) EXCEPT !.status = "matured", !.at = d])
                /\ txn' = With(txn, t, NewTxn(i, "maturity", d))
      /\ UNCHANGED <<held, touched, strayed>>

Next ==
  \/ \E c \in Client :
       \/ \E i \in Busy, d \in Date, type \in {"trade", "maturity"} : AskTransaction(c, i, type, d)
       \/ \E t \in TxnId, d \in Date : AskEdit(c, t, d)
       \/ \E i \in Busy, status \in Status, at \in Date \cup {Nil}, settle \in BOOLEAN :
            AskLifecycle(c, i, status, at, settle)
       \/ \E i \in Busy, m \in Month : AskSnapshot(c, i, m)
       \/ \E i, j \in Position : AskLink(c, i, j)
       \/ request[c] # Nil /\ \/ CommitTransaction(c) \/ CommitEdit(c) \/ CommitLifecycle(c)
                              \/ CommitSnapshot(c) \/ CommitLink(c)
       \/ Fail(c)
  \/ \E t \in TxnId : DeleteTransaction(t)
  \/ \E s \in SnapId : DeleteSnapshot(s)
  \/ \E i \in Busy :
       \/ \E m \in Month, a \in UserAmount : UpsertSnapshot(i, m, a)
       \/ \E term \in Terms : UpdateTimeDeposit(i, term)
  \/ \E i \in Position : DeleteInvestment(i)
  \/ \E i \in Position, from \in Position \cup {Nil} : CreateTimeDeposit(i, from, Date)
  \/ \E i \in Busy, subtype \in {"bond", "time_deposit"}, months \in SUBSET Month,
        maturity \in {{}} \cup {{d} : d \in Date} : SeedInvestment(i, subtype, Date, months, maturity)

Spec == Init /\ [][Next]_vars

----------------------------------------------------------------------------
(* Safety *)

Unstrayed(i, how) == strayed[i] \cap how = {}

\* One live snapshot a month, and a live row that supersedes another has it
\* archived, when maturities are edited, settled and re-edited from what their
\* requests saw and not from what is (INV-SNAPSHOTS-02, ADR-0052).
TableSound ==
  \A s \in Live(snap) :
    /\ LiveAt(snap, snap[s].pos, snap[s].month) = {s}
    /\ snap[s].supersedes # Nil =>
         LET u == snap[s].supersedes
         IN  snap[u].deleted /\ snap[u].pos = snap[s].pos /\ snap[u].month = snap[s].month

\* A deleted investment leaves no live snapshot or transaction, whatever request
\* was on its way when it was deleted (INV-SOFT-DELETE-05).
NoLiveChild ==
  /\ \A s \in Live(snap) : Exists(snap[s].pos)
  /\ \A t \in DOMAIN txn : ~txn[t].deleted => Exists(txn[t].of)

\* An investment that has ended is worth nothing in the month of its end until
\* a user writes to that month, whichever requests ended it and moved its end
\* (INV-LIFECYCLE-03 and 05).
EndedReadsZero ==
  \A i \in DOMAIN investment \ touched :
    Exists(i) /\ investment[i].at # Nil => Reads(snap, i, MonthOf(investment[i].at), Zero)

\* The history of a deposit stays within its term (issue #62), unless a request
\* acted on what it had read of it before, or the end or an entry came in by a
\* way that does not know the term.
DepositInTerm ==
  \A i \in DOMAIN investment :
    Exists(i) /\ IsDeposit(i) /\ Unstrayed(i, {"stale", "offTerm"}) =>
      /\ \A s \in Live(snap) : snap[s].pos = i => InTermMonth(i, snap[s].month)
      /\ \A t \in LiveTxns(i) : InTermDate(i, txn[t].date)

\* A deposit matures once: its ledger holds one maturity at the most, by itself
\* or as a settlement, unless it was made active again over the first.
MaturesOnce ==
  \A i \in DOMAIN investment :
    IsDeposit(i) /\ Unstrayed(i, {"stale", "reopened"}) => Cardinality(LiveMaturities(i)) <= 1

\* The only close row of an investment is at the month of its end: one that was
\* moved by its maturity or taken back leaves none behind (INV-LIFECYCLE-04, 05).
CloseRowAtEnd ==
  \A s \in Live(snap) :
    LET i == snap[s].pos
    IN  snap[s].amount = Zero /\ Unstrayed(i, {"stale", "redated", "reopened"}) =>
          investment[i].at # Nil /\ MonthOf(investment[i].at) = snap[s].month

\* Deposits roll over one to one.
OneSuccessor ==
  \A i \in DOMAIN investment :
    Unstrayed(i, {"stale", "split"}) =>
      Cardinality(Successors(i)) <= 1 /\ (investment[i].from # Nil => investment[i].from \notin Successors(i))

\* Making an investment active again gives the month of its end back what was
\* recorded of it before, also after the maturity that ended it was moved
\* (INV-LIFECYCLE-04).  A zero there is taken for a close row, and goes.
ReopeningRestores ==
  [][\A i \in DOMAIN investment :
       /\ investment[i].at # Nil /\ investment'[i].at = Nil
       /\ held[i] \notin {Forgotten, Zero} /\ "stale" \notin strayed'[i]
       => Reads(snap', i, MonthOf(investment[i].at), held[i])]_vars

\* Editing a maturity "is idempotent on status and only moves terminated_at"
\* (repo/investment_transactions.go).
EditKeepsStatus ==
  [][\A c \in Client : request[c] # Nil /\ CommitEdit(c) =>
       investment'[request[c].of].status = investment[request[c].of].status]_vars
=============================================================================
