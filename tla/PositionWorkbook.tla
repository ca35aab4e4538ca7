-------------------------- MODULE PositionWorkbook ---------------------------
(* A position of any kind as its workbook carries it: its columns, owner,     *)
(* entry type, tag, readings and ledger, what users do to them, the export of *)
(* the workbook and the creation of a position from one.  Handlers are        *)
(* atomic, except those that resolve a tag in one statement and write it in a *)
(* later one.  The ledger's days are months: two rows of a month stand for    *)
(* two of a day.                                                              *)
EXTENDS PositionKinds, SequencesExt, Integers

CONSTANTS
  PosId,        \* ids of positions
  Entered,      \* those of them that are entered in a form
  TagId,        \* ids of tags
  Name,         \* names of tags
  Month,        \* months with readings and transactions
  Amount,       \* amounts, quantities and interest of a reading
  Request,      \* create forms: kind, columns, owner, entry type
  Revision,     \* update forms
  Busy,         \* the kinds whose positions are given a history
  Member,       \* the household's members, known by their e-mail
  Joint,        \* the owner of what no member owns alone
  Stranger,     \* an e-mail no member has
  Primary,      \* the type of a primary government bond
  Default,      \* the coupon disposition of a bond that was given none
  Blank,        \* text of spaces
  Nil,
  MaxWrites     \* bounds the number of writes

ASSUME NilAssumption ==
  /\ Nil \notin {"acquired", Default} \cup Name \cup TagId \cup Member \cup {Joint}
  /\ Nil \notin [name : Name, deleted : BOOLEAN]
  /\ Nil \notin [amount : Amount \cup {0, Nil}, part : Amount \cup {0, Nil}]

\* A form is of one of the kinds and has that kind's fields; its owner was validated.
ASSUME FormAssumption ==
  /\ \A request \in Request \cup Revision :
       request.kind \in Kind /\ request.owner \in Member \cup {Joint}
  /\ \A request \in Request :
       LET form == Layers(request.kind).form
       IN  DOMAIN request.col = form.must \cup form.may
  /\ \A request \in Revision :
       LET form == Layers(request.kind).revision
       IN  DOMAIN request.col = form.must \cup form.may

VARIABLES
  position,     \* PosId -> a position, or Nil
  tag,          \* TagId -> a tag, or Nil
  file,         \* the workbook last downloaded, or Nil
  origin,       \* the position and the tags it was made from
  job,          \* the request that has resolved a tag and not written it yet
  writes

vars == <<position, tag, file, origin, job, writes>>

Live == {p \in PosId : position[p] # Nil /\ ~position[p].deleted}

\* Positions with a history.
Kept == {p \in Live : position[p].kind \in Busy}

LiveTags(tags) == {t \in TagId : tags[t] # Nil /\ ~tags[t].deleted}

Readings(kind) ==
  CASE shapeForSubtype(kind) = "quantity" -> [amount : Amount, part : Amount \ {0}]
    [] shapeForSubtype(kind) = "accrued" -> [amount : Amount \ {0}, part : Amount]
    [] OTHER -> [amount : Amount, part : {Nil}]

\* The reading of a position that is over.
ZeroReading(kind) == [amount |-> 0, part |-> IF shapeForSubtype(kind) = "amount" THEN Nil ELSE 0]

Text == {"display_name", "description"}

----------------------------------------------------------------------------
(* A position's terms *)

\* With no term, a position is unbounded.
termBounds(kind, col) ==
  IF kind = "time_deposit" THEN col["placement_date"] .. col["maturity_date"] ELSE Month

\* The live readings and the transactions fall within the bounds.
InTerm(bounds, reading, ledger) ==
  /\ \A m \in Month : reading[m] # <<>> => m \in bounds
  /\ \A i \in DOMAIN ledger : ledger[i].date \in bounds

ValidTerm(kind, col) == kind = "time_deposit" => col["placement_date"] < col["maturity_date"]

\* What a row holds after an insert that names these columns: a disposition that
\* was not given is the default.
Inserted(kind, columns, given) ==
  [c \in Columns(kind) |->
     IF c \notin columns \cap DOMAIN given THEN Nil
     ELSE IF c = "coupon_disposition" /\ given[c] = Nil THEN Default ELSE given[c]]

\* What the update statements make of a row: their columns take the form's values,
\* given or not, the others keep theirs.
Updated(kind, col, form) ==
  LET given == Inserted(kind, Layers(kind).update, form)
  IN  [c \in Columns(kind) |-> IF c \in Layers(kind).update THEN given[c] ELSE col[c]]

\* A primary government bond's form asks for the terms of its issue.
Required(kind, form) ==
  Layers(kind).form.must
    \cup IF kind = "bond" /\ form["bond_type"] = Primary THEN primaryBondReq ELSE {}

\* The required fields that are not given.
Missing(required, form) == {c \in required : c \notin DOMAIN form \/ form[c] = Nil}

\* An entry type that is not given leaves the one there is.
entryTypeOr(entry, declared) == IF entry = Nil THEN declared ELSE entry

----------------------------------------------------------------------------
(* The ledger and the cost basis *)

Unit == 60

\* What one transaction makes of the money still in and of the quantity held.
applyLedgerTxn(held, txn) ==
  CASE txn.type = "buy" -> [cost |-> held.cost + 2 * Unit, qty |-> held.qty + 1]
    [] txn.type = "sell" /\ held.qty > 0 ->
         [cost |-> held.cost - held.cost \div held.qty, qty |-> held.qty - 1]
    [] txn.type = "fee" -> [held EXCEPT !.cost = @ + 2 * Unit]
    [] OTHER -> held

\* The columns of the ledger's rows.
TradesOf(ledger) == [i \in DOMAIN ledger |-> [type |-> ledger[i].type, date |-> ledger[i].date]]

costBasisFromLedger(txns) == FoldLeft(applyLedgerTxn, [cost |-> 0, qty |-> 0], txns).cost

\* ORDER BY transaction_date, created_at leaves rows of one date and one
\* transaction in any order.
Orders(ledger) ==
  {o \in [DOMAIN ledger -> DOMAIN ledger] :
     /\ \A i, j \in DOMAIN ledger : o[i] = o[j] => i = j
     /\ \A i, j \in DOMAIN ledger :
          i < j => LET a == ledger[o[i]]
                       b == ledger[o[j]]
                   IN  a.date < b.date \/ (a.date = b.date /\ a.at <= b.at)}

CostsOf(ledger) ==
  {costBasisFromLedger([i \in DOMAIN ledger |-> TradesOf(ledger)[o[i]]]) : o \in Orders(ledger)}

Matured(ledger) == {i \in DOMAIN ledger : ledger[i].type = "maturity"}

----------------------------------------------------------------------------
(* Writing the workbook *)

\* A reading's row: the total of quantities and prices is not in it.
snapshotRowCells(kind, r) ==
  IF shapeForSubtype(kind) = "quantity" THEN [r EXCEPT !.amount = Nil] ELSE r

\* The ledger's sheet, latest first.
transactionsToExport(ledger) ==
  {[i \in DOMAIN ledger |-> TradesOf(ledger)[o[Len(ledger) + 1 - i]]] : o \in Orders(ledger)}

BuildWorkbook(p, tags, sheet) ==
  [kind |-> p.kind,
   detail |-> [c \in Columns(p.kind) |-> IF c \in Layers(p.kind).export THEN p.col[c] ELSE Nil],
   ownership |-> IF p.owner = Joint THEN "joint" ELSE "sole",
   email |-> IF p.owner = Joint THEN Nil ELSE p.owner,
   entry |-> p.entry,
   tag |-> IF p.tag = Nil THEN Nil ELSE tags[p.tag].name,
   rows |-> [m \in Month |-> IF p.reading[m] = <<>> THEN Nil
                             ELSE snapshotRowCells(p.kind, Head(p.reading[m]))],
   ledger |-> sheet,
   garbled |-> FALSE]

----------------------------------------------------------------------------
(* Reading it *)

\* Cells are trimmed.
ParseDetail(f) ==
  [c \in Layers(f.kind).resolve |-> IF f.detail[c] = Blank THEN Nil ELSE f.detail[c]]

parseValues(kind, row) ==
  IF shapeForSubtype(kind) = "quantity" THEN [row EXCEPT !.amount = row.part] ELSE row

\* The first live tag of that name; one that has been renamed is not found.
LookupTagIDByName(tags, name) ==
  IF \E t \in LiveTags(tags) : tags[t].name = name
  THEN CHOOSE t \in LiveTags(tags) : tags[t].name = name
  ELSE Nil

\* The requirements of the create form that the sheet does not meet.
CollectFieldErrors(f) ==
  LET detail == ParseDetail(f)
  IN  Missing(Required(f.kind, detail), detail) \ Layers(f.kind).drop

\* A joint position ignores the e-mail; a sole one needs a member's.
OwnerErrors(f) == IF f.ownership = "sole" /\ f.email \notin Member THEN {"sole_owner"} ELSE {}

\* Rows that do not parse, transactions the kind does not have, a second maturity.
validateLedger(f) ==
  /\ ~f.garbled
  /\ \A i \in DOMAIN f.ledger : f.ledger[i].type \in allowedTransactions(f.kind)
  /\ Cardinality(Matured(f.ledger)) <= 1

Valid(f) == CollectFieldErrors(f) = {} /\ OwnerErrors(f) = {} /\ validateLedger(f)

\* The ledger's rows, of one transaction: the maturity, of which a valid ledger
\* has at most one, last, and the others in the order of the sheet.
seedLedger(ledger) ==
  LET last == IF Matured(ledger) = {} THEN Len(ledger) ELSE CHOOSE i \in Matured(ledger) : TRUE
      from(i) == IF i < last THEN i ELSE IF i = Len(ledger) THEN last ELSE i + 1
  IN  [i \in DOMAIN ledger |->
         [type |-> ledger[from(i)].type, date |-> ledger[from(i)].date, at |-> 0]]

\* The readings, and over them the zero a maturity closes with.
seedSnapshots(f) ==
  [m \in Month |->
     IF \E i \in Matured(f.ledger) : f.ledger[i].date = m THEN <<ZeroReading(f.kind)>>
     ELSE IF f.rows[m] = Nil THEN <<>> ELSE <<parseValues(f.kind, f.rows[m])>>]

\* The position one transaction makes of a valid workbook.
createInvestmentWithHistory(f, t) ==
  LET matured == Matured(f.ledger)
  IN  [kind |-> f.kind,
       deleted |-> FALSE,
       col |-> Inserted(f.kind, Layers(f.kind).seed, ParseDetail(f)),
       owner |-> IF f.ownership = "joint" THEN Joint ELSE f.email,
       entry |-> entryTypeOr(f.entry, "acquired"),
       tag |-> t,
       status |-> IF matured = {} THEN "active" ELSE "matured",
       ended |-> IF matured = {} THEN Nil ELSE f.ledger[CHOOSE i \in matured : TRUE].date,
       reading |-> seedSnapshots(f),
       ledger |-> seedLedger(f.ledger)]

\* The transaction refuses a deposit whose history is not inside its term.
Commits(f) ==
  LET col == ParseDetail(f)
      bounds == termBounds(f.kind, col)
  IN  /\ ValidTerm(f.kind, col)
      /\ \A m \in Month : f.rows[m] # Nil => m \in bounds
      /\ \A i \in DOMAIN f.ledger : f.ledger[i].date \in bounds

----------------------------------------------------------------------------
Idle == [do |-> "idle"]

Init ==
  /\ position = [p \in PosId |-> Nil]
  /\ tag = [t \in TagId |-> Nil]
  /\ file = Nil
  /\ origin = Nil
  /\ job = Idle
  /\ writes = 0

Bounded == writes < MaxWrites /\ writes' = writes + 1

\* A write of one live position.
Write(p, after) ==
  /\ Bounded
  /\ position' = [position EXCEPT ![p] = after]
  /\ UNCHANGED <<tag, file, origin, job>>

Fresh == {p \in PosId : position[p] = Nil /\ \A q \in PosId : q < p => position[q] # Nil}

----------------------------------------------------------------------------
(* Positions *)

\* A primary government bond's placement is its first transaction.
PlacementBuy(request) ==
  IF request.kind = "bond" /\ request.col["bond_type"] = Primary
  THEN <<[type |-> "buy", date |-> request.col["placement_date"], at |-> writes + 1]>>
  ELSE <<>>

CreatePosition(p, request) ==
  /\ p \in Fresh \cap Entered
  /\ Missing(Required(request.kind, request.col), request.col) = {}
  /\ ValidTerm(request.kind, request.col)
  /\ Write(p, [kind |-> request.kind,
               deleted |-> FALSE,
               col |-> Inserted(request.kind, Layers(request.kind).insert, request.col),
               owner |-> request.owner,
               entry |-> entryTypeOr(request.entry, "acquired"),
               tag |-> Nil,
               status |-> "active",
               ended |-> Nil,
               reading |-> [m \in Month |-> <<>>],
               ledger |-> PlacementBuy(request)])

\* A deposit's new term has to hold what was recorded in the old one.
UpdatePosition(p, request) ==
  LET now == position[p]
      col == Updated(now.kind, now.col, request.col)
  IN  /\ p \in Live
      /\ request.kind = now.kind
      /\ Missing(Layers(now.kind).revision.must, request.col) = {}
      /\ ValidTerm(now.kind, col)
      /\ now.kind = "time_deposit" => InTerm(termBounds(now.kind, col), now.reading, now.ledger)
      /\ Write(p, [now EXCEPT !.col = col, !.owner = request.owner,
                              !.entry = entryTypeOr(request.entry, @)])

DeletePosition(p) ==
  /\ p \in Live
  /\ Write(p, [position[p] EXCEPT !.deleted = TRUE, !.reading = [m \in Month |-> <<>>],
                                  !.ledger = <<>>])

----------------------------------------------------------------------------
(* Readings.  A month's sequence is its live row and those it supersedes. *)

CreateSnapshot(p, m, r) ==
  LET now == position[p]
  IN  /\ p \in Kept
      /\ r \in Readings(now.kind)
      /\ m \in termBounds(now.kind, now.col)
      /\ now.reading[m] = <<>>
      /\ Write(p, [now EXCEPT !.reading[m] = <<r>>])

\* Bulk entry of active positions, and the import of a Snapshots sheet, of any:
\* neither asks for a deposit's term.
UpsertSnapshot(p, m, r) ==
  LET now == position[p]
  IN  /\ p \in Kept
      /\ r \in Readings(now.kind)
      /\ now.reading[m] # <<r>>
      /\ Write(p, [now EXCEPT !.reading[m] = <<r>> \o (IF @ = <<>> THEN <<>> ELSE Tail(@))])

DeleteSnapshot(p, m) ==
  LET now == position[p]
  IN  /\ p \in Kept
      /\ now.reading[m] # <<>>
      /\ Write(p, [now EXCEPT !.reading[m] = <<>>])

----------------------------------------------------------------------------
(* The ledger and the lifecycle *)

\* The month's reading becomes zero, and what it was is kept to be restored.
writeCloseSnapshot(kind, rows) ==
  IF rows # <<>> /\ Head(rows).amount = 0
  THEN <<ZeroReading(kind)>> \o Tail(rows)
  ELSE <<ZeroReading(kind)>> \o rows

revertCloseSnapshot(rows) == IF rows # <<>> /\ Head(rows).amount = 0 THEN Tail(rows) ELSE rows

CreateInvestmentTransaction(p, type, m) ==
  LET now == position[p]
      row == [type |-> type, date |-> m, at |-> writes + 1]
  IN  /\ p \in Kept
      /\ now.kind \in Investment
      /\ type \in allowedTransactions(now.kind)
      /\ now.status = "active"
      /\ m \in termBounds(now.kind, now.col)
      /\ \/ /\ type # "maturity"
            /\ Write(p, [now EXCEPT !.ledger = Append(@, row)])
         \/ /\ type = "maturity"
            /\ Write(p, [now EXCEPT !.ledger = Append(@, row), !.status = "matured", !.ended = m,
                                    !.reading[m] = writeCloseSnapshot(now.kind, @)])

Terminate(p, m) ==
  LET now == position[p]
  IN  /\ p \in Kept
      /\ now.status = "active"
      /\ Write(p, [now EXCEPT !.status = "terminated", !.ended = m,
                              !.reading[m] = writeCloseSnapshot(now.kind, @)])

\* A maturity stays in the ledger.
Reactivate(p) ==
  LET now == position[p]
  IN  /\ p \in Kept
      /\ now.status # "active"
      /\ Write(p, [now EXCEPT !.status = "active", !.ended = Nil,
                              !.reading[now.ended] = revertCloseSnapshot(@)])

----------------------------------------------------------------------------
(* Tags *)

\* Names are unique among a household's live tags.
FreeName(t, name) == \A u \in LiveTags(tag) \ {t} : tag[u].name # name

CreateTag(t, name) ==
  /\ tag[t] = Nil
  /\ FreeName(t, name)
  /\ Bounded
  /\ tag' = [tag EXCEPT ![t] = [name |-> name, deleted |-> FALSE]]
  /\ UNCHANGED <<position, file, origin, job>>

UpdateTag(t, name) ==
  /\ t \in LiveTags(tag)
  /\ tag[t].name # name
  /\ FreeName(t, name)
  /\ Bounded
  /\ tag' = [tag EXCEPT ![t].name = name]
  /\ UNCHANGED <<position, file, origin, job>>

\* Broken: one of the four tables is left out of the deletion.
DeleteTagLeavingInvestments(t) ==
  /\ t \in LiveTags(tag)
  /\ Bounded
  /\ tag' = [tag EXCEPT ![t].deleted = TRUE]
  /\ position' = [p \in PosId |->
                    IF position[p] # Nil /\ position[p].tag = t /\ position[p].kind \notin Investment
                    THEN [position[p] EXCEPT !.tag = Nil] ELSE position[p]]
  /\ UNCHANGED <<file, origin, job>>

\* The tag and what wears it, in one transaction.
DeleteTag(t) ==
  /\ t \in LiveTags(tag)
  /\ Bounded
  /\ tag' = [tag EXCEPT ![t].deleted = TRUE]
  /\ position' = [p \in PosId |->
                    IF position[p] # Nil /\ position[p].tag = t
                    THEN [position[p] EXCEPT !.tag = Nil] ELSE position[p]]
  /\ UNCHANGED <<file, origin, job>>

\* AssignTag looks the tag up and then updates the position.
BeginAssign(p, t) ==
  /\ job = Idle
  /\ t \in LiveTags(tag)
  /\ job' = [do |-> "assign", position |-> p, tag |-> t, tags |-> tag]
  /\ UNCHANGED <<position, tag, file, origin, writes>>

AssignTag ==
  /\ job.do = "assign"
  /\ job' = Idle
  /\ \/ job.position \notin Live /\ UNCHANGED <<position, writes>>
     \/ /\ job.position \in Live
        /\ Bounded
        /\ position' = [position EXCEPT ![job.position].tag = job.tag]
  /\ UNCHANGED <<tag, file, origin>>

ClearTag(p) ==
  /\ p \in Live
  /\ position[p].tag # Nil
  /\ Write(p, [position[p] EXCEPT !.tag = Nil])

----------------------------------------------------------------------------
(* The workbook *)

\* A position that wears a deleted tag cannot be exported.
Export(p) ==
  /\ p \in Live
  /\ position[p].tag = Nil \/ position[p].tag \in LiveTags(tag)
  /\ \E sheet \in transactionsToExport(position[p].ledger) :
       file' = BuildWorkbook(position[p], tag, sheet)
  /\ origin' = [position |-> position[p], tags |-> tag]
  /\ UNCHANGED <<position, tag, job, writes>>

\* What a user makes of a workbook: a text is emptied, an e-mail entered or a row
\* spoilt, or nothing changed.
Edited(f) ==
  {f} \cup {[f EXCEPT !.detail[c] = Nil] : c \in Text}
      \cup {[f EXCEPT !.ownership = "sole", !.email = Stranger], [f EXCEPT !.garbled = TRUE]}

\* RunWithLedger, and Run for the kinds without a ledger: the workbook is read
\* and resolved; an invalid one is answered with its errors.
Upload ==
  /\ job = Idle
  /\ file # Nil
  /\ \E f \in Edited(file) :
       /\ Valid(f)
       /\ job' = [do |-> "import", file |-> f, tag |-> LookupTagIDByName(tag, f.tag), tags |-> tag]
  /\ UNCHANGED <<position, tag, file, origin, writes>>

\* The transaction; a preview, and a refusal, write nothing.
Import ==
  /\ job.do = "import"
  /\ job' = Idle
  /\ \/ UNCHANGED <<position, writes>>
     \/ /\ Commits(job.file)
        /\ Bounded
        /\ \E p \in Fresh :
             position' = [position EXCEPT ![p] = createInvestmentWithHistory(job.file, job.tag)]
  /\ UNCHANGED <<tag, file, origin>>

Next ==
  \/ \E p \in PosId, request \in Request : CreatePosition(p, request)
  \/ \E p \in PosId, request \in Revision : UpdatePosition(p, request)
  \/ \E p \in PosId : DeletePosition(p) \/ Reactivate(p) \/ ClearTag(p) \/ Export(p)
  \/ \E p \in PosId, m \in Month : DeleteSnapshot(p, m) \/ Terminate(p, m)
  \/ \E p \in PosId, m \in Month, r \in UNION {Readings(k) : k \in Busy} :
       CreateSnapshot(p, m, r) \/ UpsertSnapshot(p, m, r)
  \/ \E p \in PosId, m \in Month, type \in UNION {allowedTransactions(k) : k \in Busy} :
       CreateInvestmentTransaction(p, type, m)
  \/ \E t \in TagId, name \in Name : CreateTag(t, name) \/ UpdateTag(t, name)
  \/ \E t \in TagId : DeleteTag(t)
  \/ \E p \in PosId, t \in TagId : BeginAssign(p, t)
  \/ AssignTag \/ Upload \/ Import

Spec == Init /\ [][Next]_vars

----------------------------------------------------------------------------
(* Properties *)

\* Some Detail cell holds only spaces.
Spaces(f) == \E c \in DOMAIN f.detail : f.detail[c] = Blank

\* The maturity in the ledger is how the position ended, if it ended.
EndedAsLedgerSays(p) ==
  /\ p.status # "terminated"
  /\ p.status = "matured" <=> Matured(p.ledger) # {}

\* Two rows of the ledger share their day.
SameDay(ledger) == \E i, j \in DOMAIN ledger : i # j /\ ledger[i].date = ledger[j].date

\* copy says what p says.  The exceptions are the program's: the total of a
\* quantity is computed from it, a maturity in the ledger ends the copy and zeroes
\* its month whether or not it still ends the position, another end is not in the
\* workbook, and rows of one day have no order in the copy.
Faithful(copy, p) ==
  /\ copy.col = p.col /\ copy.owner = p.owner /\ copy.entry = p.entry
  /\ \A m \in Month :
       copy.reading[m] =
         IF \E i \in Matured(p.ledger) : p.ledger[i].date = m THEN <<ZeroReading(p.kind)>>
         ELSE IF p.reading[m] = <<>> THEN <<>>
         ELSE LET r == Head(p.reading[m])
              IN  <<IF shapeForSubtype(p.kind) = "quantity" THEN [r EXCEPT !.amount = r.part] ELSE r>>
  /\ EndedAsLedgerSays(p) => copy.status = p.status /\ copy.ended = p.ended
  /\ ToBag(TradesOf(copy.ledger)) = ToBag(TradesOf(p.ledger))
  /\ CostsOf(p.ledger) \subseteq CostsOf(copy.ledger)
  /\ ~SameDay(p.ledger) => CostsOf(copy.ledger) = CostsOf(p.ledger)

\* A workbook nobody edited creates the position it was exported from: it is
\* accepted, and the copy has the same columns, owner, entry type, tag, readings,
\* ledger and cost basis.  Refused are only texts of spaces, a second maturity, and
\* a deposit whose history has left its term.
RoundTrips ==
  file # Nil =>
    LET p == origin.position
        copy == createInvestmentWithHistory(file, LookupTagIDByName(origin.tags, file.tag))
    IN  \/ Spaces(file)
        \/ Cardinality(Matured(p.ledger)) > 1
        \/ /\ Valid(file)
           /\ Commits(file) <=> InTerm(termBounds(p.kind, p.col), p.reading, p.ledger)
           /\ Faithful(copy, p)
           /\ copy.tag = p.tag

\* Saving the edit form as it was opened changes nothing: every column an update
\* statement sets is a field of the form, for one that is not is set to null.
ResavingKeeps ==
  \A p \in Live :
    LET now == position[p]
        revision == Layers(now.kind).revision
        opened == [c \in revision.must \cup revision.may |-> now.col[c]]
    IN  Updated(now.kind, now.col, opened) = now.col

WearsDeadTag(p) ==
  p \in Live /\ position[p].tag # Nil /\ position[p].tag \notin LiveTags(tag)

\* A position comes to wear a deleted tag, which takes its export away from it,
\* only by a write of a tag that was deleted after the request had looked it up.
OnlyRacesWearDeadTags ==
  [][\A p \in PosId : WearsDeadTag(p)' /\ ~WearsDeadTag(p) =>
       /\ job.do \in {"assign", "import"}
       /\ job' = Idle
       /\ position'[p].tag = job.tag
       /\ job.tag \in LiveTags(job.tags)]_vars
=============================================================================
