--------------------------- MODULE HouseholdBooks ---------------------------
(***************************************************************************)
(* A household whose money is followed from outside, and the books it keeps *)
(* of it.  Every month it earns, spends, buys, sells, borrows, lends, and   *)
(* at the month's end it records what everything it owns is worth.  What    *)
(* the engine makes of the books is compared with what really happened.     *)
(*                                                                          *)
(* The household keeps its books the way the engine expects (ADR-0008,      *)
(* ADR-0052, ADR-0053): what it bought this month does not move before the  *)
(* next (a first snapshot is an acquisition), what it began to track is not *)
(* added to before the next, a property fetches what it    *)
(* was last recorded at, and what leaves without cash leaves as recorded.   *)
(***************************************************************************)
EXTENDS ReportEngine

CONSTANTS
  Bank,        \* the account all cash is on
  Position,
  Kind,        \* what each position is
  Currency,    \* what it is kept in; only investments are kept in others
  Rate,        \* what one unit of the other currency may be worth
  Amount,      \* what things are bought and sold for
  Cash,        \* on the account at first
  LastMonth,   \* bound: the months that are lived through
  MaxEvents    \* bound: what happens in them

Other == "other"

ASSUME BooksAssumption ==
  /\ Bank \in Position /\ None \notin Position
  /\ Kind \in [Position -> {"bank_account", "property", "liability", "receivable",
                            "stock", "bond", "time_deposit"}]
  /\ \A p \in Position : Kind[p] = "bank_account" <=> p = Bank
  /\ Home # Other /\ Currency \in [Position -> {Home, Other}]
  /\ \A p \in Position : Currency[p] = Other => Kind[p] \in {"stock", "bond", "time_deposit"}
  /\ Rate \subseteq Int /\ Amount \subseteq Int /\ Cash \in Int
  /\ LastMonth \in Nat

VARIABLES
  books,
  today,    \* the month that is being lived
  worth,    \* position |-> what it is worth now, in its currency
  events,   \* how many things have happened
  spent, gained, placed   \* month |-> what really was

vars == <<books, today, worth, events, spent, gained, placed>>

GroupOf(p) == CASE Kind[p] \in {"bank_account", "property"} -> "asset"
                [] Kind[p] \in {"stock", "bond", "time_deposit"} -> "investment"
                [] OTHER -> Kind[p]

IsInvestment(p) == GroupOf(p) = "investment"

Row(p, entry, principal, from) ==
  [group |-> GroupOf(p), subtype |-> Kind[p], status |-> "active", entry |-> entry,
   owner |-> "joint", end |-> None, principal |-> principal,
   placed |-> IF principal = None THEN None ELSE today,
   from |-> from, paysOut |-> Kind[p] = "bond", currency |-> Currency[p]]

Zeros == [m \in 1 .. LastMonth |-> 0]

NoSeries == [m \in {} |-> 0]

Put(series, m, x) == [n \in DOMAIN series \cup {m} |-> IF n = m THEN x ELSE series[n]]

Init ==
  /\ today = 1
  /\ books = [position    |-> Put(NoSeries, Bank, Row(Bank, "acquired", None, None)),
              snapshot    |-> Put(NoSeries, Bank, NoSeries),
              transaction |-> {}, income |-> {},
              rate |-> Put(NoSeries, Other, Put(NoSeries, 1, 1)), multi |-> TRUE]
  /\ worth = [p \in Position |-> IF p = Bank THEN Cash ELSE 0]
  /\ events = 0
  /\ spent = Zeros /\ gained = Zeros /\ placed = Zeros

----------------------------------------------------------------------------
(* What holds of a position now *)

Held(p) == p \in DOMAIN books.position /\ books.position[p].end = None

New(p) == p \notin DOMAIN books.position

\* It was recorded in a month before this one.
Old(p) == p # Bank /\ Held(p) /\ DOMAIN books.snapshot[p] # {}

Price(p) == Convert(books, 1, Currency[p], today)

LastRecorded(p) == LatestAtOrBefore(books.snapshot[p], today).amount

\* It is worth, at home, what it was when the month began, and nothing was booked.
Calm(p) == /\ worth[p] * Price(p) = Carried(books, p, today - 1)
           /\ ~\E t \in books.transaction : t.of = p /\ t.month = today

----------------------------------------------------------------------------
(* What happens, and the entries it makes *)

Happens == /\ today <= LastMonth /\ events < MaxEvents
           /\ events' = events + 1
           /\ UNCHANGED today

Worth(p, value, cash) ==
  /\ worth[Bank] + cash >= 0 /\ value >= 0
  /\ worth' = [x \in Position |->
                (IF x = p THEN value ELSE worth[x]) + (IF x = Bank THEN cash ELSE 0)]

\* What really happened, by its effect on the three figures.
Really(expense, gain, placement) ==
  /\ spent' = [spent EXCEPT ![today] = @ + expense]
  /\ gained' = [gained EXCEPT ![today] = @ + gain]
  /\ placed' = [placed EXCEPT ![today] = @ + placement]

Txn(p, type, amount, principal, interest, rolled) ==
  [of |-> p, month |-> today, type |-> type, amount |-> amount, units |-> FALSE,
   principal |-> principal, interest |-> interest, rolled |-> rolled,
   currency |-> Currency[p], no |-> Cardinality(books.transaction)]

Trade(p, type, amount) == Txn(p, type, amount, 0, 0, {})

WithTxn(b, t) == [b EXCEPT !.transaction = @ \cup {t}]

WithPosition(b, p, row) ==
  [b EXCEPT !.position = Put(@, p, row), !.snapshot = Put(@, p, NoSeries)]

\* A lifecycle request: the flip and the close snapshot of this month.
Terminated(b, p, status) ==
  [b EXCEPT !.position[p].status = status, !.position[p].end = today,
            !.snapshot[p] = Put(@, today, [amount |-> 0, currency |-> Currency[p]])]

Earn ==
  /\ Happens
  /\ Worth(Bank, worth[Bank] + 1, 0)
  /\ books' = [books EXCEPT !.income =
                 @ \cup {[month |-> today, amount |-> 1, currency |-> Home, owner |-> "joint",
                          no |-> Cardinality(@)]}]
  /\ Really(0, 0, 0)

\* No entry is made of what is spent.
Spend ==
  /\ Happens
  /\ worth[Bank] > 0 /\ Worth(Bank, worth[Bank] - 1, 0)
  /\ Really(1, 0, 0)
  /\ UNCHANGED books

\* Bought, or placed, from the account; borrowed to it; lent from it.
Acquire(p, v) ==
  LET sign == IF GroupOf(p) = "liability" THEN 1 ELSE -1
      principal == IF Kind[p] = "time_deposit" THEN v ELSE None
      opened == WithPosition(books, p, Row(p, "acquired", principal, None))
  IN  /\ Happens /\ New(p)
      /\ Worth(p, v, sign * v * Price(p))
      /\ books' = IF Kind[p] \in {"stock", "bond"} THEN WithTxn(opened, Trade(p, "buy", v)) ELSE opened
      /\ Really(0, 0, IF IsInvestment(p) THEN v * Price(p) ELSE 0)

\* It was owned, or owed, before the household tracked it.
Arrive(p, v) ==
  /\ Happens /\ New(p)
  /\ Kind[p] # "time_deposit"
  /\ Worth(p, v, 0)
  /\ books' = WithPosition(books, p, Row(p, "newly_tracked", None, None))
  /\ Really(0, 0, 0)

Mark(p, v) ==
  /\ Happens /\ Old(p)
  /\ IsInvestment(p) \/ Kind[p] = "property"
  /\ Worth(p, v, 0)
  /\ Really(0, IF IsInvestment(p) THEN (v - worth[p]) * Price(p) ELSE 0, 0)
  /\ UNCHANGED books

\* A further tranche may follow the first in the month of the purchase.
Buy(p) ==
  /\ Happens /\ Held(p) /\ (Old(p) \/ books.position[p].entry = "acquired") /\ Kind[p] \in {"stock", "bond"}
  /\ Worth(p, worth[p] + 1, -Price(p))
  /\ books' = WithTxn(books, Trade(p, "buy", 1))
  /\ Really(0, 0, Price(p))

Sell(p) ==
  /\ Happens /\ Old(p) /\ Kind[p] \in {"stock", "bond"} /\ worth[p] > 1
  /\ Worth(p, worth[p] - 1, Price(p))
  /\ books' = WithTxn(books, Trade(p, "sell", 1))
  /\ Really(0, 0, -Price(p))

Yield(p) ==
  /\ Happens /\ Old(p) /\ Kind[p] \in {"stock", "bond"}
  /\ Worth(p, worth[p], Price(p))
  /\ books' = WithTxn(books, Trade(p, IF Kind[p] = "bond" THEN "coupon" ELSE "dividend", 1))
  /\ Really(0, Price(p), 0)

Fee(p) ==
  /\ Happens /\ Old(p) /\ Kind[p] \in {"stock", "bond"}
  /\ Worth(p, worth[p], -Price(p))
  /\ books' = WithTxn(books, Trade(p, "fee", 1))
  /\ Really(0, -Price(p), 0)

\* Sold for x each: a loss of everything is a sale for nothing.
SellOut(p, x) ==
  /\ Happens /\ Old(p) /\ Kind[p] \in {"stock", "bond"}
  /\ Worth(p, 0, x * Price(p))
  /\ books' = Terminated(WithTxn(books, Trade(p, "sell", x)), p, "sold")
  /\ Really(0, (x - worth[p]) * Price(p), -x * Price(p))

\* The deposit ends; each part of it is paid out or rolled over to deposit q.
Mature(p, interest, q, rolled) ==
  LET principal == books.position[p].principal
      t == Txn(p, "maturity", 0, principal, interest, rolled)
      out == Part(t, {"principal", "interest"} \ rolled)
      over == Part(t, rolled)
      closed == Terminated(WithTxn(books, t), p, "matured")
  IN  /\ Happens /\ Old(p) /\ Kind[p] = "time_deposit"
      /\ rolled # {} => /\ New(q) /\ Kind[q] = "time_deposit" /\ Currency[q] = Currency[p]
                         /\ over > 0
      /\ worth' = [x \in Position |->
                    CASE x = p                   -> 0
                      [] x = q /\ rolled # {}    -> over
                      [] x = Bank                -> worth[x] + out * Price(p)
                      [] OTHER                   -> worth[x]]
      /\ books' = IF rolled = {} THEN closed
                  ELSE WithPosition(closed, q, Row(q, "acquired", over, p))
      /\ Really(0, (principal + interest - worth[p]) * Price(p), -out * Price(p))

Repay(p) ==
  /\ Happens /\ Old(p) /\ GroupOf(p) \in {"liability", "receivable"} /\ worth[p] > 1
  /\ Worth(p, worth[p] - 1, IF GroupOf(p) = "liability" THEN -1 ELSE 1)
  /\ Really(0, 0, 0)
  /\ UNCHANGED books

\* Sold, paid off or collected: the cash is all there is to it.
Settle(p) ==
  LET status == CASE Kind[p] = "property" -> "sold" [] Kind[p] = "liability" -> "paid_off"
                  [] OTHER -> "collected"
  IN  /\ Happens /\ Old(p) /\ ~IsInvestment(p)
      /\ Kind[p] = "property" => Calm(p)
      /\ Worth(p, 0, IF GroupOf(p) = "liability" THEN -worth[p] ELSE worth[p])
      /\ books' = Terminated(books, p, status)
      /\ Really(0, 0, 0)

\* Disposed of, forgiven or written off; or no longer tracked.
Vanish(p, status) ==
  /\ Happens /\ Old(p) /\ Calm(p)
  /\ status \in {"untracked"} \cup
       CASE Kind[p] = "property" -> {"disposed"} [] Kind[p] = "liability" -> {"forgiven"}
         [] Kind[p] = "receivable" -> {"written_off"} [] OTHER -> {}
  /\ Worth(p, 0, 0)
  /\ books' = Terminated(books, p, status)
  /\ Really(0, 0, 0)

\* The month ends.  What did not change since it was last recorded may be left to
\* carry forward.  The next month may begin at another rate.
EndMonth(lazy, rate) ==
  LET due == {p \in Position : Held(p) /\ ~(lazy /\ DOMAIN books.snapshot[p] # {}
                                                 /\ worth[p] = LastRecorded(p))}
      was == LatestAtOrBefore(books.rate[Other], today)
      exposed == {p \in Position : Held(p) /\ Currency[p] = Other}
  IN  /\ today <= LastMonth
      /\ rate # was => exposed # {}
      /\ today' = today + 1
      /\ books' = [books EXCEPT
           !.snapshot = [p \in DOMAIN @ |->
              IF p \in due THEN Put(@[p], today, [amount |-> worth[p], currency |-> Currency[p]])
              ELSE @[p]],
           !.rate[Other] = IF rate = was THEN @ ELSE Put(@, today + 1, rate)]
      /\ gained' = IF today = LastMonth THEN gained
                   ELSE [gained EXCEPT ![today + 1] =
                           SumOver(exposed, LAMBDA p : worth[p] * (rate - was))]
      /\ UNCHANGED <<worth, events, spent, placed>>

Next ==
  \/ Earn \/ Spend
  \/ \E p \in Position \ {Bank} :
       \/ \E v \in Amount : Acquire(p, v) \/ Arrive(p, v)
       \/ \E d \in {-1, 1} : Mark(p, worth[p] + d)
       \/ Buy(p) \/ Sell(p) \/ Yield(p) \/ Fee(p) \/ Repay(p) \/ Settle(p)
       \/ \E x \in Amount \cup {0} : SellOut(p, x)
       \/ \E i \in 0 .. 1, q \in Position \ {p}, rolled \in SUBSET {"principal", "interest"} :
            Mature(p, i, q, rolled)
       \/ \E status \in {"untracked", "disposed", "forgiven", "written_off"} : Vanish(p, status)
  \/ \E lazy \in BOOLEAN, rate \in Rate : EndMonth(lazy, rate)

Spec == Init /\ [][Next]_vars

----------------------------------------------------------------------------
(* Properties *)

\* The months whose reports have an income statement and will not change.
Past == 2 .. today - 1

\* Living expenses, which nobody records, come out as what was spent
\* (INV-FINANCE-06 with 11, 12, 13, 23, 33, 34, 36 and 37): whatever moved on the
\* books is accounted for exactly once.
ExpensesAreSpending == \A m \in Past : LivingExpenses(books, m) = spent[m]

\* Investment return is what investments gained: prices, rates, yields, fees and
\* sales, and neither money put in nor money taken out (INV-FINANCE-08, 11, 12).
ReturnsAreGains == \A m \in Past : InvestmentReturn(books, m) = gained[m]

\* Investment placement is the money that went from the account into investments
\* less the principal that came back to it (INV-FINANCE-32).
PlacementIsNewMoney == \A m \in Past : Placement(books, m) = placed[m]

\* The advisory on terminated investments names none whose end is on the books,
\* whatever was got for it (INV-FINANCE-35).
NoFalseAlarm == \A m \in 1 .. today - 1 : Unsettled(books, m) = {}

\* Nothing that happens later changes the report of a month that is over.
PastIsSettled == [][\A m \in 1 .. today - 1 : Report(books', m) = Report(books, m)]_books
=============================================================================
