---------------------------- MODULE ReportEngine ----------------------------
(***************************************************************************)
(* The engine of the monthly reports (repo/monthly_reports_engine.go): what *)
(* the books of a household come to in a month.  The engine is a function   *)
(* of the books; nothing here is a state machine.                           *)
(*                                                                          *)
(* Amounts are integers, months are month indices.  The buckets a line is   *)
(* also split into (owners, subtypes, risk profiles, income categories) are *)
(* left out.                                                                *)
(***************************************************************************)
EXTENDS Integers, FiniteSets, FiniteSetsExt, Functions

CONSTANTS
  Home,   \* the reporting currency
  None    \* NULL

ASSUME NoneAssumption == None \notin Int

(***************************************************************************)
(* The books b:                                                             *)
(*   position     position |-> its row: group, subtype, status, entry,      *)
(*                owner, end (terminated_at), principal and placed (of a    *)
(*                deposit, or None), from (rolled_from), paysOut            *)
(*   snapshot     position |-> month |-> [amount, currency], live rows      *)
(*   transaction  the live rows: of, month, type, amount, units (a quantity *)
(*                is given), principal, interest, rolled (the parts rolled  *)
(*                to a new deposit), currency, no                           *)
(*   income       the live rows: month, amount, currency, owner, no         *)
(*   rate         currency |-> month |-> rate                               *)
(*   multi        is multi-currency on                                      *)
(***************************************************************************)
SumOver(S, f(_)) == SumFunction([x \in S |-> f(x)])

Latest(series, m) == {n \in DOMAIN series : n <= m}

LatestAtOrBefore(series, m) == series[Max(Latest(series, m))]

----------------------------------------------------------------------------
(* Conversion *)

Foreign(b, currency) == b.multi /\ currency # Home

Convertible(b, currency, m) == Foreign(b, currency) => Latest(b.rate[currency], m) # {}

Convert(b, amount, currency, m) ==
  IF Foreign(b, currency) THEN amount * LatestAtOrBefore(b.rate[currency], m) ELSE amount

\* The snapshot a position is carried on in month m, and its converted value.
IsCarried(b, p, m) ==
  /\ Latest(b.snapshot[p], m) # {}
  /\ Convertible(b, LatestAtOrBefore(b.snapshot[p], m).currency, m)

Carried(b, p, m) ==
  LET s == LatestAtOrBefore(b.snapshot[p], m) IN Convert(b, s.amount, s.currency, m)

\* Is there a difference to the month before, and what it is.
IsMoving(b, p, m) == IsCarried(b, p, m) /\ IsCarried(b, p, m - 1)

Movement(b, p, m) == Carried(b, p, m) - Carried(b, p, m - 1)

----------------------------------------------------------------------------
(* Lifecycle *)

TerminatedBefore(b, p, m) == b.position[p].end # None /\ m > b.position[p].end

TerminatesAt(b, p, m) == b.position[p].end = m

TerminatedByEndOf(b, p, m) == b.position[p].end # None /\ m >= b.position[p].end

NonCashTerminal(b, p) ==
  <<b.position[p].group, b.position[p].status>> \in
    { <<"asset", "disposed">>, <<"liability", "forgiven">>, <<"liability", "written_off">>,
      <<"receivable", "written_off">> }

TrackingExit(b, p) == b.position[p].status = "untracked"

SignedForNW(b, p, v) == IF b.position[p].group = "liability" THEN -v ELSE v

InGroup(b, group) == {p \in DOMAIN b.position : b.position[p].group = group}

----------------------------------------------------------------------------
(* Net worth *)

Contributes(b, m) == {p \in DOMAIN b.position : ~TerminatedBefore(b, p, m) /\ IsCarried(b, p, m)}

GroupWorth(b, group, m) ==
  SumOver(Contributes(b, m) \cap InGroup(b, group), LAMBDA p : Carried(b, p, m))

NetWorth(b, m) == GroupWorth(b, "asset", m) + GroupWorth(b, "receivable", m)
                  + GroupWorth(b, "investment", m) - GroupWorth(b, "liability", m)

Stale(b, m) == {p \in Contributes(b, m) : m \notin DOMAIN b.snapshot[p]}

\* The positions no rate values; entries that lack one are left out here.
MissingFx(b, m) ==
  {p \in DOMAIN b.position : /\ ~TerminatedBefore(b, p, m)
                             /\ Latest(b.snapshot[p], m) # {} /\ ~IsCarried(b, p, m)}

----------------------------------------------------------------------------
(* Cash flows of investments *)

\* Broken: what is rolled over is not taken for an outflow.
CashOutPaid(t) ==
  CASE t.type \in {"sell", "coupon", "dividend", "distribution"} -> t.amount
    [] t.type = "maturity" -> (IF "principal" \in t.rolled THEN 0 ELSE t.principal)
                              + (IF "interest" \in t.rolled THEN 0 ELSE t.interest)
    [] OTHER -> 0

CashOut(t) ==
  CASE t.type \in {"sell", "coupon", "dividend", "distribution"} -> t.amount
    [] t.type = "maturity" -> t.principal + t.interest
    [] OTHER -> 0

CashIn(t) == IF t.type = "buy" \/ (t.type = "fee" /\ ~t.units) THEN t.amount ELSE 0

Part(t, parts) == (IF "principal" \in parts THEN t.principal ELSE 0)
                  + (IF "interest" \in parts THEN t.interest ELSE 0)

Booked(b, m) == {t \in b.transaction : t.month = m /\ Convertible(b, t.currency, m)}

FreshPlacements(b, m) ==
  {p \in DOMAIN b.position :
     /\ b.position[p].from = None /\ b.position[p].principal # None
     /\ b.position[p].placed = m /\ Convertible(b, b.position[p].currency, m)}

PlacementOf(b, p, m) == Convert(b, b.position[p].principal, b.position[p].currency, m)

\* What the maturity of its predecessor rolled into p: if a deposit has two
\* successors the map holds the one the loop met last.
SuccessorOf(b, p) ==
  LET heirs == {q \in DOMAIN b.position : b.position[q].from = p}
  IN  IF heirs = {} THEN None ELSE CHOOSE q \in heirs : TRUE

RolledInto(b, p, m) ==
  SumOver({t \in Booked(b, m) : t.type = "maturity" /\ SuccessorOf(b, t.of) = p},
          LAMBDA t : Convert(b, Part(t, t.rolled), t.currency, m))

Flow(b, p, m) ==
  LET own == {t \in Booked(b, m) : t.of = p}
  IN  SumOver(own, LAMBDA t : Convert(b, CashOut(t) - CashIn(t), t.currency, m))
      - (IF p \in FreshPlacements(b, m) THEN PlacementOf(b, p, m) ELSE 0)
      - RolledInto(b, p, m)

\* Broken: funds that were rolled over are taken for money that came back.
PlacementGross(b, m) ==
  LET net(t) == CASE t.type = "buy"                  -> t.amount
                  [] t.type \in {"sell", "maturity"} -> -(t.amount + t.principal + t.interest)
                  [] OTHER                           -> 0
  IN  SumOver(Booked(b, m), LAMBDA t : Convert(b, net(t), t.currency, m))
      + SumOver(FreshPlacements(b, m), LAMBDA p : PlacementOf(b, p, m))

\* New money put into investments, less the principal that came back.
Placement(b, m) ==
  LET net(t) == CASE t.type = "buy"      -> t.amount
                  [] t.type = "sell"     -> -t.amount
                  [] t.type = "maturity" -> -Part(t, {"principal", "interest"} \ t.rolled)
                  [] OTHER               -> 0
  IN  SumOver(Booked(b, m), LAMBDA t : Convert(b, net(t), t.currency, m))
      + SumOver(FreshPlacements(b, m), LAMBDA p : PlacementOf(b, p, m))

PassiveCouponCash(b, m) ==
  SumOver({t \in Booked(b, m) : t.type = "coupon" /\ b.position[t.of].paysOut},
          LAMBDA t : Convert(b, t.amount, t.currency, m))

----------------------------------------------------------------------------
(* The income statement of a month that has one before it *)

EarnedIncome(b, m) ==
  SumOver({i \in b.income : i.month = m /\ Convertible(b, i.currency, m)},
          LAMBDA i : Convert(b, i.amount, i.currency, m))

\* Broken: an investment that left the books stays in.
ReturningWithExits(b, m) ==
  {p \in InGroup(b, "investment") : ~TerminatedBefore(b, p, m) /\ IsMoving(b, p, m)}

\* Broken: one that is to leave the books is out from its first month on.
ReturningUntilExit(b, m) ==
  {p \in InGroup(b, "investment") :
     ~TerminatedBefore(b, p, m) /\ ~TrackingExit(b, p) /\ IsMoving(b, p, m)}

Returning(b, m) ==
  {p \in InGroup(b, "investment") :
     /\ ~TerminatedBefore(b, p, m) /\ ~(TrackingExit(b, p) /\ TerminatesAt(b, p, m))
     /\ IsMoving(b, p, m)}

InvestmentReturn(b, m) ==
  SumOver(Returning(b, m), LAMBDA p : Movement(b, p, m) + Flow(b, p, m))

AssetValueChange(b, m) ==
  SumOver({p \in InGroup(b, "asset") : /\ ~TerminatedByEndOf(b, p, m)
                                       /\ b.position[p].subtype \in {"property", "vehicle"}
                                       /\ IsMoving(b, p, m)},
          LAMBDA p : Movement(b, p, m))

WrittenOff(b, m) ==
  {p \in DOMAIN b.position : /\ TerminatesAt(b, p, m) /\ NonCashTerminal(b, p)
                             /\ IsMoving(b, p, m)}

WriteOffs(b, m) == SumOver(WrittenOff(b, m), LAMBDA p : SignedForNW(b, p, Movement(b, p, m)))

Departing(b, m) ==
  {p \in DOMAIN b.position : TrackingExit(b, p) /\ TerminatesAt(b, p, m)}

Arriving(b, m) ==
  {p \in DOMAIN b.position \ Departing(b, m) :
     /\ b.position[p].entry = "newly_tracked"
     /\ DOMAIN b.snapshot[p] # {} /\ Min(DOMAIN b.snapshot[p]) = m
     /\ ~TerminatedBefore(b, p, m) /\ IsCarried(b, p, m)}

TrackingChanges(b, m) ==
  SumOver({p \in Departing(b, m) : IsMoving(b, p, m)},
          LAMBDA p : SignedForNW(b, p, Movement(b, p, m)))
  + SumOver(Arriving(b, m), LAMBDA p : SignedForNW(b, p, Carried(b, p, m)))

\* What is left when everything else is accounted for.
LivingExpenses(b, m) ==
  EarnedIncome(b, m) + InvestmentReturn(b, m) + AssetValueChange(b, m) + WriteOffs(b, m)
  + TrackingChanges(b, m) - (NetWorth(b, m) - NetWorth(b, m - 1))

\* Broken: a settlement of nothing does not count.
UnsettledUnlessPaid(b, m) ==
  {p \in InGroup(b, "investment") :
     /\ TerminatesAt(b, p, m) /\ ~TrackingExit(b, p)
     /\ ~\E t \in b.transaction : t.of = p /\ t.month = m /\ CashOut(t) > 0}

Unsettled(b, m) ==
  {p \in InGroup(b, "investment") :
     /\ TerminatesAt(b, p, m) /\ ~TrackingExit(b, p)
     /\ ~\E t \in b.transaction : t.of = p /\ t.month = m /\ t.type \in {"sell", "maturity"}}

----------------------------------------------------------------------------
(* The reports *)

Recorded(b) == UNION {DOMAIN b.snapshot[p] : p \in DOMAIN b.snapshot}

\* The months there is a report of.
Months(b, today) ==
  IF Recorded(b) = {} THEN {} ELSE Min(Recorded(b)) .. Max(Recorded(b) \cup {today})

\* One report.  The first month has no income statement.
Report(b, m) ==
  [worth     |-> NetWorth(b, m),
   income    |-> EarnedIncome(b, m),
   stale     |-> Stale(b, m),
   missing   |-> MissingFx(b, m),
   unsettled |-> Unsettled(b, m),
   statement |->
     IF m = Min(Recorded(b)) THEN None
     ELSE [return |-> InvestmentReturn(b, m), coupons |-> PassiveCouponCash(b, m),
           placement |-> Placement(b, m), marks |-> AssetValueChange(b, m),
           writeOffs |-> WriteOffs(b, m), tracking |-> TrackingChanges(b, m),
           living |-> LivingExpenses(b, m)]]
=============================================================================
