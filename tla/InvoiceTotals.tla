---------------------------- MODULE InvoiceTotals ----------------------------
(***************************************************************************)
(* The lines of one invoice, their allowances and charges, and the totals  *)
(* stored with the invoice (invoice_models.py, tax_service.py).            *)
(*                                                                         *)
(* A request changes one row and then brings the stored amounts up to      *)
(* date, in statements of their own: the line of the charge, the reading   *)
(* of the aggregates, the writing of the totals.  Other requests come in   *)
(* between, and a worker may die between two of them.  Amounts are cents,  *)
(* rates are percent.                                                      *)
(***************************************************************************)
EXTENDS Integers, FiniteSets, FiniteSetsExt

CONSTANTS
    Handlers,     \* concurrent requests
    LineIds,
    ChargeIds,    \* rows of InvoiceAllowanceCharge
    Nets,         \* quantity times price less discount, of a line
    Offers,       \* what a new line may be, see Offer
    Rates,        \* rates a PATCH of a line may set
    Amounts,      \* of an allowance or charge
    Buyers,       \* see Buyer
    MaxRequests,  \* bound: requests started
    MayMove,      \* a charge may be moved to another line
    MayDie,
    Header,       \* the target of a charge at header level
    Absent

Buyer == [country : {"unknown", "home", "eu", "third"},
          vat     : {"none", "malformed", "wellformed", "other_prefix"}]
Product == [rate : Nat, category : {"STANDARD", "REDUCED", "ZERO", "EXEMPT"}]
Offer   == [product : Product \cup {Absent}, rate : Nat]

ASSUME AmountsAssumption ==
    Nets \subseteq Int /\ Amounts \subseteq Nat \ {0} /\ Rates \subseteq Nat
ASSUME InputsAssumption  ==
    /\ IsFiniteSet(LineIds) /\ IsFiniteSet(ChargeIds)
    /\ \A o \in Offers : o \in Offer
    /\ \A p \in Buyers : p \in Buyer
ASSUME RequestsAssumption == MaxRequests \in Nat
ASSUME AbsentAssumption   == {Absent, Header} \cap LineIds = {} /\ Absent # Header

Line    == [net : Int, rate : Nat, stored : {"S", "Z", "E", "AE", "G"},
            total : Int, tax : Int]
Charge  == [on : LineIds \cup {Header}, charge : BOOLEAN, amount : Nat]
Totals  == [basis : Int, tax : Int]
Request == [pc : {"idle", "line", "read", "write"},
            on : LineIds \cup {Header}, sum : Totals]

VARIABLES
    buyer,  \* business partner of the invoice
    lines, charges,
    totals,   \* subtotal and tax_amount of the invoice
    req,
    alone,    \* history: busy requests no other has overlapped
    started   \* requests so far
totalsVars == <<buyer, lines, charges, totals, req, alone, started>>

-----------------------------------------------------------------------------
(***************************************************************************)
(* Tax determination of a product sold to the partner.                     *)
(***************************************************************************)
ValidVatId(p) == p.vat \in {"wellformed", "other_prefix"}

Scenario(p) ==
    CASE p.country = "third"                   -> "EXPORT"
      [] p.country = "eu" /\ ValidVatId(p)     -> "EU_REVERSE_CHARGE"
      [] OTHER                                 -> "DOMESTIC"

Determination(product, p) ==
    CASE Scenario(p) = "EXPORT"            -> [rate |-> 0, stored |-> "G"]
      [] Scenario(p) = "EU_REVERSE_CHARGE" -> [rate |-> 0, stored |-> "AE"]
      [] OTHER -> [rate   |-> product.rate,
                   stored |-> CASE product.category = "EXEMPT" -> "E"
                                [] product.category = "ZERO" \/ product.rate = 0 -> "Z"
                                [] OTHER -> "S"]

\* What a new line is taxed with: only a rate of zero asks the product.
Treatment(o) ==
    IF o.product # Absent /\ o.rate = 0
    THEN Determination(o.product, buyer)
    ELSE [rate |-> o.rate, stored |-> "S"]

-----------------------------------------------------------------------------
(***************************************************************************)
(* Decimal arithmetic: quantize(0.01) rounds a half to the even cent.      *)
(***************************************************************************)
Quantized(n, d) ==
    LET num == IF d < 0 THEN -n ELSE n
        den == IF d < 0 THEN -d ELSE d
        low == num \div den
        rem == 2 * (num % den)
    IN  IF rem < den \/ (rem = den /\ low % 2 = 0) THEN low ELSE low + 1

Present == {l \in LineIds : lines[l] # Absent}
Charged == {c \in ChargeIds : charges[c] # Absent}
On(x)   == {c \in Charged : charges[c].on = x}

Signed(cs) == MapThenSumSet(
    LAMBDA c : IF charges[c].charge THEN charges[c].amount ELSE -charges[c].amount, cs)
NetOf(ls)  == MapThenSumSet(LAMBDA l : lines[l].total, ls)
TaxOf(ls)  == MapThenSumSet(LAMBDA l : lines[l].tax, ls)

LineRates == {lines[l].rate : l \in Present}
Group(r)  == NetOf({l \in Present : lines[l].rate = r})

Priced(line, adjustment) ==
    LET total == line.net + adjustment
    IN  [line EXCEPT !.total = total, !.tax = Quantized(total * line.rate, 100)]

\* Mutation of Aggregate: the header charges are left out of the tax.
AggregateLineTax == [basis |-> NetOf(Present) + Signed(On(Header)), tax |-> TaxOf(Present)]

\* recalculate_totals(): the charges of lines are in the totals of the lines.
Aggregate ==
    LET net      == NetOf(Present)
        adjust   == Signed(On(Header))
        change(r) == IF net = 0 THEN 0
                     ELSE Quantized((Group(r) * net + adjust * Group(r)) * r, 100 * net)
                          - Quantized(Group(r) * r, 100)
    IN  [basis |-> net + adjust,
         tax   |-> TaxOf(Present)
                   + IF adjust = 0 THEN 0 ELSE MapThenSumSet(change, LineRates)]

-----------------------------------------------------------------------------
Idle    == [pc |-> "idle", on |-> Header, sum |-> [basis |-> 0, tax |-> 0]]
Busy(h) == req[h].pc # "idle"
AtRest  == \A h \in Handlers : ~Busy(h)

TotalsTypeOK ==
    /\ buyer \in Buyers
    /\ lines \in [LineIds -> Line \cup {Absent}]
    /\ charges \in [ChargeIds -> Charge \cup {Absent}]
    /\ totals \in Totals
    /\ req \in [Handlers -> Request]
    /\ alone \subseteq {h \in Handlers : Busy(h)}
    /\ started \in 0 .. MaxRequests

TotalsInit ==
    /\ buyer \in Buyers
    /\ lines = [l \in LineIds |-> Absent]
    /\ charges = [c \in ChargeIds |-> Absent]
    /\ totals = [basis |-> 0, tax |-> 0]
    /\ req = [h \in Handlers |-> Idle]
    /\ alone = {}
    /\ started = 0

\* A request begins and goes on at step pc, for the charges of x.
Begin(h, pc, x) ==
    /\ ~Busy(h) /\ started < MaxRequests
    /\ started' = started + 1
    /\ alone' = IF AtRest /\ pc # "idle" THEN {h} ELSE {}
    /\ req' = [req EXCEPT ![h].pc = pc, ![h].on = x]
    /\ UNCHANGED <<buyer, totals>>

CreateLine(h) == \E l \in LineIds \ Present, net \in Nets, o \in Offers :
    /\ lines' = [lines EXCEPT ![l] =
                    Priced([net |-> net, rate |-> Treatment(o).rate,
                            stored |-> Treatment(o).stored, total |-> 0, tax |-> 0], 0)]
    /\ Begin(h, "read", Header)
    /\ UNCHANGED charges

\* The category is no field of the serializer: it stays.
PatchLine(h) == \E l \in Present, net \in Nets, r \in Rates :
    /\ lines' = [lines EXCEPT ![l] =
                    Priced([@ EXCEPT !.net = net, !.rate = r], Signed(On(l)))]
    /\ Begin(h, "read", Header)
    /\ UNCHANGED charges

\* The charges go by cascade; neither deletion recalculates anything.
DeleteLine(h) == \E l \in Present :
    /\ lines' = [lines EXCEPT ![l] = Absent]
    /\ charges' = [c \in ChargeIds |-> IF c \in On(l) THEN Absent ELSE charges[c]]
    /\ Begin(h, "idle", Header)

\* Mutation of SetCharge: the line of the charge keeps its amounts.
SetChargeOnly(h, c, row) ==
    /\ charges' = [charges EXCEPT ![c] = row]
    /\ Begin(h, "read", row.on)
    /\ UNCHANGED lines

SetCharge(h, c, row) ==
    /\ charges' = [charges EXCEPT ![c] = row]
    /\ Begin(h, IF row.on = Header THEN "read" ELSE "line", row.on)
    /\ UNCHANGED lines

CreateCharge(h) == \E c \in ChargeIds \ Charged, x \in Present \cup {Header},
                      charge \in BOOLEAN, amount \in Amounts :
    SetCharge(h, c, [on |-> x, charge |-> charge, amount |-> amount])

\* The line the charge is taken from is not recalculated.
PatchCharge(h) == \E c \in Charged, x \in Present \cup {Header}, amount \in Amounts :
    /\ x # charges[c].on => MayMove
    /\ SetCharge(h, c, [charges[c] EXCEPT !.on = x, !.amount = amount])

DeleteCharge(h) == \E c \in Charged :
    LET x == charges[c].on
    IN  /\ charges' = [charges EXCEPT ![c] = Absent]
        /\ Begin(h, IF x = Header THEN "read" ELSE "line", x)
        /\ UNCHANGED lines

\* Mutation of WriteTotals: a request that is over still counts as at work.
WriteTotalsStay(h) ==
    /\ req[h].pc = "write"
    /\ totals' = req[h].sum
    /\ req' = [req EXCEPT ![h] = Idle]
    /\ UNCHANGED <<buyer, lines, charges, alone, started>>

GoOn(h, pc) == req' = [req EXCEPT ![h].pc = pc]

RecalculateLine(h) ==
    /\ req[h].pc = "line"
    /\ lines' = IF req[h].on \in Present
                THEN [lines EXCEPT ![req[h].on] = Priced(@, Signed(On(req[h].on)))]
                ELSE lines
    /\ GoOn(h, "read")
    /\ UNCHANGED <<buyer, charges, totals, alone, started>>

ReadAggregates(h) ==
    /\ req[h].pc = "read"
    /\ req' = [req EXCEPT ![h].pc = "write", ![h].sum = Aggregate]
    /\ UNCHANGED <<buyer, lines, charges, totals, alone, started>>

WriteTotals(h) ==
    /\ req[h].pc = "write"
    /\ totals' = req[h].sum
    /\ req' = [req EXCEPT ![h] = Idle]
    /\ alone' = alone \ {h}
    /\ UNCHANGED <<buyer, lines, charges, started>>

Die(h) ==
    /\ MayDie /\ Busy(h)
    /\ req' = [req EXCEPT ![h] = Idle]
    /\ alone' = alone \ {h}
    /\ UNCHANGED <<buyer, lines, charges, totals, started>>

TotalsNext == \E h \in Handlers :
    \/ CreateLine(h) \/ PatchLine(h) \/ DeleteLine(h)
    \/ CreateCharge(h) \/ PatchCharge(h) \/ DeleteCharge(h)
    \/ RecalculateLine(h) \/ ReadAggregates(h) \/ WriteTotals(h)
    \/ Die(h)

TotalsSpec == TotalsInit /\ [][TotalsNext]_totalsVars

-----------------------------------------------------------------------------
Followed(l) == lines[l].total = lines[l].net + Signed(On(l))

\* Recalculation heals: whatever deletions, deaths and crossing requests
\* came before, a request no other overlapped leaves the stored totals equal
\* to the rows, and the line it was about equal to its charges
\* (InvoiceAllowanceCharge.save, InvoiceLine.save, recalculate_totals).
AloneHeals ==
    [][\A h \in alone : (WriteTotals(h) =>
            /\ totals' = Aggregate'
            /\ \A l \in Present : l = req[h].on => Followed(l)')]_totalsVars

\* Stated, not kept as a run: the stored totals are those of the rows
\* whenever nobody is at work.  A deleted line, a worker that died, and two
\* requests that read and write the totals crosswise each break it.
TotalsFollowRows == AtRest => totals = Aggregate

\* Stated, not kept as a run: a line counts the charges that point to it.  A
\* charge moved by PATCH leaves the line it came from as it was.
LinesFollowCharges == AtRest => \A l \in Present : Followed(l)
=============================================================================
