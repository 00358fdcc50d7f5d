-------------------------- MODULE ElectronicInvoice --------------------------
(***************************************************************************)
(* The Cross Industry Invoice written for an invoice (invoice_service.py,  *)
(* utils/xml/generator.py): the amounts it states, computed afresh from    *)
(* the rows of InvoiceTotals, and the order of its elements, against the   *)
(* sequences of the UN/CEFACT D16B schema the repository ships.            *)
(*                                                                         *)
(* Writing the document changes no row, so it is a function of the state.  *)
(* The generator computes in binary floating point: a value that lies half *)
(* way between two cents may fall to either side, and "up" is the set of   *)
(* the rates for which it is the upper one.                                *)
(***************************************************************************)
EXTENDS InvoiceTotals, XmlValidation, Sequences, SequencesExt

CONSTANTS Shapes   \* what else the invoices may carry: sets of Features

Features == {"payee", "bank", "credit_note", "billing_period", "prepaid",
             "rounding", "tax_representative", "references", "attachments",
             "delivery_address", "discount", "line_period", "exemption_code",
             "gross_price", "identifiers", "attributes", "register", "contact"}

ASSUME ShapesAssumption == Shapes \subseteq SUBSET Features

-----------------------------------------------------------------------------
(***************************************************************************)
(* Amounts.                                                                *)
(***************************************************************************)
Rounded(n, d, upper) ==
    LET num == IF d < 0 THEN -n ELSE n
        den == IF d < 0 THEN -d ELSE d
        rem == 2 * (num % den)
    IN  num \div den + IF rem > den \/ (rem = den /\ upper) THEN 1 ELSE 0

LastRate == Max(LineRates)

\* One allowance or charge, by rate: a rounded share for each but the last
\* rate, which takes the rest; parts that are not positive are left out.
Share(c, r, up) ==
    LET net == NetOf(Present)
    IN  Rounded(charges[c].amount * Group(r), IF net = 0 THEN 100 ELSE net, r \in up)

\* Mutation of Part: the last rate takes a rounded share as well.
PartShare(c, r, up) == IF Share(c, r, up) > 0 THEN Share(c, r, up) ELSE 0

Part(c, r, up) ==
    LET rest == charges[c].amount
                - MapThenSumSet(LAMBDA q : Share(c, q, up), LineRates \ {LastRate})
        part == IF r = LastRate THEN rest ELSE Share(c, r, up)
    IN  IF part > 0 THEN part ELSE 0

Adjustment(r, up) == MapThenSumSet(
    LAMBDA c : IF charges[c].charge THEN Part(c, r, up) ELSE -Part(c, r, up), Charged)

CategoryCode(l) ==
    CASE lines[l].stored # "S" -> lines[l].stored
      [] lines[l].rate = 0     -> "Z"
      [] OTHER                 -> "S"

Categories(r) == {CategoryCode(l) : l \in {l \in Present : lines[l].rate = r}}

\* ApplicableTradeTax of a rate and category.  The categories of a rate
\* share its allowances and charges equally, Basis is exact over their number.
Basis(r, k, up) ==
    Cardinality(Categories(r))
      * NetOf({l \in Present : lines[l].rate = r /\ CategoryCode(l) = k})
    + Adjustment(r, up)

BasisAmount(r, k, up)      == Rounded(Basis(r, k, up), Cardinality(Categories(r)), r \in up)
CalculatedAmount(r, k, up) == Rounded(Basis(r, k, up) * r,
                                      100 * Cardinality(Categories(r)), r \in up)

\* SpecifiedTradeSettlementHeaderMonetarySummation: every allowance and
\* charge of the invoice is in it, those of its lines too.
TaxBasisTotal == NetOf(Present) + Signed(Charged)
TaxTotal(up)  == MapThenSumSet(
    LAMBDA r : Rounded((Group(r) + Adjustment(r, up)) * r, 100, r \in up), LineRates)

OverGroups(f(_, _)) == MapThenSumSet(
    LAMBDA r : MapThenSumSet(LAMBDA k : f(r, k), Categories(r)), LineRates)

\* Allowances and charges of no line at all: next(iter({})) raises.
Generable == Present # {} \/ Charged = {}

OneCategory == \A r \in LineRates : Cardinality(Categories(r)) = 1
Plain       == OneCategory /\ Cardinality(LineRates) <= 2
                           /\ \A r \in LineRates : Group(r) >= 0

\* The amounts of a document add up although shares are rounded (EN 16931
\* BR-CO-5, BR-CO-14): the bases to the tax basis total, the taxes to the tax
\* total, for invoices with one category per rate, at most two rates and no
\* negative group (_split_allowances_charges_proportionally).
AddsUp == AtRest /\ Generable /\ Plain => \A up \in SUBSET LineRates :
    /\ OverGroups(LAMBDA r, k : BasisAmount(r, k, up)) = TaxBasisTotal
    /\ OverGroups(LAMBDA r, k : CalculatedAmount(r, k, up)) = TaxTotal(up)

Spread == IF LineRates = {} THEN 0 ELSE Max(LineRates) - Min(LineRates)

\* The document states what is booked: with totals that follow the rows and
\* no charge on a line, the basis is the stored subtotal, and the tax, rounded
\* by rate, leaves the tax rounded by line by no more than half a cent for
\* each line, three for each rate, and for each allowance or charge half a
\* cent times the difference of the rates (recalculate_totals,
\* _add_monetary_summation).  Lines that come to nothing are left out: their
\* charges are taxed in the document and not in the totals.
StatesTheBooked ==
    (AtRest /\ Generable /\ Plain /\ totals = Aggregate /\ Charged = On(Header)
        /\ (Charged = {} \/ NetOf(Present) # 0)) =>
        /\ TaxBasisTotal = totals.basis
        /\ \A up \in SUBSET LineRates :
              LET drift == 200 * (TaxTotal(up) - totals.tax)
                  bound == 100 * Cardinality(Present) + 300 * Cardinality(LineRates)
                             + Spread * Cardinality(Charged)
              IN  -bound <= drift /\ drift <= bound

\* The allowances and charges of the header are those of the header
\* (invoice_service.py:82).
HeaderChargesOnly == (AtRest /\ Present # {} /\ totals = Aggregate) =>
                         TaxBasisTotal = totals.basis

-----------------------------------------------------------------------------
(***************************************************************************)
(* Elements, in the order they are appended; s is the shape, with          *)
(* "charges" if there are allowances or charges, k a category code.        *)
(***************************************************************************)
Codes == {"S", "Z", "E", "AE", "G"}
When(condition, elements) == IF condition THEN elements ELSE <<>>

Exempt(k) == k \in {"AE", "G", "E"}
\* A determination gives AE and G their reason, and E none.
Reason(k) == When(k \in {"AE", "G"}, <<"ExemptionReason">>)
Code(k, s) == When(Exempt(k) /\ "exemption_code" \in s, <<"ExemptionReasonCode">>)

Document == <<"ExchangedDocumentContext", "ExchangedDocument",
              "SupplyChainTradeTransaction">>
ExchangedDocument == <<"ID", "TypeCode", "IssueDateTime">>
Transaction(codes) ==
    When(codes # {}, <<"IncludedSupplyChainTradeLineItem">>)
    \o <<"ApplicableHeaderTradeAgreement", "ApplicableHeaderTradeDelivery",
         "ApplicableHeaderTradeSettlement">>
LineItem ==
    <<"AssociatedDocumentLineDocument", "SpecifiedTradeProduct",
      "SpecifiedLineTradeAgreement", "SpecifiedLineTradeDelivery",
      "SpecifiedLineTradeSettlement">>

Agreement(s) ==
    <<"SellerTradeParty", "BuyerTradeParty">>
    \o When("tax_representative" \in s, <<"SellerTaxRepresentativeTradeParty">>)
    \o When("references" \in s, <<"SellerOrderReferencedDocument",
            "BuyerOrderReferencedDocument", "ContractReferencedDocument">>)
    \o When("attachments" \in s, <<"AdditionalReferencedDocument">>)

Party(s) ==
    <<"Name">> \o When("register" \in s, <<"SpecifiedLegalOrganization">>)
    \o When("contact" \in s, <<"DefinedTradeContact">>)
    \o <<"PostalTradeAddress", "SpecifiedTaxRegistration">>

Delivery(s) ==
    When("delivery_address" \in s, <<"ShipToTradeParty">>)
    \o <<"ActualDeliverySupplyChainEvent">>

HeaderTax(k, s) ==
    <<"CalculatedAmount", "TypeCode">> \o Reason(k) \o Code(k, s)
    \o <<"BasisAmount", "CategoryCode", "RateApplicablePercent">>

HeaderCharge ==
    <<"ChargeIndicator", "CalculationPercent", "BasisAmount", "ActualAmount",
      "ReasonCode", "Reason", "CategoryTradeTax">>

Summation(s) ==
    <<"LineTotalAmount", "ChargeTotalAmount", "AllowanceTotalAmount",
      "TaxBasisTotalAmount", "TaxTotalAmount", "GrandTotalAmount">>
    \o When("prepaid" \in s, <<"TotalPrepaidAmount">>)
    \o When("rounding" \in s, <<"RoundingAmount">>)
    \o <<"DuePayableAmount">>

\* Mutation of Settlement: the allowances and charges come before the taxes.
SettlementChargesFirst(s) ==
    <<"InvoiceCurrencyCode">> \o When("payee" \in s, <<"PayeeTradeParty">>)
    \o When("credit_note" \in s, <<"InvoiceReferencedDocument">>)
    \o When("bank" \in s, <<"SpecifiedTradeSettlementPaymentMeans">>)
    \o When("charges" \in s, <<"SpecifiedTradeAllowanceCharge">>)
    \o <<"ApplicableTradeTax">>
    \o When("billing_period" \in s, <<"BillingSpecifiedPeriod">>)
    \o <<"SpecifiedTradePaymentTerms", "SpecifiedTradeSettlementHeaderMonetarySummation">>

Settlement(s) ==
    <<"InvoiceCurrencyCode">> \o When("payee" \in s, <<"PayeeTradeParty">>)
    \o When("credit_note" \in s, <<"InvoiceReferencedDocument">>)
    \o When("bank" \in s, <<"SpecifiedTradeSettlementPaymentMeans">>)
    \o <<"ApplicableTradeTax">>
    \o When("billing_period" \in s, <<"BillingSpecifiedPeriod">>)
    \o When("charges" \in s, <<"SpecifiedTradeAllowanceCharge">>)
    \o <<"SpecifiedTradePaymentTerms", "SpecifiedTradeSettlementHeaderMonetarySummation">>

LineProduct(s) ==
    When("identifiers" \in s, <<"GlobalID", "SellerAssignedID">>) \o <<"Name">>
    \o When("attributes" \in s, <<"ApplicableProductCharacteristic">>)

LinePrice(s) ==
    When("gross_price" \in s, <<"GrossPriceProductTradePrice">>)
    \o <<"NetPriceProductTradePrice">>

LineDelivery(s) ==
    <<"BilledQuantity">> \o When("line_period" \in s, <<"BillingSpecifiedPeriod">>)

LineTax(k, s) ==
    <<"TypeCode", "CategoryCode">> \o Reason(k) \o Code(k, s)
    \o <<"RateApplicablePercent">>

LineSettlement(s) ==
    <<"ApplicableTradeTax">>
    \o When("discount" \in s, <<"SpecifiedTradeAllowanceCharge">>)
    \o <<"SpecifiedTradeSettlementLineMonetarySummation">>

-----------------------------------------------------------------------------
(***************************************************************************)
(* The sequences of the schema, cut down to the elements the code knows.   *)
(***************************************************************************)
TradeTaxType ==
    <<"CalculatedAmount", "TypeCode", "ExemptionReason", "BasisAmount",
      "CategoryCode", "ExemptionReasonCode", "RateApplicablePercent">>

Sequence ==
    [CrossIndustryInvoice |->
        <<"ExchangedDocumentContext", "ExchangedDocument", "SupplyChainTradeTransaction">>,
     ExchangedDocument |-> <<"ID", "TypeCode", "IssueDateTime">>,
     SupplyChainTradeTransaction |->
        <<"IncludedSupplyChainTradeLineItem", "ApplicableHeaderTradeAgreement",
          "ApplicableHeaderTradeDelivery", "ApplicableHeaderTradeSettlement">>,
     SupplyChainTradeLineItem |->
        <<"AssociatedDocumentLineDocument", "SpecifiedTradeProduct",
          "SpecifiedLineTradeAgreement", "SpecifiedLineTradeDelivery",
          "SpecifiedLineTradeSettlement">>,
     HeaderTradeAgreement |->
        <<"SellerTradeParty", "BuyerTradeParty", "SellerTaxRepresentativeTradeParty",
          "SellerOrderReferencedDocument", "BuyerOrderReferencedDocument",
          "ContractReferencedDocument", "AdditionalReferencedDocument">>,
     TradeParty |->
        <<"Name", "SpecifiedLegalOrganization", "DefinedTradeContact",
          "PostalTradeAddress", "SpecifiedTaxRegistration">>,
     HeaderTradeDelivery |-> <<"ShipToTradeParty", "ActualDeliverySupplyChainEvent">>,
     TradeAllowanceCharge |->
        <<"ChargeIndicator", "CalculationPercent", "BasisAmount", "ActualAmount",
          "ReasonCode", "Reason", "CategoryTradeTax">>,
     Summation |->
        <<"LineTotalAmount", "ChargeTotalAmount", "AllowanceTotalAmount",
          "TaxBasisTotalAmount", "TaxTotalAmount", "RoundingAmount",
          "GrandTotalAmount", "TotalPrepaidAmount", "DuePayableAmount">>,
     HeaderTradeSettlement |->
        <<"InvoiceCurrencyCode", "PayeeTradeParty",
          "SpecifiedTradeSettlementPaymentMeans", "ApplicableTradeTax",
          "BillingSpecifiedPeriod", "SpecifiedTradeAllowanceCharge",
          "SpecifiedTradePaymentTerms",
          "SpecifiedTradeSettlementHeaderMonetarySummation",
          "InvoiceReferencedDocument">>,
     TradeProduct |-> <<"GlobalID", "SellerAssignedID", "Name",
                        "ApplicableProductCharacteristic">>,
     LineTradeAgreement  |-> <<"GrossPriceProductTradePrice",
                               "NetPriceProductTradePrice">>,
     LineTradeDelivery   |-> <<"BilledQuantity">>,
     LineTradeSettlement |->
        <<"ApplicableTradeTax", "BillingSpecifiedPeriod",
          "SpecifiedTradeAllowanceCharge",
          "SpecifiedTradeSettlementLineMonetarySummation">>,
     HeaderTax |-> TradeTaxType, LineTax |-> TradeTaxType]

\* The instances of each type in a document whose lines have these codes.
Instances(codes, s) ==
    [CrossIndustryInvoice |-> {Document}, ExchangedDocument |-> {ExchangedDocument},
     SupplyChainTradeTransaction |-> {Transaction(codes)},
     SupplyChainTradeLineItem |-> IF codes = {} THEN {} ELSE {LineItem},
     HeaderTradeAgreement |-> {Agreement(s)}, TradeParty |-> {Party(s)},
     HeaderTradeDelivery |-> {Delivery(s)},
     TradeAllowanceCharge |-> IF "charges" \in s THEN {HeaderCharge} ELSE {},
     Summation |-> {Summation(s)}, HeaderTradeSettlement |-> {Settlement(s)},
     TradeProduct |-> {LineProduct(s)}, LineTradeAgreement |-> {LinePrice(s)},
     LineTradeDelivery |-> {LineDelivery(s)},
     LineTradeSettlement |-> {LineSettlement(s)},
     HeaderTax |-> {HeaderTax(k, s) : k \in codes},
     LineTax |-> {LineTax(k, s) : k \in codes}]

Place(e, type) == CHOOSE i \in DOMAIN type : type[i] = e

\* The elements of a sequence are optional, and none of them is repeated here.
InSequence(elements, type) ==
    /\ ToSet(elements) \subseteq ToSet(type)
    /\ \A i, j \in DOMAIN elements :
           i < j => Place(elements[i], type) < Place(elements[j], type)

\* Each document, by the codes of its lines, with the types the schema
\* rejects it for.
Verdicts ==
    {<<codes, s, {t \in DOMAIN Sequence :
                    \E e \in Instances(codes, s)[t] : ~InSequence(e, Sequence[t])}>> :
        codes \in SUBSET Codes, s \in Shapes \cup {s \cup {"charges"} : s \in Shapes}}

LineCodes == {CategoryCode(l) : l \in Present}
Judged(s, types) ==
    <<LineCodes, IF Charged = {} THEN s ELSE s \cup {"charges"}, types>> \in Verdicts

Only(condition, types) == IF condition THEN types ELSE {}

\* What the schema rejects, exactly: a credit note's reference to the invoice
\* it cancels, a rounding amount, a billing period of a line, the reason of an
\* exempt line, and an exemption reason code.  Every other combination of
\* optional elements is in the sequence of the schema (generator.py).
RejectsExactly == AtRest /\ Present # {} => \A s \in Shapes :
    Judged(s,
        Only("credit_note" \in s, {"HeaderTradeSettlement"})
        \cup Only("rounding" \in s, {"Summation"})
        \cup Only("line_period" \in s, {"LineTradeDelivery"})
        \cup Only(LineCodes \cap {"AE", "G"} # {}, {"LineTax"})
        \cup Only("exemption_code" \in s /\ \E k \in LineCodes : Exempt(k), {"HeaderTax"}))

Misanswered == {types \in {v[3] : v \in Verdicts} : ~AnsweredExactly(types)}

\* A document is answered valid exactly if at least one of the XSD and the
\* EN 16931 rules is there, each of them that is accepts it, and so do the
\* national rules where its profile calls for them and they can be loaded:
\* no warning rejects a document, no failure to run a schema accepts one, and
\* what is answered invalid has an error to show (backends.py, validator.py,
\* invoice_service.py:292-321).
AnswersExactly == AtRest /\ Present # {} =>
    \A s \in Shapes, types \in Misanswered : ~Judged(s, types)

\* Stated, not kept as a run: "Follows official UN/CEFACT Cross Industry
\* Invoice D16B structure" (generator.py:42).
FollowsTheSchema == AtRest /\ Present # {} => \A s \in Shapes : Judged(s, {})
=============================================================================
