------------------------------ MODULE IncomingXml ------------------------------
(***************************************************************************)
(* What is read from the PDF file of a supplier: the embedded files        *)
(* (comprehensive_invoice_validator.py, utils/validation.py), the business *)
(* rules its XML must keep, and the values taken from the XML              *)
(* (utils/incoming_xml.py).                                                *)
(*                                                                         *)
(* An element of the XML is Absent, Empty, or has a text.  The text of an  *)
(* amount is a number or garbled; that of a date is eight digits, another  *)
(* format that is understood ("iso"), eight other characters ("eightish")  *)
(* or anything else ("prose").                                             *)
(***************************************************************************)
EXTENDS Integers, FiniteSets

Absent == "absent"
Empty  == "empty"

Texts   == STRING
Amounts == [is : {Absent, Empty, "garbled", "number"}, value : Nat]
Dates   == {Absent, Empty, "eight", "iso", "eightish", "prose"}

EmbeddedFile == [name : STRING, ext : {"xml", "pdf", "csv", "zip"}]

\* AdditionalReferencedDocument: a file name, which may be missing, and
\* whether there is a URI to find the document by.
Reference == [file : STRING, uri : BOOLEAN]

Document == [embedded  : SUBSET EmbeddedFile,
             schema    : BOOLEAN,   \* the XML conforms to the schema
             number    : Texts,     \* digits of the invoice number
             date      : Dates,
             format102 : BOOLEAN,   \* the attribute of the date
             seller    : Texts,
             tax       : Texts,     \* ID of the seller
             buyer     : Texts,
             total     : Amounts,   \* GrandTotal
             taxTotal  : Amounts,
             currency  : Texts,
             refs      : SUBSET Reference]

-----------------------------------------------------------------------------
(* Embedded files.                                                         *)

\* extract_xml_from_pdf(): there is an XML file.
HasXml(d) == \E f \in d.embedded : f.ext = "xml"

\* _extract_embedded_attachments(): files of a type that is allowed.
Extracted(d) ==
    {f.name : f \in {e \in d.embedded : e.ext \in {"pdf", "csv"}}}

\* Referenced files that were not extracted, an embedded archive among them;
\* a mere URI is no file.
Noted(d) ==
    {r \in d.refs : /\ r.file \notin Extracted(d)
                    /\ r.file # "" \/ ~r.uri}

-----------------------------------------------------------------------------
(* validate_business_rules().                                              *)

Given(text) == text \notin {Absent, Empty}

\* Mutation of TotalReadable: rule 6 only warns.
TotalTolerated(total) == TRUE

\* An empty element is no ValueError, but the rules fail as a whole.
TotalReadable(total) == total.is \in {Absent, "number"}

DateReadable(d) == Given(d.date) /\ (d.format102 => d.date \in {"eight", "eightish"})

Rules(d) ==
    /\ Given(d.number) /\ Given(d.seller) /\ Given(d.buyer)
    /\ DateReadable(d)
    /\ TotalReadable(d.total)

-----------------------------------------------------------------------------
(* IncomingXmlParser: defaults stand for elements that are absent, and for *)
(* amounts and dates that cannot be read; the text of an empty element is  *)
(* None.                                                                   *)

\* Texts as the parser hands them on.
ReadTexts == Texts \cup {""}

ExtractText(text, default) == IF text = Absent THEN default ELSE text

ExtractAmount(amount) ==
    IF amount.is = "number" THEN amount.value ELSE 0

\* The day it is read, for what is absent or no date.
ParseDate(date) == IF date \in {"eight", "iso"} THEN "stated" ELSE "today"

InvoiceData(d) ==
    [number   |-> ExtractText(d.number, ""),
     date     |-> ParseDate(d.date),
     seller   |-> ExtractText(d.seller, ""),
     tax      |-> ExtractText(d.tax, ""),
     buyer    |-> ExtractText(d.buyer, ""),
     total    |-> ExtractAmount(d.total),
     taxTotal |-> ExtractAmount(d.taxTotal),
     currency |-> ExtractText(d.currency, "EUR")]
=============================================================================
