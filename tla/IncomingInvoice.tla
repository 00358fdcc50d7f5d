--------------------------- MODULE IncomingInvoice ---------------------------
(***************************************************************************)
(* Invoices of suppliers: PDF files in a directory are validated, read,    *)
(* booked and copied to `processed' or `rejected'                          *)
(* (services/incoming_invoice_service.py, utils/validation.py,             *)
(* utils/incoming_xml.py), by one or several runs of the command line      *)
(* script at the same time.                                                *)
(*                                                                         *)
(* Booking is one database transaction of several statements: what it      *)
(* reads is what others have committed, what it inserts becomes visible    *)
(* when it commits, and unique columns decide then who was first.          *)
(***************************************************************************)
EXTENDS IncomingXml, Sequences

CONSTANTS
    Scans,      \* runs of process_incoming_invoice.py --batch
    Documents,  \* PDF files
    Validator,  \* "shipped": comprehensive_invoice_validator.py as it is,
                \* "pair": with validate_xml() answering (is_valid, errors)
    MaxRounds,  \* bound: how often a run of the script is started
    Faults,     \* what may go wrong, see FaultKinds
    None

FaultKinds == {"gone",       \* the file is removed between glob() and open()
               "attachment", \* an attachment cannot be written
               "database",   \* the database refuses an attachment
               "copy",       \* copying to `processed' or its report fails
               "crash"}

ASSUME DocumentsAssumption == /\ Documents \subseteq Document
                              /\ IsFiniteSet(Documents)
ASSUME ValidatorAssumption == Validator \in {"shipped", "pair"}
ASSUME IncomingFaults == Faults \subseteq FaultKinds /\ MaxRounds \in Nat

Company == [name : ReadTexts, tax : ReadTexts]

\* The result of process_single_invoice(), or that it raised.
Outcomes == {"success", "invalid", "duplicate", "failed", "raised"}

NewScan == [pc |-> "idle", todo |-> {}, doc |-> None, company |-> None,
            partner |-> None, user |-> FALSE, results |-> {}, rounds |-> 0]

VARIABLES
    inbox,      \* files in the directory
    companies,
    partners,   \* names of business partners, in the order of their numbers
    users,      \* the system user exists
    invoices,
    copies,     \* files in processed/ and rejected/, with their reports
    scan

vars == <<inbox, companies, partners, users, invoices, copies, scan>>
db   == <<companies, partners, users, invoices>>

Init ==
    /\ inbox = Documents
    /\ companies = {}
    /\ partners = <<>>
    /\ users = FALSE
    /\ invoices = {}
    /\ copies = {}
    /\ scan = [s \in Scans |-> NewScan]

Doc(s)    == scan[s].doc
Data(s)   == InvoiceData(Doc(s))
At(s, pc) == scan[s].pc = pc

\* The document is done; the batch goes on with the next one.
Result(s, outcome) ==
    [scan EXCEPT ![s].pc = "next", ![s].doc = None, ![s].company = None,
                 ![s].partner = None, ![s].user = FALSE,
                 ![s].results = @ \cup {<<Doc(s), outcome>>}]

-----------------------------------------------------------------------------
(* The batch.                                                              *)

\* process_batch(): the files there are now.
Start(s) ==
    /\ At(s, "idle")
    /\ scan[s].rounds < MaxRounds
    /\ scan' = [scan EXCEPT ![s].pc = "next", ![s].todo = inbox,
                            ![s].results = {}, ![s].rounds = @ + 1]
    /\ UNCHANGED <<inbox, copies, db>>

NextFile(s) ==
    /\ At(s, "next")
    /\ \E d \in scan[s].todo :
         scan' = [scan EXCEPT ![s].pc = "validate", ![s].doc = d,
                              ![s].todo = @ \ {d}]
    /\ UNCHANGED <<inbox, copies, db>>

Finish(s) ==
    /\ At(s, "next")
    /\ scan[s].todo = {}
    /\ scan' = [scan EXCEPT ![s].pc = "idle"]
    /\ UNCHANGED <<inbox, copies, db>>

-----------------------------------------------------------------------------
(* process_single_invoice().                                               *)

Valid(d) == HasXml(d) /\ d.schema /\ Rules(d)

\* validate_pdf_file() unpacks the verdict on the schema into two names,
\* validate_xml() answers with one object.
Raises(d) == HasXml(d) /\ Validator = "shipped"

\* A missing file cannot be copied to `rejected' either.
Verdict(d) == IF d \notin inbox \/ Raises(d) THEN "raised"
              ELSE IF Valid(d) THEN "valid" ELSE "invalid"

\* move_to_rejected(): a copy with a report.
Rejected(d) == copies \cup {<<"rejected", d>>}

Validate(s) ==
    LET verdict == Verdict(Doc(s)) IN
    /\ At(s, "validate")
    /\ scan' = IF verdict = "valid" THEN [scan EXCEPT ![s].pc = "duplicate"]
                                    ELSE Result(s, verdict)
    /\ copies' = IF verdict = "invalid" THEN Rejected(Doc(s)) ELSE copies
    /\ UNCHANGED <<inbox, db>>

IsDuplicate(data) == \E i \in invoices : /\ i.data.number = data.number
                                        /\ i.data.total = data.total

Duplicate(s) ==
    /\ At(s, "duplicate")
    /\ scan' = IF IsDuplicate(Data(s))
                 THEN Result(s, "duplicate")
                 ELSE [scan EXCEPT ![s].pc = "supplier"]
    /\ UNCHANGED <<inbox, copies, db>>

\* By tax number, else by name; d is what was read.
Suppliers(d) ==
    LET byTax == {c \in companies : d.tax # "" /\ c.tax = d.tax}
    IN  IF byTax # {} THEN byTax ELSE {c \in companies : c.name = d.seller}

\* _find_or_create_supplier(): MultipleObjectsReturned ends the booking.
Supplier(s) ==
    LET found == Suppliers(Data(s))
        made  == [name |-> Data(s).seller, tax |-> Data(s).tax]
    IN
    /\ At(s, "supplier")
    /\ IF Cardinality(found) > 1
         THEN scan' = Result(s, "failed")
         ELSE \E c \in IF found = {} THEN {made} ELSE found :
                scan' = [scan EXCEPT ![s].pc = "buyer", ![s].company = c]
    /\ UNCHANGED <<inbox, copies, db>>

Named(name) == {k \in DOMAIN partners : partners[k].name = name}

\* BusinessPartner.objects.get_or_create(): the get.
Buyer(s) ==
    /\ At(s, "buyer")
    /\ scan' = CASE Cardinality(Named(Data(s).buyer)) > 1 -> Result(s, "failed")
                 [] Named(Data(s).buyer) = {} ->
                      [scan EXCEPT ![s].pc = "number"]
                 [] OTHER -> [scan EXCEPT ![s].pc = "user"]
    /\ UNCHANGED <<inbox, copies, db>>

\* BusinessPartner.save(): one more than the last number.
Number(s) ==
    /\ At(s, "number")
    /\ scan' = [scan EXCEPT ![s].pc = "user", ![s].partner = Len(partners) + 1]
    /\ UNCHANGED <<inbox, copies, db>>

\* _get_system_user(): looked up, else created.
SystemUser(s) ==
    /\ At(s, "user")
    /\ scan' = [scan EXCEPT ![s].pc = "commit", ![s].user = ~users]
    /\ UNCHANGED <<inbox, copies, db>>

\* company.tax_id and invoice.invoice_number are unique.
Unique(c, number) ==
    /\ c \in companies \/ \A x \in companies : x.tax # c.tax
    /\ \A i \in invoices : i.data.number # number

\* The partner's number was taken meanwhile, and get_or_create(), which then
\* gets once more, does not find the name.
Taken(s) == /\ scan[s].partner # None
            /\ scan[s].partner <= Len(partners)
            /\ Named(Data(s).buyer) = {}

Partners(s) ==
    IF scan[s].partner = None \/ scan[s].partner <= Len(partners)
      THEN partners
      ELSE Append(partners, [name |-> Data(s).buyer])

\* The database refuses an attachment: nothing can be committed any more.
\* The same when the system user was created by somebody else first, or when
\* a column is NULL that must not be.
Refused(d) == "database" \in Faults /\ Extracted(d) # {}
UserTaken(s) == scan[s].user /\ users
NullColumn(s) == Data(s).currency = Empty \/ Data(s).tax = Empty

\* Mutation of Kept: files the XML only refers to are recorded as well.
KeptReferred(d) == {Extracted(d) \cup {r.file : r \in d.refs}}

\* Attachments that cannot be written are skipped.
Kept(d) == IF "attachment" \in Faults THEN SUBSET Extracted(d) ELSE {Extracted(d)}

\* _create_invoice_record(), the attachments and the notes.
Booked(s, kept) == [doc |-> Doc(s), data |-> Data(s), by |-> s,
                    subtotal |-> Data(s).total - Data(s).taxTotal,
                    company |-> scan[s].company,
                    files |-> kept, noted |-> Noted(Doc(s))]

\* Mutation of Rollback: the supplier was created in a transaction of its own.
RollbackKeepsSupplier(s) ==
    /\ companies' = companies \cup {scan[s].company}
    /\ scan' = Result(s, "failed")
    /\ UNCHANGED <<partners, users, invoices>>

Rollback(s) == scan' = Result(s, "failed") /\ UNCHANGED db

Accepted(s) == /\ Unique(scan[s].company, Data(s).number)
               /\ ~Taken(s) /\ ~UserTaken(s) /\ ~NullColumn(s)

Commit(s) ==
    /\ At(s, "commit")
    /\ \/ /\ Accepted(s)
          /\ companies' = companies \cup {scan[s].company}
          /\ partners' = Partners(s)
          /\ users' = (users \/ scan[s].user)
          /\ \E kept \in Kept(Doc(s)) :
               invoices' = invoices \cup {Booked(s, kept)}
          /\ scan' = [scan EXCEPT ![s].pc = "copy"]
       \/ /\ ~Accepted(s) \/ Refused(Doc(s))
          /\ Rollback(s)
    /\ UNCHANGED <<inbox, copies>>

Copied(d) == copies \cup {<<"processed", d>>}

\* create_processing_report(): a text file beside the copy, and the answer.
Reported(s) ==
    \E outcome \in {"success"} \cup IF "copy" \in Faults THEN {"failed"} ELSE {} :
        scan' = Result(s, outcome)

\* move_to_processed(): a copy, the file stays where it was.
Copy(s) ==
    /\ At(s, "copy")
    /\ \/ /\ Doc(s) \in inbox
          /\ copies' = Copied(Doc(s))
          /\ Reported(s)
       \/ /\ "copy" \in Faults \/ Doc(s) \notin inbox
          /\ scan' = Result(s, "failed")
          /\ UNCHANGED copies
    /\ UNCHANGED <<inbox, db>>

\* Before the commit PostgreSQL forgets the transaction.
Crash(s) ==
    /\ "crash" \in Faults
    /\ ~At(s, "idle")
    /\ scan' = [scan EXCEPT ![s] = [NewScan EXCEPT !.rounds = scan[s].rounds]]
    /\ UNCHANGED <<inbox, copies, db>>

\* Somebody clears the directory.
ClearFile(d) ==
    /\ "gone" \in Faults
    /\ inbox = Documents       \* bound: once, while a run is on the file
    /\ \E s \in Scans : Doc(s) = d
    /\ inbox' = inbox \ {d}
    /\ UNCHANGED <<copies, db, scan>>

Step(s) == \/ NextFile(s) \/ Finish(s) \/ Validate(s) \/ Duplicate(s)
           \/ Supplier(s) \/ Buyer(s) \/ Number(s) \/ SystemUser(s)
           \/ Commit(s) \/ Copy(s)

Next == \/ \E s \in Scans : Start(s) \/ Step(s) \/ Crash(s)
        \/ \E d \in Documents : ClearFile(d)

Spec == Init /\ [][Next]_vars

-----------------------------------------------------------------------------
(* Properties.                                                             *)

Scan == [pc      : {"idle", "next", "validate", "duplicate", "supplier",
                    "buyer", "number", "user", "commit", "copy"},
         todo    : SUBSET Documents,
         doc     : Documents \cup {None},
         company : Company \cup {None},
         partner : Nat \cup {None},
         user    : BOOLEAN,
         results : SUBSET (Documents \X Outcomes),
         rounds  : 0 .. MaxRounds]

\* Tables, files and runs are well formed.
TypeOK ==
    /\ inbox \subseteq Documents
    /\ companies \subseteq Company
    /\ partners \in Seq([name : ReadTexts])
    /\ users \in BOOLEAN
    /\ \A i \in invoices : i.doc \in Documents /\ i.company \in companies
                           /\ i.files \subseteq Extracted(i.doc)
    /\ copies \subseteq {"processed", "rejected"} \X Documents
    /\ scan \in [Scans -> Scan]

\* The rules let pass only what the parser can read: the total of a booked
\* invoice is the document's, and zero only if the document states none.
TotalAsStated(i) ==
    \/ i.doc.total = [is |-> "number", value |-> i.data.total]
    \/ i.doc.total.is = Absent /\ i.data.total = 0

\* What a run reports about a file: a success is booked by this run as the
\* document states it, no other invoice has its number, however many runs are
\* on the directory (validation.py:172-189 only reads; the unique column
\* decides), and it was copied; an invalid one was copied to `rejected'; a
\* duplicate was booked before.
ReportsTrue ==
    \A s \in Scans : \A r \in scan[s].results :
        LET d == r[1]
            same == {i \in invoices : i.data.number = InvoiceData(d).number}
        IN
        CASE r[2] = "success"   -> /\ \E i \in same : /\ same = {i}
                                                     /\ i.doc = d /\ i.by = s
                                                     /\ TotalAsStated(i)
                                   /\ <<"processed", d>> \in copies
          [] r[2] = "invalid"   -> <<"rejected", d>> \in copies
          [] r[2] = "duplicate" -> same # {}
          [] OTHER              -> TRUE

\* A booking that fails leaves nothing behind: every supplier and every
\* business partner belongs to an invoice that was booked
\* (transaction.atomic(), incoming_invoice_service.py:149).
NothingHalfBooked ==
    /\ \A c \in companies : \E i \in invoices : i.company = c
    /\ \A k \in DOMAIN partners :
         \E i \in invoices : i.data.buyer = partners[k].name
    /\ users => invoices # {}

\* "Returns: tuple: (is_valid, error_list)"
\* (comprehensive_invoice_validator.py:181): no file of the directory makes
\* the processing raise.
ValidatorAnswers ==
    \A s \in Scans : \A r \in scan[s].results : r[1] \in inbox => r[2] # "raised"

\* Our company is created once.  It is not when two runs look it up before
\* either commits and the numbers they take differ.
PartnersDistinct == \A k, l \in DOMAIN partners : partners[k] = partners[l] => k = l

\* "issue_date" and "tax_amount" of a booked invoice stand in its document.
\* They do not: rules and schema let pass a date and a tax the parser cannot
\* read.
NothingInvented ==
    \A i \in invoices :
        /\ i.data.date = "stated"
        /\ i.doc.taxTotal = [is |-> "number", value |-> i.data.taxTotal]
=============================================================================
