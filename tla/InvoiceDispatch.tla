--------------------------- MODULE InvoiceDispatch ---------------------------
(***************************************************************************)
(* How one invoice leaves the system: the XML and PDF/A-3 files generated  *)
(* for it (invoice_service.py, utils/pdf.py), by requests or by the Celery *)
(* task (tasks.py), their download, and their dispatch by e-mail           *)
(* (email_service.py, rest_views.py).                                      *)
(*                                                                         *)
(* A job is one request or task.  It loads the invoice (mem), issues its   *)
(* statements one by one and writes its instance back; other jobs come in  *)
(* between.  The lock and the seal of Invoice.save() are one step here,    *)
(* InvoiceLifecycle takes them apart.  A document is the version of the    *)
(* amounts it shows, its profile and whether it refers to the supporting   *)
(* document of the invoice; a PDF is whole once the XML is embedded, and   *)
(* the supporting document is embedded after that.                         *)
(***************************************************************************)
EXTENDS Integers, FiniteSets

CONSTANTS
    Jobs,         \* requests and tasks
    OpsOf,        \* what each may be, see Operations
    MaxVersion,   \* bound: changes of lines, allowances, charges, attachments
    MaxSecond,    \* bound: seconds of the clock that names files
    MaxTouches,   \* bound: changes of the edit lock columns
    MaxAttempts,  \* max_retries of the task, and the first run
    Partners,     \* business partners of the invoice, see Partner
    Faults,       \* what may go wrong in this instance, see FaultKinds
    None

Sends      == {"send_email", "send_email_xml", "send_xrechnung"}
Renders    == {"generate_pdf", "task", "download_pdf", "download_xml"}
Operations == Sends \cup Renders \cup
              {"generate_xml", "mark_as_sent", "mark_as_paid"}
FaultKinds == {"disabled",     \* INVOICE_EMAIL_ENABLED is off
               "refused",      \* the mail server refuses
               "unanswered",   \* it takes the mail, its answer does not arrive
               "ghostscript",  \* the conversion fails or times out
               "unreadable",   \* the file of an attachment cannot be read
               "crash"}        \* a worker dies
Partner    == [government : BOOLEAN, reference : BOOLEAN, mail : BOOLEAN]

ASSUME OpsAssumption   == /\ OpsOf \in [Jobs -> SUBSET Operations]
                          /\ Faults \subseteq FaultKinds
ASSUME BoundAssumption == /\ MaxVersion \in Nat /\ MaxSecond \in Nat
                          /\ MaxTouches \in Nat /\ MaxAttempts \in Nat \ {0}
ASSUME NoneAssumption  == None \notin Jobs /\ None \notin Int
ASSUME PartnersAssumption == Partners \subseteq Partner /\ Partners # {}

Versions == 0 .. MaxVersion
Seconds  == 0 .. MaxSecond
Fixed    == -1                     \* xrechnung_<number>.xml
Names    == Seconds \cup {Fixed}
Doc      == [version : Versions, profile : {"XRECHNUNG", "COMFORT"},
             refers : BOOLEAN,   \* its XML names the attachment
            carries : BOOLEAN,  \* the PDF has the attachment embedded
            whole : BOOLEAN]

ASSUME DocAssumption == None \notin Doc

Row == [status   : {"DRAFT", "SENT", "PAID"},
        locked   : BOOLEAN,
        pdf      : Seconds \cup {None},
        xml      : Names \cup {None},
        emailed  : Jobs \cup {None},   \* last_emailed_at, _recipient: by whom
        xrechnung: Jobs \cup {None},   \* xrechnung_sent_at, _to
        edit     : 0 .. MaxTouches]    \* editing_by, editing_since

Ends == {"ok", "rejected", "unavailable", "error", "crashed"}
PCs  == {"idle", "load", "issue", "refresh", "switch", "need_pdf", "need_xml",
         "name", "convert", "write_xml", "embed", "embed_files", "save_files", "truncate",
         "write_fixed", "save_xml", "mark", "attach", "deliver", "serve",
         "record", "log", "record_b2g"} \cup Ends

Job == [op : Operations, pc : PCs, mem : Row, second : Seconds \cup {None},
        doc : Doc,
        back : {"switch", "need_xml", "attach", "serve", "ok"},
        pdf : Doc \cup {None}, xml : Doc \cup {None}, attempts : 0 .. MaxAttempts]

VARIABLES
    row,      \* the invoice
    version,  \* of its lines, allowances, charges and attachments
    attached, \* whether it has an attachment
    pdfs,     \* PDF_OUTPUT_DIR
    xmls,     \* XML_OUTPUT_DIR
    clock,
    partner,
    job,
    out,      \* documents that reached a mail server or a browser
    audit     \* SEND_EMAIL entries

vars == <<row, version, attached, pdfs, xmls, clock, partner, job, out, audit>>

Draft == [status |-> "DRAFT", locked |-> FALSE, pdf |-> None, xml |-> None,
          emailed |-> None, xrechnung |-> None, edit |-> 0]
NoDoc == [version |-> 0, profile |-> "COMFORT", refers |-> FALSE,
          carries |-> FALSE, whole |-> FALSE]

Blank == [op |-> "generate_pdf", pc |-> "idle", mem |-> Draft,
          second |-> None, doc |-> NoDoc, back |-> "ok", pdf |-> None,
          xml |-> None, attempts |-> 0]

Init ==
    /\ row = Draft
    /\ version = 0 /\ attached = FALSE
    /\ pdfs = [n \in Seconds |-> None]
    /\ xmls = [n \in Names |-> None]
    /\ clock = 0
    /\ partner \in Partners
    /\ job = [j \in Jobs |-> Blank]
    /\ out = {}
    /\ audit = {}

At(j, pc)   == job[j].pc = pc
Goto(j, pc) ==   \* a job that ends forgets its instance
    job' = [job EXCEPT ![j] =
              IF pc \in Ends
                THEN [Blank EXCEPT !.op = job[j].op, !.pc = pc,
                                   !.second = job[j].second]
                ELSE [@ EXCEPT !.pc = pc]]
Files       == <<pdfs, xmls>>
World       == <<version, attached, clock, partner>>
Sent        == <<out, audit>>

\* Mutation of AfterError: the task is retried for ever.
AfterErrorForever(j) == IF job[j].op = "task" THEN "load" ELSE "error"

\* An exception: the task is tried again, a request answers with an error.
AfterError(j) == IF job[j].op = "task" /\ job[j].attempts < MaxAttempts
                   THEN "load" ELSE "error"

-----------------------------------------------------------------------------
(* Invoice.save().                                                         *)

\* A locked row is compared with the instance; the lock columns of the form
\* are not among those that may differ.
Refused(m) == m.locked /\ row.locked /\ m.edit # row.edit

Locking(m) == [m EXCEPT !.locked = m.locked \/ m.status # "DRAFT"]

\* save() of the whole instance of j, then `next'.
SaveRow(j, m, next) ==
    \/ /\ ~Refused(m)
       /\ row' = Locking(m)
       /\ IF next \in Ends THEN Goto(j, next)
            ELSE job' = [job EXCEPT ![j].pc = next, ![j].mem = Locking(m)]
    \/ /\ Refused(m)
       /\ Goto(j, AfterError(j))
       /\ UNCHANGED row

\* save(update_fields): the row gets the columns named.
SaveColumn(j, r, next) ==
    \/ ~Refused(job[j].mem) /\ row' = r /\ Goto(j, next)
    \/ Refused(job[j].mem) /\ Goto(j, "error") /\ UNCHANGED row

-----------------------------------------------------------------------------
(* The endpoints (rest_views.py).                                          *)

Start(j, op) ==
    /\ At(j, "idle")
    /\ job' = [job EXCEPT ![j].op = op, ![j].pc = "load"]
    /\ UNCHANGED <<row, World, Files, Sent>>

\* Only invoices of a public authority with an address go out as XRechnung.
Rejected(op) == op = "send_xrechnung" /\ ~(partner.government /\ partner.mail)

\* get_object(), or Invoice.objects.get() in the task, and where to go on.
Load(j) ==
    LET op == job[j].op IN
    /\ At(j, "load")
    /\ job' = [job EXCEPT
         ![j].mem = row,
         ![j].attempts = IF op = "task" THEN @ + 1 ELSE @,
         ![j].back = CASE op \in Sends -> "switch"
                       [] op \in {"download_pdf", "download_xml"} -> "serve"
                       [] OTHER -> "ok",
         ![j].pc = CASE Rejected(op) -> "rejected"
                     [] op \in Sends /\ row.status = "DRAFT" -> "issue"
                     [] op \in Sends -> "switch"
                     [] op = "download_pdf" -> "need_pdf"
                     [] op = "download_xml" -> "need_xml"
                     [] op \in {"generate_pdf", "task"} -> "name"
                     [] op = "generate_xml" -> "truncate"
                     [] op = "mark_as_sent" /\ row.status # "DRAFT" -> "rejected"
                     [] OTHER -> "mark"]
    /\ UNCHANGED <<row, World, Files, Sent>>

Mark(j) ==
    /\ At(j, "mark")
    /\ SaveRow(j, [job[j].mem EXCEPT !.status =
                     IF job[j].op = "mark_as_paid" THEN "PAID" ELSE "SENT"], "ok")
    /\ UNCHANGED <<World, Files, Sent>>

\* Sending a draft issues it, before anything is known of the mail.
Issue(j) ==
    /\ At(j, "issue")
    /\ SaveRow(j, [job[j].mem EXCEPT !.status = "SENT"], "refresh")
    /\ UNCHANGED <<World, Files, Sent>>

\* refresh_from_db(), after issuing and after each generation of a send.
Refresh(j) ==
    /\ At(j, "refresh")
    /\ job' = [job EXCEPT ![j].mem = row, ![j].pc = job[j].back]
    /\ UNCHANGED <<row, World, Files, Sent>>

\* The kill switch of send_invoice().
Switch(j) ==
    /\ At(j, "switch")
    /\ \/ "disabled" \in Faults /\ Goto(j, "unavailable")
       \/ Goto(j, IF job[j].op = "send_xrechnung" THEN "need_xml" ELSE "need_pdf")
    /\ UNCHANGED <<row, World, Files, Sent>>

PdfThere(m) == m.pdf # None /\ pdfs[m.pdf] # None
XmlThere(m) == m.xml # None /\ xmls[m.xml] # None

NeedPdf(j) ==
    LET next == IF job[j].op = "download_pdf" THEN "serve" ELSE "need_xml" IN
    /\ At(j, "need_pdf")
    /\ job' = [job EXCEPT ![j].back = next,
                 ![j].pc = IF PdfThere(job[j].mem) THEN next ELSE "name"]
    /\ UNCHANGED <<row, World, Files, Sent>>

NeedXml(j) ==
    LET op   == job[j].op
        next == IF op = "download_xml" THEN "serve" ELSE "attach"
    IN
    /\ At(j, "need_xml")
    /\ job' = [job EXCEPT ![j].back = next,
                 ![j].pc = IF op = "send_email" \/ XmlThere(job[j].mem)
                             THEN next ELSE "name"]
    /\ UNCHANGED <<row, World, Files, Sent>>

-----------------------------------------------------------------------------
(* InvoiceService and PdfA3Generator.                                      *)

Profiles == {"XRECHNUNG", "COMFORT"}   \* COMFORT stands for the others

Profile(asked) == IF partner.government THEN "XRECHNUNG" ELSE asked

Asked(op) == IF op \in {"generate_pdf", "task", "generate_xml"} THEN Profiles
                                                               ELSE {"COMFORT"}

\* BT-10
Incomplete(profile) == profile = "XRECHNUNG" /\ ~partner.reference

Rendered(profile) == [version |-> version, profile |-> profile,
                      refers |-> attached, carries |-> FALSE, whole |-> TRUE]

\* convert_model_to_dict() and generate_xml() read the amounts, the clock
\* gives the names.
Name(j) ==
    /\ At(j, "name")
    /\ \E asked \in Asked(job[j].op) :
         IF Incomplete(Profile(asked))
           THEN /\ Goto(j, IF job[j].op \in Sends THEN "rejected" ELSE AfterError(j))
                /\ UNCHANGED clock
           ELSE /\ clock' \in {clock, clock + 1} \cap Seconds
                /\ job' = [job EXCEPT ![j].pc = "convert", ![j].second = clock',
                                      ![j].doc = Rendered(Profile(asked))]
    /\ UNCHANGED <<row, version, attached, partner, Files, Sent>>

\* Mutation of FileName: the timestamp is left out.
FileNameFixed(second) == 0

FileName(second) == second

FileOf(j) == FileName(job[j].second)

\* WeasyPrint and Ghostscript: a PDF without the XML.  A RuntimeError is not
\* among those the views turn into an answer of their own.
Convert(j) ==
    /\ At(j, "convert")
    /\ \/ "ghostscript" \in Faults /\ Goto(j, AfterError(j)) /\ UNCHANGED pdfs
       \/ /\ pdfs' = [pdfs EXCEPT ![FileOf(j)] = [job[j].doc EXCEPT !.whole = FALSE]]
          /\ Goto(j, "write_xml")
    /\ UNCHANGED <<row, World, xmls, Sent>>

WriteXml(j) ==
    /\ At(j, "write_xml")
    /\ xmls' = [xmls EXCEPT ![FileOf(j)] = job[j].doc]
    /\ Goto(j, "embed")
    /\ UNCHANGED <<row, World, pdfs, Sent>>

Embed(j) ==
    /\ At(j, "embed")
    /\ IF pdfs[FileOf(j)] = None
         THEN Goto(j, AfterError(j)) /\ UNCHANGED pdfs
         ELSE pdfs' = [pdfs EXCEPT ![FileOf(j)].whole = TRUE] /\ Goto(j, "embed_files")
    /\ UNCHANGED <<row, World, xmls, Sent>>

\* embed_attachments() asks for the attachments again, and passes over a file
\* it cannot read.
EmbedFiles(j) ==
    LET f == FileOf(j)
        readable == IF "unreadable" \in Faults THEN BOOLEAN ELSE {TRUE} IN
    /\ At(j, "embed_files")
    /\ IF attached /\ pdfs[f] = None
         THEN Goto(j, AfterError(j)) /\ UNCHANGED pdfs
         ELSE /\ \E read \in readable :
                   pdfs' = IF attached /\ read
                             THEN [pdfs EXCEPT ![f].carries = TRUE] ELSE pdfs
              /\ Goto(j, "save_files")
    /\ UNCHANGED <<row, World, xmls, Sent>>

SaveFiles(j) ==
    /\ At(j, "save_files")
    /\ SaveRow(j, [job[j].mem EXCEPT !.pdf = FileOf(j), !.xml = FileOf(j)],
               IF job[j].op \in Sends THEN "refresh" ELSE job[j].back)
    /\ UNCHANGED <<World, Files, Sent>>

\* generate_xml_only(): one name per invoice, opened with "w".
Truncate(j) ==
    /\ At(j, "truncate")
    /\ \E asked \in Asked(job[j].op) :
         IF Incomplete(Profile(asked))
           THEN Goto(j, "rejected") /\ UNCHANGED xmls
           ELSE /\ xmls' = [xmls EXCEPT ![Fixed] = NoDoc]
                /\ job' = [job EXCEPT ![j].pc = "write_fixed",
                                      ![j].doc = Rendered(Profile(asked))]
    /\ UNCHANGED <<row, World, pdfs, Sent>>

WriteFixed(j) ==
    /\ At(j, "write_fixed")
    /\ xmls' = [xmls EXCEPT ![Fixed] = job[j].doc]
    /\ Goto(j, "save_xml")
    /\ UNCHANGED <<row, World, pdfs, Sent>>

SaveXml(j) ==
    /\ At(j, "save_xml")
    /\ SaveRow(j, [job[j].mem EXCEPT !.xml = Fixed], "ok")
    /\ UNCHANGED <<World, Files, Sent>>

-----------------------------------------------------------------------------
(* send_invoice(), send_xrechnung() and the downloads.                     *)

\* Documents are attached where the instance names them; a name without a
\* file is an OSError.
Attach(j) ==
    LET m    == job[j].mem
        pdf  == job[j].op # "send_xrechnung" /\ m.pdf # None
        xml  == job[j].op # "send_email" /\ m.xml # None
    IN
    /\ At(j, "attach")
    /\ IF (pdf /\ ~PdfThere(m)) \/ (xml /\ ~XmlThere(m))
         THEN Goto(j, "error")
         ELSE job' = [job EXCEPT ![j].pc = "deliver",
                        ![j].pdf = IF pdf THEN pdfs[m.pdf] ELSE None,
                        ![j].xml = IF xml THEN xmls[m.xml] ELSE None]
    /\ UNCHANGED <<row, World, Files, Sent>>

Parcel(j) == [by |-> j, op |-> job[j].op, pdf |-> job[j].pdf,
              xml |-> job[j].xml, version |-> version]

\* Mutation of AfterFailure: a mail that failed is recorded as sent.
FailureRecorded == "record"

\* Mutation of AfterFailure: send(fail_silently=True).
FailureIgnored == "ok"

\* EmailDeliveryError
AfterFailure == "unavailable"

Deliver(j) ==
    /\ At(j, "deliver")
    /\ \/ out' = out \cup {Parcel(j)} /\ Goto(j, "record")
       \/ "refused" \in Faults /\ Goto(j, AfterFailure) /\ UNCHANGED out
       \/ /\ "unanswered" \in Faults
          /\ out' = out \cup {Parcel(j)}
          /\ Goto(j, AfterFailure)
    /\ UNCHANGED <<row, World, Files, audit>>

Record(j) ==
    /\ At(j, "record")
    /\ SaveColumn(j, [row EXCEPT !.emailed = j], "log")
    /\ UNCHANGED <<World, Files, Sent>>

AfterLog(op) == IF op = "send_xrechnung" THEN "record_b2g" ELSE "ok"

Log(j) ==
    /\ At(j, "log")
    /\ audit' = audit \cup {j}
    /\ Goto(j, AfterLog(job[j].op))
    /\ UNCHANGED <<row, World, Files, out>>

RecordB2G(j) ==
    /\ At(j, "record_b2g")
    /\ SaveColumn(j, [row EXCEPT !.xrechnung = j], "ok")
    /\ UNCHANGED <<World, Files, Sent>>

\* FileResponse of the file the instance names.
Serve(j) ==
    LET m   == job[j].mem
        pdf == job[j].op = "download_pdf"
        got == [by |-> j, op |-> job[j].op, version |-> version,
                pdf |-> IF pdf /\ PdfThere(m) THEN pdfs[m.pdf] ELSE None,
                xml |-> IF ~pdf /\ XmlThere(m) THEN xmls[m.xml] ELSE None]
    IN
    /\ At(j, "serve")
    /\ IF got.pdf = None /\ got.xml = None
         THEN Goto(j, "error") /\ UNCHANGED out
         ELSE out' = out \cup {got} /\ Goto(j, "ok")
    /\ UNCHANGED <<row, World, Files, audit>>

Crash(j) ==
    /\ "crash" \in Faults
    /\ job[j].pc \notin Ends \cup {"idle"}
    /\ Goto(j, "crashed")
    /\ UNCHANGED <<row, World, Files, Sent>>

-----------------------------------------------------------------------------
(* Around the jobs.                                                        *)

\* InvoiceLine.save(): new amounts, the files stay.
ChangeLine ==
    /\ version < MaxVersion
    /\ version' = version + 1
    /\ UNCHANGED <<row, attached, Files, clock, partner, job, Sent>>

\* InvoiceAllowanceCharge.save(): new amounts, the PDF is removed.
ChangeCharge ==
    /\ version < MaxVersion
    /\ version' = version + 1
    /\ pdfs' = IF row.pdf = None THEN pdfs ELSE [pdfs EXCEPT ![row.pdf] = None]
    /\ row' = [row EXCEPT !.pdf = None]
    /\ UNCHANGED <<xmls, attached, clock, partner, job, Sent>>

\* POST or DELETE of an attachment, on a locked invoice as well; the files
\* generated before stay.  Bound: one attachment.
ChangeAttachment ==
    /\ version < MaxVersion
    /\ version' = version + 1
    /\ attached' = ~attached
    /\ UNCHANGED <<row, Files, clock, partner, job, Sent>>

\* acquire_edit_lock(): a form takes or renews its lock.
AcquireEditLock ==
    /\ row.edit < MaxTouches
    /\ row' = [row EXCEPT !.edit = @ + 1]
    /\ UNCHANGED <<World, Files, job, Sent>>

Step(j) ==
    \/ Load(j) \/ Mark(j) \/ Issue(j) \/ Refresh(j) \/ Switch(j)
    \/ NeedPdf(j) \/ NeedXml(j)
    \/ Name(j) \/ Convert(j) \/ WriteXml(j) \/ Embed(j) \/ EmbedFiles(j)
    \/ SaveFiles(j)
    \/ Truncate(j) \/ WriteFixed(j) \/ SaveXml(j)
    \/ Attach(j) \/ Deliver(j) \/ Record(j) \/ Log(j) \/ RecordB2G(j) \/ Serve(j)

Next == \/ \E j \in Jobs : (\E op \in OpsOf[j] : Start(j, op)) \/ Step(j) \/ Crash(j)
        \/ ChangeLine \/ ChangeCharge \/ ChangeAttachment
        \/ AcquireEditLock

Spec == Init /\ [][Next]_vars

-----------------------------------------------------------------------------
(* Properties.                                                             *)

Parcels == [by : Jobs, op : Operations, pdf : Doc \cup {None},
            xml : Doc \cup {None}, version : Versions]

\* Rows, files, jobs and documents are well formed.
TypeOK ==
    /\ row \in Row /\ version \in Versions /\ attached \in BOOLEAN /\ clock \in Seconds
    /\ pdfs \in [Seconds -> Doc \cup {None}]
    /\ xmls \in [Names -> Doc \cup {None}]
    /\ partner \in Partner
    /\ job \in [Jobs -> Job]
    /\ out \subseteq Parcels /\ audit \subseteq Jobs

Mailed == {p.by : p \in {q \in out : q.op \in Sends}}

\* Whatever is lost or fails in between, and whichever stale instances are
\* written back: the columns and the audit entry that say an invoice was
\* mailed are only there when it was (email_service.py:119-149).
TrackedMeansMailed ==
    /\ audit \subseteq Mailed
    /\ {row.emailed, row.xrechnung} \subseteq Mailed \cup {None}

\* What the answer to a send promises: 200 means mailed and logged, and to
\* an authority also recorded, 400 that nothing left the house.
AnswersTrue ==
    \A j \in Jobs :
        /\ job[j].op \in Sends /\ At(j, "ok") => j \in audit
        /\ At(j, "rejected") => j \notin Mailed

Shared(s) == \E i, j \in Jobs : i # j /\ job[i].second = s /\ job[j].second = s

\* A PDF the invoice names has its XML embedded or is gone, however many jobs
\* render at the same time, unless two of them began in the same second; and
\* as long as nothing changes, it carries the attachments its XML refers to,
\* although the XML and the PDF ask for them apart (pdf.py:581-587).
NamedPdfWhole ==
    LET pdf == pdfs[row.pdf] IN
    row.pdf # None /\ ~Shared(row.pdf) /\ pdf # None =>
        /\ pdf.whole
        /\ pdf.version = version => pdf.carries = pdf.refers

\* "so that XML-only receivers know about embedded files in the PDF/A-3"
\* (generator.py:239): every named PDF does, as long as nothing shares its
\* name.  Stated, not kept as a run: an attachment deleted while the PDF is
\* converted, or one that cannot be read, is referred to and not embedded.
ReferencesEmbedded ==
    LET pdf == pdfs[row.pdf] IN
    row.pdf # None /\ ~Shared(row.pdf) /\ pdf # None => pdf.carries = pdf.refers

\* Every document of an authority is an XRechnung with a buyer reference,
\* whatever profile was asked for (invoice_service.py:266-284, 385-396).
AuthorityGetsXRechnung ==
    partner.government =>
        \A p \in out : \A d \in {p.pdf, p.xml} \ {None} :
            d.whole => d.profile = "XRECHNUNG" /\ partner.reference

\* "Invalidate cached PDF - amounts have changed, regeneration required"
\* (invoice_models.py:1243): when nothing is under way, the PDF kept for the
\* invoice shows its amounts.  InvoiceLine.save() does not remove it.
CachedPdfCurrent ==
    (\A j \in Jobs : job[j].pc \in Ends \cup {"idle"}) /\ PdfThere(row) =>
        pdfs[row.pdf].version = version
=============================================================================
