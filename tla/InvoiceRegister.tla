--------------------------- MODULE InvoiceRegister ---------------------------
(***************************************************************************)
(* The register of invoices: how its numbers are drawn                     *)
(* (Invoice.save(), set_sequence_start.py), and what the evaluations for a *)
(* tax audit read of it, query by query, while it is being written: the    *)
(* GDPdU export (gdpdu_export_service.py) and the integrity report         *)
(* (integrity_service.py).                                                 *)
(*                                                                         *)
(* A row is named by its sequence number.  Totals, lines and the sealed    *)
(* content are as in InvoiceLifecycle; requests on one row that it takes   *)
(* apart are single steps here, save those that run across the queries of  *)
(* an evaluation: POST, cancel() and set_sequence_start.  Clients leave    *)
(* the lines of issued invoices alone.                                     *)
(***************************************************************************)
EXTENDS Integers, FiniteSets

CONSTANTS
    Clients,    \* requests that create invoices
    MaxNumber,  \* bound: numbers drawn from the sequence
    Amounts,    \* of lines
    Partners,
    Targets,    \* arguments of set_sequence_start
    Keep,       \* days an invoice must be kept
    MaxDay,     \* bound: days that pass
    Start, End, \* issue dates the export is asked for
    Overlap,    \* TRUE: set_sequence_start runs while invoices are created
    None

Numbers == 1 .. MaxNumber
Days    == 0 .. MaxDay
Lines   == Amounts \cup {-a : a \in Amounts}

ASSUME RegisterBounds  == MaxNumber \in Nat /\ MaxDay \in Nat /\ Keep \in Nat
ASSUME RegisterInputs  == /\ Amounts \subseteq Nat \ {0} /\ Targets \subseteq Int
                          /\ Start \in Days /\ End \in Days
                          /\ Overlap \in BOOLEAN

\* What calculate_content_hash() serialises.
Content == [partner : Partners, total : SUBSET Lines, lines : SUBSET Lines]

Row == [status   : {"DRAFT", "SENT", "CANCELLED"},
        partner  : Partners,
        date     : Days,                   \* issue_date
        total    : SUBSET Lines,
        seal     : Content \cup {None},    \* content_hash
        until    : Days \cup Keep .. MaxDay + Keep,  \* retention_until
        archived : BOOLEAN,
        of       : Numbers \cup {None},    \* the invoice a credit note cancels
        by       : Numbers \cup {None},    \* cancelled_by
        altered  : BOOLEAN]                \* changed behind the application

ASSUME NoneIsNothing == None \notin Int /\ None \notin Row /\ None \notin Content

VARIABLES
    rows,      \* by number, None where there is no invoice
    lines,     \* by number
    partners,
    last,      \* last_value of the sequence
    day,
    client,    \* a POST: the number it has drawn
    cancel,    \* cancel(): original, credit note, lines still to be copied
    command,   \* set_sequence_start: the argument it has checked
    export,
    report

register    == <<rows, lines, partners, day>>
jobs        == <<client, cancel, command>>
evaluations == <<export, report>>
vars        == <<register, last, jobs, evaluations>>

NoCancel == [of |-> None, cn |-> None, inserted |-> FALSE, todo |-> {}]
NoExport == [pc |-> "idle", rows |-> <<>>, complete |-> {}, lines |-> <<>>,
             partners |-> {}]
NoReport == [pc |-> "idle", rows |-> <<>>, todo |-> {}, blamed |-> {}]

Init ==
    /\ rows = [n \in Numbers |-> None]
    /\ lines = [n \in Numbers |-> {}]
    /\ partners = Partners
    /\ last = 0
    /\ day = 0
    /\ client = [c \in Clients |-> None]
    /\ cancel = NoCancel
    /\ command = None
    /\ export = NoExport
    /\ report = NoReport

Stored == {n \in Numbers : rows[n] # None}
Issued == {n \in Stored : rows[n].status # "DRAFT"}
Drafts == Stored \ Issued

-----------------------------------------------------------------------------
(* Numbers.                                                                *)

Creating == cancel # NoCancel \/ \E c \in Clients : client[c] # None

\* nextval()
Draw(n) ==
    /\ last < MaxNumber   \* bound
    /\ Overlap \/ command = None
    /\ last' = last + 1
    /\ n = last'

\* Mutation of Settable: the command trusts its argument.
SettableAnyhow(target, taken) == target >= 1

\* No invoice has a higher number; setval() refuses 0, the command what is
\* negative.
Settable(target, taken) == target >= 1 /\ \A n \in taken : n <= target

ReadMax ==
    /\ command = None
    /\ Overlap \/ ~Creating
    /\ \E t \in Targets : Settable(t, Stored) /\ command' = t
    /\ UNCHANGED <<register, last, client, cancel, evaluations>>

SetSequence ==
    /\ command # None
    /\ last' = command
    /\ command' = None
    /\ UNCHANGED <<register, client, cancel, evaluations>>

-----------------------------------------------------------------------------
(* Invoices.                                                               *)

Seal(r, ls) == [partner |-> r.partner, total |-> r.total, lines |-> ls]

Draft(p) == [status |-> "DRAFT", partner |-> p, date |-> day, total |-> {},
             seal |-> None, until |-> day + Keep, archived |-> FALSE,
             of |-> None, by |-> None, altered |-> FALSE]

\* POST: save() draws the number, then INSERTs.
Post(c) ==
    /\ client[c] = None
    /\ \E n \in Numbers : Draw(n) /\ client' = [client EXCEPT ![c] = n]
    /\ UNCHANGED <<register, cancel, command, evaluations>>

\* sequence_number is unique: the second to insert a number fails.
Insert(c) ==
    /\ client[c] # None
    /\ client' = [client EXCEPT ![c] = None]
    /\ \/ /\ client[c] \in Stored
          /\ UNCHANGED rows
       \/ /\ client[c] \notin Stored
          /\ \E p \in partners : rows' = [rows EXCEPT ![client[c]] = Draft(p)]
    /\ UNCHANGED <<lines, partners, day, last, cancel, command, evaluations>>

\* InvoiceLine.save() and delete(), with the totals.
ChangeLines(n) ==
    /\ n \in Drafts
    /\ \E ls \in SUBSET Amounts :
         /\ lines' = [lines EXCEPT ![n] = ls]
         /\ rows' = [rows EXCEPT ![n].total = ls]
    /\ UNCHANGED <<partners, day, last, jobs, evaluations>>

\* PATCH of a draft.
ChangePartner(n) ==
    /\ n \in Drafts
    /\ \E p \in partners : rows' = [rows EXCEPT ![n].partner = p]
    /\ UNCHANGED <<lines, partners, day, last, jobs, evaluations>>

MarkAsSent(n) ==
    /\ n \in Drafts
    /\ rows' = [rows EXCEPT ![n].status = "SENT",
                            ![n].seal = Seal(rows[n], lines[n])]
    /\ UNCHANGED <<lines, partners, day, last, jobs, evaluations>>

\* delete(): a draft goes, an issued invoice is archived when it need not be
\* kept any longer.
Delete(n) ==
    /\ n \in Drafts
    /\ rows' = [rows EXCEPT ![n] = None]
    /\ lines' = [lines EXCEPT ![n] = {}]
    /\ UNCHANGED <<partners, day, last, jobs, evaluations>>

Archive(n) ==
    /\ n \in Issued
    /\ ~(rows[n].until > day)
    /\ rows' = [rows EXCEPT ![n].archived = TRUE]
    /\ UNCHANGED <<lines, partners, day, last, jobs, evaluations>>

\* Mutation of Deletable: on_delete=SET_NULL.
DeletableAlways(p) == TRUE

\* on_delete=PROTECT
Deletable(p) == \A n \in Stored : rows[n].partner # p

DeletePartner(p) ==
    /\ p \in partners
    /\ Deletable(p)
    /\ partners' = partners \ {p}
    /\ UNCHANGED <<rows, lines, day, last, jobs, evaluations>>

DayPasses ==
    /\ day < MaxDay
    /\ day' = day + 1
    /\ UNCHANGED <<rows, lines, partners, last, jobs, evaluations>>

Toggled(ls, l) == (ls \ {l}) \cup ({l} \ ls)

\* Totals or lines changed behind the application; bound: once.
Alter(n) ==
    /\ n \in Issued
    /\ \A k \in Stored : ~rows[k].altered
    /\ \E l \in Amounts :
         \/ /\ rows' = [rows EXCEPT ![n].total = Toggled(@, l), ![n].altered = TRUE]
            /\ UNCHANGED lines
         \/ /\ rows' = [rows EXCEPT ![n].altered = TRUE]
            /\ lines' = [lines EXCEPT ![n] = Toggled(@, l)]
    /\ UNCHANGED <<partners, day, last, jobs, evaluations>>

-----------------------------------------------------------------------------
(* cancel(); bound: one at a time.                                         *)

\* Mutation of Neg: what was negative already is negated once more.
NegTwice(ls) == {-l - l : l \in ls}

Neg(ls) == {-l : l \in ls}

BeginCancel(n) ==
    /\ cancel = NoCancel
    /\ n \in Issued
    /\ rows[n].status = "SENT"
    /\ \E cn \in Numbers : /\ Draw(cn)
                           /\ cancel' = [NoCancel EXCEPT !.of = n, !.cn = cn]
    /\ UNCHANGED <<register, client, command, evaluations>>

\* The credit note is sealed with the totals it will have and without lines.
Storno(n) ==
    LET r == [Draft(rows[n].partner) EXCEPT !.status = "SENT", !.of = n,
                                            !.total = Neg(rows[n].total)]
    IN  [r EXCEPT !.seal = Seal(r, {})]

InsertStorno ==
    /\ cancel.cn # None
    /\ ~cancel.inserted
    /\ IF cancel.cn \in Stored
         THEN cancel' = NoCancel /\ UNCHANGED rows
         ELSE /\ rows' = [rows EXCEPT ![cancel.cn] = Storno(cancel.of)]
              /\ cancel' = [cancel EXCEPT !.inserted = TRUE,
                                          !.todo = lines[cancel.of]]
    /\ UNCHANGED <<lines, partners, day, last, client, command, evaluations>>

\* Each line, with the totals.
CopyLine ==
    /\ \E l \in cancel.todo :
         LET ls == lines[cancel.cn] \cup {-l} IN
         /\ lines' = [lines EXCEPT ![cancel.cn] = ls]
         /\ rows' = [rows EXCEPT ![cancel.cn].total = ls]
         /\ cancel' = [cancel EXCEPT !.todo = @ \ {l}]
    /\ UNCHANGED <<partners, day, last, client, command, evaluations>>

CloseOriginal ==
    /\ cancel.inserted
    /\ cancel.todo = {}
    /\ rows' = [rows EXCEPT ![cancel.of].status = "CANCELLED",
                            ![cancel.of].by = cancel.cn]
    /\ cancel' = NoCancel
    /\ UNCHANGED <<lines, partners, day, last, client, command, evaluations>>

\* A worker dies between two statements.
Die ==
    /\ \/ /\ \E c \in Clients : /\ client[c] # None
                                /\ client' = [client EXCEPT ![c] = None]
          /\ UNCHANGED cancel
       \/ cancel # NoCancel /\ cancel' = NoCancel /\ UNCHANGED client
    /\ UNCHANGED <<register, last, command, evaluations>>

-----------------------------------------------------------------------------
(* export_period(): three queries.                                         *)

\* Bound: one evaluation in a behaviour.
NothingRead == export.pc = "idle" /\ report.pc = "idle"

\* Invoices that are issued, and their credit notes once cancel() is through.
\* (It also cancels a credit note, one it left without lines among them.)
Complete == {n \in Issued :
    \/ rows[n].of = None
    \/ rows[rows[n].of].by = n /\ rows[rows[n].of].of = None}

\* Both bounds are inclusive.
InPeriod(n) == Start <= rows[n].date /\ rows[n].date <= End

InvoiceTable(found) == [n \in found |-> rows[n]]
LineTable(found)    == [n \in found |-> lines[n]]
PartnerTable(found) == {p \in partners : \E n \in DOMAIN found : found[n].partner = p}

ReadInvoices ==
    LET found == {n \in Stored : InPeriod(n)} IN
    /\ NothingRead
    /\ Start <= End
    /\ export' = [NoExport EXCEPT !.pc = "lines",
                                  !.rows = InvoiceTable(found),
                                  !.complete = found \cap Complete]
    /\ UNCHANGED <<register, last, jobs, report>>

ReadLines ==
    /\ export.pc = "lines"
    /\ export' = [export EXCEPT !.pc = "partners",
                                !.lines = LineTable(DOMAIN export.rows)]
    /\ UNCHANGED <<register, last, jobs, report>>

ReadPartners ==
    /\ export.pc = "partners"
    /\ export' = [export EXCEPT !.pc = "done",
                                !.partners = PartnerTable(export.rows)]
    /\ UNCHANGED <<register, last, jobs, report>>

-----------------------------------------------------------------------------
(* generate_integrity_report().                                            *)

\* is_locked=True, is_archived=False
ListLocked ==
    LET found == {n \in Issued : ~rows[n].archived} IN
    /\ NothingRead
    /\ report' = [NoReport EXCEPT !.pc = "verify", !.todo = found,
                                  !.rows = [n \in found |-> rows[n]]]
    /\ UNCHANGED <<register, last, jobs, export>>

\* Mutation of Valid: the lines are not part of the content.
ValidHead(r, ls) == r.seal = None \/ Seal(r, r.seal.lines) = r.seal

\* verify_integrity() of an instance; its lines are read now.
Valid(r, ls) == r.seal = None \/ Seal(r, ls) = r.seal

Verify ==
    /\ \E n \in report.todo :
         report' = [report EXCEPT
             !.todo = @ \ {n},
             !.blamed = IF Valid(report.rows[n], lines[n]) THEN @ ELSE @ \cup {n}]
    /\ UNCHANGED <<register, last, jobs, export>>

Conclude ==
    /\ report.pc = "verify"
    /\ report.todo = {}
    /\ report' = [report EXCEPT !.pc = "done"]
    /\ UNCHANGED <<register, last, jobs, export>>

\* gobd_audit, as far as the invoices go; AuditTrail has the chain.
ExitCode == IF report.blamed = {} THEN 0 ELSE 1

Next ==
    \/ ReadMax \/ SetSequence
    \/ \E c \in Clients : Post(c) \/ Insert(c)
    \/ \E n \in Numbers :
         \/ ChangeLines(n) \/ ChangePartner(n) \/ MarkAsSent(n)
         \/ Delete(n) \/ Archive(n) \/ Alter(n) \/ BeginCancel(n)
    \/ \E p \in Partners : DeletePartner(p)
    \/ DayPasses
    \/ InsertStorno \/ CopyLine \/ CloseOriginal \/ Die
    \/ ReadInvoices \/ ReadLines \/ ReadPartners
    \/ ListLocked \/ Verify \/ Conclude

Spec == Init /\ [][Next]_vars

-----------------------------------------------------------------------------
(* Properties.                                                             *)

\* The register and what runs on it are well formed.
TypeOK ==
    /\ rows \in [Numbers -> Row \cup {None}]
    /\ lines \in [Numbers -> SUBSET Lines]
    /\ partners \subseteq Partners
    /\ last \in Nat /\ day \in Days
    /\ client \in [Clients -> Numbers \cup {None}]
    /\ cancel \in [of : Numbers \cup {None}, cn : Numbers \cup {None},
                   inserted : BOOLEAN, todo : SUBSET Lines]
    /\ command \in Targets \cup {None}
    /\ \A n \in DOMAIN export.rows : export.rows[n] \in Row
    /\ export.partners \subseteq Partners
    /\ \A n \in DOMAIN report.rows : report.rows[n] \in Row
    /\ report.todo \cup report.blamed \subseteq DOMAIN report.rows

\* A number that was drawn is drawn once and free until it is inserted, even
\* after set_sequence_start, provided that it is "used at deployment time"
\* (set_sequence_start.py:4), when nobody creates invoices.
NumberFree ==
    /\ \A c \in Clients : client[c] # None =>
         /\ client[c] \notin Stored
         /\ \A d \in Clients : client[d] = client[c] => c = d
         /\ cancel.cn # client[c]
    /\ cancel.cn # None /\ ~cancel.inserted => cancel.cn \notin Stored

\* A credit note repeats what was altered in the invoice it cancels.
Altered(n) == \/ rows[n].altered
              \/ rows[n].of # None /\ rows[rows[n].of].altered

\* An export is read by three queries, and yet whole as far as invoices are
\* issued: their partners are among those exported, and their lines make up
\* their totals, but for a credit note cancel() is still writing
\* (gdpdu_export_service.py:135-147).
ExportWhole ==
    export.pc = "done" =>
        /\ \A n \in DOMAIN export.rows :
             export.rows[n].status # "DRAFT" =>
                 export.rows[n].partner \in export.partners
        /\ \A n \in export.complete :
             Altered(n) \/ export.lines[n] = export.rows[n].total

\* The report blames every invoice that had been altered behind the
\* application when it began, and nobody who was not, but for credit notes,
\* which are sealed before they have lines; gobd_audit succeeds only if none
\* was (integrity_service.py:22-44, gobd_audit.py:80-82).
ReportExact ==
    report.pc = "done" => \A n \in DOMAIN report.rows :
        report.rows[n].of = None =>
            /\ report.rows[n].altered => n \in report.blamed /\ ExitCode = 1
            /\ n \in report.blamed => rows[n].altered

\* The numbers of issued invoices leave no gap: "Used at deployment time so
\* new invoices continue ... without a numbering gap"
\* (set_sequence_start.py:4).  They do: a POST that fails or is deleted as a
\* draft has used its number.
NoGap == \A n \in Issued, k \in Numbers : k < n => k \in Stored
=============================================================================
