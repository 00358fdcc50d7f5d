-------------------------- MODULE InvoiceLifecycle --------------------------
(***************************************************************************)
(* The life of invoices in the database (invoice_app/models/               *)
(* invoice_models.py) under concurrent HTTP requests and Celery tasks.     *)
(*                                                                         *)
(* Django runs here without ATOMIC_REQUESTS, so every ORM statement is a   *)
(* transaction of its own: a request loads an instance of the model,       *)
(* changes it in memory and writes the whole row back, and statements of   *)
(* other requests fall in between.  A worker is one such request: the      *)
(* instance it loaded is task[w].mem, the next statement it will issue is  *)
(* task[w].pc.                                                             *)
(*                                                                         *)
(* Data is kept to what the properties tell apart.  A line is its signed   *)
(* amount; the totals columns are the set of lines they were computed      *)
(* from, so they agree with the lines exactly when the two sets are equal; *)
(* `head' stands for the remaining header columns that enter the content   *)
(* hash (numbers, parties, dates, currency); a hash is the content it was  *)
(* computed from.                                                          *)
(***************************************************************************)
EXTENDS Integers, FiniteSets

CONSTANTS
    Workers,        \* request handlers and Celery workers
    MaxId,          \* bound: primary keys handed out
    Amounts,        \* line amounts a client may enter
    Heads,          \* versions of the header columns
    NewStatuses,    \* statuses a client POSTs
    PatchStatuses,  \* statuses a client PATCHes
    InitStatuses,   \* statuses of the invoices that exist at the start
    Endpoints,      \* bound: the endpoints called in this instance, and
                    \* "ten_years" where the retention period may end
    LinesOfLocked,  \* TRUE: clients also edit lines of locked invoices
    MayCrash,       \* TRUE: a request may end between two statements
    None            \* NULL

Ids   == 1 .. MaxId
Lines == Amounts \cup {-a : a \in Amounts}

\* Mutation of Neg: the reversal is applied to an amount already reversed.
NegTwice(s) == {-x - x : x \in s}

Neg(s) == {-x : x \in s}

Statuses     == {"DRAFT", "SENT", "PAID", "CANCELLED", "OVERDUE"}
LockStatuses == {"SENT", "PAID", "CANCELLED"}

ASSUME BoundsAssumption  == MaxId \in Nat \ {0}
ASSUME HeadsAssumption   == Heads # {}
ASSUME AmountsAssumption == Amounts \subseteq Nat \ {0}
ASSUME StatusAssumption  ==
    /\ NewStatuses \subseteq Statuses
    /\ PatchStatuses \subseteq Statuses
    /\ InitStatuses \subseteq {"DRAFT", "SENT", "PAID"}
ASSUME SwitchAssumption  == LinesOfLocked \in BOOLEAN /\ MayCrash \in BOOLEAN
ASSUME NoneAssumption    ==
    /\ None \notin Ids
    /\ None \notin [head : Heads, total : SUBSET Lines, lines : SUBSET Lines]

\* What calculate_content_hash() serialises: header, totals and lines.
Content == [head : Heads, total : SUBSET Lines, lines : SUBSET Lines]

Row == [status      : Statuses,
        locked      : BOOLEAN,
        hash        : Content \cup {None},
        head        : Heads,
        total       : SUBSET Lines,
        cancelledBy : Ids \cup {None},
        stornoOf    : Ids \cup {None},   \* notes: "Storno zu <number>"
        archived    : BOOLEAN]

AnyHead == CHOOSE h \in Heads : TRUE

BlankRow == [status |-> "DRAFT", locked |-> FALSE, hash |-> None,
             head |-> AnyHead, total |-> {}, cancelledBy |-> None,
             stornoOf |-> None, archived |-> FALSE]

PCs == {"idle", "check", "write", "seal", "delete", "total",
        "cn_insert", "cn_seal", "cn_lines", "cn_copy", "cn_total"}

Task == [pc   : PCs,
         id   : Ids,                    \* the invoice of the request
         mem  : Row,                    \* the loaded instance
         cn   : Ids \cup {None},        \* credit note that cancel() creates
         todo : SUBSET Lines,           \* lines cancel() still has to copy
         agg  : SUBSET Lines]           \* result of the SUM() aggregate

Idle == [pc |-> "idle", id |-> 1, mem |-> BlankRow, cn |-> None,
         todo |-> {}, agg |-> {}]

VARIABLES
    stored,   \* primary keys with a row
    rows,     \* the invoice table
    lines,    \* the line table, by invoice
    nextId,   \* primary key sequence
    retained, \* TRUE until retention_until of the invoices has passed
    task      \* what each worker is doing

vars == <<stored, rows, lines, nextId, retained, task>>
db   == <<stored, rows, lines, nextId>>

TypeOK ==
    /\ stored \subseteq Ids
    /\ rows \in [Ids -> Row]
    /\ lines \in [Ids -> SUBSET Lines]
    /\ nextId \in 1 .. MaxId + 1
    /\ retained \in BOOLEAN
    /\ task \in [Workers -> Task]

\* An invoice as a quiet system leaves it: a draft whose totals are up to
\* date, or an issued one that was locked and sealed.
Settled(s, h, ls) ==
    [BlankRow EXCEPT
        !.status = s, !.head = h, !.total = ls,
        !.locked = s \in LockStatuses,
        !.hash   = IF s \in LockStatuses
                     THEN [head |-> h, total |-> ls, lines |-> ls] ELSE None]

Init ==
    /\ \/ /\ stored = {}
          /\ nextId = 1
          /\ rows = [i \in Ids |-> BlankRow]
          /\ lines = [i \in Ids |-> {}]
       \/ \E s \in InitStatuses, ls \in SUBSET Amounts :
            /\ stored = {1}
            /\ nextId = 2
            /\ rows = [i \in Ids |-> IF i = 1 THEN Settled(s, AnyHead, ls)
                                              ELSE BlankRow]
            /\ lines = [i \in Ids |-> IF i = 1 THEN ls ELSE {}]
    /\ retained = TRUE
    /\ task = [w \in Workers |-> Idle]

-----------------------------------------------------------------------------
(* Invoice.save(): lock check, lock, write, seal.                          *)

\* Mutation of Protected: the header columns are missing.
ProtectedWithoutHead(r) == <<r.locked, r.hash, r.total, r.stornoOf>>

\* Columns a locked invoice may not change: all but status, cancelled_by,
\* is_archived and the tracking and file columns.
Protected(r) == <<r.locked, r.hash, r.head, r.total, r.stornoOf>>

\* Mutation of Lock: the flag follows the transition to SENT or PAID.
LockOnTransition(m) ==
    [m EXCEPT !.locked = m.status \in {"SENT", "PAID"}]

\* save() locks the instance once its status is SENT, PAID or CANCELLED.
Lock(m) == [m EXCEPT !.locked = m.locked \/ m.status \in LockStatuses]

NeedsSeal(m) == m.locked /\ m.hash = None

Goto(w, pc) == task' = [task EXCEPT ![w].pc = pc]

Finish(w) == task' = [task EXCEPT ![w] = Idle]

\* The request has loaded invoice i and goes on with instance m.
Begin(w, i, m, pc) ==
    task' = [task EXCEPT ![w] = [Idle EXCEPT !.id = i, !.mem = m, !.pc = pc]]

\* The lock check of save(): only an instance that is itself locked reads
\* the row back; a protected column that differs is a GoBDViolationError.
Refused(i, m) ==
    m.locked /\ i \in stored /\ rows[i].locked
             /\ Protected(m) # Protected(rows[i])

CheckLock(w) ==
    LET t == task[w] IN
    /\ t.pc = "check"
    /\ IF Refused(t.id, t.mem)
         THEN Finish(w)
         ELSE task' = [task EXCEPT ![w].pc = "write",
                                   ![w].mem = Lock(t.mem)]
    /\ UNCHANGED <<db, retained>>

\* super().save(): UPDATE of every column, or INSERT if the row is gone.
WriteRow(w) ==
    LET t == task[w] IN
    /\ t.pc = "write"
    /\ rows' = [rows EXCEPT ![t.id] = t.mem]
    /\ stored' = stored \cup {t.id}
    /\ IF NeedsSeal(t.mem) THEN Goto(w, "seal") ELSE Finish(w)
    /\ UNCHANGED <<lines, nextId, retained>>

\* calculate_content_hash() over the instance and the stored lines, written
\* by a queryset update of the one column.
Seal(w) ==
    LET t == task[w] IN
    /\ t.pc = "seal"
    /\ rows' = IF t.id \in stored
                 THEN [rows EXCEPT ![t.id].hash =
                        [head |-> t.mem.head, total |-> t.mem.total,
                         lines |-> lines[t.id]]]
                 ELSE rows
    /\ Finish(w)
    /\ UNCHANGED <<stored, lines, nextId, retained>>

-----------------------------------------------------------------------------
(* Requests that load an invoice and save it.                              *)

Call(w, e) == task[w].pc = "idle" /\ e \in Endpoints

\* POST /invoices/: the client chooses the status; lines come separately.
Create(w) ==
    /\ Call(w, "create")
    /\ nextId \in Ids
    /\ \E s \in NewStatuses, h \in Heads :
         LET m == Lock([BlankRow EXCEPT !.status = s, !.head = h]) IN
         /\ rows' = [rows EXCEPT ![nextId] = m]
         /\ IF NeedsSeal(m) THEN Begin(w, nextId, m, "seal")
                            ELSE UNCHANGED task
    /\ stored' = stored \cup {nextId}
    /\ nextId' = nextId + 1
    /\ UNCHANGED <<lines, retained>>

\* PATCH /invoices/i/: header columns and status are writable.
Patch(w, i) ==
    /\ Call(w, "patch")
    /\ \E s \in PatchStatuses \cup {rows[i].status}, h \in Heads :
         Begin(w, i, [rows[i] EXCEPT !.status = s, !.head = h], "check")
    /\ UNCHANGED <<db, retained>>

\* mark_as_sent, and the DRAFT transition of send_email / send_xrechnung.
MarkAsSent(w, i) ==
    /\ Call(w, "mark_as_sent")
    /\ rows[i].status = "DRAFT"
    /\ Begin(w, i, [rows[i] EXCEPT !.status = "SENT"], "check")
    /\ UNCHANGED <<db, retained>>

\* mark_as_paid has no condition on the status.
MarkAsPaid(w, i) ==
    /\ Call(w, "mark_as_paid")
    /\ Begin(w, i, [rows[i] EXCEPT !.status = "PAID"], "check")
    /\ UNCHANGED <<db, retained>>

\* PDF/XML generation loads the invoice, renders for a long time and saves
\* the whole instance to record the file names.  Rendering a credit note
\* follows cancels_invoice and fails where nothing refers to it.
GenerateFiles(w, i) ==
    /\ Call(w, "generate_pdf")
    /\ rows[i].stornoOf = None \/ \E j \in stored : rows[j].cancelledBy = i
    /\ Begin(w, i, rows[i], "check")
    /\ UNCHANGED <<db, retained>>

\* Mutation of Deletable: the status alone decides.
DeletableDraft(m) == m.status = "DRAFT"

Deletable(m) == m.status = "DRAFT" /\ ~m.locked

\* DELETE /invoices/i/: hard delete of an unlocked draft, refusal within the
\* retention period, archiving (without lock check) after it.
Destroy(w, i) ==
    LET m == rows[i] IN
    /\ Call(w, "delete")
    /\ \/ /\ Deletable(m)
          /\ Begin(w, i, m, "delete")
       \/ /\ ~Deletable(m)
          /\ ~retained
          /\ Begin(w, i, Lock([m EXCEPT !.archived = TRUE]), "write")
    /\ UNCHANGED <<db, retained>>

\* Model.delete(): cascades to the lines, cancelled_by is SET_NULL.
HardDelete(w) ==
    LET i == task[w].id IN
    /\ task[w].pc = "delete"
    /\ stored' = stored \ {i}
    /\ lines' = [lines EXCEPT ![i] = {}]
    /\ rows' = [j \in Ids |->
                 IF j = i THEN BlankRow
                 ELSE IF rows[j].cancelledBy = i
                   THEN [rows[j] EXCEPT !.cancelledBy = None]
                   ELSE rows[j]]
    /\ Finish(w)
    /\ UNCHANGED <<nextId, retained>>

-----------------------------------------------------------------------------
(* Invoice.cancel(): credit note, its lines one by one, then the original. *)

Cancel(w, i) ==
    /\ Call(w, "cancel")
    /\ rows[i].status \in {"SENT", "PAID"}
    /\ Begin(w, i, rows[i], "cn_insert")
    /\ UNCHANGED <<db, retained>>

\* Mutation of Storno: the credit note starts as a draft.
DraftStorno(i, m) ==
    Lock([BlankRow EXCEPT !.head = m.head,
                          !.total = Neg(m.total), !.stornoOf = i])

\* The credit note as save() leaves it: status SENT, hence born locked.
Storno(i, m) ==
    Lock([BlankRow EXCEPT !.status = "SENT", !.head = m.head,
                          !.total = Neg(m.total), !.stornoOf = i])

InsertStorno(w) ==
    LET t == task[w] IN
    /\ t.pc = "cn_insert"
    /\ nextId \in Ids
    /\ rows' = [rows EXCEPT ![nextId] = Storno(t.id, t.mem)]
    /\ stored' = stored \cup {nextId}
    /\ nextId' = nextId + 1
    /\ task' = [task EXCEPT ![w].pc = "cn_seal", ![w].cn = nextId]
    /\ UNCHANGED <<lines, retained>>

\* The hash of the credit note is taken here, before it has any line.
SealStorno(w) ==
    LET t == task[w]
        m == Storno(t.id, t.mem) IN
    /\ t.pc = "cn_seal"
    /\ rows' = IF t.cn \in stored
                 THEN [rows EXCEPT ![t.cn].hash =
                        [head |-> m.head, total |-> m.total,
                         lines |-> lines[t.cn]]]
                 ELSE rows
    /\ Goto(w, "cn_lines")
    /\ UNCHANGED <<stored, lines, nextId, retained>>

\* After the last copy: the original gets its status and its reference, and
\* is saved without lock check.
CloseOriginal(w, t) ==
    task' = [task EXCEPT
        ![w] = [t EXCEPT !.pc = "write", !.todo = {}, !.agg = {},
                  !.mem = Lock([t.mem EXCEPT !.status = "CANCELLED",
                                             !.cancelledBy = t.cn])]]

\* for line in self.lines.all()
ReadLines(w) ==
    LET t == task[w] IN
    /\ t.pc = "cn_lines"
    /\ IF lines[t.id] = {}
         THEN CloseOriginal(w, t)
         ELSE task' = [task EXCEPT ![w].pc = "cn_copy",
                                   ![w].todo = lines[t.id]]
    /\ UNCHANGED <<db, retained>>

\* Mutation of CopyLine: the aggregate is read before the INSERT.
CopyLineAggregateFirst(w) ==
    LET t == task[w] IN
    /\ t.pc = "cn_copy"
    /\ \E x \in t.todo :
         /\ lines' = [lines EXCEPT ![t.cn] = @ \cup {-x}]
         /\ task' = [task EXCEPT ![w].pc = "cn_total",
                                 ![w].agg = lines[t.cn],
                                 ![w].todo = t.todo \ {x}]
    /\ UNCHANGED <<stored, rows, nextId, retained>>

\* InvoiceLine.objects.create(): the INSERT and the aggregate of
\* recalculate_totals(), whose UPDATE is the next step.
CopyLine(w) ==
    LET t == task[w] IN
    /\ t.pc = "cn_copy"
    /\ \E x \in t.todo :
         LET ls == lines[t.cn] \cup {-x} IN
         /\ lines' = [lines EXCEPT ![t.cn] = ls]
         /\ task' = [task EXCEPT ![w].pc = "cn_total", ![w].agg = ls,
                                 ![w].todo = t.todo \ {x}]
    /\ UNCHANGED <<stored, rows, nextId, retained>>

SetTotal(i, t) ==
    rows' = IF i \in stored THEN [rows EXCEPT ![i].total = t] ELSE rows

\* Mutation of AfterCopy: the original is closed within the loop.
AfterFirstCopy(w, t) == CloseOriginal(w, t)

\* The next turn of the loop, or what follows it.
AfterCopy(w, t) ==
    IF t.todo = {} THEN CloseOriginal(w, t) ELSE Goto(w, "cn_copy")

TotalStorno(w) ==
    LET t == task[w] IN
    /\ t.pc = "cn_total"
    /\ SetTotal(t.cn, t.agg)
    /\ AfterCopy(w, t)
    /\ UNCHANGED <<stored, lines, nextId, retained>>

-----------------------------------------------------------------------------
(* /invoice-lines/: no endpoint looks at the lock of the invoice.          *)

MayEditLines(i) == LinesOfLocked \/ ~rows[i].locked

\* InvoiceLine.save() for a new line or a changed one: the statement on the
\* line and the aggregate; the UPDATE of the totals is UpdateTotals.
SaveLine(w, i) ==
    /\ Call(w, "save_line")
    /\ MayEditLines(i)
    /\ \E a \in Amounts \ lines[i], replaced \in SUBSET lines[i] :
         LET ls == (lines[i] \ replaced) \cup {a} IN
         /\ Cardinality(replaced) <= 1
         /\ lines' = [lines EXCEPT ![i] = ls]
         /\ task' = [task EXCEPT ![w] =
                       [Idle EXCEPT !.id = i, !.pc = "total", !.agg = ls]]
    /\ UNCHANGED <<stored, rows, nextId, retained>>

\* recalculate_totals(): queryset update of the totals columns.
UpdateTotals(w) ==
    LET t == task[w] IN
    /\ t.pc = "total"
    /\ SetTotal(t.id, t.agg)
    /\ Finish(w)
    /\ UNCHANGED <<stored, lines, nextId, retained>>

\* DELETE /invoice-lines/x/ removes the line; nothing recalculates.
DeleteLine(w, i) ==
    /\ Call(w, "delete_line")
    /\ MayEditLines(i)
    /\ \E x \in lines[i] : lines' = [lines EXCEPT ![i] = @ \ {x}]
    /\ UNCHANGED <<stored, rows, nextId, retained, task>>

-----------------------------------------------------------------------------
(* The environment.                                                        *)

\* The process dies, or the request ends in an error, between statements.
Crash(w) ==
    /\ MayCrash
    /\ task[w].pc # "idle"
    /\ Finish(w)
    /\ UNCHANGED <<db, retained>>

\* Ten years go by.  One flag stands for all invoices: a client may date an
\* invoice back, so the retention of any of them may be over at any time.
RetentionEnds ==
    /\ "ten_years" \in Endpoints
    /\ retained
    /\ retained' = FALSE
    /\ UNCHANGED <<db, task>>

Request(w) ==
    \/ Create(w)
    \/ \E i \in stored :
         \/ Patch(w, i)
         \/ MarkAsSent(w, i)
         \/ MarkAsPaid(w, i)
         \/ GenerateFiles(w, i)
         \/ Destroy(w, i)
         \/ Cancel(w, i)
         \/ SaveLine(w, i)
         \/ DeleteLine(w, i)

Statement(w) ==
    \/ CheckLock(w)
    \/ WriteRow(w)
    \/ Seal(w)
    \/ HardDelete(w)
    \/ InsertStorno(w)
    \/ SealStorno(w)
    \/ ReadLines(w)
    \/ CopyLine(w)
    \/ TotalStorno(w)
    \/ UpdateTotals(w)

Next ==
    \/ \E w \in Workers : Request(w) \/ Statement(w) \/ Crash(w)
    \/ RetentionEnds

Spec == Init /\ [][Next]_vars

-----------------------------------------------------------------------------
(* Properties.                                                             *)

\* An invoice that was sent, paid or cancelled is locked, whatever instance
\* wrote its row last (save(), auto-lock).
LockFollowsStatus ==
    \A i \in stored : rows[i].status \in LockStatuses => rows[i].locked

\* cancelled_by never dangles and never points to a foreign document: it is
\* the locked credit note that cancel() made for this very invoice, however
\* deletions, stale saves and crashes interleave with the cancellation.
CancelledByIsStorno ==
    \A i \in stored :
        LET c == rows[i].cancelledBy IN
        c # None => c \in stored /\ rows[c].stornoOf = i /\ rows[c].locked

\* A credit note made by cancel() is locked from its INSERT on: no
\* interleaving of stale saves unlocks it, deletes it, or changes its header.
StornoFrozen ==
    [][\A c \in stored : rows[c].stornoOf # None =>
         /\ c \in stored'
         /\ rows'[c].locked
         /\ rows'[c].head = rows[c].head
         /\ rows'[c].stornoOf = rows[c].stornoOf]_vars

\* A locked invoice is never deleted or unlocked, its header never changes,
\* and neither does its hash once it has one.
LockedFrozen ==
    [][\A i \in stored : rows[i].locked =>
         /\ i \in stored'
         /\ rows'[i].locked
         /\ rows'[i].head = rows[i].head
         /\ rows[i].hash # None /\ rows[i].stornoOf = None
              => rows'[i].hash = rows[i].hash]_vars

ContentOf(i) ==
    [head |-> rows[i].head, total |-> rows[i].total, lines |-> lines[i]]

\* verify_integrity() holds of every sealed invoice that is not a credit note
\* of cancel(), through whatever requests ran before and after the lock.
SealedIntact ==
    \A i \in stored :
        rows[i].hash # None /\ rows[i].stornoOf = None
            => rows[i].hash = ContentOf(i)

\* An invoice (itself no credit note: one of those can be cancelled while it
\* is under construction) refers to a credit note only once every one of its
\* lines is reversed there, whichever request or crash interrupts cancel().
StornoComplete ==
    \A i \in stored :
        LET c == rows[i].cancelledBy IN
        c # None /\ rows[i].stornoOf = None => lines[c] = Neg(lines[i])

\* The credit note of a cancelled invoice states the totals of its own lines,
\* also where the totals of the invoice were out of date.
StornoTotals ==
    \A i \in stored :
        LET c == rows[i].cancelledBy IN
        c # None /\ lines[c] # {} => rows[c].total = lines[c]

\* help_text of content_hash: the hash of a cancelled invoice's credit note
\* is the hash of that document's content.
StornoSealed ==
    \A i \in stored :
        LET c == rows[i].cancelledBy IN
        c # None /\ rows[c].hash # None => rows[c].hash = ContentOf(c)

\* ADR-024: the status is unchangeable after the transition, and CANCELLED is
\* the last one.
CancelledIsFinal ==
    [][\A i \in stored : rows[i].status = "CANCELLED" =>
         i \in stored' /\ rows'[i].status = "CANCELLED"]_vars

\* delete(): invoices are archived, only drafts are ever deleted.
IssuedNotDeleted ==
    [][\A i \in stored : rows[i].status # "DRAFT" => i \in stored']_vars

\* cancel() refuses an invoice that is cancelled already: no invoice is
\* reversed by two credit notes.
OneStornoPerInvoice ==
    \A c, d \in stored :
        rows[c].stornoOf # None /\ rows[c].stornoOf = rows[d].stornoOf => c = d

Quiet == \A w \in Workers : task[w].pc = "idle"

\* recalculate_totals(): once all line requests have been answered, the
\* totals are those of the lines.
TotalsSettle == Quiet => \A i \in stored : rows[i].total = lines[i]
=============================================================================
