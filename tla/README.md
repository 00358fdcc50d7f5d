# eRechnung: TLA+ models, checks and proofs

eRechnung is a Django/DRF application with a Vue front end that issues
electronic invoices under the German GoBD rules: documents that left the house
must not change, what was done must be traceable. This directory holds TLA+
models of the parts whose correctness depends on the order in which requests,
tasks, commands and browsers act, and of the computations whose results two
places must agree on; TLC configurations that check them; and proofs for TLAPS.

Paths below are relative to the repository; `invoice_app/` stands for
`project_root/invoice_app/`. A file named without a path is in `invoice_app/`.

## 1. Inventory

### The system's components

| component | state | operations | hard behaviour | what makes it correct |
|---|---|---|---|---|
| **Invoice documents** (`models/invoice_models.py`, `api/rest_views.py`, `services/invoice_service.py`) | rows of Invoice and InvoiceLine: status, `is_locked`, `content_hash`, totals, `cancelled_by`, archive and file columns | POST, PATCH, `mark_as_sent`, `mark_as_paid`, `cancel`, DELETE, line save/delete, file generation | no `ATOMIC_REQUESTS`: every statement commits alone, whole rows are written back from instances loaded earlier, `cancel` takes many statements | issued means locked; a locked document keeps its header and hash; the hash is that of the document; a reference to a credit note means a complete, locked credit note |
| **Edit lock** (same model, `frontend/src/composables/useEditLock.js`, `components/InvoiceEditModal.vue`) | `editing_by`, `editing_since`; per form: lock held, heartbeat timer, requests under way | acquire, refresh, release, the check in PATCH; mount, load, submit, close | slow and lost answers, expiry, closed tabs, crashes | the columns are a lease; a form that shows the lock has it; locks of dead browsers become free |
| **Audit log** (`models/audit.py`, `middleware/audit.py`, `signals.py`) | AuditLog rows with hash and previous hash | `log_action`, direct creation, tracking signals, cleanup, admin delete, `verify_chain` | linking is read-then-insert, the timestamp is taken before the INSERT, expiry removes entries from the middle | the chain leads back; verification reports exactly the altered entries |
| **Invoice register** (`Invoice.save`, `set_sequence_start.py`, `services/gdpdu_export_service.py`, `services/integrity_service.py`, `gobd_audit.py`) | a PostgreSQL sequence, invoices, lines, partners; the rows an evaluation holds | drawing numbers, setting the sequence, GDPdU export, integrity report | evaluations read query by query while cancellations write; `setval` against creation | no number twice; the tables of an export fit together; the report blames who was altered |
| **Files, e-mail, Celery** (`utils/pdf.py`, `services/email_service.py`, `tasks.py`, views) | file columns, files on disk, `last_emailed_at`, `xrechnung_sent_at`, attachments | generate, download, send e-mail, send XRechnung, the PDF task with retries | SMTP before the database write, lost answers, two renderings with one file name, crashes | what is recorded as sent was sent; answers are true; a PDF the invoice names is whole |
| **Incoming invoices** (`services/incoming_invoice_service.py`, `utils/validation.py`, `utils/incoming_xml.py`, `scripts/`) | directory, processed and rejected folders; suppliers, partners, invoices | validate, parse, duplicate check, book, copy | several runs at once; the database commits before the file is copied | what is reported is true; nothing is half booked |
| **Data subject requests** (`services/gdpr_service.py`, `models/gdpr.py`, `gdpr_check.py`) | request status and deadline, partners, users, profiles | receive, process, anonymise, restrict, monitor deadlines | savepoints, repeated processing, stale rows written back | a completed request did what it says; erased accounts stay out; every deadline is announced |
| **Products, stock, partners** (`models/product.py`, `models/business_partner.py`, `api/rest_views.py`) | products with codes and stock, partners with numbers | CRUD, bulk imports, stock bookings, code and number generation | check-then-insert without transactions, rows that fail inside an import, stale saves | generated codes are free; what an import reports is there |
| **Tax and totals** (`services/tax_service.py`, `models/country.py`, totals in the models) | stored amounts of lines and invoice; validity of rates | tax treatment of a line, line and header totals, allowances and charges, rates in force | the totals are a cache written in several statements; rounding | the last change heals the totals; rates change only on their dates |
| **XML and PDF** (`utils/xml/`, `services/invoice_service.py`) | none | generate, validate, embed | fifteen optional elements in any combination, allowances split over tax rates, missing schemas | amounts add up and are the stored ones; element order; the verdict is that of the schemas found |
| **Accounts and sessions** (`models/user.py`, `api/jwt_auth.py`, `frontend/src/api/client.js`) | profile, tokens in local storage | login, refresh, logout | parallel refreshes | no logout while the session is good |
| **Front-end lists, import, export** (`frontend/src/composables/`) | selections, progress | bulk actions | partial failure | the result list names every item once |
| **Deployment scripts** (`scripts/`) | running version, backups | backup, restore, update, rollback | failure between steps | a failed update leaves a running version |
| companies and countries, admin, health, metrics, REST plumbing, k8s and gateway configuration | – | – | none: plain CRUD, formatting or configuration | – |

### How they interact

Requests, Celery tasks and management commands share nothing but the database
and the media files. Every save of Invoice and InvoiceLine triggers signals
that write the audit log; every request writes one more entry in the middleware.
`InvoiceLine.save` and `delete` paths call back into the invoice for its totals.
`cancel` creates an invoice and lines through the same `save` methods. The edit
lock lives in columns of the invoice row, so a full-row save of a stale instance
writes old lock columns back; the GoBD lock check in `save` also stands in the way
of recording a dispatch. The document of an invoice is computed from its rows and not
from its stored totals, so the two computations must agree. The evaluations for an audit
read the tables that all of them write. The browser's only view of all this is
the answers to its requests, which arrive in any order.

## 2. Plan

In the order of their weight; all modules are written.

1. `InvoiceLifecycle`, with proofs
2. `EditLock` and the abstract `EditLease` it implements, with proofs
3. `AuditTrail`, with proofs
4. `InvoiceDispatch`: files, e-mail, Celery retries, with proofs
5. `IncomingInvoice` on `IncomingXml`: directory, transaction, reports, with
   proofs
6. `SubjectRequests`: savepoints, reprocessing, deadlines, with proofs
7. `InvoiceTotals`, and `ElectronicInvoice` composed of it and `XmlValidation`,
   with proofs
8. `MasterData`: codes, numbers, imports, stock, rates, with proofs
9. `InvoiceRegister`: numbers, export, integrity report, with proofs

Every safety and action property a run checks is proved; what remains is
liveness. Section 7 says why sessions and deployment scripts are
not modelled.

## 3. Modules

A module's header says what it models; comments name the function an action or
operator stands for. An operator introduced by "Mutation of X" is X as a
plausible bug would have it; no specification uses it. Everywhere a request,
task or command is a job with a program counter: between two of its statements
any other job may act, since Django runs in autocommit here and only the
places modelled as one step are transactions or single statements.

### `InvoiceLifecycle`

A worker is a request handler or Celery task. `task[w].mem` is the instance it
loaded, `task[w].pc` the statement it issues next. The actions
follow the endpoints (`Create`, `Patch`, `MarkAsSent`, `MarkAsPaid`,
`GenerateFiles`, `Destroy`, `Cancel`, `SaveLine`, `DeleteLine`), the remaining
ones the statements of `Invoice.save` (`CheckLock`, `WriteRow`, `Seal`), of
`delete` and of `cancel` (`InsertStorno`, `SealStorno`, `ReadLines`, `CopyLine`,
`TotalStorno`, then `WriteRow` of the original without the lock check).

Abstractions: a line is its signed amount; a totals column is the set of lines it
was computed from, so "totals agree with lines" is equality of two sets; `head`
stands for the hashed header columns; a hash is the content it was computed
over. Allowances and charges are in `InvoiceTotals`, e-mail columns in
`InvoiceDispatch`, edit-lock columns in `EditLock` and `InvoiceDispatch`.

### `EditLease`, `EditLock`

`EditLease` states what ADR-024 promises: a lease that is granted when free,
expired or one's own, and given back by its holder only. `EditLock` has the
columns, the three endpoints, the check and write of PATCH as separate steps, and
the browser forms. `lock.age` is the age of `editing_since` in heartbeat
intervals; it stops counting at `Timeout`, where the lock counts as expired.
`LeaseKept` is `EditLease`'s specification under
`INSTANCE EditLease WITH holder <- lock.by, expired <- ...`.

### `AuditTrail`

`log_action` is `Link` (read the newest entry, take over its hash, compute the own
one), `Stamp` (`auto_now_add` reads the clock) and `Insert`; direct creation skips
the linking. `LogAction` has the callers by kind: the middleware's entry of a
request, the signals' entry of a change, an event, an import's summary. Hashes are named by the event they belong to,
`covers` records what went into one. `Save`/`LogModelUpdate` is the tracking of updates by `post_save`.
`Alter` and `Remove` are changes of rows behind the application, which the chain
exists to show. One server clock is assumed.

### `InvoiceDispatch`

One invoice, its file columns, the files on disk and the jobs that make, send
and download them. A job runs through `Load`, the status change of a send (`Issue`),
the kill switch (`Switch`), rendering (`Name`, `Convert`, `WriteXml`, `Embed`,
`EmbedFiles`, `SaveFiles`, or `Truncate`, `WriteFixed`, `SaveXml` for the file
with a fixed name), and delivery (`Attach`, `Deliver`, then the statements that
record it). `Refresh` is `refresh_from_db()`. A failing task is loaded again up to
`MaxAttempts` times. A document is its version of the amounts, its profile, and
whether it is whole, refers to and carries the supporting document; `second` is
the timestamp in a file's name. `Invoice.save` is one step here.

### `IncomingXml`, `IncomingInvoice`

`IncomingXml` is the parser and the business rules as operators on a document
whose elements are absent, empty, garbled or readable. `IncomingInvoice` is the
pipeline `Validate`, `Duplicate`, `Supplier`, `Buyer`, `Number`, `SystemUser`,
`Commit`, `Copy` of several runs of the batch script over one directory. What a
transaction reads it reads from what is committed; unique columns decide at
`Commit`, and `Rollback` leaves nothing.

`Validator` chooses what answers for the schema. As shipped,
`validate_pdf_file` unpacks one `ValidationResult` into two names, so every file
with XML raises (`"shipped"`). With `"pair"` the model has the pipeline as the
repository's tests exercise it, with the validator replaced by one that answers
a pair; `schema` of a document is that answer. The rules and the parser look for
elements under an `inv:` namespace the shipped XSD does not admit, therefore
`IncomingXml` does not build on `XmlValidation`.

### `SubjectRequests`

`Create`, `StartProcess`/`Process`, `LoadPatch`/`SavePatch` and `Tick` for
requests and their deadlines; `LoadPartner`/`SavePartner`, `LoadUser`/`SavePassword`,
`LoadSettings`/`SaveSettings` for the requests that write the rows it reaches.
`Process` is one transaction; a failure half-way leaves any part of the subjects
done, each in a savepoint of its own, and the request `escalated`. `Printed` and
`ReportFails` are the two outputs of `gdpr_check`.

### `InvoiceTotals`, `XmlValidation`, `ElectronicInvoice`

`InvoiceTotals` has lines, allowances and charges, the tax treatment by partner
and product, and the stored totals. A request changes a row and then
recalculates the line (`RecalculateLine`), reads the aggregates and writes the
totals; the change of the row is one step. `alone` holds the request no other
overlapped. `XmlValidation` is the choice of backend and the answer on a
document, for all combinations of schema files and reports. `ElectronicInvoice`
extends both: the amounts of the document as functions of the rows, the order
of its elements as sequences, and the XSD's sequences cut down to the elements
the code knows. A sequence accepts elements that are its own, each in a later
place than the one before (`InSequence`).

Amounts are cents. The generator computes in binary floating point, so a value
half-way between two cents may go either way: `up` is the set of rates that go
up, and properties quantify over it. The share of a rate is exact. `AddsUp` is
stated for at most two rates, one category per rate and no negative group; a
header charge without any line makes the generator raise (`Generable`). The
document is read in one step although the code reads it by several queries.

### `MasterData`

Products and partners by primary key; every look-up, code or number generation
and INSERT is a step, and `SaveProduct`/`SavePartner` write all columns of an
instance loaded before, inserting the row again if it was deleted. Imports run in the three
modes skip, update, refuse. `Effective` is the choice of the rates in force on a day.

### `InvoiceRegister`

`Draw` is `nextval`, `ReadMax`/`SetSequence` the two statements of
`set_sequence_start`; `Post`/`Insert`, `BeginCancel`, `InsertStorno`,
`CopyLine`, `CloseOriginal` write the register; `ReadInvoices`, `ReadLines`,
`ReadPartners` are the export, `ListLocked`, `Verify`, `Conclude` the integrity
report. The requests whose statements `InvoiceLifecycle` takes apart are single
steps, save those that run across the queries of an evaluation.

### Proof and MC modules

`InvoiceLifecycleProofs`, `EditLockProofs`, `AuditTrailProofs`,
`InvoiceDispatchProofs`, `IncomingInvoiceProofs`, `SubjectRequestsProofs`,
`MasterDataProofs` and `InvoiceRegisterProofs` extend the module they are about.
`InvoiceDispatchProofs` extends `ElectronicInvoice` as well: first the document
a job renders, then the jobs.
The `MC` modules declare model values, inputs and symmetry sets. Symmetry is
taken over actors and ids that no property tells apart, and never with a
liveness property.

## 4. Runs

| run | what is explored | what it shows |
|---|---|---|
| `invoice_sequential` | one request at a time, all endpoints, crashes between statements, an invoice and a credit note | types; the hash is that of the document; a credit note states the totals of its own lines |
| `invoice_concurrent` | two workers with stale instances; creation, deletion, cancellation, PATCH, crashes | issued implies locked; `cancelled_by` is always a locked credit note of this invoice; credit notes are never unlocked, deleted or changed |
| `invoice_issued` | two workers on an invoice that is locked before either loads it: PATCH, files, two cancellations, one possibly left half done | hash and header frozen, the reference appears only when all lines are reversed |
| `editlock_prompt` | two users, answers within a heartbeat interval | the lease is implemented; what the form shows is backed by the row |
| `editlock_abandoned` | slow, lost, early requests and dying browsers | liveness: the lock of a dead browser becomes free |
| `audit_trail` | 3 entries, 2 writers, every source of entries, tracked updates, expiry, one tampering | verification is exact; the chain leads back |
| `dispatch` | a send or download crossing a Celery task, an XML export or a status change; three kinds of partner; faults | recorded means mailed; answers are true; a named PDF is whole |
| `incoming` | two runs over three files, one of them removed, with failures at every step | reports are true, nothing is half booked |
| `subject_requests` | six kinds of request about a person who is two partners and a user; two handlers | completion tells the truth, erased accounts stay out, every deadline is announced once |
| `electronic_invoice` | two requests, two lines, two charges, deaths; every document against every shape and setup | the last change heals the totals; the document adds up and states what is booked; which shapes the schema rejects; the validators' answer |
| `master_data` | two workers, imports in all modes, failing rows, deletions and stale saves | generated codes are free; what an import reports is there; rates change on their dates only |
| `invoice_register` | two clients, `set_sequence_start`, a cancellation, one row changed behind the application, one evaluation | drawn numbers are free; an export is whole; the report is exact |

Bounds, and why they are enough.

* `invoice_*`: three invoices are an original and the two credit notes of two
  cancellations, and every action touches one invoice or an invoice and its credit
  note; one original and its credit note where cancellations do not race. Two
  amounts make a partial copy of the lines possible; two header versions a
  change. Two workers give every pairwise interleaving; without `Crash` a worker
  that stops for good stands for a request that died there.
* `editlock_*`: a timeout of two heartbeat intervals is the least in which a
  heartbeat can keep a lock alive and a missed one lose it.
* `audit_trail`: three entries are a predecessor and two that link to it at the
  same time; `Short = 0`, `Long = 1` with one passing year let one kind of entry
  expire and not the other; `Limit = 2` makes the limit of `verify_chain` matter.
* `dispatch`: two jobs, each of any operation, make every crossing of one with a
  job that writes the same row or file; two versions tell a stale document from
  a current one, two seconds a shared file name from distinct ones, two attempts
  a retry.
* `incoming`: two files of one buyer and two suppliers, one of them without a
  tax number, make runs compete for partner, number and system user; a third
  fails the rules.
* `subject_requests`: one request, processed by two handlers, with a link to a
  user, to a partner or to nobody; deadlines before, on and after the day.
* `electronic_invoice`: two lines are the fewest that make two rates and a share
  to be rounded (15 cents over equal halves); two charges one for the header and
  one for a line; four requests a death, a deletion, and one that heals. The 38
  shapes are no optional element, one, all, and all but one.
* `master_data`: three primary keys and four steps let two imports race, a row
  fail and a deleted product come back; three days are before, in and after the
  validity of a rate.
* `invoice_register`: two numbers are an invoice and its credit note, or two
  drawn at the same time. Evaluations do not interact, so there is one in a
  behaviour. `Overlap = FALSE` is the documented use of `set_sequence_start`
  ("used at deployment time"): it does not run while an invoice is created.

Fairness is used in `EditLock` only, the one module with a liveness property: the
server answers requests it got, the browser acts on answers, intervals elapse and
live timers fire. Those are properties of the event loop and the web server.
Nothing is assumed of users, and a request need not get lost. A Celery task
ends after `MaxAttempts` by its counter and needs no such property.
`CHECK_DEADLOCK FALSE` is set throughout: every instance may stop, where its
bounds (ids, events, seconds, requests) are used up or all forms are closed.

## 5. Proofs

All theorems hold for any values of the constants that satisfy the named
ASSUMEs of the modules; where one has further premises they are its hypotheses.
No safety property is inductive by itself: what a job will write is in its
memory, so the invariants speak of jobs as well as of tables. TLC checked them
as invariants of the instances before they were proved. Where a theorem has
premises TLC has a counterexample without them, named below.

`InvoiceLifecycleProofs` proves `TypeCorrect` (`[]TypeOK`), `IssuedIsLocked`
(`[]LockFollowsStatus`), `ReferenceIsStorno` (`[]CancelledByIsStorno`) and
`StornoIsFrozen` (the action property `StornoFrozen`).
`TypeInv` is `TypeOK` and "the credit note of a running cancellation is known".
`LockInv` adds, for rows, `RowGood` (issued rows are locked; a reference is a
`Link` to a locked credit note in the table; a credit note is locked) and, for
tasks, `TaskGood` (the instance about to be written is good too, and agrees with
the row about being a credit note). Two facts carry it: a credit note is
issued from its INSERT on, so no stale draft of it exists, and nothing that
is issued is ever deleted from under a reference.

Four more theorems of that module are about what is locked:

* `LockedIsFrozen` (`LockedFrozen`), for one request at a time or for concurrent
  ones on invoices that are sealed from the beginning, with no new ones (`BornLocked`,
  as in `invoice_issued`). `FrozenInv` adds to `LockInv` that every instance a task may
  still write agrees with a locked row in header, lock and hash, or that its
  task is before the lock check. With drafts and two workers it is false: the
  stale PATCH of section 6.
* `SealedStaysIntact` (`[]SealedIntact`), under the same premise and
  `~LinesOfLocked`: nobody edits lines of locked invoices, which the endpoints
  would allow. A hash is computed from the row and lines in one step, and after
  that `LockedFrozen` keeps the one and the premise the other.
* `CancelledIsReversed` (`[]StornoComplete`), where no invoice is an unlocked draft or
  requests do not overlap, and `StornoStatesItsTotals` (`[]StornoTotals`), for one
  request at a time; both under `~LinesOfLocked`. `ReversalInv` adds for rows that a reference means a complete
  copy (`RowsKept`), for tasks in `cancel` what the credit note holds at each
  statement (`TasksKept`), that one being filled is in one task's hands and
  nobody refers to it (`Privates`), and that ids not given out have no lines. TLC breaks the first with
  `patch`, `cancel`, `mark_as_sent` and `save_line` by two workers on a draft
  (a stale save unlocks it, and its lines change after the copy), the second with
  `patch` and `cancel` on a sent invoice (a PATCH of the credit note loaded while
  it is filled writes the old total back).

`EditLockProofs` proves `TypeCorrect` without premises, and `HoldersAreBacked`
(`[]HeldIsBacked`) and `LockIsLease` (`LeaseKept`, the refinement of `EditLease`)
for `Faults = {}` and one form per user. `HInv` adds to `TypeOK`, form by form,
`Phase` (which requests a form can have under way in a state of its page),
`BackedBy` (a form that holds the lock, is about to learn it or gives it back,
has it in the row with a tick to spare) and `Carries` (a PATCH that has passed
the check writes its own user's lock). A tick waits for answers and heartbeats under these premises, so
a lock in use never reaches the timeout; this is also why release and PATCH,
which check and write in two statements, keep the lease.

`AuditTrailProofs` proves `TypeCorrect` (with the uniqueness of event and
primary key), `ChainLeadsBack` (`[]LinksBack`) and `VerificationExact`
(`[]VerifyExact`). `TypeInv` adds to `TypeOK` that an event_id in use is in nobody else's hands
(`Fresh`), that entries lie behind the sequence and the clock (`Behind`,
`StampedBefore`) and that direct entries have no hash (`Hashed`). `ChainInv` adds
that what a job links to was inserted before (`JobsLinkBack`): its timestamp is no
later than the clock and its key smaller than the next one; what is
deleted stays known in `gone`. `HashInv` says that every hash, inserted or waiting,
was computed from the text as logged and the entry's own link.
`ChangesAreRetained` (`RetentionKept`) needs that entries about changes carry their
ten years (`LongKept`); what goes without tampering has expired (`GoneByExpiry`).

`MasterDataProofs` proves `TypeCorrect`, which includes the unique columns, and
`GeneratedCodeIsFree` (`[]NextCodeFree`). `TypeInv` adds that primary keys in
tables and jobs lie behind the sequences (`KeysBehind`) and that jobs are well
formed (`JobOK`). `CodeInv` adds `CodesBehind`: as long as nobody gives a code of
the generated form by hand, no generated code, stored or in the memory of a job that will
write it, exceeds the primary key of its row; so one more than the highest key
is free, although the key was read before the INSERT and rows vanish and return.
`SuccessfulRowsAreThere` (`[]SuccessMeansThere`) needs of each import only that every row
it dealt with is `There` (`SuccessInv`); no step of another worker takes a partner
away without noting it. `RatesChangeOnStatedDays` (`RatesContinuous`) holds by cases on the
choice in `Effective`. `GeneratedNumberIsFree` (`[]NextNumberFree`): as long as
nobody gives a number by hand or deletes a partner, the numbers of a prefix have
no gap and rise with the keys (`NumberInv`), hence the newest partner has the highest.

`InvoiceRegisterProofs` proves `TypeCorrect`, `NumbersAreFree` (`[]NumberFree`,
for `Overlap = FALSE`), `ReportIsExact` (`[]ReportExact`) and `ExportFitsTogether`
(`[]ExportWhole`). `NumberInv` says that the sequence has passed every number
stored or drawn, and that a command that has checked its argument finds nobody
creating. `ReportInv` says that the seal of every row that was not altered is its
content, that of a row the report has listed is still that of the row, and that
nobody was blamed who was not altered. `ExportInv` says that totals are those of
the lines for every invoice and for every credit note that `cancel` is through
with (`AllAgree`), that references lead to issued rows, that the partner of a row
is there, and that what the export has read of an issued row still stands
(`ExportReads`): that is why three queries without a snapshot do.

`InvoiceDispatchProofs` proves `TypeCorrect`, `RecordsTellTruth`
(`[]TrackedMeansMailed`) and `EveryAnswerTrue` (`[]AnswersTrue`), from one invariant,
`DispatchInv`: `Honest` says that the row, and every instance a job has loaded
and may write back, records only mails there were, and `JobOK` says for each place in
a job what it has made and sent by then. A mail is never taken back, and a job
that has not come to `Deliver` has sent none.

`NamedPdfIsWhole` (`[]NamedPdfWhole`) has two premises: files of attachments can
be read, and either there is no `send_email_xml`, the one job that renders twice
(`RendersOnce`), or there are at most two jobs (`Pair`). `NamesInv` says for each job and file name how far its rendering
is (`Progress`), and for each name in use which job answers for the
file. With three jobs it fails: `send_email_xml` renders twice in one second; a
stale save removes the name it had written, so it begins the same file
again; and a third job that loaded in between writes the name back while the
file is half written.

`AuthoritiesGetXRechnung` (`[]AuthorityGetsXRechnung`) has no premise. `FormInv` asks
more of the PDFs than of what is sent: under every name lies an XRechnung, whole or
not, because `Embed` makes whole what it finds there, whichever job wrote it.

The same module proves what `ElectronicInvoice` states of the document, for any lines,
charges, amounts, rates and requests:

* `TotalsTypeCorrect` (`[]TotalsTypeOK`) and `RecalculationHeals` (`AloneHeals`).
  `HealInv` says that a request nobody overlapped (`Undisturbed`) works on rows that
  stand, and holds their aggregate when it comes to write.
* `DocumentAddsUp` (`[]AddsUp`). With two rates the first gets a rounded share of
  each allowance or charge and the last the rest, so shares sum to the whole
  however a half falls; parts that are not positive are left out on both sides.
* `DocumentStatesTheBooked` (`[]StatesTheBooked`). `TaxedInv` keeps the tax of every
  line within half a cent of its product (`Taxed`). Three roundings by rate and one by
  line, and for each allowance or charge a half cent that moves between two
  rates, give the bound (`DriftOfNone`, `DriftOfOne`, `DriftOfTwo`).
* `SchemaRejectsExactly` (`[]RejectsExactly`), for any set of shapes. Each part of a
  document is `Rising` between two places of its type, parts in the order of
  their places may be joined or left out, and for each shape that is rejected two elements
  are `Before` one another against their places (`OutOfOrder`).
* `AnswersAreExact` (`[]AnswersExactly`), by cases on what was found and reported.

Totals are folds over finite sets. No induction theorem applies to them here, so
a claim about sums takes a least counterexample instead: among
the subsets for which it fails one is of smallest cardinality (`SmallestSubset`), and it is
neither empty nor one element larger than a good one.

`IncomingInvoiceProofs` proves `TypeCorrect`, `FailureLeavesNothing`
(`[]NothingHalfBooked`) and `EveryReportTrue` (`[]ReportsTrue`). `TypeInv` adds to
`TypeOK` what a run has found out about its document by the step it is at
(`JobOK`). `NothingHalfBooked` is inductive with it, since suppliers, partners and
the system user enter the tables with the invoice and never before. `ReportInv`
adds that what is booked is what a valid document states, under a number of its own
(`BooksOK`), and that every report is borne out (`AllTold`);
steps of other runs keep it because invoices and copies are only added.

`SubjectRequestsProofs` proves `TypeCorrect`, `ErasedAccountsStayOut`
(`[]ErasedStaysOut`), `CompletedIsDone` (`[]CompletionTellsTruth`) and, for a finite
set of requests, `EveryDeadlineListed` (`[]DeadlinesListed`). `TypeInv` adds that
requests keep what was asked (`Asked`) and that a handler's state fits the
request it holds or the copy it will write back (`HandlersOK`). `OutInv` says of
accounts that one without personal data is inactive; stale copies do not break it,
since the ones that are written back whole are of partners.

Only model-checked: the liveness property `AbandonedLockExpires`, since TLAPS has
no ENABLED. No module declares a RECURSIVE operator.

## 6. Where the code and its documentation disagree

Stated in the modules as properties that the code does not have, each with the
counterexample TLC finds in the instance of its module's run (or the variation
of it that is named). They are no runs: what the runs check is what holds.

Invoices:

* `StornoSealed` – `cancel` seals the credit note before it has lines, so
  `verify_integrity` fails for every credit note with lines, and the integrity report blames it.
* `OneStornoPerInvoice` – two overlapping cancellations make two credit notes.
* `LockedFrozen` under a stale PATCH – an instance loaded as a draft overwrites
  the row of the invoice sent meanwhile, lock and hash included.
* `CancelledIsFinal` – `mark_as_paid` (rest_views.py:540) accepts a cancelled
  invoice; a file job with an old instance sets the old status back. Instance:
  `invoice_sequential` with `InitStatuses = {"SENT"}`.
* `IssuedNotDeleted` – DELETE decided on a draft that is sent before the
  statement runs.
* `TotalsSettle`, `TotalsFollowRows`, `LinesFollowCharges` – deleting a line
  recalculates nothing; two parallel line requests (InvoiceCreateModal.vue:808-825)
  may write an older aggregate last; a charge moved to another line leaves the
  first as it was.
* `NoGap` – a POST that fails after drawing, or a draft that is deleted, has used
  its number.

Edit lock:

* `ClosedFormFreesLock` – a form closed while its acquire request is on the way
  keeps the lock and renews it for ever.
* `ReleaseByHolder`, `NoSilentOverwrite`, `OneFormHolds`, `PatchRespectsLock` –
  releasing a lock that changed hands after the check; a form filled before the
  lock was granted; two tabs of one user; a PATCH that passed the check
  before another user acquired the lock. Instances: `editlock_prompt` with
  `UserOf <- Three` and `MaxVersion = 0`; as it is; with `UserOf <- TwoTabs`; with
  `Faults = {"early"}`.

Audit log:

* `UpdatesTracked` – the tracking of updates compares the row with itself and
  writes no entry. Instance: `MayFail = FALSE`.
* `TamperingShown` – removing an entry is not reported by `verify_chain`.

Files and e-mail:

* `CachedPdfCurrent` – saving a line does not remove the cached PDF, saving an
  allowance or charge does.
* `ReferencesEmbedded` – an attachment deleted while the PDF is converted, or one
  that cannot be read, is referred to by the XML and not embedded.

Incoming invoices:

* `ValidatorAnswers` – see `Validator` in section 3. Instance: `"shipped"`, no faults.
* `NothingInvented` – rules and schema let pass a date and a tax the parser
  cannot read; it books today's date and no tax.
* `PartnersDistinct` – two runs create the same buyer twice, if the numbers they
  take differ.

Data subject requests:

* `CompletedNotReprocessed` – the view reads the status before the row is locked,
  so two overlapping calls both process the request.
* `ErasedStaysErased` – a PATCH of a partner, or a settings form, loaded before
  the erasure and saved after it brings the data back.

Documents:

* `FollowsTheSchema` – `RejectsExactly` says which shapes the shipped schema rejects.
* `StatesTheBooked` without its last premise – lines that come to net zero with an
  allowance or charge of the header: the totals tax nothing, the document puts the
  charge on its last rate and taxes it, where the comment at
  invoice_models.py:570 says that the two are kept consistent.
* `HeaderChargesOnly` – the summation counts the charges of lines among those of the header.
* `ProfileChecked` – a missing or broken schema is passed over if another is there.

Master data:

* `RestockAgrees` – `needs_restock` takes zero for absent, the `low_stock` query does not.
* `DeletedStaysDeleted` – a stale save inserts a deleted product again.
* `NumberingNeverSticks` – a number given by hand, or a deleted partner, makes
  the next generated number one that is taken.
* `NoDuplicates` – two imports that both skip duplicates add the same partner.

Stated and proved, but not kept as runs since others say more: `RetentionKept`
of `AuditTrail`, `AuthorityGetsXRechnung` of `InvoiceDispatch`, and
`NextNumberFree` of `MasterData`.

Seen while reading, no sequence of steps involved: `InvoiceEditModal.vue:1083`
compares the status with `'draft'` where the API says `'DRAFT'`;
`UserProfile.record_failed_login` has no caller; the `--limit` option of
`gobd_audit` is not passed on; stock bookings are read-then-save
(rest_views.py:247-273), so of two at once one is lost; when the mail server takes a mail
and its answer is lost, the user is told to try again and the mail goes out twice.

## 7. Not modelled

* Accounts, lockout and tokens: login and token rotation are
  djangorestframework-simplejwt's, the lockout methods have no caller. What is
  left is `client.js:98`, which refreshes once per failed request.
* Front-end lists, import and export: state of one page that the server does not
  see; what the import endpoints do with rows is in `MasterData`.
* Deployment scripts: linear shell around docker, kubectl and `pg_dump`; what a
  failure leaves behind is decided by those tools.
* Companies and countries, REST plumbing, admin, health, metrics, Kubernetes and
  gateway configuration: plain tables, formatting or declarations.

Within the modelled parts: authentication and permissions, wording and layout of
answers, PDF pages and CSV files, product characteristics of a line, processing
activities, impact assessments and consent records, queries that only read, and
failures of the database other than a refused statement or a request that ends between
two statements.
