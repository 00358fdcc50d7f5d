----------------------------- MODULE AuditTrail -----------------------------
(***************************************************************************)
(* The audit log and its hash chain (models/audit.py): how entries are     *)
(* linked, stamped and inserted by requests that run at the same time, how *)
(* they expire, and what verify_chain() finds in them.                     *)
(*                                                                         *)
(* An entry is named by its event_id, and so is its hash: a hash is        *)
(* computed once, over the entry's text and the hash of its predecessor,   *)
(* and `covers' records what went into it.  `text' stands for the hashed   *)
(* columns; time runs on two scales, a clock for the order of entries and  *)
(* years for their retention.                                              *)
(***************************************************************************)
EXTENDS Integers, FiniteSets

CONSTANTS
    Writers,      \* requests and commands that write the log
    MaxEvents,    \* bound: entries ever written
    MaxClock,     \* bound: distinct timestamps
    MaxYears,     \* bound: years that pass
    Short, Long,  \* retention: one year, ten years
    Limit,        \* how many entries verify_chain() looks at
    Values,       \* contents of the one tracked model row
    Sources,      \* where entries come from in this instance
    MayFail,      \* TRUE: the log cannot always be written
    Tampering,    \* bound: rows changed or removed behind the application
    None          \* NULL, and the empty hash

Events == 1 .. MaxEvents
Kinds  == {"change",     \* CREATE, UPDATE, DELETE: tracked models and requests
           "event",      \* READ, session logins, imports, migrations
           "direct"}     \* AuditLog.objects.create(): jwt_auth, backup

ASSUME BoundsAssumption  ==
    /\ MaxEvents \in Nat \ {0} /\ MaxClock \in Nat /\ MaxYears \in Nat
    /\ Limit \in Nat /\ Tampering \in Nat
ASSUME PeriodsAssumption == Short \in Nat /\ Long \in Nat /\ Short <= Long
ASSUME SourcesAssumption ==
    Sources \subseteq Kinds \cup {"update"} /\ MayFail \in BOOLEAN
ASSUME ValuesAssumption  == Values # {}
ASSUME NoneAssumption    ==
    None \notin Int /\ None \notin [text : {"logged", "altered"},
                                    prev : Events \cup {None}]

Links == Events \cup {None}
Texts == {"logged", "altered"}

\* What calculate_entry_hash() serialises.
Covered == [text : Texts, prev : Links]

Entry == [event  : Events,
          id     : Events,
          ts     : 0 .. MaxClock,
          kind   : Kinds,
          text   : Texts,
          prev   : Links,               \* previous_entry_hash
          covers : Covered \cup {None}, \* what entry_hash was computed from
          born   : 0 .. MaxYears,
          until  : 0 .. MaxYears + Long \cup {None}]

PCs == {"idle", "compare", "link", "stamp", "insert"}

Job == [pc     : PCs,
        kind   : Kinds,
        event  : Events,
        ts     : 0 .. MaxClock,
        prev   : Links,
        covers : Covered \cup {None},
        mem    : Values,                \* the instance post_save is given
        was    : Values]                \* what save() has overwritten

AnyValue == CHOOSE v \in Values : TRUE

Idle == [pc |-> "idle", kind |-> "event", event |-> 1, ts |-> 0,
         prev |-> None, covers |-> None, mem |-> AnyValue, was |-> AnyValue]

VARIABLES
    log,        \* the table of AuditLog entries
    gone,       \* events whose entries were deleted again
    nextEvent,  \* event_ids used so far, plus one
    nextId,     \* primary key sequence
    clock,      \* the server's clock
    year,       \* years passed
    row,        \* the tracked row
    tampered,   \* rows changed or removed behind the application so far
    job         \* what each writer is doing

vars == <<log, gone, nextEvent, nextId, clock, year, row, tampered, job>>

Init ==
    /\ log = {} /\ gone = {}
    /\ nextEvent = 1 /\ nextId = 1
    /\ clock = 0 /\ year = 0
    /\ row = AnyValue
    /\ tampered = 0
    /\ job = [w \in Writers |-> Idle]

-----------------------------------------------------------------------------
(* Writing an entry: log_action().                                         *)

\* Mutation of Older: order_by("timestamp").
OlderByTime(d, e) == d.ts < e.ts

\* order_by("timestamp", "id")
Older(d, e) == d.ts < e.ts \/ (d.ts = e.ts /\ d.id < e.id)

\* order_by("-timestamp", "-id").first()
Newest(n) == \A e \in log : ~Older(n, e)

\* The period depends on the action: fields given as **kwargs come too late to
\* lengthen it.  Direct entries have none.
Retention(k) ==
    CASE k = "change" -> year + Long
      [] k = "direct" -> None
      [] OTHER        -> year + Short

\* Mutation of CalculateHash: the description is left out.
HashOfLink(text, prev) == [text |-> "logged", prev |-> prev]

CalculateHash(text, prev) == [text |-> text, prev |-> prev]

\* Mutation of EventId: default=uuid.uuid4(), evaluated once.
EventIdOnce == IF nextEvent \in Events THEN 1 ELSE nextEvent

\* default=uuid.uuid4
EventId == nextEvent

\* The hash of the newest entry, empty if there is none or it has no hash.
LastHash ==
    IF \E n \in log : Newest(n) /\ n.covers # None
      THEN (CHOOSE n \in log : Newest(n) /\ n.covers # None).event ELSE None

\* log_action() up to save(): reads the newest entry and hashes the new one.
Link(w, k) ==
    /\ EventId \in Events
    /\ nextEvent' = nextEvent + 1
    /\ job' = [job EXCEPT ![w] =
                 [Idle EXCEPT !.pc = "stamp", !.kind = k, !.event = EventId,
                    !.prev = LastHash,
                    !.covers = CalculateHash("logged", LastHash)]]
    /\ UNCHANGED <<log, gone, nextId, clock, year, row, tampered>>

\* By its method a request reads or changes, whatever it really does.
RequestKind(method) ==
    IF method \in {"POST", "PUT", "PATCH", "DELETE"} THEN "change" ELSE "event"

Log(w, k) == job[w].pc = "idle" /\ k \in Sources /\ Link(w, k)

\* The middleware, once the response is there.
LogRequest(w) == \E method \in {"GET", "POST", "PUT", "PATCH", "DELETE"} :
                     Log(w, RequestKind(method))

\* log_model_create() and log_model_delete()
LogChange(w) == Log(w, "change")

\* Session logins and logouts, migrations.
LogEvent(w) == Log(w, "event")

\* One entry for the whole of an import.
LogImport(w) == Log(w, "event")

LogAction(w) == LogRequest(w) \/ LogChange(w) \/ LogEvent(w) \/ LogImport(w)

\* AuditLog.objects.create(): neither link nor hash.
DirectCreate(w) ==
    /\ job[w].pc = "idle"
    /\ "direct" \in Sources
    /\ EventId \in Events
    /\ nextEvent' = nextEvent + 1
    /\ job' = [job EXCEPT ![w] =
                 [Idle EXCEPT !.pc = "stamp", !.kind = "direct",
                              !.event = EventId]]
    /\ UNCHANGED <<log, gone, nextId, clock, year, row, tampered>>

\* auto_now_add: the clock is read by the process, before the INSERT.
Stamp(w) ==
    /\ job[w].pc = "stamp"
    /\ job' = [job EXCEPT ![w].pc = "insert", ![w].ts = clock]
    /\ clock' \in {clock, clock + 1} \cap 0 .. MaxClock
    /\ UNCHANGED <<log, gone, nextEvent, nextId, year, row, tampered>>

Insert(w) ==
    LET j == job[w] IN
    /\ j.pc = "insert"
    /\ nextId \in Events   \* bound
    /\ log' = log \cup {[event |-> j.event, id |-> nextId, ts |-> j.ts,
                         kind |-> j.kind, text |-> "logged",
                         prev |-> j.prev, covers |-> j.covers,
                         born |-> year, until |-> Retention(j.kind)]}
    /\ nextId' = nextId + 1
    /\ job' = [job EXCEPT ![w] = Idle]
    /\ UNCHANGED <<gone, nextEvent, clock, year, row, tampered>>

\* log_action() fails or the process dies; the middleware goes on without.
Fail(w) ==
    /\ MayFail
    /\ job[w].pc \in {"compare", "link", "insert"}
    /\ job' = [job EXCEPT ![w] = Idle]
    /\ UNCHANGED <<log, gone, nextEvent, nextId, clock, year, row, tampered>>

-----------------------------------------------------------------------------
(* Tracked models: post_save runs after the UPDATE.                        *)

Save(w) ==
    /\ job[w].pc = "idle"
    /\ "update" \in Sources
    /\ \E v \in Values :
         /\ row' = v
         /\ job' = [job EXCEPT ![w] =
                      [Idle EXCEPT !.pc = "compare", !.mem = v, !.was = row]]
    /\ UNCHANGED <<log, gone, nextEvent, nextId, clock, year, tampered>>

\* log_model_update(): what it reads as the old values is the row just saved.
LogModelUpdate(w) ==
    /\ job[w].pc = "compare"
    /\ job' = [job EXCEPT ![w] = IF row = job[w].mem THEN Idle
                                 ELSE [@ EXCEPT !.pc = "link"]]
    /\ UNCHANGED <<log, gone, nextEvent, nextId, clock, year, row, tampered>>

LogUpdate(w) ==
    /\ job[w].pc = "link"
    /\ Link(w, "change")

-----------------------------------------------------------------------------
(* Retention.                                                              *)

Quiet == \A w \in Writers : job[w].pc = "idle"

Expired(e) == e.until # None /\ e.until < year

Delete(es) ==
    /\ log' = log \ es
    /\ gone' = gone \cup {e.event : e \in es}
    /\ UNCHANGED <<nextEvent, nextId, clock, year, row, job>>

CleanupExpired ==
    /\ \E e \in log : Expired(e)
    /\ Delete({e \in log : Expired(e)})
    /\ UNCHANGED tampered

\* AuditLogAdmin: single entries, once they have expired.
AdminDelete ==
    /\ \E e \in log : Expired(e) /\ Delete({e})
    /\ UNCHANGED tampered

\* No request lasts a year.
YearPasses ==
    /\ year < MaxYears
    /\ Quiet
    /\ year' = year + 1
    /\ UNCHANGED <<log, gone, nextEvent, nextId, clock, row, tampered, job>>

-----------------------------------------------------------------------------
(* What the chain is there to show: rows changed or removed by other means *)
(* than the application; bound: not while a request is running.            *)

Alter ==
    /\ tampered < Tampering
    /\ Quiet
    /\ tampered' = tampered + 1
    /\ \E e \in log :
         log' = (log \ {e}) \cup {[e EXCEPT !.text = "altered"]}
    /\ UNCHANGED <<gone, nextEvent, nextId, clock, year, row, job>>

Remove ==
    /\ tampered < Tampering
    /\ Quiet
    /\ tampered' = tampered + 1
    /\ \E e \in log : Delete({e})

Next ==
    \/ \E w \in Writers :
         \/ LogAction(w) \/ DirectCreate(w) \/ Stamp(w) \/ Insert(w) \/ Fail(w)
         \/ Save(w) \/ LogModelUpdate(w) \/ LogUpdate(w)
    \/ CleanupExpired \/ AdminDelete \/ YearPasses
    \/ Alter \/ Remove

Spec == Init /\ [][Next]_vars

-----------------------------------------------------------------------------
(* verify_chain().                                                         *)

\* The first n entries by age.
FirstEntries(n) ==
    {e \in log : Cardinality({d \in log : Older(d, e)}) < n}

Violations(n) ==
    {e \in FirstEntries(n) :
        e.covers # None /\ e.covers # CalculateHash(e.text, e.prev)}

-----------------------------------------------------------------------------
(* Properties.                                                             *)

\* Types, and event_id and the primary key are unique.
TypeOK ==
    /\ log \subseteq Entry
    /\ gone \subseteq Events
    /\ nextEvent \in 1 .. MaxEvents + 1 /\ nextId \in 1 .. MaxEvents + 1
    /\ clock \in 0 .. MaxClock /\ year \in 0 .. MaxYears
    /\ row \in Values
    /\ tampered \in 0 .. Tampering
    /\ job \in [Writers -> Job]
    /\ \A d, e \in log : d.event = e.event \/ d.id = e.id => d = e

\* verify_chain() reports exactly the hashed entries that were changed, among
\* those it looks at: concurrent writers, entries without a hash and the
\* deletion of expired entries in the middle of the chain raise no alarm.
VerifyExact ==
    Violations(Limit) =
        {e \in FirstEntries(Limit) : e.text = "altered" /\ e.kind # "direct"}

\* The chain leads back in the order in which verify_chain() walks it: the
\* previous hash of an entry is that of an older entry, or of one deleted
\* since, whatever requests were linking and stamping at the same time.
LinksBack ==
    \A e \in log :
        \/ e.prev = None
        \/ e.prev \in gone
        \/ \E d \in log : /\ d.event = e.prev
                          /\ d.kind # "direct"
                          /\ Older(d, e)

\* Entries about model changes stay for ten years, whatever cleanup and the
\* admin delete in the meantime.
RetentionKept ==
    [][\A e \in log :
         /\ e.kind = "change"
         /\ tampered' = tampered
         /\ ~\E d \in log' : d.event = e.event
         => year - e.born > Long]_vars

\* calculate_entry_hash(): the chain proves that no entry was changed,
\* deleted or inserted.
TamperingShown == tampered > 0 => Violations(MaxEvents) # {}

\* signals.py: update operations are tracked.  A save() that changed the row
\* does not end without an entry (to be read where logging cannot fail).
UpdatesTracked ==
    [][\A w \in Writers :
         job[w].pc = "compare" /\ job'[w].pc = "idle"
             => job[w].was = job[w].mem]_vars
=============================================================================
