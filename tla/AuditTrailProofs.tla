-------------------------- MODULE AuditTrailProofs --------------------------
(***************************************************************************)
(* Proofs about AuditTrail, for any writers, bounds, retention periods and *)
(* sources of entries: entries stay well formed and unique, the hash chain *)
(* leads back in the order of verification, which finds exactly what was   *)
(* altered, and entries about changes stay for ten years.                  *)
(***************************************************************************)
EXTENDS AuditTrail, TLAPS

USE BoundsAssumption, PeriodsAssumption

-----------------------------------------------------------------------------
(* The inductive invariant.                                                *)

Busy(w) == job[w].pc \in {"stamp", "insert"}

\* An event_id in use by an unfinished job is in nobody else's hands.
Fresh ==
    \A w \in Writers : Busy(w) =>
        /\ job[w].event < nextEvent
        /\ \A e \in log : e.event # job[w].event
        /\ \A v \in Writers \ {w} : Busy(v) => job[v].event # job[w].event

\* Entries lie behind the sequence, the event_ids and the clock.
Behind ==
    \A e \in log : e.event < nextEvent /\ e.id < nextId /\ e.ts <= clock

\* Only direct entries come without a hash.
Hashed ==
    /\ \A e \in log : e.kind = "direct" => e.covers = None
    /\ \A w \in Writers : Busy(w) =>
         (job[w].kind = "direct" => job[w].covers = None)

\* A timestamp waiting to be inserted has been read from the clock.
StampedBefore == \A w \in Writers : job[w].pc = "insert" => job[w].ts <= clock

TypeInv == TypeOK /\ Fresh /\ Behind /\ Hashed /\ StampedBefore

\* p is the hash of a linked entry with a timestamp of at most t, or of one
\* that was deleted.
Known(p, t) ==
    \/ p = None
    \/ p \in gone
    \/ \E d \in log : d.event = p /\ d.kind # "direct" /\ d.ts <= t

\* What a job has read stays older than what it will insert.
JobsLinkBack ==
    \A w \in Writers :
        /\ job[w].pc = "stamp"  => Known(job[w].prev, clock)
        /\ job[w].pc = "insert" => Known(job[w].prev, job[w].ts)

ChainInv == TypeInv /\ LinksBack /\ JobsLinkBack

-----------------------------------------------------------------------------
(* Types of the building blocks.                                           *)

LEMMA CoveredType ==
    ASSUME NEW t \in Texts, NEW p \in Links
    PROVE  CalculateHash(t, p) \in Covered /\ CalculateHash(t, p) # None
  BY NoneAssumption DEF CalculateHash, Covered, Texts, Links

LEMMA LastHashType == ASSUME TypeOK PROVE LastHash \in Links
  BY DEF LastHash, TypeOK, Entry, Links

LEMMA RetentionType ==
    ASSUME NEW k \in Kinds, year \in 0 .. MaxYears
    PROVE  Retention(k) \in 0 .. MaxYears + Long \cup {None}
  BY DEF Retention

\* The facts about a writer's job and about an entry that the steps use.
LEMMA JobFacts ==
    ASSUME TypeOK, NEW w \in Writers
    PROVE  /\ job[w] \in Job /\ job[w].pc \in PCs /\ job[w].kind \in Kinds
           /\ job[w].event \in Events /\ job[w].ts \in 0 .. MaxClock
           /\ job[w].prev \in Links /\ job[w].covers \in Covered \cup {None}
           /\ job[w].mem \in Values /\ job[w].was \in Values
  BY DEF TypeOK, Job

LEMMA EntryFacts ==
    ASSUME TypeOK, NEW e \in log
    PROVE  /\ e \in Entry /\ e.event \in Events /\ e.id \in Events
           /\ e.ts \in 0 .. MaxClock /\ e.kind \in Kinds /\ e.text \in Texts
           /\ e.prev \in Links /\ e.covers \in Covered \cup {None}
  BY DEF TypeOK, Entry

LEMMA IdleType == Idle \in Job
<1>1. AnyValue \in Values
  BY ValuesAssumption DEF AnyValue
<1>2. 1 \in Events /\ 0 \in 0 .. MaxClock
  BY DEF Events
<1> QED  BY <1>1, <1>2 DEF Idle, Job, PCs, Kinds, Links

\* One writer's job is replaced.
LEMMA SetJob ==
    ASSUME TypeOK, NEW w \in Writers, NEW j \in Job,
           job' = [job EXCEPT ![w] = j]
    PROVE  /\ job' \in [Writers -> Job]
           /\ job'[w] = j
           /\ \A v \in Writers \ {w} : job'[v] = job[v]
  BY DEF TypeOK

-----------------------------------------------------------------------------
(* Each step preserves TypeInv.                                            *)

LEMMA TypeInit == Init => TypeInv
<1> SUFFICES ASSUME Init PROVE TypeInv
  OBVIOUS
<1>1. TypeOK
  <2>1. row \in Values
    BY ValuesAssumption DEF Init, AnyValue
  <2> QED  BY <2>1, IdleType DEF Init, TypeOK
<1>2. \A w \in Writers : ~Busy(w)
  BY DEF Init, Busy, Idle
<1> QED  BY <1>1, <1>2 DEF Init, TypeInv, Fresh, Behind, Hashed, StampedBefore,
                       Busy

\* A writer takes a job in which no entry is waiting to be inserted.
LEMMA TypeSettle ==
    ASSUME TypeInv, NEW w \in Writers, NEW j \in Job,
           j.pc \notin {"stamp", "insert"},
           job' = [job EXCEPT ![w] = j], row' \in Values,
           UNCHANGED <<log, gone, nextEvent, nextId, clock, year, tampered>>
    PROVE  TypeInv'
<1> USE DEF TypeInv
<1>1. /\ job' \in [Writers -> Job] /\ job'[w] = j
      /\ \A v \in Writers \ {w} : job'[v] = job[v]
  BY SetJob
<1>2. TypeOK'
  BY <1>1 DEF TypeOK
<1>3. \A v \in Writers : Busy(v)' => v # w /\ Busy(v) /\ job'[v] = job[v]
  BY <1>1 DEF Busy
<1>4. StampedBefore'
  BY <1>1 DEF StampedBefore
<1> QED  BY <1>2, <1>3, <1>4 DEF Fresh, Behind, Hashed

\* A writer takes a new event_id.
LEMMA TypeTakeEvent ==
    ASSUME TypeInv, NEW w \in Writers, NEW j \in Job,
           j.pc = "stamp", j.event = nextEvent, nextEvent \in Events,
           j.kind = "direct" => j.covers = None,
           job' = [job EXCEPT ![w] = j], nextEvent' = nextEvent + 1,
           UNCHANGED <<log, gone, nextId, clock, year, row, tampered>>
    PROVE  TypeInv'
<1> USE DEF TypeInv
<1>1. /\ job' \in [Writers -> Job] /\ job'[w] = j
      /\ \A v \in Writers \ {w} : job'[v] = job[v]
  BY SetJob
<1>2. nextEvent \in 1 .. MaxEvents + 1 /\ nextEvent' \in 1 .. MaxEvents + 1
  BY DEF TypeOK, Events
<1>3. TypeOK'
  BY <1>1, <1>2 DEF TypeOK
<1>4. \A e \in log : e.event < nextEvent /\ e.event \in Int
  BY EntryFacts DEF Behind, Events
<1>5. \A v \in Writers \ {w} :
        Busy(v)' => Busy(v) /\ job'[v] = job[v] /\ job[v].event < nextEvent
                    /\ job[v].event \in Int
  BY <1>1, JobFacts DEF Busy, Fresh, Events
<1>6. Fresh'
  <2> SUFFICES ASSUME NEW v \in Writers, Busy(v)'
               PROVE  (/\ job[v].event < nextEvent
                       /\ \A e \in log : e.event # job[v].event
                       /\ \A u \in Writers \ {v} :
                            Busy(u) => job[u].event # job[v].event)'
    BY DEF Fresh
  <2>1. CASE v = w
    BY <2>1, <1>1, <1>2, <1>4, <1>5
  <2>2. CASE v # w
    <3>1. \A u \in Writers \ {v} : Busy(u)' => job'[u].event # job'[v].event
      BY <2>2, <1>1, <1>2, <1>5 DEF Fresh
    <3> QED  BY <2>2, <3>1, <1>1, <1>2, <1>5 DEF Fresh
  <2> QED  BY <2>1, <2>2
<1>7. Behind'
  BY <1>2, <1>4 DEF Behind
<1>8. Hashed'
  BY <1>1, <1>5 DEF Hashed
<1>9. StampedBefore'
  BY <1>1 DEF StampedBefore
<1> QED  BY <1>3, <1>6, <1>7, <1>8, <1>9

LEMMA TypeLink ==
    ASSUME TypeInv, NEW w \in Writers, NEW k \in Kinds \ {"direct"}, Link(w, k)
    PROVE  TypeInv'
<1> DEFINE j == [Idle EXCEPT !.pc = "stamp", !.kind = k, !.event = EventId,
                             !.prev = LastHash,
                             !.covers = CalculateHash("logged", LastHash)]
<1>1. LastHash \in Links /\ CalculateHash("logged", LastHash) \in Covered
  BY LastHashType, CoveredType DEF TypeInv, Texts
<1>2. j \in Job /\ j.pc = "stamp" /\ j.event = nextEvent /\ j.kind = k
  BY <1>1, IdleType DEF Link, Job, PCs, EventId, Idle
<1>3. job' = [job EXCEPT ![w] = j]
  BY DEF Link
<1> QED
  <2> HIDE DEF j
  <2> QED  BY <1>2, <1>3, TypeTakeEvent DEF Link, EventId

LEMMA TypeDirectCreate ==
    ASSUME TypeInv, NEW w \in Writers, DirectCreate(w)
    PROVE  TypeInv'
<1> DEFINE j == [Idle EXCEPT !.pc = "stamp", !.kind = "direct",
                             !.event = EventId]
<1>1. /\ j \in Job /\ j.pc = "stamp" /\ j.event = nextEvent
      /\ j.covers = None
  BY IdleType DEF DirectCreate, Job, PCs, Kinds, EventId, Idle
<1>2. job' = [job EXCEPT ![w] = j]
  BY DEF DirectCreate
<1> QED
  <2> HIDE DEF j
  <2> QED  BY <1>1, <1>2, TypeTakeEvent DEF DirectCreate, EventId

LEMMA TypeStamp ==
    ASSUME TypeInv, NEW w \in Writers, Stamp(w)
    PROVE  TypeInv'
<1> USE DEF TypeInv
<1> DEFINE j == [job[w] EXCEPT !.pc = "insert", !.ts = clock]
<1>1. clock \in 0 .. MaxClock /\ clock' \in 0 .. MaxClock /\ clock <= clock'
  BY DEF Stamp, TypeOK
<1>2. /\ j \in Job /\ j.event = job[w].event /\ j.kind = job[w].kind
      /\ j.covers = job[w].covers
  BY <1>1, JobFacts DEF Job, PCs
<1>3. job' = [job EXCEPT ![w] = j] /\ j.pc = "insert" /\ j.ts = clock
  BY DEF Stamp, TypeOK, Job
<1> HIDE DEF j
<1>4. /\ job' \in [Writers -> Job] /\ job'[w] = j
      /\ \A v \in Writers \ {w} : job'[v] = job[v]
  BY <1>2, <1>3, SetJob
<1>5. \A v \in Writers :
        /\ Busy(v)' => Busy(v)
        /\ job'[v].event = job[v].event /\ job'[v].kind = job[v].kind
        /\ job'[v].covers = job[v].covers
  BY <1>2, <1>4 DEF Busy, Stamp
<1>6. TypeOK'
  BY <1>1, <1>4 DEF Stamp, TypeOK
<1>7. log' = log /\ nextEvent' = nextEvent
  BY DEF Stamp
<1>8. Fresh'
  BY <1>5, <1>7 DEF Fresh
<1>9. Hashed'
  BY <1>5, <1>7 DEF Hashed
<1>10. Behind'
  BY <1>1, EntryFacts DEF Behind, Stamp
<1>11. StampedBefore'
  <2>1. \A v \in Writers : job[v].ts \in Int
    BY JobFacts
  <2> QED  BY <1>1, <1>3, <1>4, <2>1 DEF StampedBefore
<1> QED  BY <1>6, <1>8, <1>9, <1>10, <1>11

LEMMA TypeInsert ==
    ASSUME TypeInv, NEW w \in Writers, Insert(w)
    PROVE  TypeInv'
<1> USE DEF TypeInv
<1> DEFINE n == [event |-> job[w].event, id |-> nextId, ts |-> job[w].ts,
                 kind |-> job[w].kind, text |-> "logged",
                 prev |-> job[w].prev, covers |-> job[w].covers,
                 born |-> year, until |-> Retention(job[w].kind)]
<1>1. nextId \in Events /\ nextId' = nextId + 1 /\ nextId' \in 1 .. MaxEvents + 1
  BY DEF Insert, Events
<1>2. n \in Entry
  <2>1. year \in 0 .. MaxYears
    BY DEF TypeOK
  <2> QED  BY <1>1, <2>1, JobFacts, RetentionType DEF Entry, Texts
<1>3. /\ n.event = job[w].event /\ n.id = nextId /\ n.ts = job[w].ts
      /\ n.kind = job[w].kind /\ n.covers = job[w].covers
  OBVIOUS
<1>4. log' = log \cup {n}
  BY DEF Insert
<1> HIDE DEF n
<1>5. /\ job' \in [Writers -> Job] /\ job'[w] = Idle
      /\ \A v \in Writers \ {w} : job'[v] = job[v]
  BY IdleType, SetJob DEF Insert
<1>6. \A e \in log : /\ e.event # n.event /\ e.id < nextId
                     /\ e.id \in Int /\ e.event \in Int
  BY <1>3, EntryFacts DEF Insert, Busy, Fresh, Behind, Events
<1>7. TypeOK'
  <2>1. \A d, e \in log' : d.event = e.event \/ d.id = e.id => d = e
    BY <1>1, <1>3, <1>4, <1>6 DEF TypeOK, Events
  <2> QED  BY <1>1, <1>2, <1>4, <1>5, <2>1 DEF Insert, TypeOK
<1>8. \A v \in Writers : Busy(v)' => v # w /\ Busy(v) /\ job'[v] = job[v]
  BY <1>5 DEF Busy, Idle
<1>9. Busy(w)
  BY DEF Busy, Insert
<1>10. Fresh'
  BY <1>3, <1>4, <1>8, <1>9 DEF Fresh, Insert
<1>11. Behind'
  <2>1. n.ts <= clock
    BY <1>3 DEF Insert, StampedBefore
  <2> QED  BY <1>1, <1>3, <1>4, <1>6, <1>9, <2>1 DEF Behind, Fresh, Insert, Events
<1>12. Hashed'
  BY <1>3, <1>4, <1>8, <1>9 DEF Hashed
<1>13. StampedBefore'
  BY <1>5 DEF StampedBefore, Insert, Idle
<1> QED  BY <1>7, <1>10, <1>11, <1>12, <1>13

\* Entries disappear.
LEMMA TypeDelete ==
    ASSUME TypeInv, NEW es \in SUBSET log, Delete(es),
           tampered' \in 0 .. Tampering
    PROVE  TypeInv'
<1> USE DEF TypeInv
<1>1. log' \subseteq log
  BY DEF Delete
<1>2. TypeOK'
  <2>1. gone' \subseteq Events
    BY EntryFacts DEF Delete, TypeOK
  <2> QED  BY <1>1, <2>1 DEF Delete, TypeOK
<1> QED  BY <1>1, <1>2 DEF Delete, Fresh, Behind, Hashed, Busy, StampedBefore

LEMMA TypeAlter == ASSUME TypeInv, Alter PROVE TypeInv'
<1> USE DEF TypeInv
<1> PICK e \in log : log' = (log \ {e}) \cup {[e EXCEPT !.text = "altered"]}
  BY DEF Alter
<1> DEFINE a == [e EXCEPT !.text = "altered"]
<1>1. /\ a \in Entry /\ a.event = e.event /\ a.id = e.id /\ a.ts = e.ts
      /\ a.kind = e.kind /\ a.covers = e.covers
  BY EntryFacts DEF Entry, Texts
<1>2. log' = (log \ {e}) \cup {a}
  OBVIOUS
<1> HIDE DEF a
<1>3. TypeOK'
  <2>1. tampered' \in 0 .. Tampering
    BY BoundsAssumption DEF Alter, TypeOK
  <2>2. \A c, d \in log' : c.event = d.event \/ c.id = d.id => c = d
    BY <1>1, <1>2 DEF TypeOK
  <2> QED  BY <1>1, <1>2, <2>1, <2>2 DEF Alter, TypeOK
<1>4. Fresh'
  BY <1>1, <1>2 DEF Alter, Fresh, Busy
<1>5. Behind' /\ Hashed' /\ StampedBefore'
  BY <1>1, <1>2 DEF Alter, Behind, Hashed, Busy, StampedBefore
<1> QED  BY <1>3, <1>4, <1>5

\* Fail, Save and LogModelUpdate leave no entry waiting to be inserted.
LEMMA TypeIdleSteps ==
    ASSUME TypeInv, NEW w \in Writers,
           Fail(w) \/ Save(w) \/ LogModelUpdate(w)
    PROVE  TypeInv'
<1>1. row \in Values /\ job[w] \in Job
  BY JobFacts DEF TypeInv, TypeOK
<1>2. CASE Fail(w)
  BY <1>1, <1>2, IdleType, TypeSettle DEF Fail, Idle
<1>3. CASE Save(w)
  <2>1. PICK v \in Values :
          /\ row' = v
          /\ job' = [job EXCEPT ![w] =
                       [Idle EXCEPT !.pc = "compare", !.mem = v, !.was = row]]
    BY <1>3 DEF Save
  <2> DEFINE j == [Idle EXCEPT !.pc = "compare", !.mem = v, !.was = row]
  <2>2. j \in Job /\ j.pc = "compare"
    BY <1>1, IdleType DEF Job, PCs, Idle
  <2>3. job' = [job EXCEPT ![w] = j]
    BY <2>1
  <2> HIDE DEF j
  <2> QED  BY <1>3, <2>1, <2>2, <2>3, TypeSettle DEF Save
<1>4. CASE LogModelUpdate(w)
  <2> DEFINE j == [job[w] EXCEPT !.pc = "link"]
  <2>1. j \in Job /\ j.pc = "link" /\ Idle.pc = "idle"
    BY <1>1 DEF Job, PCs, Idle
  <2>2. \/ job' = [job EXCEPT ![w] = j]
        \/ job' = [job EXCEPT ![w] = Idle]
    BY <1>4 DEF LogModelUpdate, TypeInv, TypeOK
  <2> HIDE DEF j
  <2> QED  BY <1>1, <1>4, <2>1, <2>2, IdleType, TypeSettle DEF LogModelUpdate
<1> QED  BY <1>2, <1>3, <1>4

\* Whatever calls log_action() links an entry of a change or of an event.
LEMMA LogsOf ==
    ASSUME NEW w, LogAction(w)
    PROVE  \E k \in {"change", "event"} : Link(w, k)
  BY DEF LogAction, LogRequest, LogChange, LogEvent, LogImport, Log, RequestKind

LEMMA TypeStep == TypeInv /\ [Next]_vars => TypeInv'
<1> SUFFICES ASSUME TypeInv, [Next]_vars PROVE TypeInv'
  OBVIOUS
<1>1. tampered \in 0 .. Tampering
  BY DEF TypeInv, TypeOK
<1>2. CASE \E w \in Writers : LogAction(w) \/ LogUpdate(w)
  <2>1. PICK w \in Writers : \E k \in Kinds \ {"direct"} : Link(w, k)
    BY <1>2, LogsOf DEF LogUpdate, Kinds
  <2> QED  BY <2>1, TypeLink
<1>3. CASE \E w \in Writers : DirectCreate(w)
  BY <1>3, TypeDirectCreate
<1>4. CASE \E w \in Writers : Stamp(w)
  BY <1>4, TypeStamp
<1>5. CASE \E w \in Writers : Insert(w)
  BY <1>5, TypeInsert
<1>6. CASE \E w \in Writers : Fail(w) \/ Save(w) \/ LogModelUpdate(w)
  BY <1>6, TypeIdleSteps
<1>7. CASE CleanupExpired
  BY <1>1, <1>7, TypeDelete DEF CleanupExpired
<1>8. CASE AdminDelete
  BY <1>1, <1>8, TypeDelete DEF AdminDelete
<1>9. CASE YearPasses
  BY <1>9 DEF YearPasses, TypeInv, TypeOK, Fresh, Behind, Hashed,
              StampedBefore, Busy
<1>10. CASE Alter
  BY <1>10, TypeAlter
<1>11. CASE Remove
  <2>1. tampered' \in 0 .. Tampering
    BY <1>1, <1>11 DEF Remove
  <2> QED  BY <2>1, <1>11, TypeDelete DEF Remove
<1>12. CASE UNCHANGED vars
  BY <1>12 DEF vars, TypeInv, TypeOK, Fresh, Behind, Hashed, StampedBefore,
               Busy
<1> QED
  BY <1>2, <1>3, <1>4, <1>5, <1>6, <1>7, <1>8, <1>9, <1>10, <1>11, <1>12
  DEF Next

\* Entries are well formed, and event_id and primary key stay unique, whatever
\* the writers, cleanup and the admin do.
THEOREM TypeCorrect == Spec => []TypeOK
<1>1. TypeInv => TypeOK
  BY DEF TypeInv
<1> QED  BY <1>1, TypeInit, TypeStep, PTL DEF Spec

-----------------------------------------------------------------------------
(* The chain.                                                              *)

\* The hash a new entry links to is that of an entry linked before now.
LEMMA LastHashKnown == ASSUME TypeInv PROVE Known(LastHash, clock)
<1>1. CASE \E n \in log : Newest(n) /\ n.covers # None
  <2> DEFINE m == CHOOSE n \in log : Newest(n) /\ n.covers # None
  <2>1. m \in log /\ m.covers # None
    BY <1>1
  <2>2. m.kind # "direct" /\ m.ts <= clock
    BY <2>1 DEF TypeInv, Hashed, Behind
  <2> QED  BY <1>1, <2>1, <2>2 DEF LastHash, Known
<1>2. CASE ~\E n \in log : Newest(n) /\ n.covers # None
  BY <1>2 DEF LastHash, Known
<1> QED  BY <1>1, <1>2

\* Known and LinksBack survive every change of the log that keeps what an
\* entry is linked by or records its event as gone.
Keeps ==
    /\ gone \subseteq gone'
    /\ \A d \in log : \/ d.event \in gone'
                      \/ \E c \in log' : /\ c.event = d.event /\ c.id = d.id
                                         /\ c.ts = d.ts /\ c.kind = d.kind

LEMMA KnownKept ==
    ASSUME Keeps, NEW p, NEW s \in Int, NEW t \in Int, s <= t, TypeInv,
           Known(p, s)
    PROVE  Known(p, t)'
<1>1. CASE p = None \/ p \in gone
  BY <1>1 DEF Keeps, Known
<1>2. CASE \E d \in log : d.event = p /\ d.kind # "direct" /\ d.ts <= s
  <2>1. PICK d \in log : d.event = p /\ d.kind # "direct" /\ d.ts <= s
    BY <1>2
  <2>2. d.ts \in Int
    BY <2>1, EntryFacts DEF TypeInv
  <2> QED  BY <2>1, <2>2 DEF Keeps, Known
<1> QED  BY <1>1, <1>2 DEF Known

\* The part of LinksBack that is about one link.
LeadsBack(p, ts, id) ==
    \/ p = None
    \/ p \in gone
    \/ \E d \in log : /\ d.event = p /\ d.kind # "direct"
                      /\ d.ts < ts \/ (d.ts = ts /\ d.id < id)

LEMMA LinksBackAsLeads ==
    LinksBack <=> \A e \in log : LeadsBack(e.prev, e.ts, e.id)
  BY DEF LinksBack, LeadsBack, Older

LEMMA LeadsBackKept ==
    ASSUME Keeps, NEW p, NEW t, NEW i, LeadsBack(p, t, i)
    PROVE  LeadsBack(p, t, i)'
  BY DEF Keeps, LeadsBack

\* What an unfinished job has read, written without reference to other jobs.
ReadsBack(j) ==
    /\ j.pc = "stamp"  => Known(j.prev, clock)
    /\ j.pc = "insert" => Known(j.prev, j.ts)

LEMMA JobsLinkBackAsReads ==
    JobsLinkBack <=> \A w \in Writers : ReadsBack(job[w])
  BY DEF JobsLinkBack, ReadsBack

LEMMA ReadsBackKept ==
    ASSUME Keeps, TypeInv, clock' \in Int, clock <= clock', NEW j \in Job,
           ReadsBack(j)
    PROVE  ReadsBack(j)'
<1>1. clock \in Int /\ j.ts \in Int /\ j.ts <= j.ts /\ j' = j
  BY DEF TypeInv, TypeOK, Job
<1>2. j.pc = "stamp" => Known(j.prev, clock)'
  <2> PICK now \in Int : now = clock
    BY <1>1
  <2> PICK later \in Int : later = clock'
    OBVIOUS
  <2> SUFFICES ASSUME Known(j.prev, now) PROVE Known(j.prev, later)'
    BY <1>1 DEF ReadsBack, Known
  <2> QED  BY <1>1, KnownKept
<1>3. j.pc = "insert" => Known(j.prev, j.ts)'
  <2>1. SUFFICES ASSUME Known(j.prev, j.ts) PROVE Known(j.prev, j.ts)'
    BY DEF ReadsBack
  <2> QED  BY <2>1, <1>1, KnownKept
<1> QED  BY <1>2, <1>3 DEF ReadsBack

\* Jobs that a step does not touch, or in which nothing is linked.
LEMMA JobKept ==
    ASSUME Keeps, TypeInv, JobsLinkBack, clock' \in Int, clock <= clock',
           NEW w \in Writers,
           job'[w] = job[w] \/ job'[w].pc \notin {"stamp", "insert"}
    PROVE  (ReadsBack(job[w]))'
<1>1. CASE job'[w] = job[w]
  <2> PICK j \in Job : j = job[w]
    BY JobFacts DEF TypeInv
  <2>1. ReadsBack(j)
    BY JobsLinkBackAsReads
  <2>2. ReadsBack(j)'
    BY <2>1, ReadsBackKept
  <2> QED  BY <1>1, <2>2 DEF ReadsBack
<1>2. CASE job'[w].pc \notin {"stamp", "insert"}
  BY <1>2 DEF ReadsBack
<1> QED  BY <1>1, <1>2

LEMMA ClockType == ASSUME TypeInv PROVE clock \in Int
  BY DEF TypeInv, TypeOK

LEMMA ChainInit == Init => ChainInv
<1> SUFFICES ASSUME Init PROVE ChainInv
  OBVIOUS
<1>1. LinksBack
  BY DEF Init, LinksBack
<1>2. JobsLinkBack
  BY DEF Init, JobsLinkBack, Idle
<1> QED  BY <1>1, <1>2, TypeInit DEF ChainInv

\* A step that leaves the entries alone.
LEMMA ChainSameLog ==
    ASSUME ChainInv, UNCHANGED <<log, gone>>, clock' \in Int, clock <= clock',
           \A w \in Writers : \/ job'[w] = job[w]
                              \/ job'[w].pc \notin {"stamp", "insert"}
                              \/ (ReadsBack(job[w]))'
    PROVE  LinksBack' /\ JobsLinkBack'
<1> USE DEF ChainInv
<1>1. Keeps
  BY DEF Keeps
<1>2. LinksBack'
  BY DEF LinksBack, Older
<1>3. \A w \in Writers : (ReadsBack(job[w]))'
  BY <1>1, JobKept
<1> QED  BY <1>2, <1>3 DEF JobsLinkBack, ReadsBack

LEMMA ChainLink ==
    ASSUME ChainInv, NEW w \in Writers, NEW k \in Kinds, Link(w, k)
    PROVE  LinksBack' /\ JobsLinkBack'
<1>1. job \in [Writers -> Job]
  BY DEF ChainInv, TypeInv, TypeOK
<1>2. Known(LastHash, clock)
  BY LastHashKnown DEF ChainInv
<1>3. job'[w].pc = "stamp" /\ job'[w].prev = LastHash
  BY <1>1 DEF Link, Idle
<1>4. (ReadsBack(job[w]))'
  BY <1>2, <1>3 DEF ReadsBack, Known, Link
<1>5. \A v \in Writers \ {w} : job'[v] = job[v]
  BY <1>1 DEF Link
<1> QED  BY <1>4, <1>5, ClockType, ChainSameLog DEF Link, ChainInv

LEMMA ChainDirectCreate ==
    ASSUME ChainInv, NEW w \in Writers, DirectCreate(w)
    PROVE  LinksBack' /\ JobsLinkBack'
<1>1. job \in [Writers -> Job]
  BY DEF ChainInv, TypeInv, TypeOK
<1>2. job'[w].pc = "stamp" /\ job'[w].prev = None
  BY <1>1 DEF DirectCreate, Idle
<1>3. (ReadsBack(job[w]))'
  BY <1>2 DEF ReadsBack, Known
<1>4. \A v \in Writers \ {w} : job'[v] = job[v]
  BY <1>1 DEF DirectCreate
<1> QED  BY <1>3, <1>4, ClockType, ChainSameLog DEF DirectCreate, ChainInv

\* The timestamp is read after the predecessor.
LEMMA ChainStamp ==
    ASSUME ChainInv, NEW w \in Writers, Stamp(w)
    PROVE  LinksBack' /\ JobsLinkBack'
<1>1. job \in [Writers -> Job]
  BY DEF ChainInv, TypeInv, TypeOK
<1>2. /\ job'[w].pc = "insert" /\ job'[w].ts = clock
      /\ job'[w].prev = job[w].prev
  BY <1>1 DEF Stamp, Job
<1>3. Known(job[w].prev, clock)
  BY DEF ChainInv, JobsLinkBack, Stamp
<1>4. (ReadsBack(job[w]))'
  <2>1. log' = log /\ gone' = gone
    BY DEF Stamp
  <2>2. (Known(job[w].prev, job[w].ts))'
    BY <1>2, <1>3, <2>1 DEF Known
  <2> QED  BY <1>2, <2>2 DEF ReadsBack
<1>5. \A v \in Writers \ {w} : job'[v] = job[v]
  BY <1>1 DEF Stamp
<1>6. clock \in Int /\ clock' \in Int /\ clock <= clock'
  BY ClockType DEF Stamp, ChainInv
<1> QED  BY <1>4, <1>5, <1>6, ChainSameLog DEF Stamp

\* The new entry is younger than what it links to: stamped no earlier, and
\* with a higher id where the timestamps agree.
LEMMA ChainInsert ==
    ASSUME ChainInv, NEW w \in Writers, Insert(w)
    PROVE  LinksBack' /\ JobsLinkBack'
<1> USE DEF ChainInv
<1> DEFINE n == [event |-> job[w].event, id |-> nextId, ts |-> job[w].ts,
                 kind |-> job[w].kind, text |-> "logged",
                 prev |-> job[w].prev, covers |-> job[w].covers,
                 born |-> year, until |-> Retention(job[w].kind)]
<1>0. /\ log' = log \cup {n}
      /\ n.id = nextId /\ n.ts = job[w].ts /\ n.prev = job[w].prev
  BY DEF Insert
<1> HIDE DEF n
<1>1. Keeps
  BY <1>0 DEF Keeps, Insert
<1>2. /\ \A v \in Writers \ {w} : job'[v] = job[v]
      /\ job'[w].pc = "idle"
  BY IdleType, SetJob DEF Insert, Idle, TypeInv
<1>3. Known(n.prev, n.ts)
  BY <1>0 DEF JobsLinkBack, Insert
<1>4. LeadsBack(n.prev, n.ts, n.id)
  <2>1. ASSUME NEW d \in log, d.ts <= n.ts
        PROVE  d.ts < n.ts \/ (d.ts = n.ts /\ d.id < n.id)
    <3>1. d.id < nextId /\ d.ts \in Int /\ n.ts \in Int
      BY <1>0, EntryFacts, JobFacts DEF TypeInv, Behind
    <3> QED  BY <1>0, <2>1, <3>1
  <2> QED  BY <1>3, <2>1 DEF Known, LeadsBack
<1>5. \A e \in log' : LeadsBack(e.prev, e.ts, e.id)
  BY <1>0, <1>4, LinksBackAsLeads
<1>6. \A e \in log' : LeadsBack(e.prev, e.ts, e.id)'
  BY <1>1, <1>5, LeadsBackKept
<1>7. LinksBack'
  BY <1>6 DEF LinksBack, LeadsBack, Older
<1>8. \A v \in Writers : (ReadsBack(job[v]))'
  BY <1>1, <1>2, ClockType, JobKept DEF Insert
<1> QED  BY <1>7, <1>8 DEF JobsLinkBack, ReadsBack

\* A step that takes entries away, or changes only their text.
LEMMA ChainKept ==
    ASSUME ChainInv, Keeps, UNCHANGED <<clock, job>>,
           \A e \in log' : \E d \in log :
               e.prev = d.prev /\ e.ts = d.ts /\ e.id = d.id
    PROVE  LinksBack' /\ JobsLinkBack'
<1> USE DEF ChainInv
<1>1. \A e \in log' : LeadsBack(e.prev, e.ts, e.id)'
  <2> SUFFICES ASSUME NEW e \in log'
               PROVE  LeadsBack(e.prev, e.ts, e.id)'
    OBVIOUS
  <2>1. LeadsBack(e.prev, e.ts, e.id)
    <3> PICK d \in log : e.prev = d.prev /\ e.ts = d.ts /\ e.id = d.id
      OBVIOUS
    <3>1. LeadsBack(d.prev, d.ts, d.id)
      BY LinksBackAsLeads
    <3> QED  BY <3>1 DEF LeadsBack
  <2> QED  BY <2>1, LeadsBackKept
<1>2. LinksBack'
  BY <1>1 DEF LinksBack, LeadsBack, Older
<1>3. \A v \in Writers : (ReadsBack(job[v]))'
  BY ClockType, JobKept
<1> QED  BY <1>2, <1>3 DEF JobsLinkBack, ReadsBack

LEMMA ChainDelete ==
    ASSUME ChainInv, NEW es \in SUBSET log, Delete(es)
    PROVE  LinksBack' /\ JobsLinkBack'
<1>1. Keeps
  BY DEF Delete, Keeps
<1> QED  BY <1>1, ChainKept DEF Delete

LEMMA ChainAlter == ASSUME ChainInv, Alter PROVE LinksBack' /\ JobsLinkBack'
<1> PICK e \in log : log' = (log \ {e}) \cup {[e EXCEPT !.text = "altered"]}
  BY DEF Alter
<1> DEFINE a == [e EXCEPT !.text = "altered"]
<1>1. /\ a.event = e.event /\ a.id = e.id /\ a.ts = e.ts /\ a.kind = e.kind
      /\ a.prev = e.prev
  BY EntryFacts DEF Entry, ChainInv, TypeInv
<1>2. log' = (log \ {e}) \cup {a}
  OBVIOUS
<1> HIDE DEF a
<1>3. Keeps
  BY <1>1, <1>2 DEF Alter, Keeps
<1> QED  BY <1>1, <1>2, <1>3, ChainKept DEF Alter

LEMMA ChainStep == ChainInv /\ [Next]_vars => ChainInv'
<1> SUFFICES ASSUME ChainInv, [Next]_vars PROVE LinksBack' /\ JobsLinkBack'
  BY TypeStep DEF ChainInv
<1>1. clock \in Int
  BY ClockType DEF ChainInv
<1>2. CASE \E w \in Writers : LogAction(w) \/ LogUpdate(w)
  <2>1. PICK w \in Writers : \E k \in Kinds : Link(w, k)
    BY <1>2, LogsOf DEF LogUpdate, Kinds
  <2> QED  BY <2>1, ChainLink
<1>3. CASE \E w \in Writers : DirectCreate(w)
  BY <1>3, ChainDirectCreate
<1>4. CASE \E w \in Writers : Stamp(w)
  BY <1>4, ChainStamp
<1>5. CASE \E w \in Writers : Insert(w)
  BY <1>5, ChainInsert
<1>6. CASE \E w \in Writers : Fail(w) \/ Save(w) \/ LogModelUpdate(w)
  <2>1. /\ UNCHANGED <<log, gone, clock>>
        /\ job \in [Writers -> Job]
    BY <1>6 DEF Fail, Save, LogModelUpdate, ChainInv, TypeInv, TypeOK
  <2>2. \A v \in Writers : \/ job'[v] = job[v]
                           \/ job'[v].pc \notin {"stamp", "insert"}
    <3> PICK w \in Writers : Fail(w) \/ Save(w) \/ LogModelUpdate(w)
      BY <1>6
    <3>1. CASE Fail(w)
      BY <2>1, <3>1 DEF Fail, Idle
    <3>2. CASE Save(w)
      BY <2>1, <3>2 DEF Save, Idle
    <3>3. CASE LogModelUpdate(w)
      <4>1. job[w] \in Job
        BY <2>1
      <4> QED  BY <2>1, <3>3, <4>1 DEF LogModelUpdate, Idle, Job
    <3> QED  BY <3>1, <3>2, <3>3
  <2> QED  BY <1>1, <2>1, <2>2, ChainSameLog
<1>7. CASE CleanupExpired
  BY <1>7, ChainDelete DEF CleanupExpired
<1>8. CASE AdminDelete
  BY <1>8, ChainDelete DEF AdminDelete
<1>9. CASE YearPasses
  BY <1>1, <1>9, ChainSameLog DEF YearPasses
<1>10. CASE Alter
  BY <1>10, ChainAlter
<1>11. CASE Remove
  BY <1>11, ChainDelete DEF Remove
<1>12. CASE UNCHANGED vars
  BY <1>1, <1>12, ChainSameLog DEF vars
<1> QED
  BY <1>2, <1>3, <1>4, <1>5, <1>6, <1>7, <1>8, <1>9, <1>10, <1>11, <1>12
  DEF Next

\* The previous hash of every entry is that of an entry verify_chain() visits
\* before it, or of one deleted since, however many requests link, stamp and
\* insert at the same time.
THEOREM ChainLeadsBack == Spec => []LinksBack
<1>1. ChainInv => LinksBack
  BY DEF ChainInv
<1> QED  BY <1>1, ChainInit, ChainStep, PTL DEF Spec

-----------------------------------------------------------------------------
(* verify_chain() is exact.                                                *)

\* A hash that was computed belongs to the text as it was logged and to the
\* link of its entry.
HashRight(j) ==
    j.kind # "direct" => j.covers = CalculateHash("logged", j.prev)

HashInv ==
    /\ TypeInv
    /\ \A e \in log : HashRight(e)
    /\ \A w \in Writers : Busy(w) => HashRight(job[w])

LEMMA HashInvExact == HashInv => VerifyExact
<1> SUFFICES ASSUME HashInv, NEW e \in log
             PROVE  e.covers # None /\ e.covers # CalculateHash(e.text, e.prev)
                    <=> e.text = "altered" /\ e.kind # "direct"
  BY DEF VerifyExact, Violations, FirstEntries
<1>1. /\ e.text \in Texts /\ e.prev \in Links
      /\ e.kind = "direct" => e.covers = None
  BY EntryFacts DEF HashInv, TypeInv, Hashed
<1>2. CASE e.kind = "direct"
  BY <1>1, <1>2
<1>3. CASE e.kind # "direct"
  <2>1. e.covers = [text |-> "logged", prev |-> e.prev] /\ e.covers # None
    BY <1>1, <1>3, CoveredType DEF HashInv, HashRight, CalculateHash, Texts
  <2>2. e.text = "logged" \/ e.text = "altered"
    BY <1>1 DEF Texts
  <2> QED  BY <1>3, <2>1, <2>2 DEF CalculateHash
<1> QED  BY <1>2, <1>3

\* A step that adds no entry: the hashes of the jobs it begins are right.
LEMMA HashJobs ==
    ASSUME HashInv, TypeInv',
           \A e \in log' : \E d \in log :
               e.kind = d.kind /\ e.covers = d.covers /\ e.prev = d.prev,
           \A w \in Writers : \/ job'[w] = job[w]
                              \/ job'[w].pc \notin {"stamp", "insert"}
                              \/ HashRight(job'[w])
    PROVE  HashInv'
  BY DEF HashInv, HashRight, CalculateHash, Busy

LEMMA HashStep == HashInv /\ [Next]_vars => HashInv'
<1> SUFFICES ASSUME HashInv, [Next]_vars PROVE HashInv'
  OBVIOUS
<1>1. TypeInv /\ TypeInv' /\ job \in [Writers -> Job]
  BY TypeStep DEF HashInv, TypeInv, TypeOK
<1>2. ASSUME NEW w \in Writers, LogAction(w) \/ LogUpdate(w) \/ DirectCreate(w)
      PROVE  HashInv'
  <2>1. log' = log /\ \A v \in Writers \ {w} : job'[v] = job[v]
    BY <1>1, <1>2, LogsOf DEF LogUpdate, DirectCreate, Link
  <2>2. HashRight(job'[w])
    <3>1. ASSUME NEW k, Link(w, k) PROVE HashRight(job'[w])
      <4>1. /\ job'[w].prev = LastHash
            /\ job'[w].covers = CalculateHash("logged", LastHash)
        BY <1>1, <3>1 DEF Link, Idle
      <4> QED  BY <4>1 DEF HashRight, CalculateHash
    <3>2. CASE DirectCreate(w)
      BY <1>1, <3>2 DEF DirectCreate, Idle, HashRight
    <3> QED  BY <1>2, <3>1, <3>2, LogsOf DEF LogUpdate
  <2> QED  BY <1>1, <2>1, <2>2, HashJobs
<1>3. ASSUME NEW w \in Writers, Stamp(w) PROVE HashInv'
  <2>1. log' = log /\ \A v \in Writers \ {w} : job'[v] = job[v]
    BY <1>1, <1>3 DEF Stamp
  <2>2. /\ job'[w].kind = job[w].kind /\ job'[w].covers = job[w].covers
        /\ job'[w].prev = job[w].prev /\ job[w].pc = "stamp"
    BY <1>1, <1>3 DEF Stamp, Job
  <2>3. HashRight(job'[w])
    BY <2>2 DEF HashInv, HashRight, Busy
  <2> QED  BY <1>1, <2>1, <2>3, HashJobs
<1>4. ASSUME NEW w \in Writers, Insert(w) PROVE HashInv'
  <2> DEFINE n == [event |-> job[w].event, id |-> nextId, ts |-> job[w].ts,
                   kind |-> job[w].kind, text |-> "logged",
                   prev |-> job[w].prev, covers |-> job[w].covers,
                   born |-> year, until |-> Retention(job[w].kind)]
  <2>1. /\ log' = log \cup {n}
        /\ n.kind = job[w].kind /\ n.covers = job[w].covers
        /\ n.prev = job[w].prev /\ job[w].pc = "insert"
    BY <1>4 DEF Insert
  <2> HIDE DEF n
  <2>2. HashRight(n)
    BY <2>1 DEF HashInv, HashRight, Busy
  <2>3. \A v \in Writers : job'[v] = job[v] \/ job'[v].pc = "idle"
    BY <1>1, <1>4 DEF Insert, Idle
  <2> QED  BY <1>1, <2>1, <2>2, <2>3 DEF HashInv, HashRight, CalculateHash, Busy
<1>5. ASSUME NEW w \in Writers, Fail(w) \/ Save(w) \/ LogModelUpdate(w)
      PROVE  HashInv'
  <2>1. log' = log /\ \A v \in Writers \ {w} : job'[v] = job[v]
    BY <1>1, <1>5 DEF Fail, Save, LogModelUpdate
  <2>2. job'[w].pc \notin {"stamp", "insert"}
    <3>1. CASE Fail(w)
      BY <1>1, <3>1 DEF Fail, Idle
    <3>2. CASE Save(w)
      BY <1>1, <3>2 DEF Save, Idle
    <3>3. CASE LogModelUpdate(w)
      <4>1. job[w] \in Job
        BY <1>1
      <4> QED  BY <1>1, <3>3, <4>1 DEF LogModelUpdate, Idle, Job
    <3> QED  BY <1>5, <3>1, <3>2, <3>3
  <2> QED  BY <1>1, <2>1, <2>2, HashJobs
<1>6. CASE CleanupExpired \/ AdminDelete \/ Remove
  <2>1. log' \subseteq log /\ job' = job
    BY <1>6 DEF CleanupExpired, AdminDelete, Remove, Delete
  <2> QED  BY <1>1, <2>1, HashJobs
<1>7. CASE YearPasses \/ UNCHANGED vars
  <2>1. log' = log /\ job' = job
    BY <1>7 DEF YearPasses, vars
  <2> QED  BY <1>1, <2>1, HashJobs
<1>8. CASE Alter
  <2> PICK e \in log : log' = (log \ {e}) \cup {[e EXCEPT !.text = "altered"]}
    BY <1>8 DEF Alter
  <2> DEFINE a == [e EXCEPT !.text = "altered"]
  <2>1. a.kind = e.kind /\ a.covers = e.covers /\ a.prev = e.prev
    BY <1>1, EntryFacts DEF Entry, TypeInv
  <2>2. log' = (log \ {e}) \cup {a} /\ job' = job
    BY <1>8 DEF Alter
  <2> HIDE DEF a
  <2> QED  BY <1>1, <2>1, <2>2, HashJobs
<1> QED  BY <1>2, <1>3, <1>4, <1>5, <1>6, <1>7, <1>8 DEF Next

\* verify_chain() reports exactly the hashed entries whose text was changed
\* behind the application: concurrent writers, unhashed entries and expiry in
\* the middle of the chain raise no false alarm, for any limit.
THEOREM VerificationExact == Spec => []VerifyExact
<1>1. Init => HashInv
  <2>1. Init => \A w \in Writers : ~Busy(w)
    BY DEF Init, Busy, Idle
  <2> QED  BY <2>1, TypeInit DEF Init, HashInv
<1> QED  BY <1>1, HashStep, HashInvExact, PTL DEF Spec

-----------------------------------------------------------------------------
(* Retention.                                                              *)

\* Entries about changes carry the period of ten years they were given.
LongKept == \A e \in log : e.kind = "change" => e.until = e.born + Long

PeriodInv == TypeInv /\ LongKept

\* An expired entry about a change is older than its period.
LEMMA ExpiredIsOld ==
    ASSUME PeriodInv, NEW e \in log, e.kind = "change", Expired(e)
    PROVE  year - e.born > Long
<1>1. e.born \in Int /\ year \in Int /\ Long \in Int
  BY DEF PeriodInv, TypeInv, TypeOK, Entry
<1>2. e.until = e.born + Long /\ e.until < year
  BY DEF PeriodInv, LongKept, Expired
<1> QED  BY <1>1, <1>2

\* An entry is inserted with its period, or altered in its text, or goes
\* because it has expired or by other means than the application.
LEMMA PeriodStep == PeriodInv /\ [Next]_vars => PeriodInv'
<1> SUFFICES ASSUME PeriodInv, [Next]_vars PROVE LongKept'
  BY TypeStep DEF PeriodInv
<1>1. CASE log' \subseteq log
  BY <1>1 DEF PeriodInv, LongKept
<1>2. ASSUME NEW w \in Writers, Insert(w) PROVE LongKept'
  <2> DEFINE n == [event |-> job[w].event, id |-> nextId, ts |-> job[w].ts,
                   kind |-> job[w].kind, text |-> "logged",
                   prev |-> job[w].prev, covers |-> job[w].covers,
                   born |-> year, until |-> Retention(job[w].kind)]
  <2>1. log' = log \cup {n}
    BY <1>2 DEF Insert
  <2>2. n.kind = "change" => n.until = n.born + Long
    BY DEF Retention
  <2> HIDE DEF n
  <2> QED  BY <2>1, <2>2 DEF PeriodInv, LongKept
<1>3. CASE Alter
  <2> PICK e \in log : log' = (log \ {e}) \cup {[e EXCEPT !.text = "altered"]}
    BY <1>3 DEF Alter
  <2> DEFINE a == [e EXCEPT !.text = "altered"]
  <2>1. a.kind = e.kind /\ a.until = e.until /\ a.born = e.born
    BY EntryFacts DEF Entry, PeriodInv, TypeInv
  <2>2. log' = (log \ {e}) \cup {a}
    BY <1>3
  <2> HIDE DEF a
  <2> QED  BY <2>1, <2>2 DEF PeriodInv, LongKept
<1>4. ASSUME NEW w \in Writers,
             \/ LogAction(w) \/ DirectCreate(w) \/ Stamp(w) \/ Fail(w)
             \/ Save(w) \/ LogModelUpdate(w) \/ LogUpdate(w)
      PROVE  log' = log
  BY <1>4, LogsOf DEF Link, DirectCreate, Stamp, Fail, Save, LogModelUpdate,
                      LogUpdate
<1>5. CASE CleanupExpired \/ AdminDelete \/ Remove
  BY <1>1, <1>5 DEF CleanupExpired, AdminDelete, Remove, Delete
<1>6. CASE YearPasses \/ UNCHANGED vars
  BY <1>1, <1>6 DEF YearPasses, vars
<1> QED  BY <1>1, <1>2, <1>3, <1>4, <1>5, <1>6 DEF Next

\* A step that takes an entry about a change out of the log, and is not
\* counted as tampering, finds the entry expired.
LEMMA GoneByExpiry ==
    ASSUME PeriodInv, [Next]_vars, NEW e \in log, tampered' = tampered,
           ~\E d \in log' : d.event = e.event
    PROVE  Expired(e)
<1>1. ~(log \subseteq log')
  OBVIOUS
<1>2. tampered \in Int
  BY DEF PeriodInv, TypeInv, TypeOK
<1>3. ASSUME NEW w \in Writers,
             \/ LogAction(w) \/ DirectCreate(w) \/ Stamp(w) \/ Insert(w)
             \/ Fail(w) \/ Save(w) \/ LogModelUpdate(w) \/ LogUpdate(w)
      PROVE  log \subseteq log'
  BY <1>3, LogsOf DEF Link, DirectCreate, Stamp, Insert, Fail, Save,
                      LogModelUpdate, LogUpdate
<1>4. ~(YearPasses \/ UNCHANGED vars)
  BY <1>1 DEF YearPasses, vars
<1>5. ~(Alter \/ Remove)
  BY <1>2 DEF Alter, Remove
<1>6. CASE CleanupExpired
  BY <1>6 DEF CleanupExpired, Delete
<1>7. CASE AdminDelete
  BY <1>7 DEF AdminDelete, Delete
<1> QED  BY <1>1, <1>3, <1>4, <1>5, <1>6, <1>7 DEF Next

\* Entries about model changes stay for ten years: neither the cleanup of
\* expired entries nor the admin's delete takes one of them earlier, whatever
\* writers, shorter periods and years there are.
THEOREM ChangesAreRetained == Spec => RetentionKept
<1>1. Init => PeriodInv
  BY TypeInit DEF Init, PeriodInv, LongKept
<1>2. PeriodInv /\ [Next]_vars =>
        [\A e \in log :
           /\ e.kind = "change"
           /\ tampered' = tampered
           /\ ~\E d \in log' : d.event = e.event
           => year - e.born > Long]_vars
  BY GoneByExpiry, ExpiredIsOld
<1> QED  BY <1>1, <1>2, PeriodStep, PTL DEF Spec, RetentionKept

=============================================================================
