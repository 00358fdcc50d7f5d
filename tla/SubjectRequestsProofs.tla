----------------------- MODULE SubjectRequestsProofs -----------------------
(***************************************************************************)
(* Proofs about SubjectRequests, for any partners, users, requests and     *)
(* handlers, and any terms: an erased account stays out, a request that is *)
(* completed was carried out, and every deadline is announced.             *)
(***************************************************************************)
EXTENDS SubjectRequests, FiniteSetTheorems, TLAPS

USE QuestionsAssumption, DaysAssumption, SubjectsAssumption

-----------------------------------------------------------------------------
(* The inductive invariant.                                                *)

\* A request that was received asks for something.
Asked(r) == r.status # None => r.asks \in Questions

\* What a handler is about, and the copy it will write back.
HandlerOK(c) ==
    /\ c.op \in Operations \cup {"idle"}
    /\ c.op = "process"  => c.of \in Requests /\ dsr[c.of].asks \in Questions
    /\ c.op = "patch"    => /\ c.of \in Requests /\ c.copy \in Dsr
                            /\ c.copy.status # None /\ Asked(c.copy)
    /\ c.op = "partner"  => c.of \in Partners /\ c.copy \in Row
    /\ c.op = "password" => c.of \in Users
    /\ c.op = "settings" => c.of \in Users /\ c.copy \in BOOLEAN

HandlersOK ==
    /\ handler = [h \in Handlers |-> handler[h]]
    /\ \A h \in Handlers : HandlerOK(handler[h])

TypeInv ==
    /\ TypeOK
    /\ \A d \in Requests : Asked(dsr[d])
    /\ HandlersOK

\* An account without personal data is inactive.
OutInv ==
    /\ TypeInv
    /\ \A u \in Users : ~row[u].personal => ~row[u].active

-----------------------------------------------------------------------------
(* Types.                                                                  *)

LEMMA InitTypeInv == Init => TypeInv
<1> SUFFICES ASSUME Init PROVE TypeInv
  OBVIOUS
<1>1. row \in [Subjects -> Row] /\ profile \subseteq Users /\ day \in 0 .. MaxDay
  <2>1. \A s \in Subjects : EmailOf[s] \in {EmailOf[t] : t \in Subjects} \cup {""}
    OBVIOUS
  <2>2. \A s \in Subjects, known \in BOOLEAN :
           [email |-> EmailOf[s], personal |-> TRUE, active |-> TRUE,
            password |-> known] \in Row
    BY <2>1 DEF Row
  <2>3. \A s \in Subjects : (s \in Users) \in BOOLEAN
    OBVIOUS
  <2>4. row \in [Subjects -> Row]
    BY <2>2, <2>3 DEF Init
  <2>. QED  BY <2>4 DEF Init
<1>2. NewDsr \in Dsr /\ ~(NewDsr.status # None)
  BY DEF NewDsr, Dsr
<1>3. dsr \in [Requests -> Dsr] /\ \A d \in Requests : Asked(dsr[d])
  BY <1>2 DEF Init, Asked
<1>4. HandlersOK /\ \A h \in Handlers : handler[h].op = "idle"
  BY DEF Init, HandlersOK, HandlerOK, Idle
<1>. QED  BY <1>1, <1>3, <1>4 DEF TypeInv, TypeOK

\* A handler that takes up or puts down a row, when no request changes.
LEMMA HandlerMoves ==
    ASSUME TypeInv, NEW h \in Handlers, NEW c, HandlerOK(c),
           handler' = [handler EXCEPT ![h] = c], UNCHANGED dsr
    PROVE  HandlersOK' /\ \A g \in Handlers : handler'[g].op \in Operations \cup {"idle"}
BY DEF TypeInv, HandlersOK, HandlerOK

\* The same when request d changes into a row that asks for something.
LEMMA RequestMoves ==
    ASSUME TypeInv, NEW d \in Requests, NEW r \in Dsr, r.asks \in Questions,
           dsr' = [dsr EXCEPT ![d] = r],
           \/ UNCHANGED handler
           \/ \E h \in Handlers : handler' = [handler EXCEPT ![h] = Idle]
    PROVE  /\ dsr' \in [Requests -> Dsr]
           /\ \A e \in Requests : Asked(dsr'[e])
           /\ HandlersOK' /\ \A g \in Handlers : handler'[g].op \in Operations \cup {"idle"}
<1>1. dsr' \in [Requests -> Dsr] /\ \A e \in Requests : Asked(dsr'[e])
  BY DEF TypeInv, TypeOK, Asked
<1>2. \A e \in Requests : dsr[e].asks \in Questions => dsr'[e].asks \in Questions
  BY DEF TypeInv, TypeOK
<1>3. \A g \in Handlers : HandlerOK(handler[g]) => HandlerOK(handler[g])'
  <2> SUFFICES ASSUME NEW g \in Handlers, HandlerOK(handler[g])
               PROVE  HandlerOK(handler[g])'
    OBVIOUS
  <2>1. CASE handler'[g] = handler[g]
    BY <1>2, <2>1 DEF HandlerOK
  <2>2. CASE handler'[g] = Idle
    BY <2>2 DEF HandlerOK, Idle
  <2>. QED  BY <2>1, <2>2 DEF TypeInv, HandlersOK
<1>4. HandlersOK'
  BY <1>3 DEF TypeInv, HandlersOK
<1>. QED  BY <1>1, <1>4 DEF HandlersOK, HandlerOK

LEMMA IdleOK == HandlerOK(Idle)
BY DEF HandlerOK, Idle

\* Anonymisation and restriction keep the types of the rows.
LEMMA RowTypes ==
    ASSUME row \in [Subjects -> Row], NEW set
    PROVE  RowsWithout(set) \in [Subjects -> Row] /\ Inactive(set) \in [Subjects -> Row]
<1>1. ASSUME NEW s \in Subjects PROVE Anonymous(s) \in Row
  <2>1. row[s] \in Row
    OBVIOUS
  <2>. QED  BY <2>1 DEF Anonymous, Row
<1>2. \A s \in Subjects : [row[s] EXCEPT !.active = FALSE] \in Row
  BY DEF Row
<1>. QED  BY <1>1, <1>2 DEF RowsWithout, Inactive

\* Those erased or found are partners and accounts.
LEMMA NamesTypes ==
    ASSUME NEW d \in Requests
    PROVE  /\ Erased(d) \subseteq Subjects /\ Found(d) \subseteq Subjects
           /\ Names(d) \subseteq Subjects
<1>1. Mailed(d, Partners) \subseteq Partners /\ Mailed(d, Users) \subseteq Users
  BY DEF Mailed
<1>2. Erased(d) \subseteq Subjects
  BY <1>1 DEF Erased, Subjects
<1>3. Found(d) \subseteq Subjects
  BY <1>1 DEF Found, Typed, Subjects, Mailed
<1>. QED  BY <1>2, <1>3 DEF Names

LEMMA CreateTypes == ASSUME TypeInv, NEW d \in Requests, Create(d) PROVE TypeInv'
<1>1. PICK q \in Questions :
        dsr' = [dsr EXCEPT ![d] = [@ EXCEPT !.asks = q, !.status = "received",
                                            !.deadline = day + Term]]
  BY DEF Create, TypeInv, TypeOK, Dsr
<1> DEFINE r == [dsr[d] EXCEPT !.asks = q, !.status = "received", !.deadline = day + Term]
<1>2. r \in Dsr /\ r.asks \in Questions
  <2>1. dsr[d] \in Dsr
    BY DEF TypeInv, TypeOK
  <2>2. day + Term \in 0 .. MaxDay + Term
    BY DEF TypeInv, TypeOK
  <2>. QED  BY <2>1, <2>2 DEF Dsr, Statuses
<1>3. dsr' = [dsr EXCEPT ![d] = r]
  BY <1>1
<1> HIDE DEF r
<1>. QED  BY <1>2, <1>3, RequestMoves DEF Create, TypeInv, TypeOK

LEMMA LoadPatchTypes ==
    ASSUME TypeInv, NEW h \in Handlers, NEW d \in Requests, LoadPatch(h, d)
    PROVE  TypeInv'
<1>1. HandlerOK([op |-> "patch", of |-> d, copy |-> dsr[d]])
  BY DEF HandlerOK, LoadPatch, TypeInv, TypeOK, Operations
<1>. QED  BY <1>1, HandlerMoves DEF LoadPatch, Begin, TypeInv, TypeOK

LEMMA SavePatchTypes ==
    ASSUME TypeInv, NEW h \in Handlers, SavePatch(h) PROVE TypeInv'
<1>1. HandlerOK(handler[h])
  BY DEF TypeInv, HandlersOK
<1>2. PICK status \in {handler[h].copy.status, "in_progress", "rejected"} :
        dsr' = [dsr EXCEPT ![handler[h].of] = [handler[h].copy EXCEPT !.status = status]]
  BY DEF SavePatch
<1> DEFINE r == [handler[h].copy EXCEPT !.status = status]
<1>3. r \in Dsr /\ r.asks \in Questions /\ handler[h].of \in Requests
  BY <1>1 DEF SavePatch, Running, HandlerOK, Dsr, Statuses, Asked
<1>4. dsr' = [dsr EXCEPT ![handler[h].of] = r]
  BY <1>2
<1> HIDE DEF r
<1>. QED  BY <1>3, <1>4, RequestMoves DEF SavePatch, End, TypeInv, TypeOK

LEMMA StartProcessTypes ==
    ASSUME TypeInv, NEW h \in Handlers, NEW d \in Requests, StartProcess(h, d)
    PROVE  TypeInv'
<1>1. HandlerOK([op |-> "process", of |-> d, copy |-> None])
  BY DEF HandlerOK, StartProcess, TypeInv, Asked, Operations
<1>. QED  BY <1>1, HandlerMoves DEF StartProcess, Begin, TypeInv, TypeOK

LEMMA ProcessTypes ==
    ASSUME TypeInv, NEW h \in Handlers, Process(h) PROVE TypeInv'
<1> DEFINE d == handler[h].of
<1>1. d \in Requests /\ dsr[d].asks \in Questions
  BY DEF TypeInv, HandlersOK, HandlerOK, Process, Running
<1>2. row' \in [Subjects -> Row] /\ profile' \subseteq Users
  <2>1. row \in [Subjects -> Row] /\ profile \subseteq Users
    BY DEF TypeInv, TypeOK
  <2>2. \/ row' = row
        \/ \E set : row' = RowsWithout(set) \/ row' = Inactive(set)
    BY DEF Process, Rows
  <2>3. \/ profile' = profile
        \/ \E set : profile' = profile \ set
    BY DEF Process
  <2>. QED  BY <2>1, <2>2, <2>3, RowTypes
<1>3. \E r \in Dsr : r.asks \in Questions /\ dsr' = [dsr EXCEPT ![d] = r]
  <2>1. CASE Complete(d)
    <3> DEFINE r == [dsr[d] EXCEPT !.status = "completed", !.named = Names(d),
                                   !.completed = TRUE]
    <3>1. r \in Dsr /\ r.asks \in Questions
      <4>1. dsr[d] \in Dsr /\ Names(d) \subseteq Subjects
        BY <1>1, NamesTypes DEF TypeInv, TypeOK
      <4>. QED  BY <1>1, <4>1 DEF Dsr, Statuses
    <3>2. dsr' = [dsr EXCEPT ![d] = r]
      BY <2>1, <1>1 DEF Complete, TypeInv, TypeOK, Dsr
    <3>. QED  BY <3>1, <3>2
  <2>2. CASE Fail(d)
    <3> DEFINE r == [dsr[d] EXCEPT !.status = "escalated"]
    <3>1. r \in Dsr /\ r.asks \in Questions
      BY <1>1 DEF TypeInv, TypeOK, Dsr, Statuses
    <3>2. dsr' = [dsr EXCEPT ![d] = r]
      BY <2>2, <1>1 DEF Fail, TypeInv, TypeOK, Dsr
    <3>. QED  BY <3>1, <3>2
  <2>. QED  BY <2>1, <2>2 DEF Process
<1>4. handler' = [handler EXCEPT ![h] = Idle] /\ day' = day
  BY DEF Process, End
<1> HIDE DEF d
<1>. QED  BY <1>1, <1>2, <1>3, <1>4, RequestMoves DEF TypeInv, TypeOK

LEMMA LoadPartnerTypes ==
    ASSUME TypeInv, NEW h \in Handlers, NEW p \in Partners, LoadPartner(h, p)
    PROVE  TypeInv'
<1>1. HandlerOK([op |-> "partner", of |-> p, copy |-> row[p]])
  BY DEF HandlerOK, TypeInv, TypeOK, Operations, Subjects
<1>. QED  BY <1>1, HandlerMoves DEF LoadPartner, Begin, TypeInv, TypeOK

LEMMA SavePartnerTypes ==
    ASSUME TypeInv, NEW h \in Handlers, SavePartner(h) PROVE TypeInv'
<1>1. HandlerOK(handler[h]) /\ handler[h].op = "partner"
  BY DEF TypeInv, HandlersOK, SavePartner, Running
<1>2. row' \in [Subjects -> Row]
  <2>1. \A active \in BOOLEAN : [handler[h].copy EXCEPT !.active = active] \in Row
    BY <1>1 DEF HandlerOK, Row
  <2>. QED  BY <2>1 DEF SavePartner, TypeInv, TypeOK
<1>. QED  BY <1>2, IdleOK, HandlerMoves DEF SavePartner, End, TypeInv, TypeOK

LEMMA LoadUserTypes ==
    ASSUME TypeInv, NEW h \in Handlers, NEW u \in Users,
           LoadUser(h, u) \/ LoadSettings(h, u)
    PROVE  TypeInv'
<1>1. /\ HandlerOK([op |-> "password", of |-> u, copy |-> row[u]])
      /\ HandlerOK([op |-> "settings", of |-> u, copy |-> u \in profile])
  BY DEF HandlerOK, Operations
<1>. QED  BY <1>1, HandlerMoves DEF LoadUser, LoadSettings, Begin, TypeInv, TypeOK

LEMMA SavePasswordTypes ==
    ASSUME TypeInv, NEW h \in Handlers, SavePassword(h) PROVE TypeInv'
<1>1. HandlerOK(handler[h]) /\ handler[h].op = "password"
  BY DEF TypeInv, HandlersOK, SavePassword, Running
<1>2. row' \in [Subjects -> Row]
  <2>1. handler[h].of \in Subjects
    BY <1>1 DEF HandlerOK, Subjects
  <2>2. row[handler[h].of] \in Row
    BY <2>1 DEF TypeInv, TypeOK
  <2>3. [row[handler[h].of] EXCEPT !.password = TRUE] \in Row
    BY <2>2 DEF Row
  <2>. QED  BY <2>1, <2>3 DEF SavePassword, NewPassword, TypeInv, TypeOK
<1>. QED  BY <1>2, IdleOK, HandlerMoves DEF SavePassword, End, TypeInv, TypeOK

LEMMA SaveSettingsTypes ==
    ASSUME TypeInv, NEW h \in Handlers, SaveSettings(h) PROVE TypeInv'
<1>1. HandlerOK(handler[h]) /\ handler[h].op = "settings"
  BY DEF TypeInv, HandlersOK, SaveSettings, Running
<1>2. profile' \subseteq Users
  BY <1>1 DEF HandlerOK, SaveSettings, TypeInv, TypeOK
<1>. QED  BY <1>2, IdleOK, HandlerMoves DEF SaveSettings, End, TypeInv, TypeOK

LEMMA TypeStep == TypeInv /\ [Next]_vars => TypeInv'
<1> SUFFICES ASSUME TypeInv, [Next]_vars PROVE TypeInv'
  OBVIOUS
<1>1. CASE \E d \in Requests : Create(d)
  BY <1>1, CreateTypes
<1>2. ASSUME NEW h \in Handlers, Handle(h) PROVE TypeInv'
  <2>1. CASE \E d \in Requests : LoadPatch(h, d) \/ StartProcess(h, d)
    BY <2>1, LoadPatchTypes, StartProcessTypes
  <2>2. CASE \E p \in Partners : LoadPartner(h, p)
    BY <2>2, LoadPartnerTypes
  <2>3. CASE \E u \in Users : LoadUser(h, u) \/ LoadSettings(h, u)
    BY <2>3, LoadUserTypes
  <2>. QED  BY <1>2, <2>1, <2>2, <2>3, SavePatchTypes, ProcessTypes, SavePartnerTypes,
               SavePasswordTypes, SaveSettingsTypes DEF Handle
<1>3. CASE Tick
  BY <1>3 DEF Tick, TypeInv, TypeOK, HandlersOK, HandlerOK
<1>4. CASE UNCHANGED vars
  BY <1>4 DEF vars, TypeInv, TypeOK, HandlersOK, HandlerOK
<1>. QED  BY <1>1, <1>2, <1>3, <1>4 DEF Next

\* Rows, profiles and requests stay well formed, whatever is processed,
\* fails, and is written back.
THEOREM TypeCorrect == Spec => []TypeOK
<1>1. TypeInv => TypeOK
  BY DEF TypeInv
<1>. QED  BY <1>1, InitTypeInv, TypeStep, PTL DEF Spec

-----------------------------------------------------------------------------
(* Erased accounts.                                                        *)

\* What happens to an account in one step: it is anonymised, made inactive,
\* or gets a password; only partners are written back as a whole.
LEMMA UserStep ==
    ASSUME TypeInv, [Next]_vars, NEW u \in Users
    PROVE  \/ row'[u] = row[u]
           \/ row'[u] = Anonymous(u)
           \/ row'[u] = [row[u] EXCEPT !.active = FALSE]
           \/ row'[u] = [row[u] EXCEPT !.password = TRUE]
<1> USE DEF Subjects
<1>1. ASSUME NEW h \in Handlers, Process(h)
      PROVE  \/ row'[u] = row[u] \/ row'[u] = Anonymous(u)
             \/ row'[u] = [row[u] EXCEPT !.active = FALSE]
  <2>1. \/ row' = row
        \/ \E set : row' = RowsWithout(set) \/ row' = Inactive(set)
    BY <1>1 DEF Process, Rows
  <2>. QED  BY <2>1 DEF RowsWithout, Inactive
<1>2. ASSUME NEW h \in Handlers, SavePartner(h) PROVE row'[u] = row[u]
  BY <1>2 DEF SavePartner, Running, TypeInv, TypeOK, HandlersOK, HandlerOK
<1>3. ASSUME NEW h \in Handlers, SavePassword(h)
      PROVE  row'[u] = row[u] \/ row'[u] = [row[u] EXCEPT !.password = TRUE]
  BY <1>3 DEF SavePassword, NewPassword, TypeInv, TypeOK
<1>4. CASE UNCHANGED row
  BY <1>4
<1>. QED  BY <1>1, <1>2, <1>3, <1>4
          DEF Next, Handle, Create, Tick, LoadPatch, SavePatch, StartProcess,
              LoadPartner, LoadUser, LoadSettings, SaveSettings, vars

LEMMA OutStep ==
    ASSUME OutInv, [Next]_vars, NEW u \in Users, ~row[u].personal
    PROVE  ~row'[u].personal /\ ~row'[u].active
<1>1. row[u] \in Row /\ ~row[u].active
  BY DEF OutInv, TypeInv, TypeOK, Subjects
<1>. QED  BY <1>1, UserStep DEF OutInv, Anonymous, Row

LEMMA OutInvariant == Spec => []OutInv
<1>1. Init => OutInv
  BY InitTypeInv DEF Init, OutInv, Subjects
<1>2. OutInv /\ [Next]_vars => OutInv'
  <2> SUFFICES ASSUME OutInv, [Next]_vars, NEW u \in Users, ~row'[u].personal
               PROVE  ~row'[u].active
    BY TypeStep DEF OutInv
  <2>1. row[u] \in Row /\ (~row[u].personal => ~row[u].active)
    BY DEF OutInv, TypeInv, TypeOK, Subjects
  <2>. QED  BY <2>1, UserStep DEF OutInv, Anonymous, Row
<1>. QED  BY <1>1, <1>2, PTL DEF Spec

\* An erased account stays out, whatever was going on with it: only columns
\* that say nothing about the person are written after the erasure.
THEOREM ErasedAccountsStayOut == Spec => ErasedStaysOut
<1>1. OutInv /\ [Next]_vars =>
        [\A u \in Users :
           ~row[u].personal => ~row'[u].personal /\ ~row'[u].active]_vars
  BY OutStep
<1>. QED  BY <1>1, OutInvariant, PTL DEF Spec, ErasedStaysOut

-----------------------------------------------------------------------------
(* Completion and deadlines.                                               *)

LEMMA CompletionStep ==
    ASSUME TypeInv, [Next]_vars, NEW h \in Handlers, NEW d \in Requests,
           Running(h, "process"), handler[h].of = d, handler'[h] = Idle,
           dsr'[d].status = "completed"
    PROVE  Fulfilled(d, Erased(d), Found(d))
<1>1. handler'[h] # handler[h]
  BY DEF Running, Idle
<1>2. Process(h)
  <2>1. ASSUME NEW g \in Handlers, g # h,
               \E c : handler' = [handler EXCEPT ![g] = c]
        PROVE  FALSE
    BY <1>1, <2>1 DEF TypeInv, HandlersOK
  <2>2. ASSUME NEW g \in Handlers, Handle(g) PROVE \E c : handler' = [handler EXCEPT ![g] = c]
    BY <2>2 DEF Handle, LoadPatch, SavePatch, StartProcess, Process, LoadPartner,
                SavePartner, LoadUser, SavePassword, LoadSettings, SaveSettings,
                Begin, End
  <2>3. PICK g \in Handlers : Handle(g)
    BY <1>1 DEF Next, Create, Tick, vars
  <2>4. Handle(h)
    BY <2>1, <2>2, <2>3
  <2>. QED  BY <2>4 DEF Handle, LoadPatch, SavePatch, StartProcess, LoadPartner,
                SavePartner, LoadUser, SavePassword, LoadSettings, SaveSettings,
                Free, Running
<1>3. row \in [Subjects -> Row] /\ dsr[d] \in Dsr /\ dsr \in [Requests -> Dsr]
      /\ dsr[d].asks \in Questions
  BY DEF TypeInv, TypeOK, HandlersOK, HandlerOK, Running
<1>4. dsr' = [dsr EXCEPT ![d].status = "completed", ![d].named = Names(d),
                         ![d].completed = TRUE]
      /\ row' = Rows(d)
      /\ profile' = IF Q(d).kind = "erasure" THEN profile \ Erased(d) ELSE profile
  <2>1. ~Fail(d)
    BY <1>3 DEF Fail, Dsr
  <2>. QED  BY <1>2, <2>1 DEF Process, Complete
<1>5. dsr'[d].named = Names(d)
  BY <1>3, <1>4
<1>6. CASE Q(d).kind = "erasure"
  <2>1. row' = RowsWithout(Erased(d)) /\ Names(d) = Erased(d)
    BY <1>4, <1>6 DEF Rows, Names
  <2>2. ASSUME NEW s \in Erased(d) PROVE ~row'[s].personal /\ ~row'[s].active
    <3>1. s \in Subjects /\ row'[s] = Anonymous(s) /\ row[s] \in Row
      BY <1>3, <2>1, <2>2, NamesTypes DEF RowsWithout
    <3>. QED  BY <3>1 DEF Anonymous, Row
  <2>. QED  BY <1>4, <1>5, <1>6, <2>1, <2>2 DEF Fulfilled
<1>7. CASE Q(d).kind = "restriction"
  <2>1. row' = Inactive(Found(d))
    BY <1>4, <1>7 DEF Rows
  <2>2. ASSUME NEW s \in Found(d) PROVE ~row'[s].active
    <3>1. s \in Subjects /\ row'[s] = [row[s] EXCEPT !.active = FALSE] /\ row[s] \in Row
      BY <1>3, <2>1, <2>2, NamesTypes DEF Inactive
    <3>. QED  BY <3>1 DEF Row
  <2>. QED  BY <1>7, <2>2 DEF Fulfilled
<1>8. CASE Q(d).kind \notin {"erasure", "restriction"}
  <2>1. dsr'[d].named \subseteq Found(d)
    BY <1>5, <1>8 DEF Names
  <2>. QED  BY <1>8, <2>1 DEF Fulfilled
<1>. QED  BY <1>6, <1>7, <1>8

\* A request that processing closes as completed was carried out for
\* everybody it is about.
THEOREM CompletedIsDone == Spec => CompletionTellsTruth
<1>1. TypeInv /\ [Next]_vars =>
        [\A h \in Handlers, d \in Requests :
           /\ Running(h, "process") /\ handler[h].of = d
           /\ handler'[h] = Idle
           /\ dsr'[d].status = "completed"
           => Fulfilled(d, Erased(d), Found(d))]_vars
  BY CompletionStep
<1>. QED  BY <1>1, InitTypeInv, TypeStep, PTL DEF Spec, CompletionTellsTruth

LEMMA DeadlinesOfTypes ==
    ASSUME IsFiniteSet(Requests), TypeInv PROVE DeadlinesListed
<1>1. day \in Int /\ \A d \in Requests : dsr[d].deadline \in Int
  BY DEF TypeInv, TypeOK, Dsr
<1>2. Open \subseteq Requests
  BY DEF Open
<1>3. \A d \in Open : DaysRemaining(d) \in Int
                      /\ (DaysRemaining(d) < 0 <=> dsr[d].deadline < day)
  BY <1>1, <1>2 DEF DaysRemaining
<1>4. \A d \in Open : DaysRemaining(d) <= Soon => d \in Printed
  BY <1>3 DEF Printed, Overdue, Upcoming
<1>5. Overdue \cap Upcoming = {}
  BY <1>3 DEF Overdue, Upcoming
<1>6. ReportFails <=> Overdue # {}
  <2>1. IsFiniteSet(Overdue)
    BY <1>2, FS_Subset DEF Overdue
  <2>2. Summary.overdue = Cardinality(Overdue)
    BY DEF Summary, Overdue
  <2>. QED  BY <2>1, <2>2, FS_CardinalityType, FS_EmptySet DEF ReportFails
<1>7. Overdue # {} <=> \E d \in Printed : DaysRemaining(d) < 0
  BY <1>3 DEF Printed, Overdue, Upcoming
<1>. QED  BY <1>4, <1>5, <1>6, <1>7 DEF DeadlinesListed

\* For any terms and days: every open request that is due soon is announced,
\* none is both overdue and upcoming, and gdpr_check fails exactly when its
\* list has something overdue.
THEOREM EveryDeadlineListed ==
    ASSUME IsFiniteSet(Requests) PROVE Spec => []DeadlinesListed
<1>1. TypeInv => DeadlinesListed
  BY DeadlinesOfTypes
<1>. QED  BY <1>1, InitTypeInv, TypeStep, PTL DEF Spec
=============================================================================
