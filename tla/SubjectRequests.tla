--------------------------- MODULE SubjectRequests ---------------------------
(***************************************************************************)
(* Requests of data subjects under the GDPR (services/gdpr_service.py,     *)
(* models/gdpr.py, DataSubjectRequestViewSet) and the rows they reach:     *)
(* business partners, user accounts and their profiles, which other        *)
(* requests read and write back at the same time.                          *)
(*                                                                         *)
(* Processing is one transaction that holds the row of the request.  A     *)
(* PATCH reads a row and writes all of it back in a later statement.       *)
(***************************************************************************)
EXTENDS Integers, FiniteSets

CONSTANTS
    Partners, Users, Requests,   \* business partners, accounts, DSRs
    Questions,  \* what a DSR may ask for, see Question
    EmailOf,    \* addresses of partners and users in the beginning
    Handlers,   \* HTTP requests that run at the same time
    Endpoints,  \* what they do, see Operations
    Term, Soon, \* days a DSR may take, days a deadline is announced before
    MaxDay,     \* bound: days that pass
    MayFail,    \* whether processing may fail half-way
    None

Subjects   == Partners \cup Users
Operations == {"process", "patch", "partner", "password", "settings"}
Kinds      == {"access", "portability", "erasure", "restriction",
               "rectification", "objection"}
Statuses   == {"received", "in_progress", "completed", "rejected", "escalated"}
Closed     == {"completed", "rejected"}

\* subject_type, related_partner and related_user in one link.
Question == [kind : Kinds, type : {"partner", "user"}, email : STRING,
             link : Subjects \cup {None}]

ASSUME QuestionsAssumption == Questions \subseteq Question
ASSUME DaysAssumption ==
    Term \in Nat /\ Soon \in Nat /\ MaxDay \in Nat /\ Endpoints \subseteq Operations
ASSUME SubjectsAssumption == Partners \cap Users = {}

VARIABLES
    row,      \* partners and accounts: e-mail, personal data, is_active, password
    profile,  \* users whose profile holds personal data
    dsr, handler, day

vars == <<row, profile, dsr, handler, day>>

Idle     == [op |-> "idle", of |-> None, copy |-> None]
NewDsr   == [asks |-> None, status |-> None, named |-> {}, deadline |-> 0, completed |-> FALSE]

Init ==
    /\ row = [s \in Subjects |-> [email |-> EmailOf[s], personal |-> TRUE,
                                  active |-> TRUE, password |-> s \in Users]]
    /\ profile = Users
    /\ dsr = [d \in Requests |-> NewDsr]
    /\ handler = [h \in Handlers |-> Idle]
    /\ day = 0

Free(h, op)    == op \in Endpoints /\ handler[h].op = "idle"
Running(h, op) == handler[h].op = op
Begin(h, op, of, copy) ==
    handler' = [handler EXCEPT ![h] = [op |-> op, of |-> of, copy |-> copy]]
End(h) == handler' = [handler EXCEPT ![h] = Idle]

-----------------------------------------------------------------------------
(* Creating, editing and watching requests.                                *)

Create(d) ==
    /\ dsr[d].status = None
    /\ \E q \in Questions :
         dsr' = [dsr EXCEPT ![d].asks = q, ![d].status = "received",
                            ![d].deadline = day + Term]
    /\ UNCHANGED <<row, profile, handler, day>>

\* PATCH of a request: only the status and notes can be sent.
LoadPatch(h, d) ==
    /\ Free(h, "patch")
    /\ dsr[d].status # None
    /\ Begin(h, "patch", d, dsr[d])
    /\ UNCHANGED <<row, profile, dsr, day>>

SavePatch(h) ==
    /\ Running(h, "patch")
    /\ \E status \in {handler[h].copy.status, "in_progress", "rejected"} :
         dsr' = [dsr EXCEPT ![handler[h].of] =
                              [handler[h].copy EXCEPT !.status = status]]
    /\ End(h)
    /\ UNCHANGED <<row, profile, day>>

Open == {d \in Requests : dsr[d].status \in {"received", "in_progress"}}

\* DataSubjectRequest.days_remaining
DaysRemaining(d) == dsr[d].deadline - day

\* get_overdue_requests() and get_upcoming_deadlines()
Overdue  == {d \in Open : dsr[d].deadline < day}

\* Mutation of Upcoming: a deadline of today is neither overdue nor upcoming.
UpcomingTomorrow == {d \in Open : DaysRemaining(d) \in 1 .. Soon}

Upcoming == {d \in Open : DaysRemaining(d) \in 0 .. Soon}

\* manage.py gdpr_check: what --deadlines prints, and the full report, which
\* queries the requests itself and exits with 1 if one is overdue.
Printed == Overdue \cup Upcoming
Summary == [open      |-> Cardinality(Open),
            overdue   |-> Cardinality({d \in Open : dsr[d].deadline < day}),
            completed |-> Cardinality({d \in Requests : dsr[d].status = "completed"})]
ReportFails == Summary.overdue > 0

Tick ==
    /\ day < MaxDay
    /\ day' = day + 1
    /\ UNCHANGED <<row, profile, dsr, handler>>

-----------------------------------------------------------------------------
(* Processing.                                                             *)

Q(d) == dsr[d].asks

Mailed(d, set) == {s \in set : row[s].email = Q(d).email}
Typed(d)       == IF Q(d).type = "partner" THEN Partners ELSE Users

\* Whom _process_erasure() erases: a linked record instead of those found by
\* their e-mail address.
Erased(d) ==
    LET set(type, all) == IF Q(d).link \in all THEN {Q(d).link}
                          ELSE IF Q(d).type = type THEN Mailed(d, all) ELSE {}
    IN  set("partner", Partners) \cup set("user", Users)

\* Whom collect_subject_data() and _process_restriction() find.
Found(d) == Mailed(d, Typed(d))

\* anonymize_partner(), anonymize_user()
Anonymous(s) == [row[s] EXCEPT !.email = "", !.personal = FALSE,
                               !.active = FALSE, !.password = FALSE]

RowsWithout(gone) == [s \in Subjects |-> IF s \in gone THEN Anonymous(s) ELSE row[s]]

Inactive(set) == [s \in Subjects |->
                    IF s \in set THEN [row[s] EXCEPT !.active = FALSE] ELSE row[s]]

\* The rows after the request is done, and whom its result names.
Rows(d) == CASE Q(d).kind = "erasure"     -> RowsWithout(Erased(d))
             [] Q(d).kind = "restriction" -> Inactive(Found(d))
             [] OTHER                     -> row

\* Mutation of Names: the linked record is named whether there is one or not.
NamesLink(d) == Erased(d) \cup {Q(d).link}

Names(d) == CASE Q(d).kind = "erasure" -> Erased(d)
              [] Q(d).kind \in {"access", "portability", "restriction"} -> Found(d)
              [] OTHER -> {}

\* process(): the status is read before the row is locked.
StartProcess(h, d) ==
    /\ Free(h, "process")
    /\ dsr[d].status \notin Closed \cup {None}
    /\ Begin(h, "process", d, None)
    /\ UNCHANGED <<row, profile, dsr, day>>

Complete(d) == dsr' = [dsr EXCEPT ![d].status = "completed",
                                  ![d].named = Names(d), ![d].completed = TRUE]

\* Mutation of Fail: what failed half-way counts as done.
FailCompletes(d) == dsr' = [dsr EXCEPT ![d].status = "completed"]

Fail(d) == dsr' = [dsr EXCEPT ![d].status = "escalated"]

\* process_dsr(): a failure leaves those erased that came before it, each of
\* them in a savepoint of its own, and restricts those that came before it.
Process(h) ==
    LET d == handler[h].of IN
    /\ Running(h, "process")
    /\ \/ /\ row' = Rows(d)
          /\ profile' = IF Q(d).kind = "erasure" THEN profile \ Erased(d)
                                                 ELSE profile
          /\ Complete(d)
       \/ /\ MayFail
          /\ \E done \in SUBSET Names(d) :
               /\ done # Names(d)
               /\ row' = CASE Q(d).kind = "erasure"     -> RowsWithout(done)
                           [] Q(d).kind = "restriction" -> Inactive(done)
                           [] OTHER                     -> row
               /\ profile' = IF Q(d).kind = "erasure" THEN profile \ done
                                                      ELSE profile
          /\ Fail(d)
    /\ End(h)
    /\ UNCHANGED day

-----------------------------------------------------------------------------
(* The others.                                                             *)

\* PATCH of a business partner: any field, so all of the row.
LoadPartner(h, p) ==
    /\ Free(h, "partner")
    /\ Begin(h, "partner", p, row[p])
    /\ UNCHANGED <<row, profile, dsr, day>>

SavePartner(h) ==
    /\ Running(h, "partner")
    /\ \E active \in BOOLEAN :
         row' = [row EXCEPT ![handler[h].of] =
                              [handler[h].copy EXCEPT !.active = active]]
    /\ End(h)
    /\ UNCHANGED <<profile, dsr, day>>

\* ChangePasswordView.post(): JWT authentication has loaded an active user.
LoadUser(h, u) ==
    /\ Free(h, "password")
    /\ row[u].active /\ row[u].password
    /\ Begin(h, "password", u, row[u])
    /\ UNCHANGED <<row, profile, dsr, day>>

\* Mutation of NewPassword: save() without update_fields.
NewPasswordInRow(h) == [row EXCEPT ![handler[h].of] = handler[h].copy]

NewPassword(h) == [row EXCEPT ![handler[h].of].password = TRUE]

SavePassword(h) ==
    /\ Running(h, "password")
    /\ row' = NewPassword(h)
    /\ End(h)
    /\ UNCHANGED <<profile, dsr, day>>

\* UserSettingsMeView: all of the profile is written back.
LoadSettings(h, u) ==
    /\ Free(h, "settings")
    /\ row[u].active
    /\ Begin(h, "settings", u, u \in profile)
    /\ UNCHANGED <<row, profile, dsr, day>>

SaveSettings(h) ==
    /\ Running(h, "settings")
    /\ profile' = IF handler[h].copy THEN profile \cup {handler[h].of}
                                     ELSE profile \ {handler[h].of}
    /\ End(h)
    /\ UNCHANGED <<row, dsr, day>>

Handle(h) ==
    \/ \E d \in Requests : LoadPatch(h, d) \/ StartProcess(h, d)
    \/ \E p \in Partners : LoadPartner(h, p)
    \/ \E u \in Users    : LoadUser(h, u) \/ LoadSettings(h, u)
    \/ SavePatch(h) \/ Process(h) \/ SavePartner(h) \/ SavePassword(h)
    \/ SaveSettings(h)

Next == \/ \E d \in Requests : Create(d)
        \/ \E h \in Handlers : Handle(h)
        \/ Tick

Spec == Init /\ [][Next]_vars

-----------------------------------------------------------------------------
(* Properties.                                                             *)

Row == [email : {EmailOf[s] : s \in Subjects} \cup {""},
        personal : BOOLEAN, active : BOOLEAN, password : BOOLEAN]
Dsr == [asks : Questions \cup {None}, status : Statuses \cup {None},
        named : SUBSET Subjects, deadline : 0 .. MaxDay + Term,
        completed : BOOLEAN]

TypeOK ==
    /\ row \in [Subjects -> Row]
    /\ profile \subseteq Users
    /\ dsr \in [Requests -> Dsr]
    /\ \A h \in Handlers : handler[h].op \in Operations \cup {"idle"}
    /\ day \in 0 .. MaxDay

\* Everybody the request is about is without personal data, or restricted.
Fulfilled(d, erased, found) ==
    CASE Q(d).kind = "erasure" ->
           \A s \in erased : /\ ~row'[s].personal /\ ~row'[s].active
                             /\ s \notin profile' /\ s \in dsr'[d].named
      [] Q(d).kind = "restriction" -> \A s \in found : ~row'[s].active
      [] OTHER -> dsr'[d].named \subseteq found

\* A request that processing closes as completed was carried out for everybody
\* it is about, also when an earlier attempt failed half-way and rows were
\* written back meanwhile (gdpr_service.py:198-268).
CompletionTellsTruth ==
    [][\A h \in Handlers, d \in Requests :
         /\ Running(h, "process") /\ handler[h].of = d
         /\ handler'[h] = Idle
         /\ dsr'[d].status = "completed"
         => Fulfilled(d, Erased(d), Found(d))]_vars

\* An erased account stays out: nothing that was going on with it, like a
\* change of its password, makes it active or brings its name back
\* (gdpr_service.py:157-196, user_settings_view.py:139-167).
ErasedStaysOut ==
    [][\A u \in Users :
         ~row[u].personal => ~row'[u].personal /\ ~row'[u].active]_vars

\* What is open and due within the next days, today included, is announced,
\* and nothing is both overdue and upcoming; gdpr_check fails exactly when its
\* list of deadlines has something overdue (gdpr_service.py:293-315,
\* gdpr_check.py:56-117).
DeadlinesListed ==
    /\ \A d \in Open : DaysRemaining(d) <= Soon => d \in Printed
    /\ Overdue \cap Upcoming = {}
    /\ ReportFails <=> \E d \in Printed : DaysRemaining(d) < 0

\* "Cannot re-process a completed DSR via API." (tests/test_gdpr.py:399)
CompletedNotReprocessed ==
    [][\A d \in Requests :
         dsr[d].status = "completed" => dsr'[d].named = dsr[d].named]_vars

\* Erased data does not come back.  It does when a PATCH or a settings form
\* was loaded before the erasure and is saved after it.
ErasedStaysErased ==
    [][/\ \A s \in Subjects : ~row[s].personal => ~row'[s].personal
       /\ profile' \subseteq profile]_vars
=============================================================================
