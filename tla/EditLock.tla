------------------------------ MODULE EditLock ------------------------------
(***************************************************************************)
(* The pessimistic edit lock of one invoice (ADR-024): the columns         *)
(* editing_by and editing_since, the endpoints that read and write them,   *)
(* and the browser forms that acquire the lock, send heartbeats and        *)
(* release it (InvoiceEditModal.vue, useEditLock.js).                      *)
(*                                                                         *)
(* A form is one mounted edit modal.  Its requests are asynchronous: each  *)
(* kind of request has a slot that says how far it has come.  acquire and  *)
(* refresh run under select_for_update and are one step of the server;     *)
(* release and PATCH load the row in one statement and write in another.   *)
(*                                                                         *)
(* editing_since is kept as the age of the lock in ticks, which stops      *)
(* growing where the lock has expired.                                     *)
(***************************************************************************)
EXTENDS Integers, FiniteSets

CONSTANTS
    Forms,       \* mounted edit modals
    Users,
    UserOf,      \* whose browser a form is in
    Timeout,     \* INVOICE_EDIT_LOCK_TIMEOUT_MINUTES, in ticks
    MaxVersion,  \* bound: saves of the invoice
    Faults,      \* what may go wrong in this instance, see FaultKinds
    Nobody       \* NULL

FaultKinds == {
    "slow",      \* requests and heartbeats take longer than a tick
    "lost",      \* requests or their answers get lost
    "crash",     \* a browser dies without a word
    "early",     \* the user submits before the answer to acquire is there
    "escape",    \* the user closes the modal while it is saving
    "hurry" }    \* the user closes the modal while it is acquiring

ASSUME FormsAssumption   == UserOf \in [Forms -> Users] /\ Nobody \notin Users
ASSUME TimeoutAssumption == Timeout \in Nat \ {0, 1} /\ MaxVersion \in Nat
ASSUME FaultsAssumption  == Faults \subseteq FaultKinds

Holders  == Users \cup {Nobody}
Ages     == 0 .. Timeout
Versions == 0 .. MaxVersion
Columns  == [by : Holders, age : Ages]   \* editing_by, editing_since

Free == [by |-> Nobody, age |-> 0]

Form == [ui      : {"unmounted", "open", "closed", "dead"},
         held    : BOOLEAN,              \* lockHeld
         denied  : BOOLEAN,              \* lockError
         timer   : BOOLEAN,              \* heartbeatTimer
         due     : BOOLEAN,              \* a heartbeat is due in this tick
         base    : Versions \cup {-1},   \* the version in the form, or none
         load    : {"none", "sent"},
         acquire : {"none", "sent", "ok", "denied"},
         refresh : {"none", "sent", "denied"},
         release : {"none", "sent", "write"},
         save    : {"none", "sent", "write", "ok"},
         loaded  : Columns]              \* the lock in the instance PATCH saves

Unmounted == [ui |-> "unmounted", held |-> FALSE, denied |-> FALSE,
              timer |-> FALSE, due |-> FALSE, base |-> -1, load |-> "none",
              acquire |-> "none", refresh |-> "none", release |-> "none",
              save |-> "none", loaded |-> Free]

VARIABLES
    lock,    \* editing_by and the age of editing_since in the database
    version, \* saves so far
    writer,  \* form that saved last, Nobody at the start
    form     \* the browsers

vars == <<lock, version, writer, form>>

TypeOK ==
    /\ lock \in Columns
    /\ version \in Versions
    /\ writer \in Forms \cup {Nobody}
    /\ form \in [Forms -> Form]

Init ==
    /\ lock = Free
    /\ version = 0
    /\ writer = Nobody
    /\ form = [f \in Forms |-> Unmounted]

-----------------------------------------------------------------------------
(* The server.                                                             *)

\* Mutation of Alive: the lock ends one tick early.
AliveStrict(l) == l.by # Nobody /\ l.age < Timeout - 1

\* Mutation of Alive: the timeout is forgotten.
AliveForever(l) == l.by # Nobody

\* editing_since > cutoff
Alive(l) == l.by # Nobody /\ l.age < Timeout

BlockedFor(u, l) == Alive(l) /\ l.by # u

\* acquire_edit_lock(), also behind refresh_edit_lock.
TryAcquire(u) ==
    IF BlockedFor(u, lock) THEN UNCHANGED lock
                           ELSE lock' = [by |-> u, age |-> 0]

Acquire(f) ==
    /\ form[f].acquire = "sent"
    /\ TryAcquire(UserOf[f])
    /\ form' = [form EXCEPT ![f].acquire =
                  IF BlockedFor(UserOf[f], lock) THEN "denied" ELSE "ok"]
    /\ UNCHANGED <<version, writer>>

\* Mutation of Refresh: the heartbeat only asks.
RefreshWithoutRenewal(f) ==
    /\ form[f].refresh = "sent"
    /\ form' = [form EXCEPT ![f].refresh =
                  IF BlockedFor(UserOf[f], lock) THEN "denied" ELSE "none"]
    /\ UNCHANGED <<lock, version, writer>>

Refresh(f) ==
    /\ form[f].refresh = "sent"
    /\ TryAcquire(UserOf[f])
    /\ form' = [form EXCEPT ![f].refresh =
                  IF BlockedFor(UserOf[f], lock) THEN "denied" ELSE "none"]
    /\ UNCHANGED <<version, writer>>

\* release_edit_lock: get_object() and the comparison with the holder ...
ReleaseRead(f) ==
    /\ form[f].release = "sent"
    /\ form' = [form EXCEPT ![f].release =
                  IF lock.by = UserOf[f] THEN "write" ELSE "none"]
    /\ UNCHANGED <<lock, version, writer>>

\* ... and the UPDATE, whoever holds the lock by now.
ReleaseWrite(f) ==
    /\ form[f].release = "write"
    /\ lock' = Free
    /\ form' = [form EXCEPT ![f].release = "none"]
    /\ UNCHANGED <<version, writer>>

Load(f) ==
    /\ form[f].load = "sent"
    /\ form' = [form EXCEPT ![f].load = "none", ![f].base = version]
    /\ UNCHANGED <<lock, version, writer>>

\* PATCH: get_object() and the lock check of perform_update ...
PatchRead(f) ==
    /\ form[f].save = "sent"
    /\ form' = [form EXCEPT
                  ![f].save = IF BlockedFor(UserOf[f], lock) THEN "none"
                                                             ELSE "write",
                  ![f].loaded = IF BlockedFor(UserOf[f], lock) THEN Free
                                                               ELSE lock]
    /\ UNCHANGED <<lock, version, writer>>

\* ... and serializer.save(), which writes every column of the instance, the
\* lock among them.
PatchWrite(f) ==
    /\ form[f].save = "write"
    /\ version < MaxVersion
    /\ version' = version + 1
    /\ writer' = f
    /\ lock' = form[f].loaded
    /\ form' = [form EXCEPT ![f].save = "ok", ![f].loaded = Free]

-----------------------------------------------------------------------------
(* The browser.                                                            *)

\* onMounted(): loadData() and acquireLock(), neither waits for the other.
Mount(f) ==
    /\ form[f].ui = "unmounted"
    /\ form' = [form EXCEPT ![f].ui = "open", ![f].load = "sent",
                            ![f].acquire = "sent"]
    /\ UNCHANGED <<lock, version, writer>>

\* The answer to acquire; the composable does not ask whether the modal is
\* still mounted.
Acquired(f) ==
    /\ form[f].acquire = "ok"
    /\ form' = [form EXCEPT ![f].acquire = "none",
                            ![f].held = TRUE, ![f].timer = TRUE]
    /\ UNCHANGED <<lock, version, writer>>

Denied(f) ==
    /\ form[f].acquire = "denied"
    /\ form' = [form EXCEPT ![f].acquire = "none", ![f].denied = TRUE]
    /\ UNCHANGED <<lock, version, writer>>

\* setInterval: only while lockHeld.
Heartbeat(f) ==
    /\ form[f].timer /\ form[f].held /\ form[f].due
    /\ form[f].refresh = "none"
    /\ form' = [form EXCEPT ![f].refresh = "sent", ![f].due = FALSE]
    /\ UNCHANGED <<lock, version, writer>>

\* 423 on a heartbeat: the timer stops, the form stays as it is.
HeartbeatDenied(f) ==
    /\ form[f].refresh = "denied"
    /\ form' = [form EXCEPT ![f].refresh = "none", ![f].held = FALSE,
                            ![f].timer = FALSE, ![f].due = FALSE]
    /\ UNCHANGED <<lock, version, writer>>

\* releaseLock(): stops the timer; sends the request only if the lock is held.
Released(r) ==
    [r EXCEPT !.timer = FALSE, !.due = FALSE, !.held = FALSE,
              !.release = IF r.held THEN "sent" ELSE @]

\* handleSubmit() sends the PATCH; the form shows once the data are there.
Submit(f) ==
    LET r == form[f] IN
    /\ r.ui = "open" /\ r.base >= 0 /\ r.save = "none" /\ ~r.denied
    /\ r.held \/ "early" \in Faults
    /\ form' = [form EXCEPT ![f].save = "sent"]
    /\ UNCHANGED <<lock, version, writer>>

\* The answer to the PATCH: release and close.
Saved(f) ==
    LET r == form[f] IN
    /\ r.save = "ok"
    /\ form' = [form EXCEPT ![f] =
                  [Released(r) EXCEPT !.save = "none",
                     !.ui = IF r.ui = "open" THEN "closed" ELSE r.ui]]
    /\ UNCHANGED <<lock, version, writer>>

\* handleClose() and onUnmounted().
Close(f) ==
    LET r == form[f] IN
    /\ r.ui = "open"
    /\ r.save = "none" \/ "escape" \in Faults
    /\ r.acquire = "none" \/ "hurry" \in Faults
    /\ form' = [form EXCEPT ![f] = [Released(r) EXCEPT !.ui = "closed"]]
    /\ UNCHANGED <<lock, version, writer>>

-----------------------------------------------------------------------------
(* Time and faults.                                                        *)

\* The tab is gone with its timer; requests on their way still arrive.
Crash(f) ==
    LET r == form[f] IN
    /\ "crash" \in Faults
    /\ r.ui \in {"open", "closed"}
    /\ form' = [form EXCEPT ![f] =
                  [r EXCEPT !.ui = "dead", !.held = FALSE, !.timer = FALSE,
                            !.due = FALSE]]
    /\ UNCHANGED <<lock, version, writer>>

\* A request gets lost on the way, or its answer does: useEditLock ignores
\* the error, and so does the modal, which stays open.
Lose(f) ==
    /\ "lost" \in Faults
    /\ \/ /\ form[f].acquire # "none"
          /\ form' = [form EXCEPT ![f].acquire = "none"]
       \/ /\ form[f].refresh # "none"
          /\ form' = [form EXCEPT ![f].refresh = "none"]
       \/ /\ form[f].release = "sent"
          /\ form' = [form EXCEPT ![f].release = "none"]
       \/ /\ form[f].save \in {"sent", "ok"}
          /\ form' = [form EXCEPT ![f].save = "none"]
    /\ UNCHANGED <<lock, version, writer>>

\* A dead tab does not act on answers.
Discard(f) ==
    /\ form[f].ui = "dead"
    /\ \/ /\ form[f].acquire \in {"ok", "denied"}
          /\ form' = [form EXCEPT ![f].acquire = "none"]
       \/ /\ form[f].refresh = "denied"
          /\ form' = [form EXCEPT ![f].refresh = "none"]
       \/ /\ form[f].save = "ok"
          /\ form' = [form EXCEPT ![f].save = "none"]
    /\ UNCHANGED <<lock, version, writer>>

Busy(f) ==
    \/ form[f].due
    \/ form[f].acquire # "none" \/ form[f].refresh # "none"
    \/ form[f].release # "none" \/ form[f].save # "none"

\* Mutation of Older: the age is not cut off at the timeout.
OlderUncut(l) == IF l.by = Nobody THEN l ELSE [l EXCEPT !.age = @ + 1]

Older(l) ==
    IF l.by = Nobody \/ l.age = Timeout THEN l ELSE [l EXCEPT !.age = @ + 1]

\* The heartbeat interval passes: every running timer fires.
Tick ==
    /\ "slow" \in Faults \/ \A f \in Forms : ~Busy(f)
    /\ lock' = Older(lock)
    /\ form' = [f \in Forms |->
                 [form[f] EXCEPT !.due = form[f].timer,
                                 !.loaded = Older(form[f].loaded)]]
    /\ UNCHANGED <<version, writer>>

Server(f) ==
    \/ Acquire(f)
    \/ Refresh(f)
    \/ ReleaseRead(f)
    \/ ReleaseWrite(f)
    \/ Load(f)
    \/ PatchRead(f)
    \/ PatchWrite(f)

Answer(f) ==
    \/ /\ form[f].ui # "dead"
       /\ Acquired(f) \/ Denied(f) \/ HeartbeatDenied(f) \/ Saved(f)
    \/ Discard(f)

User(f) == Mount(f) \/ Submit(f) \/ Close(f)

Next ==
    \/ \E f \in Forms : Server(f) \/ Answer(f) \/ User(f) \/ Heartbeat(f)
                          \/ Crash(f) \/ Lose(f)
    \/ Tick

Spec == Init /\ [][Next]_vars

\* The server answers, answers are acted on, intervals elapse and live timers
\* fire; nothing is assumed of users, and requests need not get lost.
Fairness ==
    /\ WF_vars(Tick)
    /\ \A f \in Forms : /\ WF_vars(Server(f))
                        /\ WF_vars(Answer(f))
                        /\ WF_vars(Heartbeat(f))

FairSpec == Spec /\ Fairness

-----------------------------------------------------------------------------
(* Properties.                                                             *)

\* The lock of the database is a lease: it changes hands only after it was
\* given back or has expired, and only its holder gives it back.
Lease == INSTANCE EditLease WITH
             holder  <- lock.by,
             expired <- lock.by # Nobody /\ lock.age = Timeout

LeaseKept == Lease!LeaseSpec

\* A form that believes it holds the lock does hold it: in the row is its
\* user, and the lock has not expired.
HeldIsBacked ==
    \A f \in Forms :
        form[f].held => lock.by = UserOf[f] /\ Alive(lock)

\* Gone f: nothing in f's browser needs the lock any more.
Gone(f) == form[f].ui \in {"unmounted", "dead"}

\* Locks of browsers that died do not stay: the lock of a user all of whose
\* forms are dead becomes free for others, whatever was still on its way.
AbandonedLockExpires ==
    \A u \in Users :
        []<>(\/ \E f \in Forms : UserOf[f] = u /\ ~Gone(f)
             \/ \A v \in Users \ {u} : lock.by = u => ~BlockedFor(v, lock))

\* useEditLock.js: the lock is released on unmount.  Once the forms of a user
\* are closed, the lock does not stay with that user.
ClosedFormFreesLock ==
    \A u \in Users :
        []<>(\/ \E f \in Forms : UserOf[f] = u /\ form[f].ui = "open"
             \/ \A v \in Users \ {u} : lock.by = u => ~BlockedFor(v, lock))

\* ADR-024: no change is silently overwritten.  A save replaces the version
\* the form was filled from.
NoSilentOverwrite ==
    [][version' # version => form[writer'].base = version]_vars

\* ADR-024: every further caller gets a 423, so two open forms never hold the
\* lock together.
OneFormHolds ==
    \A f, g \in Forms :
        form[f].ui = "open" /\ form[g].ui = "open"
            /\ form[f].held /\ form[g].held => f = g

\* Docstring of release_edit_lock: only the current holder can release it.  A
\* release never clears a lock that somebody else holds by then.
ReleaseByHolder ==
    [][\A f \in Forms :
         form[f].release = "write" /\ form'[f].release # "write"
             => lock.by \in {UserOf[f], Nobody}]_vars

\* ADR-024: a PATCH is refused while the lock is with somebody else.
PatchRespectsLock ==
    [][version' # version => ~BlockedFor(UserOf[writer'], lock)]_vars
=============================================================================
