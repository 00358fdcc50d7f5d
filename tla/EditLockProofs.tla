--------------------------- MODULE EditLockProofs ---------------------------
(***************************************************************************)
(* Proofs about EditLock, for every set of forms and users, every timeout  *)
(* of at least two ticks and every number of saves.                        *)
(*                                                                         *)
(* Type correctness needs nothing.  That the lock is a lease, and that a   *)
(* form that believes it holds the lock does, rest on two premises the     *)
(* theorems name: nothing goes wrong (Faults = {}) and no user has two     *)
(* forms of the invoice (OneFormPerUser).  Holding is the inductive        *)
(* invariant behind both: whoever has something to do with the lock that   *)
(* another request could still disturb is in the row, and the lock is      *)
(* fresh unless a request that renews it or gives it back is on its way.   *)
(***************************************************************************)
EXTENDS EditLock, TLAPS

OneFormPerUser == \A f, g \in Forms : UserOf[f] = UserOf[g] => f = g

-----------------------------------------------------------------------------
(* Type correctness.                                                       *)

LEMMA InitTypeOK == Init => TypeOK
BY FormsAssumption, TimeoutAssumption
   DEF Init, TypeOK, Free, Unmounted, Form, Columns, Holders, Ages, Versions

LEMMA OlderIsColumns ==
    ASSUME NEW l \in Columns PROVE Older(l) \in Columns
BY TimeoutAssumption DEF Older, Columns, Holders, Ages

LEMMA FreeIsColumns == Free \in Columns
BY TimeoutAssumption DEF Free, Columns, Holders, Ages

\* What acquire_edit_lock leaves in the row.
LEMMA TryAcquireIsColumns ==
    ASSUME NEW u \in Users, lock \in Columns, TryAcquire(u)
    PROVE  lock' \in Columns
BY TimeoutAssumption DEF TryAcquire, Columns, Holders, Ages

LEMMA ServerTypeOK ==
    ASSUME TypeOK, NEW f \in Forms, Server(f) PROVE TypeOK'
<1>0. UserOf[f] \in Users /\ form[f] \in Form
  BY FormsAssumption DEF TypeOK
<1>1. CASE Acquire(f)
  BY <1>0, <1>1, TryAcquireIsColumns DEF Acquire, TypeOK, Form
<1>2. CASE Refresh(f)
  BY <1>0, <1>2, TryAcquireIsColumns DEF Refresh, TypeOK, Form
<1>3. CASE ReleaseRead(f)
  BY <1>0, <1>3 DEF ReleaseRead, TypeOK, Form
<1>4. CASE ReleaseWrite(f)
  BY <1>0, <1>4, FreeIsColumns DEF ReleaseWrite, TypeOK, Form
<1>5. CASE Load(f)
  BY <1>0, <1>5 DEF Load, TypeOK, Form
<1>6. CASE PatchRead(f)
  BY <1>0, <1>6, FreeIsColumns DEF PatchRead, TypeOK, Form
<1>7. CASE PatchWrite(f)
  <2>1. version' \in Versions
    BY <1>7, TimeoutAssumption DEF PatchWrite, TypeOK, Versions
  <2>2. lock' \in Columns /\ writer' \in Forms \cup {Nobody}
    BY <1>0, <1>7 DEF PatchWrite, Form
  <2>3. form' \in [Forms -> Form]
    BY <1>0, <1>7, FreeIsColumns DEF PatchWrite, TypeOK, Form
  <2>. QED  BY <2>1, <2>2, <2>3 DEF TypeOK
<1>. QED  BY <1>1, <1>2, <1>3, <1>4, <1>5, <1>6, <1>7 DEF Server

LEMMA AnswerTypeOK ==
    ASSUME TypeOK, NEW f \in Forms, Answer(f) PROVE TypeOK'
<1>0. form[f] \in Form
  BY DEF TypeOK
<1>1. CASE Acquired(f)
  BY <1>0, <1>1 DEF Acquired, TypeOK, Form
<1>2. CASE Denied(f)
  BY <1>0, <1>2 DEF Denied, TypeOK, Form
<1>3. CASE HeartbeatDenied(f)
  BY <1>0, <1>3 DEF HeartbeatDenied, TypeOK, Form
<1>4. CASE Saved(f)
  BY <1>0, <1>4, ZenonT(60) DEF Saved, Released, TypeOK, Form
<1>5. CASE Discard(f)
  BY <1>0, <1>5 DEF Discard, TypeOK, Form
<1>. QED  BY <1>1, <1>2, <1>3, <1>4, <1>5 DEF Answer

LEMMA BrowserTypeOK ==
    ASSUME TypeOK, NEW f \in Forms,
           User(f) \/ Heartbeat(f) \/ Crash(f) \/ Lose(f)
    PROVE  TypeOK'
<1>0. form[f] \in Form
  BY DEF TypeOK
<1>1. CASE Mount(f)
  BY <1>0, <1>1 DEF Mount, TypeOK, Form
<1>2. CASE Submit(f)
  BY <1>0, <1>2 DEF Submit, TypeOK, Form
<1>3. CASE Close(f)
  BY <1>0, <1>3 DEF Close, Released, TypeOK, Form
<1>4. CASE Heartbeat(f)
  BY <1>0, <1>4 DEF Heartbeat, TypeOK, Form
<1>5. CASE Crash(f)
  BY <1>0, <1>5 DEF Crash, TypeOK, Form
<1>6. CASE Lose(f)
  BY <1>0, <1>6 DEF Lose, TypeOK, Form
<1>. QED  BY <1>1, <1>2, <1>3, <1>4, <1>5, <1>6 DEF User

LEMMA TickTypeOK == ASSUME TypeOK, Tick PROVE TypeOK'
<1>1. lock' \in Columns
  BY OlderIsColumns DEF Tick, TypeOK
<1>2. ASSUME NEW f \in Forms PROVE form'[f] \in Form
  <2>1. form[f] \in Form /\ Older(form[f].loaded) \in Columns
    BY OlderIsColumns DEF TypeOK, Form
  <2>. QED  BY <2>1 DEF Tick, Form
<1>3. form' \in [Forms -> Form]
  BY <1>2 DEF Tick
<1>. QED  BY <1>1, <1>3 DEF Tick, TypeOK

LEMMA TypeStep == TypeOK /\ [Next]_vars => TypeOK'
<1> SUFFICES ASSUME TypeOK, [Next]_vars PROVE TypeOK'
  OBVIOUS
<1>1. CASE UNCHANGED vars
  BY <1>1 DEF vars, TypeOK
<1>2. CASE Next
  BY <1>2, ServerTypeOK, AnswerTypeOK, BrowserTypeOK, TickTypeOK DEF Next
<1>. QED  BY <1>1, <1>2

\* The columns of the lock and the state of every form stay in their types,
\* whatever goes wrong.
THEOREM TypeCorrect == Spec => []TypeOK
BY InitTypeOK, TypeStep, PTL DEF Spec

-----------------------------------------------------------------------------
(* The inductive invariant.                                                *)

\* The form has the lock, or is about to learn it, or is giving it back.
Claims(r) == r.held \/ r.acquire = "ok" \/ r.release # "none"

\* A request is due or on its way that renews the lock, or ends it.
Late(r) == \/ r.due \/ r.refresh = "sent"
           \/ r.save # "none" \/ r.release # "none"

\* In which order a form goes through its states when nothing goes wrong.
Phase(r) ==
    /\ r.timer = r.held
    /\ r.due => r.held
    /\ r.save # "none" => r.held
    /\ r.held => /\ r.ui = "open" /\ r.acquire = "none"
                 /\ r.release = "none" /\ r.refresh # "denied"
    /\ r.acquire # "none" => /\ r.ui = "open"
                             /\ r.release = "none" /\ r.refresh = "none"
    /\ r.ui = "unmounted" => /\ r.acquire = "none" /\ r.refresh = "none"
                             /\ r.release = "none"

\* Lock l is the form's as long as the form claims it, and new in this tick
\* unless something is on its way.
BackedBy(u, r, l) ==
    Claims(r) => l.by = u /\ l.age <= 1 /\ (l.age = 0 \/ Late(r))

\* A PATCH that has passed the check writes back its user's lock.
Carries(u, r) == r.save = "write" => r.loaded.by = u /\ r.loaded.age <= 1

HoldingOf(u, r, l) == Phase(r) /\ BackedBy(u, r, l) /\ Carries(u, r)

Holding == \A f \in Forms : HoldingOf(UserOf[f], form[f], lock)

HInv == TypeOK /\ Holding

LEMMA InitHolding == Init => Holding
<1> SUFFICES ASSUME Init, NEW f \in Forms
             PROVE  HoldingOf(UserOf[f], Unmounted, lock)
  BY DEF Init, Holding
<1>. QED  BY DEF HoldingOf, Phase, BackedBy, Carries, Claims, Late, Unmounted

\* A step of the browser of form f that leaves the row alone concerns f only.
LEMMA LocalStep ==
    ASSUME HInv, NEW f \in Forms, NEW r,
           form' = [form EXCEPT ![f] = r], lock' = lock,
           HoldingOf(UserOf[f], r, lock)
    PROVE  Holding'
BY DEF HInv, TypeOK, Holding

\* A step of the server that writes the row for f: nobody else claims it.
LEMMA RowStep ==
    ASSUME HInv, NEW f \in Forms, NEW r,
           form' = [form EXCEPT ![f] = r],
           HoldingOf(UserOf[f], r, lock'),
           \A g \in Forms \ {f} : ~Claims(form[g])
    PROVE  Holding'
BY DEF HInv, TypeOK, Holding, HoldingOf, BackedBy

\* The lock of a form that claims it is alive.
LEMMA ClaimIsAlive ==
    ASSUME HInv, NEW f \in Forms, Claims(form[f])
    PROVE  lock.by = UserOf[f] /\ Alive(lock) /\ lock.age # Timeout
BY FormsAssumption, TimeoutAssumption
   DEF HInv, TypeOK, Holding, HoldingOf, BackedBy, Alive, Columns, Ages

\* Only one form claims the lock, and the others are refused.
LEMMA OneClaims ==
    ASSUME HInv, OneFormPerUser, NEW f \in Forms, NEW g \in Forms \ {f},
           Claims(form[g])
    PROVE  BlockedFor(UserOf[f], lock) /\ ~Claims(form[f])
<1>1. UserOf[f] # UserOf[g]
  BY DEF OneFormPerUser
<1>. QED  BY <1>1, ClaimIsAlive DEF BlockedFor

-----------------------------------------------------------------------------
(* Every step keeps it.                                                    *)

\* acquire and refresh: f gets the lock only if nobody else claims it.
LEMMA AskHolding ==
    ASSUME HInv, OneFormPerUser, NEW f \in Forms, NEW r,
           TryAcquire(UserOf[f]), form' = [form EXCEPT ![f] = r],
           BlockedFor(UserOf[f], lock) => HoldingOf(UserOf[f], r, lock),
           ~BlockedFor(UserOf[f], lock) =>
                HoldingOf(UserOf[f], r, [by |-> UserOf[f], age |-> 0])
    PROVE  Holding'
<1>1. CASE BlockedFor(UserOf[f], lock)
  <2>1. lock' = lock
    BY <1>1 DEF TryAcquire
  <2>. QED  BY <1>1, <2>1, LocalStep
<1>2. CASE ~BlockedFor(UserOf[f], lock)
  <2>1. lock' = [by |-> UserOf[f], age |-> 0]
    BY <1>2 DEF TryAcquire
  <2>2. \A g \in Forms \ {f} : ~Claims(form[g])
    BY <1>2, OneClaims
  <2>. QED  BY <1>2, <2>1, <2>2, RowStep
<1>. QED  BY <1>1, <1>2

LEMMA AcquireHolding ==
    ASSUME HInv, OneFormPerUser, NEW f \in Forms, Acquire(f) PROVE Holding'
<1> DEFINE b == BlockedFor(UserOf[f], lock)
           r == [form[f] EXCEPT !.acquire = IF b THEN "denied" ELSE "ok"]
<1>1. form[f] \in Form /\ Phase(form[f]) /\ form[f].acquire = "sent"
  BY DEF HInv, TypeOK, Holding, HoldingOf, Acquire
<1>2. form' = [form EXCEPT ![f] = r] /\ TryAcquire(UserOf[f])
  BY DEF Acquire, HInv, TypeOK
<1>3. b => HoldingOf(UserOf[f], r, lock)
  BY <1>1 DEF HoldingOf, Phase, BackedBy, Carries, Claims, Late, Form
<1>4. ~b => HoldingOf(UserOf[f], r, [by |-> UserOf[f], age |-> 0])
  BY <1>1 DEF HoldingOf, Phase, BackedBy, Carries, Claims, Late, Form
<1> HIDE DEF r
<1>. QED  BY <1>2, <1>3, <1>4, AskHolding

LEMMA RefreshHolding ==
    ASSUME HInv, OneFormPerUser, NEW f \in Forms, Refresh(f) PROVE Holding'
<1> DEFINE b == BlockedFor(UserOf[f], lock)
           r == [form[f] EXCEPT !.refresh = IF b THEN "denied" ELSE "none"]
<1>1. /\ form[f] \in Form /\ form[f].refresh = "sent"
      /\ HoldingOf(UserOf[f], form[f], lock)
  BY DEF HInv, TypeOK, Holding, Refresh
<1>2. form' = [form EXCEPT ![f] = r] /\ TryAcquire(UserOf[f])
  BY DEF Refresh, HInv, TypeOK
<1>3. b => ~Claims(form[f])
  BY ClaimIsAlive DEF BlockedFor
<1>4. b => HoldingOf(UserOf[f], r, lock)
  BY <1>1, <1>3 DEF HoldingOf, Phase, BackedBy, Carries, Claims, Late, Form
<1>5. ~b => HoldingOf(UserOf[f], r, [by |-> UserOf[f], age |-> 0])
  BY <1>1 DEF HoldingOf, Phase, BackedBy, Carries, Claims, Late, Form
<1> HIDE DEF r
<1>. QED  BY <1>2, <1>4, <1>5, AskHolding

LEMMA ReleaseReadHolding ==
    ASSUME HInv, NEW f \in Forms, ReleaseRead(f) PROVE Holding'
<1> DEFINE r == [form[f] EXCEPT !.release =
                   IF lock.by = UserOf[f] THEN "write" ELSE "none"]
<1>1. /\ form[f] \in Form /\ form[f].release = "sent"
      /\ HoldingOf(UserOf[f], form[f], lock)
  BY DEF HInv, TypeOK, Holding, ReleaseRead
<1>2. form' = [form EXCEPT ![f] = r] /\ lock' = lock
  BY DEF ReleaseRead, HInv, TypeOK
<1>3. HoldingOf(UserOf[f], r, lock)
  BY <1>1 DEF HoldingOf, Phase, BackedBy, Carries, Claims, Late, Form
<1> HIDE DEF r
<1>. QED  BY <1>2, <1>3, LocalStep

LEMMA ReleaseWriteHolding ==
    ASSUME HInv, OneFormPerUser, NEW f \in Forms, ReleaseWrite(f)
    PROVE  Holding' /\ lock.by = UserOf[f]
<1> DEFINE r == [form[f] EXCEPT !.release = "none"]
<1>1. /\ form[f] \in Form /\ form[f].release = "write"
      /\ HoldingOf(UserOf[f], form[f], lock)
  BY DEF HInv, TypeOK, Holding, ReleaseWrite
<1>2. form' = [form EXCEPT ![f] = r]
  BY DEF ReleaseWrite, HInv, TypeOK
<1>3. Claims(form[f])
  BY <1>1 DEF Claims
<1>4. \A g \in Forms \ {f} : ~Claims(form[g])
  BY <1>3, OneClaims
<1>5. HoldingOf(UserOf[f], r, lock')
  BY <1>1 DEF HoldingOf, Phase, BackedBy, Carries, Claims, Late, Form
<1> HIDE DEF r
<1>. QED  BY <1>2, <1>3, <1>4, <1>5, RowStep, ClaimIsAlive

LEMMA LoadHolding ==
    ASSUME HInv, NEW f \in Forms, Load(f) PROVE Holding'
<1> DEFINE r == [form[f] EXCEPT !.load = "none", !.base = version]
<1>1. form[f] \in Form /\ HoldingOf(UserOf[f], form[f], lock)
  BY DEF HInv, TypeOK, Holding
<1>2. form' = [form EXCEPT ![f] = r] /\ lock' = lock
  BY DEF Load, HInv, TypeOK
<1>3. HoldingOf(UserOf[f], r, lock)
  BY <1>1 DEF HoldingOf, Phase, BackedBy, Carries, Claims, Late, Form
<1> HIDE DEF r
<1>. QED  BY <1>2, <1>3, LocalStep

\* The form still holds the lock, so the check passes with the form's lock.
LEMMA PatchReadHolding ==
    ASSUME HInv, NEW f \in Forms, PatchRead(f) PROVE Holding'
<1> DEFINE r == [form[f] EXCEPT !.save = "write", !.loaded = lock]
<1>1. /\ form[f] \in Form /\ form[f].save = "sent"
      /\ HoldingOf(UserOf[f], form[f], lock)
  BY DEF HInv, TypeOK, Holding, PatchRead
<1>2. Claims(form[f])
  BY <1>1 DEF HoldingOf, Phase, Claims
<1>3. ~BlockedFor(UserOf[f], lock)
  BY <1>2, ClaimIsAlive DEF BlockedFor
<1>4. form' = [form EXCEPT ![f] = r] /\ lock' = lock
  BY <1>3 DEF PatchRead, HInv, TypeOK
<1>5. HoldingOf(UserOf[f], r, lock)
  BY <1>1, <1>2 DEF HoldingOf, Phase, BackedBy, Carries, Claims, Late, Form
<1> HIDE DEF r
<1>. QED  BY <1>4, <1>5, LocalStep

\* The lock it writes back is the same user's.
LEMMA PatchWriteHolding ==
    ASSUME HInv, OneFormPerUser, NEW f \in Forms, PatchWrite(f)
    PROVE  /\ Holding'
           /\ lock.by = UserOf[f] /\ lock.age # Timeout
           /\ lock'.by = UserOf[f] /\ lock'.age # Timeout
<1> DEFINE r == [form[f] EXCEPT !.save = "ok", !.loaded = Free]
<1>1. /\ form[f] \in Form /\ form[f].save = "write"
      /\ HoldingOf(UserOf[f], form[f], lock) /\ lock' = form[f].loaded
  BY DEF HInv, TypeOK, Holding, PatchWrite
<1>2. form' = [form EXCEPT ![f] = r]
  BY DEF PatchWrite, HInv, TypeOK
<1>3. Claims(form[f])
  BY <1>1 DEF HoldingOf, Phase, Claims
<1>4. \A g \in Forms \ {f} : ~Claims(form[g])
  BY <1>3, OneClaims
<1>5. lock'.by = UserOf[f] /\ lock'.age <= 1 /\ lock'.age \in Nat
  BY <1>1, TimeoutAssumption DEF HoldingOf, Carries, Form, Columns, Ages
<1>6. HoldingOf(UserOf[f], r, lock')
  BY <1>1, <1>5 DEF HoldingOf, Phase, BackedBy, Carries, Claims, Late, Form
<1>7. Holding'
  <2> HIDE DEF r
  <2>. QED  BY <1>2, <1>4, <1>6, RowStep
<1>. QED  BY <1>3, <1>5, <1>7, ClaimIsAlive, TimeoutAssumption

LEMMA ServerHolding ==
    ASSUME HInv, OneFormPerUser, NEW f \in Forms, Server(f) PROVE Holding'
BY AcquireHolding, RefreshHolding, ReleaseReadHolding, ReleaseWriteHolding,
   LoadHolding, PatchReadHolding, PatchWriteHolding
   DEF Server

\* The answers: what the form believes follows the row.
LEMMA AnswerHolding ==
    ASSUME HInv, NEW f \in Forms, Answer(f) PROVE Holding' /\ lock' = lock
<1>0. form[f] \in Form /\ HoldingOf(UserOf[f], form[f], lock)
  BY DEF HInv, TypeOK, Holding
<1>1. CASE Acquired(f)
  <2> DEFINE r == [form[f] EXCEPT !.acquire = "none", !.held = TRUE,
                                  !.timer = TRUE]
  <2>1. form' = [form EXCEPT ![f] = r] /\ lock' = lock
    BY <1>1 DEF Acquired, HInv, TypeOK
  <2>2. form[f].acquire = "ok"
    BY <1>1 DEF Acquired
  <2>3. HoldingOf(UserOf[f], r, lock)
    BY <1>0, <2>2
       DEF HoldingOf, Phase, BackedBy, Carries, Claims, Late, Form
  <2> HIDE DEF r
  <2>. QED  BY <2>1, <2>3, LocalStep
<1>2. CASE Denied(f)
  <2> DEFINE r == [form[f] EXCEPT !.acquire = "none", !.denied = TRUE]
  <2>1. form' = [form EXCEPT ![f] = r] /\ lock' = lock
    BY <1>2 DEF Denied, HInv, TypeOK
  <2>2. form[f].acquire = "denied"
    BY <1>2 DEF Denied
  <2>3. HoldingOf(UserOf[f], r, lock)
    BY <1>0, <2>2
       DEF HoldingOf, Phase, BackedBy, Carries, Claims, Late, Form
  <2> HIDE DEF r
  <2>. QED  BY <2>1, <2>3, LocalStep
<1>3. CASE HeartbeatDenied(f)
  <2> DEFINE r == [form[f] EXCEPT !.refresh = "none", !.held = FALSE,
                                  !.timer = FALSE, !.due = FALSE]
  <2>1. form' = [form EXCEPT ![f] = r] /\ lock' = lock
    BY <1>3 DEF HeartbeatDenied, HInv, TypeOK
  <2>2. form[f].refresh = "denied"
    BY <1>3 DEF HeartbeatDenied
  <2>3. HoldingOf(UserOf[f], r, lock)
    BY <1>0, <2>2
       DEF HoldingOf, Phase, BackedBy, Carries, Claims, Late, Form
  <2> HIDE DEF r
  <2>. QED  BY <2>1, <2>3, LocalStep
<1>4. CASE Saved(f)
  <2> DEFINE r == [Released(form[f]) EXCEPT !.save = "none",
                     !.ui = IF form[f].ui = "open" THEN "closed"
                                                   ELSE form[f].ui]
  <2>1. form' = [form EXCEPT ![f] = r] /\ lock' = lock
    BY <1>4 DEF Saved, HInv, TypeOK
  <2>2. form[f].save = "ok"
    BY <1>4 DEF Saved
  <2>3. HoldingOf(UserOf[f], r, lock)
    BY <1>0, <2>2
       DEF Released, HoldingOf, Phase, BackedBy, Carries, Claims, Late, Form
  <2> HIDE DEF r
  <2>. QED  BY <2>1, <2>3, LocalStep
<1>5. CASE form[f].ui = "dead" /\ Discard(f)
  <2>1. /\ lock' = lock
        /\ \E a \in {"none", "sent", "ok", "denied"},
              b \in {"none", "sent", "denied"} :
             /\ form' = [form EXCEPT ![f] =
                           [form[f] EXCEPT !.acquire = a, !.refresh = b]]
             /\ a \in {form[f].acquire, "none"}
             /\ b \in {form[f].refresh, "none"}
             /\ b = form[f].refresh \/ form[f].refresh = "denied"
    <3>1. form[f].save = "none"
      BY <1>0, <1>5 DEF HoldingOf, Phase
    <3>2. CASE form[f].acquire # "none" /\
               form' = [form EXCEPT ![f].acquire = "none"]
      <4>1. form' = [form EXCEPT ![f] = [form[f] EXCEPT
                       !.acquire = "none", !.refresh = form[f].refresh]]
        BY <1>0, <3>2 DEF HInv, TypeOK, Form
      <4>. QED  BY <1>0, <1>5, <4>1 DEF Discard, Form
    <3>3. CASE form[f].refresh = "denied" /\
               form' = [form EXCEPT ![f].refresh = "none"]
      <4>1. form' = [form EXCEPT ![f] = [form[f] EXCEPT
                       !.acquire = form[f].acquire, !.refresh = "none"]]
        BY <1>0, <3>3 DEF HInv, TypeOK, Form
      <4>. QED  BY <1>0, <1>5, <3>3, <4>1 DEF Discard, Form
    <3>. QED  BY <1>5, <3>1, <3>2, <3>3 DEF Discard
  <2>2. PICK a \in {"none", "sent", "ok", "denied"},
             b \in {"none", "sent", "denied"} :
             /\ form' = [form EXCEPT ![f] =
                           [form[f] EXCEPT !.acquire = a, !.refresh = b]]
             /\ a \in {form[f].acquire, "none"}
             /\ b \in {form[f].refresh, "none"}
             /\ b = form[f].refresh \/ form[f].refresh = "denied"
    BY <2>1
  <2> DEFINE r == [form[f] EXCEPT !.acquire = a, !.refresh = b]
  <2>3. HoldingOf(UserOf[f], r, lock)
    BY <1>0, <2>2
       DEF HoldingOf, Phase, BackedBy, Carries, Claims, Late, Form
  <2>4. form' = [form EXCEPT ![f] = r]
    BY <2>2
  <2> HIDE DEF r
  <2>. QED  BY <2>1, <2>3, <2>4, LocalStep
<1>. QED  BY <1>1, <1>2, <1>3, <1>4, <1>5 DEF Answer, Discard

LEMMA BrowserHolding ==
    ASSUME HInv, Faults = {}, NEW f \in Forms,
           User(f) \/ Heartbeat(f) \/ Crash(f) \/ Lose(f)
    PROVE  Holding' /\ lock' = lock
<1>0. form[f] \in Form /\ HoldingOf(UserOf[f], form[f], lock)
  BY DEF HInv, TypeOK, Holding
<1>1. CASE Mount(f)
  <2> DEFINE r == [form[f] EXCEPT !.ui = "open", !.load = "sent",
                                  !.acquire = "sent"]
  <2>1. form' = [form EXCEPT ![f] = r] /\ lock' = lock
    BY <1>1 DEF Mount, HInv, TypeOK
  <2>2. form[f].ui = "unmounted"
    BY <1>1 DEF Mount
  <2>3. HoldingOf(UserOf[f], r, lock)
    BY <1>0, <2>2
       DEF HoldingOf, Phase, BackedBy, Carries, Claims, Late, Form
  <2> HIDE DEF r
  <2>. QED  BY <2>1, <2>3, LocalStep
<1>2. CASE Submit(f)
  <2> DEFINE r == [form[f] EXCEPT !.save = "sent"]
  <2>1. form' = [form EXCEPT ![f] = r] /\ lock' = lock
    BY <1>2 DEF Submit, HInv, TypeOK
  <2>2. form[f].held
    BY <1>2 DEF Submit
  <2>3. HoldingOf(UserOf[f], r, lock)
    BY <1>0, <2>2
       DEF HoldingOf, Phase, BackedBy, Carries, Claims, Late, Form
  <2> HIDE DEF r
  <2>. QED  BY <2>1, <2>3, LocalStep
<1>3. CASE Close(f)
  <2> DEFINE r == [Released(form[f]) EXCEPT !.ui = "closed"]
  <2>1. form' = [form EXCEPT ![f] = r] /\ lock' = lock
    BY <1>3 DEF Close, HInv, TypeOK
  <2>2. form[f].save = "none" /\ form[f].acquire = "none"
    BY <1>3 DEF Close
  <2>3. HoldingOf(UserOf[f], r, lock)
    BY <1>0, <2>2
       DEF Released, HoldingOf, Phase, BackedBy, Carries, Claims, Late, Form
  <2> HIDE DEF r
  <2>. QED  BY <2>1, <2>3, LocalStep
<1>4. CASE Heartbeat(f)
  <2> DEFINE r == [form[f] EXCEPT !.refresh = "sent", !.due = FALSE]
  <2>1. form' = [form EXCEPT ![f] = r] /\ lock' = lock
    BY <1>4 DEF Heartbeat, HInv, TypeOK
  <2>2. form[f].held /\ form[f].due
    BY <1>4 DEF Heartbeat
  <2>3. HoldingOf(UserOf[f], r, lock)
    BY <1>0, <2>2
       DEF HoldingOf, Phase, BackedBy, Carries, Claims, Late, Form
  <2> HIDE DEF r
  <2>. QED  BY <2>1, <2>3, LocalStep
<1>. QED  BY <1>1, <1>2, <1>3, <1>4 DEF User, Crash, Lose

\* An interval passes only when every form has done what it had to: the lock
\* a form claims is new, and becomes one tick old.
LEMMA TickHolding ==
    ASSUME HInv, Faults = {}, Tick PROVE Holding'
<1> SUFFICES ASSUME NEW f \in Forms
             PROVE  HoldingOf(UserOf[f], form'[f], lock')
  BY DEF Holding
<1> DEFINE r == form[f]
           s == [form[f] EXCEPT !.due = form[f].timer,
                                !.loaded = Older(form[f].loaded)]
<1>1. /\ r \in Form /\ lock \in Columns /\ HoldingOf(UserOf[f], r, lock)
      /\ ~Busy(f) /\ lock' = Older(lock) /\ form'[f] = s
  BY DEF HInv, TypeOK, Holding, Tick
<1>2. r.save = "none" /\ r.release = "none" /\ r.acquire = "none" /\ ~Late(r)
  BY <1>1 DEF Busy, Late
<1>3. Phase(s)
  BY <1>1, <1>2 DEF HoldingOf, Phase, Form
<1>4. BackedBy(UserOf[f], s, lock')
  <2> SUFFICES ASSUME r.held PROVE /\ lock'.by = UserOf[f] /\ lock'.age <= 1
                                   /\ s.due
    BY <1>1, <1>2 DEF BackedBy, Claims, Late, Form
  <2>1. lock.by = UserOf[f] /\ lock.age = 0
    BY <1>1, <1>2 DEF HoldingOf, BackedBy, Claims
  <2>2. s.due
    BY <1>1 DEF HoldingOf, Phase, Form
  <2>. QED  BY <1>1, <2>1, <2>2, FormsAssumption, TimeoutAssumption
            DEF Older, Columns
<1>5. Carries(UserOf[f], s)
  BY <1>1, <1>2 DEF Carries, Form
<1>. QED  BY <1>1, <1>3, <1>4, <1>5 DEF HoldingOf

LEMMA HoldingStep ==
    ASSUME HInv, Faults = {}, OneFormPerUser, [Next]_vars PROVE Holding'
<1>1. CASE UNCHANGED vars
  BY <1>1 DEF vars, HInv, TypeOK, Holding
<1>2. CASE Next
  BY <1>2, ServerHolding, AnswerHolding, BrowserHolding, TickHolding DEF Next
<1>. QED  BY <1>1, <1>2

LEMMA HInvIsInvariant ==
    ASSUME Faults = {}, OneFormPerUser PROVE Spec => []HInv
<1>1. Init => HInv
  BY InitTypeOK, InitHolding DEF HInv
<1>2. HInv /\ [Next]_vars => HInv'
  BY TypeStep, HoldingStep DEF HInv
<1>. QED  BY <1>1, <1>2, PTL DEF Spec

-----------------------------------------------------------------------------
(* What it is for.                                                         *)

\* A form that believes it holds the lock does hold it: requests that are
\* answered within the interval, from one form per user, never leave a form
\* that types into an invoice somebody else has the lock of.
THEOREM HoldersAreBacked ==
    ASSUME Faults = {}, OneFormPerUser PROVE Spec => []HeldIsBacked
<1>1. HInv => HeldIsBacked
  BY ClaimIsAlive DEF HeldIsBacked, Claims
<1>. QED  BY <1>1, HInvIsInvariant, PTL

LEMMA LeaseInitially == Init => Lease!LeaseInit
BY DEF Init, Free, Lease!LeaseInit

\* A step of the lease, or none: what EditLease allows of the row.
LeaseStep == [Lease!LeaseNext]_(Lease!leaseVars)

\* acquire and refresh grant the lease, or are refused.
LEMMA AskIsGrant ==
    ASSUME HInv, NEW f \in Forms, TryAcquire(UserOf[f]) PROVE LeaseStep
<1>0. UserOf[f] \in Users /\ UserOf[f] # Nobody
  BY FormsAssumption
<1>1. CASE BlockedFor(UserOf[f], lock)
  BY <1>1 DEF TryAcquire, LeaseStep, Lease!leaseVars
<1>2. CASE ~BlockedFor(UserOf[f], lock)
  <2>1. lock'.by = UserOf[f] /\ lock'.age # Timeout
    BY <1>2, TimeoutAssumption DEF TryAcquire
  <2>2. \/ lock.by \in {Nobody, UserOf[f]}
        \/ lock.by # Nobody /\ lock.age = Timeout
    BY <1>2, TimeoutAssumption
       DEF BlockedFor, Alive, HInv, TypeOK, Columns, Ages
  <2>3. Lease!Grant(UserOf[f])
    BY <2>1, <2>2 DEF Lease!Grant
  <2>. QED  BY <1>0, <2>3 DEF Lease!LeaseNext, LeaseStep
<1>. QED  BY <1>1, <1>2

LEMMA UntouchedIsStutter == ASSUME lock' = lock PROVE LeaseStep
BY DEF LeaseStep, Lease!leaseVars

\* The release that was read as the holder's is written as the holder's, and
\* a PATCH writes back the lock its user has.
LEMMA ServerIsLease ==
    ASSUME HInv, OneFormPerUser, NEW f \in Forms, Server(f) PROVE LeaseStep
<1>1. CASE Acquire(f) \/ Refresh(f)
  BY <1>1, AskIsGrant DEF Acquire, Refresh
<1>2. CASE ReleaseRead(f) \/ Load(f) \/ PatchRead(f)
  BY <1>2, UntouchedIsStutter DEF ReleaseRead, Load, PatchRead
<1>3. CASE ReleaseWrite(f)
  <2>1. UserOf[f] \in Users /\ lock.by = UserOf[f] /\ lock' = Free
    BY <1>3, ReleaseWriteHolding, FormsAssumption DEF ReleaseWrite
  <2>2. Lease!GiveBack(UserOf[f])
    BY <2>1 DEF Lease!GiveBack, Free
  <2>. QED  BY <2>1, <2>2 DEF Lease!LeaseNext, LeaseStep
<1>4. CASE PatchWrite(f)
  BY <1>4, PatchWriteHolding DEF LeaseStep, Lease!leaseVars
<1>. QED  BY <1>1, <1>2, <1>3, <1>4 DEF Server

\* Time makes the lease expire, once.
LEMMA TickIsExpire == ASSUME HInv, Tick PROVE LeaseStep
<1>1. lock \in Columns /\ lock' = Older(lock)
  BY DEF HInv, TypeOK, Tick
<1>2. CASE lock.by = Nobody \/ lock.age = Timeout
  BY <1>1, <1>2, UntouchedIsStutter DEF Older
<1>3. CASE lock.by # Nobody /\ lock.age # Timeout
  <2>1. lock'.by = lock.by
    BY <1>1, <1>3 DEF Older, Columns
  <2>2. CASE lock'.age = Timeout
    <3>1. Lease!Expire
      BY <1>3, <2>1, <2>2 DEF Lease!Expire
    <3>. QED  BY <3>1 DEF Lease!LeaseNext, LeaseStep
  <2>3. CASE lock'.age # Timeout
    BY <1>3, <2>1, <2>3 DEF LeaseStep, Lease!leaseVars
  <2>. QED  BY <2>2, <2>3
<1>. QED  BY <1>2, <1>3

LEMMA StepIsLease ==
    ASSUME HInv, Faults = {}, OneFormPerUser, [Next]_vars PROVE LeaseStep
<1>1. CASE UNCHANGED vars
  BY <1>1, UntouchedIsStutter DEF vars
<1>2. CASE Next
  <2>1. ASSUME NEW f \in Forms,
               Answer(f) \/ User(f) \/ Heartbeat(f) \/ Crash(f) \/ Lose(f)
        PROVE  LeaseStep
    BY <2>1, AnswerHolding, BrowserHolding, UntouchedIsStutter
  <2>. QED  BY <1>2, <2>1, ServerIsLease, TickIsExpire DEF Next
<1>. QED  BY <1>1, <1>2

\* The lock implements the lease of ADR-024: it changes hands only when it
\* was given back or has expired, and only its holder gives it back, although
\* release and PATCH read the row in one statement and write it in another.
THEOREM LockIsLease ==
    ASSUME Faults = {}, OneFormPerUser PROVE Spec => LeaseKept
<1>1. HInv /\ [Next]_vars => [Lease!LeaseNext]_(Lease!leaseVars)
  BY StepIsLease DEF LeaseStep
<1>. QED  BY <1>1, LeaseInitially, HInvIsInvariant, PTL
          DEF Spec, LeaseKept, Lease!LeaseSpec
=============================================================================
