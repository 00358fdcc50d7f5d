----------------------------- MODULE EditLease -----------------------------
(***************************************************************************)
(* What the edit lock of an invoice promises (ADR-024 and the docstrings   *)
(* of acquire_edit_lock and release_edit_lock): a lease.  Whoever asks     *)
(* first holds it, nobody else gets it before it has expired or its holder *)
(* has given it back, and only the holder gives it back.                   *)
(***************************************************************************)
CONSTANTS
    Users,
    Nobody   \* no user

VARIABLES
    holder,  \* the user who has the lease
    expired  \* TRUE when the holder has not renewed it in time

leaseVars == <<holder, expired>>

LeaseInit == holder = Nobody /\ expired = FALSE

\* Taking a free or an expired lease, and renewing one's own.
Grant(u) ==
    /\ holder \in {Nobody, u} \/ expired
    /\ holder' = u
    /\ expired' = FALSE

Expire ==
    /\ holder # Nobody
    /\ expired' = TRUE
    /\ UNCHANGED holder

GiveBack(u) ==
    /\ holder = u
    /\ holder' = Nobody
    /\ expired' = FALSE

LeaseNext == (\E u \in Users : Grant(u) \/ GiveBack(u)) \/ Expire

LeaseSpec == LeaseInit /\ [][LeaseNext]_leaseVars
=============================================================================
