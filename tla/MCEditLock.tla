----------------------------- MODULE MCEditLock -----------------------------
(***************************************************************************)
(* Instances of EditLock: in OneEach the forms f1 and f2 belong to two     *)
(* users, in TwoTabs they are two tabs of one user, and in Three a second  *)
(* user has the form f3.                                                   *)
(***************************************************************************)
EXTENDS EditLock, TLC

CONSTANTS f1, f2, f3, ada, bob

OneEach == (f1 :> ada) @@ (f2 :> bob)
TwoTabs == (f1 :> ada) @@ (f2 :> ada)
Three   == (f1 :> ada) @@ (f2 :> ada) @@ (f3 :> bob)
=============================================================================
