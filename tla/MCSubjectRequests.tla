-------------------------- MODULE MCSubjectRequests --------------------------
(***************************************************************************)
(* A person who is a business partner twice and a user once, and one       *)
(* request, which is about all three or about some of them.                *)
(***************************************************************************)
EXTENDS SubjectRequests, TLC

CONSTANTS p1, p2, u1, d1, h1, h2

Emails == [s \in {p1, p2, u1} |-> IF s = u1 THEN "user" ELSE "erika"]

Ask(kind, type, email, link) ==
    [kind |-> kind, type |-> type, email |-> email, link |-> link]

Asks == {Ask("erasure", "partner", "erika", u1),
         Ask("erasure", "partner", "erika", p1),
         Ask("erasure", "user", "user", None),
         Ask("restriction", "partner", "erika", None),
         Ask("access", "user", "user", None),
         Ask("objection", "partner", "erika", None)}

HandlersAlike == Permutations({h1, h2})
=============================================================================
