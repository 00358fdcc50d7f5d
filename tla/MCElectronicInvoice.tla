------------------------- MODULE MCElectronicInvoice -------------------------
(***************************************************************************)
(* Instances of ElectronicInvoice: a partner at home and one in another    *)
(* country of the Union with a VAT id; lines typed in at 19 percent or at  *)
(* none, and a book at 7 percent.                                          *)
(***************************************************************************)
EXTENDS ElectronicInvoice, TLC

CONSTANTS h1, h2, l1, l2, l3, c1, c2

Local    == [country |-> "home", vat |-> "none"]
Abroad   == [country |-> "eu", vat |-> "wellformed"]
Both     == {Local, Abroad}

Book     == [product |-> [rate |-> 7, category |-> "REDUCED"], rate |-> 0]
Lesson   == [product |-> [rate |-> 0, category |-> "EXEMPT"], rate |-> 0]
Typed(r) == [product |-> Absent, rate |-> r]
Catalog  == {Book, Lesson, Typed(19)}

\* Nothing, one feature, all, and all but one.
Some == {{}, Features} \cup {{f} : f \in Features} \cup {Features \ {f} : f \in Features}

Interchangeable == Permutations(Handlers) \cup Permutations(LineIds)
                     \cup Permutations(ChargeIds)
=============================================================================
