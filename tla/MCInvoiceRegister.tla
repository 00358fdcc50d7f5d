-------------------------- MODULE MCInvoiceRegister --------------------------
(* Instances of InvoiceRegister.                                           *)
EXTENDS InvoiceRegister, TLC

CONSTANTS c1, c2, p1, p2

Interchangeable == Permutations(Clients) \cup Permutations(Partners)
=============================================================================
