------------------------ MODULE MCInvoiceLifecycle ------------------------
(* Model-checking instances of InvoiceLifecycle.                           *)
EXTENDS InvoiceLifecycle, TLC

CONSTANTS w1, w2, h1, h2

\* Workers are interchangeable: Init and Next treat them alike and no
\* property names one.
WorkerSymmetry == Permutations(Workers)
=============================================================================
