-------------------------- MODULE MCInvoiceDispatch --------------------------
(***************************************************************************)
(* Instances of InvoiceDispatch: a firm, an authority, and one that gave   *)
(* neither a buyer reference nor an address.                               *)
(***************************************************************************)
EXTENDS InvoiceDispatch, TLC

CONSTANTS j1, j2

\* One job sends or downloads, the other is anything that may cross it.
Crossing == (j1 :> Sends \cup {"download_pdf", "download_xml"})
         @@ (j2 :> {"task", "generate_xml", "mark_as_sent", "mark_as_paid"})

Firm      == [government |-> FALSE, reference |-> FALSE, mail |-> TRUE]
Authority == [government |-> TRUE, reference |-> TRUE, mail |-> TRUE]
Vague     == [government |-> TRUE, reference |-> FALSE, mail |-> FALSE]

All == {Firm, Authority, Vague}
=============================================================================
