-------------------------- MODULE MCIncomingInvoice --------------------------
(***************************************************************************)
(* Three files: an invoice with attachments, one of a second supplier      *)
(* without a tax number for the same buyer, with a date in prose and a tax *)
(* that is no number, and one whose total is no number.                    *)
(***************************************************************************)
EXTENDS IncomingInvoice, TLC

CONSTANTS s1, s2

Attached(name, ext) == [name |-> name, ext |-> ext]
Amount(is, n)       == [is |-> is, value |-> n]
Refers(file)        == [file |-> file, uri |-> TRUE]

First ==
    [embedded |-> {Attached("factur-x", "xml"), Attached("note", "pdf"),
                   Attached("archive", "zip")},
     schema |-> TRUE, number |-> "1", date |-> "eight", format102 |-> TRUE,
     seller |-> "Meyer", tax |-> "DE1", buyer |-> "Us",
     total |-> Amount("number", 10), taxTotal |-> Amount("number", 1), currency |-> Absent,
     refs |-> {Refers("note"), Refers("hours"), Refers("")}]

Second == [First EXCEPT !.number = "2", !.seller = "Schulz", !.tax = Absent,
                        !.date = "prose", !.format102 = FALSE,
                        !.total = Amount(Absent, 0), !.taxTotal = Amount("garbled", 0)]

Third  == [First EXCEPT !.number = "3", !.total = Amount("garbled", 0),
                        !.embedded = {Attached("factur-x", "xml")}]

Files     == {First, Second, Third}
RunsAlike == Permutations({s1, s2})
=============================================================================
