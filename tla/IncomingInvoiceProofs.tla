----------------------- MODULE IncomingInvoiceProofs -----------------------
(***************************************************************************)
(* Proofs about IncomingInvoice, for any number of runs, files and faults, *)
(* with either validator: a booking that fails leaves nothing behind, and  *)
(* what a run reports about a file is true.                                *)
(*                                                                         *)
(* Reports rest on what nobody takes back: invoices and copies are only    *)
(* added, and a document once found valid stays the same.                  *)
(***************************************************************************)
EXTENDS IncomingInvoice, TLAPS

USE DocumentsAssumption, ValidatorAssumption, IncomingFaults

-----------------------------------------------------------------------------
(* The inductive invariant.                                                *)

\* What a run r that is at a document has found out about it so far.
JobOK(s, r) ==
    /\ r.pc \notin {"idle", "next"} => r.doc \in Documents
    /\ r.pc \notin {"idle", "next", "validate"} => Valid(r.doc)
    /\ r.pc \in {"buyer", "number", "user", "commit"} => r.company \in Company
    /\ r.pc = "copy" => \E i \in invoices : i.doc = r.doc /\ i.by = s

TypeInv ==
    /\ TypeOK
    /\ \A s \in Scans : JobOK(s, scan[s])

\* What is booked is what a valid document states, and every number is booked
\* once.
BooksOK ==
    /\ \A i \in invoices : Valid(i.doc) /\ i.data = InvoiceData(i.doc)
    /\ \A i, k \in invoices : i.data.number = k.data.number => i = k

\* One report of s, as it was given.
Told(s, d, outcome) ==
    /\ outcome = "success" => /\ \E i \in invoices : i.doc = d /\ i.by = s
                              /\ <<"processed", d>> \in copies
    /\ outcome = "invalid" => <<"rejected", d>> \in copies
    /\ outcome = "duplicate" =>
           \E i \in invoices : i.data.number = InvoiceData(d).number

AllTold == \A s \in Scans : \A r \in scan[s].results : Told(s, r[1], r[2])

ReportInv == TypeInv /\ BooksOK /\ AllTold

-----------------------------------------------------------------------------
(* Texts, and how a run moves.                                             *)

LEMMA DataTypes ==
    ASSUME NEW d \in Documents
    PROVE  /\ [name |-> InvoiceData(d).seller, tax |-> InvoiceData(d).tax] \in Company
           /\ [name |-> InvoiceData(d).buyer] \in [name : ReadTexts]
<1>1. d.seller \in Texts /\ d.tax \in Texts /\ d.buyer \in Texts
  BY DEF Document
<1>. QED  BY <1>1 DEF InvoiceData, ExtractText, ReadTexts, Company

\* Nothing is taken back, and run s goes on as r.
LEMMA RunMoves ==
    ASSUME TypeInv, NEW s \in Scans, NEW r, r \in Scan, JobOK(s, r)',
           scan' = [scan EXCEPT ![s] = r], invoices \subseteq invoices'
    PROVE  scan' \in [Scans -> Scan] /\ \A t \in Scans : JobOK(t, scan[t])'
<1>1. \A t \in Scans : JobOK(t, scan[t]) => JobOK(t, scan[t])'
  <2> SUFFICES ASSUME NEW t \in Scans, t # s, JobOK(t, scan[t])
               PROVE  JobOK(t, scan[t])'
    BY DEF TypeInv, TypeOK
  <2>1. scan'[t] = scan[t]
    BY DEF TypeInv, TypeOK
  <2>. QED  BY <2>1 DEF JobOK, Valid, Rules
<1>. QED  BY <1>1 DEF TypeInv, TypeOK

ResultRow(s, outcome) ==
    [scan[s] EXCEPT !.pc = "next", !.doc = None, !.company = None,
                    !.partner = None, !.user = FALSE,
                    !.results = @ \cup {<<Doc(s), outcome>>}]

LEMMA ResultIs ==
    ASSUME TypeOK, NEW s \in Scans, Doc(s) \in Documents, NEW outcome \in Outcomes
    PROVE  /\ Result(s, outcome) = [scan EXCEPT ![s] = ResultRow(s, outcome)]
           /\ ResultRow(s, outcome) \in Scan
           /\ ResultRow(s, outcome).pc = "next"
           /\ ResultRow(s, outcome).results = scan[s].results \cup {<<Doc(s), outcome>>}
<1>1. scan \in [Scans -> Scan] /\ scan[s] \in Scan
  BY DEF TypeOK
<1>2. <<Doc(s), outcome>> \in Documents \X Outcomes
  OBVIOUS
<1>. QED  BY <1>1, <1>2 DEF Result, ResultRow, Scan

\* A step that moves one run and changes no table but that of the copies.
LEMMA RunOnly ==
    ASSUME TypeInv, NEW s \in Scans, NEW r, r \in Scan, JobOK(s, r),
           scan' = [scan EXCEPT ![s] = r],
           UNCHANGED <<inbox, db>>, copies' \subseteq {"processed", "rejected"} \X Documents
    PROVE  TypeInv'
<1>1. JobOK(s, r)' /\ invoices \subseteq invoices'
  BY DEF JobOK, Valid, Rules, db
<1>2. scan' \in [Scans -> Scan] /\ \A t \in Scans : JobOK(t, scan[t])'
  BY <1>1, RunMoves
<1>. QED  BY <1>2 DEF TypeInv, TypeOK, db

\* The same when the run puts down a document with a result.
LEMMA ResultOnly ==
    ASSUME TypeInv, NEW s \in Scans, Doc(s) \in Documents, NEW outcome \in Outcomes,
           scan' = Result(s, outcome),
           UNCHANGED <<inbox, db>>, copies' \subseteq {"processed", "rejected"} \X Documents
    PROVE  TypeInv'
<1>1. TypeOK
  BY DEF TypeInv
<1>2. JobOK(s, ResultRow(s, outcome))
  BY <1>1, ResultIs DEF JobOK
<1>. QED  BY <1>1, <1>2, ResultIs, RunOnly

LEMMA AtDocument ==
    ASSUME TypeInv, NEW s \in Scans, NEW pc, At(s, pc), pc \notin {"idle", "next"}
    PROVE  Doc(s) \in Documents /\ JobOK(s, scan[s]) /\ scan[s] \in Scan
BY DEF TypeInv, TypeOK, JobOK, At, Doc

LEMMA BatchTypes ==
    ASSUME TypeInv, NEW s \in Scans, Start(s) \/ NextFile(s) \/ Finish(s)
    PROVE  TypeInv'
<1>1. scan[s] \in Scan /\ inbox \subseteq Documents
      /\ copies \subseteq {"processed", "rejected"} \X Documents
  BY DEF TypeInv, TypeOK
<1>2. CASE Start(s)
  <2> DEFINE r == [scan[s] EXCEPT !.pc = "next", !.todo = inbox,
                                  !.results = {}, !.rounds = @ + 1]
  <2>1. scan[s].rounds + 1 \in 0 .. MaxRounds
    BY <1>1, <1>2 DEF Start, Scan
  <2>2. r \in Scan /\ r.pc = "next"
    BY <1>1, <2>1 DEF Scan
  <2>3. scan' = [scan EXCEPT ![s] = r]
    BY <1>2 DEF Start
  <2> HIDE DEF r
  <2>. QED  BY <1>1, <1>2, <2>2, <2>3, RunOnly DEF Start, JobOK
<1>3. CASE NextFile(s)
  <2>1. PICK d \in scan[s].todo :
          scan' = [scan EXCEPT ![s] = [scan[s] EXCEPT !.pc = "validate", !.doc = d,
                                                      !.todo = @ \ {d}]]
    BY <1>3 DEF NextFile
  <2> DEFINE r == [scan[s] EXCEPT !.pc = "validate", !.doc = d, !.todo = @ \ {d}]
  <2>2. r \in Scan /\ JobOK(s, r)
    BY <1>1 DEF Scan, JobOK
  <2> HIDE DEF r
  <2>. QED  BY <1>1, <1>3, <2>1, <2>2, RunOnly DEF NextFile, r
<1>4. CASE Finish(s)
  <2> DEFINE r == [scan[s] EXCEPT !.pc = "idle"]
  <2>1. r \in Scan /\ JobOK(s, r)
    BY <1>1 DEF Scan, JobOK
  <2> HIDE DEF r
  <2>. QED  BY <1>1, <1>4, <2>1, RunOnly DEF Finish, r
<1>. QED  BY <1>2, <1>3, <1>4

LEMMA ValidateTypes == ASSUME TypeInv, NEW s \in Scans, Validate(s) PROVE TypeInv'
<1>1. Doc(s) \in Documents /\ JobOK(s, scan[s]) /\ scan[s] \in Scan
  BY AtDocument DEF Validate
<1>2. copies' \subseteq {"processed", "rejected"} \X Documents
  BY <1>1 DEF Validate, Rejected, TypeInv, TypeOK
<1>3. CASE Verdict(Doc(s)) = "valid"
  <2> DEFINE r == [scan[s] EXCEPT !.pc = "duplicate"]
  <2>1. Valid(Doc(s))
    BY <1>3 DEF Verdict
  <2>2. r \in Scan /\ JobOK(s, r)
    BY <1>1, <2>1 DEF Scan, JobOK, Doc, At
  <2>3. scan' = [scan EXCEPT ![s] = r]
    BY <1>3 DEF Validate
  <2> HIDE DEF r
  <2>. QED  BY <1>2, <2>2, <2>3, RunOnly DEF Validate
<1>4. CASE Verdict(Doc(s)) # "valid"
  BY <1>1, <1>2, <1>4, ResultOnly DEF Validate, Verdict, Outcomes
<1>. QED  BY <1>3, <1>4

LEMMA DuplicateTypes == ASSUME TypeInv, NEW s \in Scans, Duplicate(s) PROVE TypeInv'
<1>1. Doc(s) \in Documents /\ JobOK(s, scan[s]) /\ scan[s] \in Scan
  BY AtDocument DEF Duplicate
<1>2. copies' \subseteq {"processed", "rejected"} \X Documents
  BY DEF Duplicate, TypeInv, TypeOK
<1>3. CASE IsDuplicate(Data(s))
  BY <1>1, <1>2, <1>3, ResultOnly DEF Duplicate, Outcomes
<1>4. CASE ~IsDuplicate(Data(s))
  <2> DEFINE r == [scan[s] EXCEPT !.pc = "supplier"]
  <2>1. r \in Scan /\ JobOK(s, r)
    BY <1>1 DEF Scan, JobOK, Duplicate, At
  <2>2. scan' = [scan EXCEPT ![s] = r]
    BY <1>4 DEF Duplicate
  <2> HIDE DEF r
  <2>. QED  BY <1>2, <2>1, <2>2, RunOnly DEF Duplicate
<1>. QED  BY <1>3, <1>4

LEMMA SupplierTypes == ASSUME TypeInv, NEW s \in Scans, Supplier(s) PROVE TypeInv'
<1>1. Doc(s) \in Documents /\ JobOK(s, scan[s]) /\ scan[s] \in Scan
  BY AtDocument DEF Supplier
<1>2. copies' \subseteq {"processed", "rejected"} \X Documents
  BY DEF Supplier, TypeInv, TypeOK
<1>3. CASE scan' = Result(s, "failed")
  BY <1>1, <1>2, <1>3, ResultOnly DEF Supplier, Outcomes
<1>4. ASSUME NEW c \in Company,
             scan' = [scan EXCEPT ![s].pc = "buyer", ![s].company = c]
      PROVE  TypeInv'
  <2> DEFINE r == [scan[s] EXCEPT !.pc = "buyer", !.company = c]
  <2>1. r \in Scan /\ JobOK(s, r)
    BY <1>1 DEF Scan, JobOK, Supplier, At
  <2>2. scan' = [scan EXCEPT ![s] = r]
    BY <1>4
  <2> HIDE DEF r
  <2>. QED  BY <1>2, <2>1, <2>2, RunOnly DEF Supplier
<1>5. Suppliers(Data(s)) \subseteq Company
  BY DEF Suppliers, TypeInv, TypeOK
<1>. QED  BY <1>1, <1>3, <1>4, <1>5, DataTypes DEF Supplier, Data

LEMMA BuyerTypes ==
    ASSUME TypeInv, NEW s \in Scans, Buyer(s) \/ Number(s) \/ SystemUser(s)
    PROVE  TypeInv'
<1>1. Doc(s) \in Documents /\ JobOK(s, scan[s]) /\ scan[s] \in Scan
      /\ scan[s].pc \in {"buyer", "number", "user"}
  BY AtDocument DEF Buyer, Number, SystemUser, At
<1>2. /\ copies' \subseteq {"processed", "rejected"} \X Documents
      /\ UNCHANGED <<inbox, db>>
  BY DEF Buyer, Number, SystemUser, TypeInv, TypeOK
<1>3. CASE scan' = Result(s, "failed")
  BY <1>1, <1>2, <1>3, ResultOnly DEF Outcomes
<1>4. ASSUME NEW pc \in {"number", "user", "commit"}, NEW n \in Nat \cup {None},
             NEW user \in BOOLEAN,
             scan' = [scan EXCEPT ![s] = [scan[s] EXCEPT !.pc = pc, !.partner = n,
                                                         !.user = user]]
      PROVE  TypeInv'
  <2> DEFINE r == [scan[s] EXCEPT !.pc = pc, !.partner = n, !.user = user]
  <2>1. r \in Scan /\ JobOK(s, r)
    BY <1>1 DEF Scan, JobOK
  <2> HIDE DEF r
  <2>. QED  BY <1>2, <1>4, <2>1, RunOnly DEF r
<1>5. scan[s].partner \in Nat \cup {None} /\ scan[s].user \in BOOLEAN
  BY <1>1 DEF Scan
<1>6. CASE Buyer(s)
  <2>1. ASSUME NEW pc \in {"number", "user"}, scan' = [scan EXCEPT ![s].pc = pc]
        PROVE  TypeInv'
    <3>1. [scan[s] EXCEPT !.pc = pc] =
          [scan[s] EXCEPT !.pc = pc, !.partner = scan[s].partner, !.user = scan[s].user]
      BY <1>1 DEF Scan
    <3>. QED  BY <1>4, <1>5, <2>1, <3>1
  <2>. QED  BY <1>3, <1>6, <2>1 DEF Buyer
<1>7. CASE Number(s)
  <2>1. Len(partners) + 1 \in Nat
    BY DEF TypeInv, TypeOK
  <2>2. [scan[s] EXCEPT !.pc = "user", !.partner = Len(partners) + 1] =
        [scan[s] EXCEPT !.pc = "user", !.partner = Len(partners) + 1, !.user = scan[s].user]
    BY <1>1 DEF Scan
  <2>3. scan' = [scan EXCEPT ![s] =
                   [scan[s] EXCEPT !.pc = "user", !.partner = Len(partners) + 1]]
    BY <1>7 DEF Number
  <2>. QED  BY <1>4, <1>5, <2>1, <2>2, <2>3
<1>8. CASE SystemUser(s)
  <2>1. [scan[s] EXCEPT !.pc = "commit", !.user = ~users] =
        [scan[s] EXCEPT !.pc = "commit", !.partner = scan[s].partner, !.user = ~users]
    BY <1>1 DEF Scan
  <2>2. scan' = [scan EXCEPT ![s] = [scan[s] EXCEPT !.pc = "commit", !.user = ~users]]
    BY <1>8 DEF SystemUser
  <2>3. (~users) \in BOOLEAN
    OBVIOUS
  <2>. QED  BY <1>4, <1>5, <2>1, <2>2, <2>3
<1>. QED  BY <1>6, <1>7, <1>8

LEMMA KeptExtracted ==
    ASSUME NEW d, NEW kept \in Kept(d)
    PROVE  kept \subseteq Extracted(d)
BY DEF Kept

\* What a commit that is accepted leaves.
LEMMA CommitTables ==
    ASSUME TypeInv, NEW s \in Scans, At(s, "commit"),
           NEW kept \in Kept(Doc(s)),
           companies' = companies \cup {scan[s].company},
           partners' = Partners(s),
           users' = (users \/ scan[s].user),
           invoices' = invoices \cup {Booked(s, kept)}
    PROVE  /\ companies' \subseteq Company
           /\ partners' \in Seq([name : ReadTexts])
           /\ users' \in BOOLEAN
           /\ (\A i \in invoices : i.doc \in Documents /\ i.company \in companies
                                   /\ i.files \subseteq Extracted(i.doc))'
<1>1. Doc(s) \in Documents /\ JobOK(s, scan[s]) /\ scan[s] \in Scan
  BY AtDocument
<1>2. scan[s].company \in Company
  BY <1>1 DEF JobOK, At
<1>3. /\ Booked(s, kept).doc = Doc(s)
      /\ Booked(s, kept).company = scan[s].company
      /\ Booked(s, kept).files = kept
  BY DEF Booked
<1>4. \A i \in invoices' : i.doc \in Documents /\ i.company \in companies'
                           /\ i.files \subseteq Extracted(i.doc)
  BY <1>1, <1>3, KeptExtracted DEF TypeInv, TypeOK
<1>5. partners' \in Seq([name : ReadTexts])
  <2>1. [name |-> Data(s).buyer] \in [name : ReadTexts]
    BY <1>1, DataTypes DEF Data
  <2>2. partners \in Seq([name : ReadTexts])
    BY DEF TypeInv, TypeOK
  <2>3. Append(partners, [name |-> Data(s).buyer]) \in Seq([name : ReadTexts])
    BY <2>1, <2>2
  <2>. QED  BY <2>2, <2>3 DEF Partners
<1>6. users' \in BOOLEAN
  OBVIOUS
<1>. QED  BY <1>2, <1>4, <1>5, <1>6 DEF TypeInv, TypeOK, Extracted

LEMMA CommitTypes == ASSUME TypeInv, NEW s \in Scans, Commit(s) PROVE TypeInv'
<1>1. Doc(s) \in Documents /\ JobOK(s, scan[s]) /\ scan[s] \in Scan /\ At(s, "commit")
  BY AtDocument DEF Commit
<1>2. copies' \subseteq {"processed", "rejected"} \X Documents /\ inbox' = inbox
  BY DEF Commit, TypeInv, TypeOK
<1>3. CASE Rollback(s)
  BY <1>1, <1>2, <1>3, ResultOnly DEF Rollback, Outcomes
<1>4. CASE ~Rollback(s)
  <2>1. PICK kept \in Kept(Doc(s)) : invoices' = invoices \cup {Booked(s, kept)}
    BY <1>4 DEF Commit
  <2>0. PICK r : r = [scan[s] EXCEPT !.pc = "copy"]
    OBVIOUS
  <2>2. scan' = [scan EXCEPT ![s] = r]
    BY <1>4, <2>0 DEF Commit
  <2>3. Booked(s, kept).doc = Doc(s) /\ Booked(s, kept).by = s
    BY DEF Booked
  <2>4. r \in Scan /\ r.pc = "copy" /\ r.doc = Doc(s)
    BY <1>1, <2>0 DEF Scan, Doc
  <2>5. Valid(Doc(s))
    BY <1>1 DEF JobOK, At, Doc
  <2>6. \E i \in invoices' : i.doc = r.doc /\ i.by = s
    BY <2>1, <2>3, <2>4
  <2>7. JobOK(s, r)'
    BY <1>1, <2>4, <2>5, <2>6 DEF JobOK, Valid, Rules
  <2>8. invoices \subseteq invoices'
    BY <2>1
  <2>9. scan' \in [Scans -> Scan]
    BY <2>2, <2>4, <2>7, <2>8, RunMoves
  <2>10. \A t \in Scans : JobOK(t, scan[t])'
    BY <2>2, <2>4, <2>7, <2>8, RunMoves
  <2>11. /\ companies' \subseteq Company
         /\ partners' \in Seq([name : ReadTexts])
         /\ users' \in BOOLEAN
         /\ (\A i \in invoices : i.doc \in Documents /\ i.company \in companies
                                 /\ i.files \subseteq Extracted(i.doc))'
    BY <1>1, <1>4, <2>1, CommitTables DEF Commit
  <2>. QED  BY <1>2, <2>9, <2>10, <2>11 DEF TypeInv, TypeOK
<1>. QED  BY <1>3, <1>4

LEMMA CopyTypes == ASSUME TypeInv, NEW s \in Scans, Copy(s) PROVE TypeInv'
<1>1. Doc(s) \in Documents
  BY AtDocument DEF Copy
<1>2. copies' \subseteq {"processed", "rejected"} \X Documents
  BY <1>1 DEF Copy, Copied, TypeInv, TypeOK
<1>3. \E outcome \in Outcomes : scan' = Result(s, outcome)
  BY DEF Copy, Reported, Outcomes
<1>. QED  BY <1>1, <1>2, <1>3, ResultOnly DEF Copy

LEMMA CrashTypes == ASSUME TypeInv, NEW s \in Scans, Crash(s) PROVE TypeInv'
<1> DEFINE r == [NewScan EXCEPT !.rounds = scan[s].rounds]
<1>1. r \in Scan /\ JobOK(s, r)
  BY DEF NewScan, Scan, JobOK, TypeInv, TypeOK
<1>2. /\ scan' = [scan EXCEPT ![s] = r]
      /\ UNCHANGED <<inbox, db>>
      /\ copies' \subseteq {"processed", "rejected"} \X Documents
  BY DEF Crash, TypeInv, TypeOK
<1> HIDE DEF r
<1>. QED  BY <1>1, <1>2, RunOnly

LEMMA ClearFileTypes == ASSUME TypeInv, NEW d \in Documents, ClearFile(d) PROVE TypeInv'
BY DEF ClearFile, TypeInv, TypeOK, JobOK, Valid, Rules, db

LEMMA InitTypeInv == Init => TypeInv
<1> SUFFICES ASSUME Init PROVE TypeInv
  OBVIOUS
<1>1. NewScan \in Scan /\ \A s \in Scans : JobOK(s, NewScan)
  BY DEF NewScan, Scan, JobOK
<1>2. <<>> \in Seq([name : ReadTexts])
  OBVIOUS
<1>. QED  BY <1>1, <1>2 DEF Init, TypeInv, TypeOK

LEMMA TypeStep == ASSUME TypeInv, [Next]_vars PROVE TypeInv'
<1>1. CASE UNCHANGED vars
  BY <1>1 DEF vars, db, TypeInv, TypeOK, JobOK, Valid, Rules
<1>2. ASSUME NEW s \in Scans, Start(s) \/ Step(s) \/ Crash(s) PROVE TypeInv'
  BY <1>2, BatchTypes, ValidateTypes, DuplicateTypes, SupplierTypes, BuyerTypes,
     CommitTypes, CopyTypes, CrashTypes DEF Step
<1>. QED  BY <1>1, <1>2, ClearFileTypes DEF Next

\* Tables, files and runs are well formed, however many runs are on the
\* directory, whatever fails.
THEOREM TypeCorrect == Spec => []TypeOK
<1>1. TypeInv => TypeOK
  BY DEF TypeInv
<1>. QED  BY <1>1, InitTypeInv, TypeStep, PTL DEF Spec

-----------------------------------------------------------------------------
(* A booking is one transaction.                                           *)

LEMMA BookedStep ==
    ASSUME TypeInv, NothingHalfBooked, [Next]_vars
    PROVE  NothingHalfBooked'
<1>1. CASE UNCHANGED db
  BY <1>1 DEF NothingHalfBooked, db
<1>2. ASSUME NEW s \in Scans, Commit(s), ~Rollback(s)
      PROVE  NothingHalfBooked'
  <2>1. PICK kept : invoices' = invoices \cup {Booked(s, kept)}
    BY <1>2 DEF Commit
  <2>2. /\ companies' = companies \cup {scan[s].company}
        /\ partners' = Partners(s)
        /\ users' = (users \/ scan[s].user)
    BY <1>2 DEF Commit
  <2>3. /\ Booked(s, kept).company = scan[s].company
        /\ Booked(s, kept).data = Data(s)
    BY DEF Booked
  <2>4. \A c \in companies' : \E i \in invoices' : i.company = c
    BY <2>1, <2>2, <2>3 DEF NothingHalfBooked
  <2>5. \A k \in DOMAIN partners' : \E i \in invoices' : i.data.buyer = partners'[k].name
    <3>1. CASE partners' = partners
      BY <2>1, <3>1 DEF NothingHalfBooked
    <3>2. CASE partners' = Append(partners, [name |-> Data(s).buyer])
      <4>1. partners \in Seq([name : ReadTexts])
        BY DEF TypeInv, TypeOK
      <4>2. \A k \in DOMAIN partners' :
              \/ k \in DOMAIN partners /\ partners'[k] = partners[k]
              \/ partners'[k] = [name |-> Data(s).buyer]
        BY <3>2, <4>1
      <4>. QED  BY <2>1, <2>3, <4>2 DEF NothingHalfBooked
    <3>. QED  BY <2>2, <3>1, <3>2 DEF Partners
  <2>. QED  BY <2>1, <2>4, <2>5 DEF NothingHalfBooked
<1>3. ASSUME NEW s \in Scans, Start(s) \/ Step(s) \/ Crash(s)
      PROVE  UNCHANGED db \/ (Commit(s) /\ ~Rollback(s))
  BY <1>3 DEF Start, Step, Crash, NextFile, Finish, Validate, Duplicate, Supplier,
     Buyer, Number, SystemUser, Commit, Rollback, Copy
<1>. QED  BY <1>1, <1>2, <1>3 DEF Next, ClearFile, vars, db

\* A booking that fails leaves neither a supplier nor a business partner nor a
\* system user behind, for any number of runs and whatever fails in them
\* (incoming_invoice_service.py:149).
THEOREM FailureLeavesNothing == Spec => []NothingHalfBooked
<1>1. Init => NothingHalfBooked
  BY DEF Init, NothingHalfBooked
<1>2. TypeInv /\ NothingHalfBooked /\ [Next]_vars => (TypeInv /\ NothingHalfBooked)'
  BY TypeStep, BookedStep
<1>. QED  BY <1>1, <1>2, InitTypeInv, PTL DEF Spec

-----------------------------------------------------------------------------
(* What is reported.                                                       *)

\* Invoices and copies are only added.
LEMMA NothingTakenBack ==
    ASSUME [Next]_vars
    PROVE  invoices \subseteq invoices' /\ copies \subseteq copies'
<1>1. ASSUME NEW s \in Scans, Start(s) \/ Step(s) \/ Crash(s)
      PROVE  invoices \subseteq invoices' /\ copies \subseteq copies'
  BY <1>1 DEF Start, Step, Crash, NextFile, Finish, Validate, Rejected, Duplicate,
     Supplier, Buyer, Number, SystemUser, Commit, Rollback, Copy, Copied, db
<1>. QED  BY <1>1 DEF Next, ClearFile, vars, db

LEMMA BooksStep ==
    ASSUME TypeInv, BooksOK, [Next]_vars
    PROVE  BooksOK'
<1>1. CASE UNCHANGED invoices
  BY <1>1 DEF BooksOK, Valid, Rules
<1>2. ASSUME NEW s \in Scans, Commit(s), ~Rollback(s)
      PROVE  BooksOK'
  <2>1. PICK kept : invoices' = invoices \cup {Booked(s, kept)}
    BY <1>2 DEF Commit
  <2>2. /\ Booked(s, kept).doc = Doc(s)
        /\ Booked(s, kept).data = InvoiceData(Doc(s))
    BY DEF Booked, Data
  <2>3. Valid(Doc(s))
    BY <1>2, AtDocument DEF Commit, JobOK, At, Doc
  <2>4. \A i \in invoices : i.data.number # InvoiceData(Doc(s)).number
    BY <1>2 DEF Commit, Accepted, Unique, Data
  <2>5. \A i \in invoices' : Valid(i.doc) /\ i.data = InvoiceData(i.doc)
    BY <2>1, <2>2, <2>3 DEF BooksOK
  <2>6. \A i, k \in invoices' : i.data.number = k.data.number => i = k
    BY <2>1, <2>2, <2>4 DEF BooksOK
  <2>. QED  BY <2>5, <2>6 DEF BooksOK, Valid, Rules
<1>3. ASSUME NEW s \in Scans, Start(s) \/ Step(s) \/ Crash(s)
      PROVE  UNCHANGED invoices \/ (Commit(s) /\ ~Rollback(s))
  BY <1>3 DEF Start, Step, Crash, NextFile, Finish, Validate, Duplicate, Supplier,
     Buyer, Number, SystemUser, Commit, Rollback, Copy, db
<1>. QED  BY <1>1, <1>2, <1>3 DEF Next, ClearFile, vars, db

\* A step of one run adds at most one report, a true one, and is no step of
\* another run.
OneReport(s) ==
    /\ \A t \in Scans \ {s} : scan'[t] = scan[t]
    /\ \/ scan'[s].results \subseteq scan[s].results
       \/ \E d \in Documents, outcome \in Outcomes :
            /\ scan'[s].results = scan[s].results \cup {<<d, outcome>>}
            /\ Told(s, d, outcome)'

LEMMA ResultTold ==
    ASSUME TypeInv, NEW s \in Scans, NEW d \in Documents, d = Doc(s),
           NEW outcome \in Outcomes, scan' = Result(s, outcome), Told(s, d, outcome)'
    PROVE  OneReport(s)
BY DEF TypeInv, TypeOK, Result, OneReport

LEMMA FailedTold ==
    ASSUME TypeInv, NEW s \in Scans, NEW d \in Documents, d = Doc(s),
           NEW outcome \in {"failed", "raised"}, scan' = Result(s, outcome)
    PROVE  OneReport(s)
<1>1. outcome \in Outcomes /\ Told(s, d, outcome)'
  BY DEF Outcomes, Told
<1>. QED  BY <1>1, ResultTold

LEMMA ReportsOfStep ==
    ASSUME TypeInv, NEW s \in Scans, Start(s) \/ Step(s) \/ Crash(s)
    PROVE  OneReport(s)
<1>. DEFINE Moved == /\ \A t \in Scans \ {s} : scan'[t] = scan[t]
                     /\ scan'[s].results \subseteq scan[s].results
<1>0. scan \in [Scans -> Scan] /\ (Moved => OneReport(s))
  BY DEF TypeInv, TypeOK, OneReport
<1>1. CASE Start(s) \/ Crash(s)
  BY <1>0, <1>1 DEF Start, Crash, NewScan, Scan
<1>2. CASE NextFile(s)
  <2>1. PICK d \in scan[s].todo :
          scan' = [scan EXCEPT ![s] = [scan[s] EXCEPT !.pc = "validate", !.doc = d,
                                                      !.todo = @ \ {d}]]
    BY <1>2 DEF NextFile
  <2>. QED  BY <1>0, <2>1 DEF Scan
<1>3. CASE Finish(s)
  BY <1>0, <1>3 DEF Finish, Scan
<1>4. CASE Number(s) \/ SystemUser(s)
  BY <1>0, <1>4 DEF Number, SystemUser, Scan
<1>5. CASE Validate(s)
  <2>1. PICK d \in Documents : d = Doc(s)
    BY <1>5, AtDocument DEF Validate
  <2>2. CASE Verdict(Doc(s)) = "valid"
    BY <1>0, <1>5, <2>2 DEF Validate, Scan
  <2>3. CASE Verdict(Doc(s)) = "raised"
    BY <1>5, <2>1, <2>3, FailedTold DEF Validate
  <2>4. CASE Verdict(Doc(s)) = "invalid"
    <3>1. Told(s, d, "invalid")'
      BY <1>5, <2>1, <2>4 DEF Validate, Rejected, Told
    <3>. QED  BY <1>5, <2>1, <2>4, <3>1, ResultTold DEF Validate, Outcomes
  <2>. QED  BY <2>2, <2>3, <2>4 DEF Verdict
<1>6. CASE Duplicate(s)
  <2>1. PICK d \in Documents : d = Doc(s)
    BY <1>6, AtDocument DEF Duplicate
  <2>2. CASE IsDuplicate(Data(s))
    <3>1. Told(s, d, "duplicate")'
      BY <1>6, <2>1, <2>2 DEF Duplicate, IsDuplicate, Data, Told, db
    <3>. QED  BY <1>6, <2>1, <2>2, <3>1, ResultTold DEF Duplicate, Outcomes
  <2>3. CASE ~IsDuplicate(Data(s))
    BY <1>0, <1>6, <2>3 DEF Duplicate, Scan
  <2>. QED  BY <2>2, <2>3
<1>7. CASE Supplier(s) \/ Buyer(s)
  <2>1. PICK d \in Documents : d = Doc(s)
    BY <1>7, AtDocument DEF Supplier, Buyer
  <2>2. CASE scan' = Result(s, "failed")
    BY <2>1, <2>2, FailedTold
  <2>3. CASE Supplier(s) /\ scan' # Result(s, "failed")
    BY <1>0, <2>3 DEF Supplier, Scan
  <2>4. CASE Buyer(s) /\ scan' # Result(s, "failed")
    BY <1>0, <2>4 DEF Buyer, Scan
  <2>. QED  BY <1>7, <2>2, <2>3, <2>4
<1>8. CASE Commit(s)
  <2>1. PICK d \in Documents : d = Doc(s)
    BY <1>8, AtDocument DEF Commit
  <2>2. CASE Rollback(s)
    BY <2>1, <2>2, FailedTold DEF Rollback
  <2>3. CASE ~Rollback(s)
    BY <1>0, <1>8, <2>3 DEF Commit, Scan
  <2>. QED  BY <2>2, <2>3
<1>9. CASE Copy(s)
  <2>1. PICK d \in Documents : d = Doc(s)
    BY <1>9, AtDocument DEF Copy
  <2>2. CASE scan' = Result(s, "failed")
    BY <2>1, <2>2, FailedTold
  <2>3. CASE scan' # Result(s, "failed")
    <3>1. \E i \in invoices : i.doc = d /\ i.by = s
      BY <1>9, <2>1, AtDocument DEF Copy, JobOK, At, Doc
    <3>2. Told(s, d, "success")'
      BY <1>9, <2>1, <2>3, <3>1 DEF Copy, Copied, Reported, Told, db
    <3>3. scan' = Result(s, "success")
      BY <1>9, <2>3 DEF Copy, Reported
    <3>. QED  BY <2>1, <3>2, <3>3, ResultTold DEF Outcomes
  <2>. QED  BY <2>2, <2>3
<1>. QED  BY <1>1, <1>2, <1>3, <1>4, <1>5, <1>6, <1>7, <1>8, <1>9 DEF Step

LEMMA ToldStep ==
    ASSUME TypeInv, AllTold, [Next]_vars
    PROVE  AllTold'
<1>0. invoices \subseteq invoices' /\ copies \subseteq copies'
  BY NothingTakenBack
<1>1. \A t \in Scans : \A r \in scan[t].results : Told(t, r[1], r[2])'
  BY <1>0 DEF AllTold, Told
<1>2. CASE UNCHANGED scan
  BY <1>1, <1>2 DEF AllTold
<1>3. ASSUME NEW s \in Scans, OneReport(s)
      PROVE  AllTold'
  BY <1>1, <1>3 DEF OneReport, AllTold
<1>. QED  BY <1>2, <1>3, ReportsOfStep DEF Next, ClearFile, vars

LEMMA InitReportInv == Init => ReportInv
<1>1. Init => BooksOK /\ AllTold
  BY DEF Init, BooksOK, AllTold, NewScan
<1>. QED  BY <1>1, InitTypeInv DEF ReportInv

LEMMA ReportStep == ReportInv /\ [Next]_vars => ReportInv'
BY TypeStep, BooksStep, ToldStep DEF ReportInv

\* What the parser reads of a total that passed the rules.
LEMMA TotalRead ==
    ASSUME NEW i, i.doc \in Documents, Valid(i.doc), i.data = InvoiceData(i.doc)
    PROVE  TotalAsStated(i)
<1>1. i.doc.total \in Amounts
  BY DEF Document
<1>2. i.doc.total = [is |-> i.doc.total.is, value |-> i.doc.total.value]
  BY <1>1 DEF Amounts
<1>3. i.data.total = ExtractAmount(i.doc.total)
  <2>1. InvoiceData(i.doc).total = ExtractAmount(i.doc.total)
    BY DEF InvoiceData
  <2>. QED  BY <2>1
<1>4. i.doc.total.is \in {Absent, "number"}
  BY DEF Valid, Rules, TotalReadable
<1>. QED  BY <1>2, <1>3, <1>4 DEF ExtractAmount, TotalAsStated, Absent

\* Every report is true, however many runs are on the directory at the same
\* time, whatever fails in them (incoming_invoice_service.py:93-188).
THEOREM EveryReportTrue == Spec => []ReportsTrue
<1>1. ASSUME ReportInv PROVE ReportsTrue
  <2> SUFFICES ASSUME NEW s \in Scans, NEW r \in scan[s].results
               PROVE  LET d == r[1]
                          same == {i \in invoices :
                                     i.data.number = InvoiceData(d).number}
                      IN
                      CASE r[2] = "success"   ->
                                 /\ \E i \in same : /\ same = {i}
                                                    /\ i.doc = d /\ i.by = s
                                                    /\ TotalAsStated(i)
                                 /\ <<"processed", d>> \in copies
                        [] r[2] = "invalid"   -> <<"rejected", d>> \in copies
                        [] r[2] = "duplicate" -> same # {}
                        [] OTHER              -> TRUE
    BY ZenonT(60) DEF ReportsTrue
  <2> DEFINE same == {i \in invoices : i.data.number = InvoiceData(r[1]).number}
  <2>1. Told(s, r[1], r[2])
    BY <1>1 DEF ReportInv, AllTold
  <2>2. CASE r[2] = "success"
    <3>1. PICK i \in invoices : i.doc = r[1] /\ i.by = s
      BY <2>1, <2>2 DEF Told
    <3>2. Valid(i.doc) /\ i.data = InvoiceData(i.doc) /\ i.doc \in Documents
      BY <1>1 DEF ReportInv, BooksOK, TypeInv, TypeOK
    <3>3. \A k \in invoices : k.data.number = i.data.number => k = i
      BY <1>1 DEF ReportInv, BooksOK
    <3>4. i \in same /\ same = {i} /\ TotalAsStated(i)
      BY <3>1, <3>2, <3>3, TotalRead
    <3>5. <<"processed", r[1]>> \in copies
      BY <2>1, <2>2 DEF Told
    <3>. QED  BY <2>2, <3>1, <3>4, <3>5
  <2>3. CASE r[2] = "invalid"
    BY <2>1, <2>3 DEF Told
  <2>4. CASE r[2] = "duplicate"
    BY <2>1, <2>4 DEF Told
  <2>5. CASE r[2] \notin {"success", "invalid", "duplicate"}
    BY <2>5
  <2>. QED  BY <2>2, <2>3, <2>4, <2>5
<1>. QED  BY <1>1, InitReportInv, ReportStep, PTL DEF Spec
=============================================================================
