----------------------- MODULE InvoiceRegisterProofs -----------------------
(***************************************************************************)
(* Proofs about InvoiceRegister, for any clients, amounts, partners,       *)
(* bounds and arguments of set_sequence_start: the register stays well     *)
(* formed; as long as set_sequence_start and creation do not overlap, no   *)
(* drawn number is ever in use; the integrity report blames those who were *)
(* altered; and the tables of an export fit together.                      *)
(***************************************************************************)
EXTENDS InvoiceRegister, TLAPS

USE RegisterBounds, RegisterInputs, NoneIsNothing

-----------------------------------------------------------------------------
(* The inductive invariants.                                               *)

\* The records of the evaluations keep their fields.
Shapes ==
    /\ export = [pc |-> export.pc, rows |-> export.rows,
                 complete |-> export.complete, lines |-> export.lines,
                 partners |-> export.partners]
    /\ report = [pc |-> report.pc, rows |-> report.rows,
                 todo |-> report.todo, blamed |-> report.blamed]

\* The invoice that cancel() is at, and its credit note once it is inserted,
\* are issued; nothing is copied before.
CancelAtIssued ==
    /\ cancel.of # None => cancel.of \in Issued
    /\ cancel.cn # None => cancel.of # None
    /\ cancel.inserted => cancel.cn # None /\ cancel.cn \in Issued
    /\ cancel.todo # {} => cancel.inserted

\* setval() refuses what is below 1.
CommandPositive == command # None => command >= 1

TypeInv == TypeOK /\ Shapes /\ CancelAtIssued /\ CommandPositive

\* Stored and drawn numbers lie behind the sequence.
BehindSequence ==
    /\ \A n \in Stored : n <= last
    /\ \A c \in Clients : client[c] # None => client[c] <= last
    /\ cancel.cn # None => cancel.cn <= last

\* While set_sequence_start is between its statements nobody has a number in
\* hand, and what it will set is not below the highest one.
CommandAlone ==
    command # None =>
        /\ cancel = NoCancel
        /\ \A c \in Clients : client[c] = None
        /\ \A n \in Stored : n <= command

NumberInv == TypeInv /\ NumberFree /\ BehindSequence /\ CommandAlone

-----------------------------------------------------------------------------
(* Types of the building blocks.                                           *)

LEMMA RowFacts ==
    ASSUME TypeOK, NEW n \in Stored
    PROVE  /\ n \in Numbers /\ rows[n] \in Row /\ rows[n].total \subseteq Lines
           /\ rows[n].partner \in Partners /\ lines[n] \subseteq Lines
           /\ rows[n].until \in Days \cup Keep .. MaxDay + Keep
  BY DEF TypeOK, Stored, Row

LEMMA DraftType == ASSUME TypeOK, NEW p \in Partners PROVE Draft(p) \in Row
  BY DEF TypeOK, Draft, Row, Days, Lines

LEMMA NegType == ASSUME NEW ls \in SUBSET Lines PROVE Neg(ls) \subseteq Lines
  BY DEF Neg, Lines

LEMMA StornoType ==
    ASSUME TypeOK, NEW n \in Stored
    PROVE  Storno(n) \in Row /\ Storno(n).status = "SENT"
  <1>1. rows[n].partner \in Partners /\ rows[n].total \in SUBSET Lines /\ n \in Numbers
    BY RowFacts
  <1>2. Neg(rows[n].total) \subseteq Lines
    BY <1>1, NegType
  <1>. DEFINE d == Draft(rows[n].partner)
              r == [d EXCEPT !.status = "SENT", !.of = n, !.total = Neg(rows[n].total)]
  <1>3. d \in Row
    BY <1>1, DraftType
  <1>4. r \in Row /\ r.partner \in Partners /\ r.total \in SUBSET Lines /\ r.status = "SENT"
    BY <1>1, <1>2, <1>3 DEF Row
  <1>5. Seal(r, {}) \in Content
    BY <1>4 DEF Seal, Content
  <1>6. Storno(n) = [r EXCEPT !.seal = Seal(r, {})]
    BY DEF Storno
  <1>. HIDE DEF r
  <1>. QED  BY <1>4, <1>5, <1>6 DEF Row

LEMMA IssuedStored == Issued \subseteq Stored
  BY DEF Issued

LEMMA SealType ==
    ASSUME TypeOK, NEW n \in Stored PROVE Seal(rows[n], lines[n]) \in Content
  BY RowFacts DEF Seal, Content, Row

-----------------------------------------------------------------------------
(* The register stays well formed.                                         *)

\* The types hold after the step, and nothing that is issued is taken back.
TypeStays == TypeInv' /\ Issued \subseteq Issued'

\* What an action that leaves the jobs and the evaluations alone must show.
LEMMA RegisterOnly ==
    ASSUME TypeInv, rows' \in [Numbers -> Row \cup {None}],
           lines' \in [Numbers -> SUBSET Lines], partners' \subseteq Partners,
           day' \in Days, Issued \subseteq Issued',
           UNCHANGED <<last, jobs, evaluations>>
    PROVE  TypeStays
  <1>1. TypeOK'
    BY DEF TypeInv, TypeOK, jobs, evaluations
  <1>2. Shapes' /\ CancelAtIssued' /\ CommandPositive'
    BY DEF TypeInv, Shapes, CancelAtIssued, CommandPositive, jobs, evaluations
  <1>. QED  BY <1>1, <1>2 DEF TypeInv, TypeStays

\* No update makes an issued row a draft.
LEMMA IssuedKept ==
    ASSUME TypeInv, NEW n \in Stored, NEW r \in Row,
           rows' = [rows EXCEPT ![n] = r],
           n \in Drafts \/ r.status # "DRAFT"
    PROVE  /\ rows' \in [Numbers -> Row \cup {None}]
           /\ Issued \subseteq Issued'
  BY DEF TypeInv, TypeOK, Issued, Drafts, Stored

\* The steps that change one row, and perhaps its lines.
LEMMA TypeChangeLines ==
    ASSUME TypeInv, NEW n \in Numbers, ChangeLines(n) PROVE TypeStays
  <1>1. PICK ls \in SUBSET Amounts :
          /\ lines' = [lines EXCEPT ![n] = ls]
          /\ rows' = [rows EXCEPT ![n].total = ls]
    BY DEF ChangeLines
  <1>2. n \in Stored /\ n \in Drafts /\ rows[n] \in Row
    BY RowFacts DEF ChangeLines, Drafts, TypeInv
  <1>3. [rows[n] EXCEPT !.total = ls] \in Row
    BY <1>2 DEF Row, Lines
  <1>4. rows' \in [Numbers -> Row \cup {None}] /\ Issued \subseteq Issued'
    BY <1>1, <1>2, <1>3, IssuedKept
  <1>5. lines' \in [Numbers -> SUBSET Lines]
    BY <1>1 DEF TypeInv, TypeOK, Lines
  <1>. QED  BY <1>4, <1>5, RegisterOnly DEF ChangeLines, TypeInv, TypeOK

LEMMA TypeChangePartner ==
    ASSUME TypeInv, NEW n \in Numbers, ChangePartner(n) PROVE TypeStays
  <1>1. PICK p \in partners : rows' = [rows EXCEPT ![n].partner = p]
    BY DEF ChangePartner
  <1>2. n \in Stored /\ n \in Drafts /\ rows[n] \in Row /\ p \in Partners
    BY RowFacts DEF ChangePartner, Drafts, TypeInv, TypeOK
  <1>3. [rows[n] EXCEPT !.partner = p] \in Row
    BY <1>2 DEF Row
  <1>4. rows' \in [Numbers -> Row \cup {None}] /\ Issued \subseteq Issued'
    BY <1>1, <1>2, <1>3, IssuedKept
  <1>. QED  BY <1>4, RegisterOnly DEF ChangePartner, TypeInv, TypeOK

LEMMA TypeMarkAsSent ==
    ASSUME TypeInv, NEW n \in Numbers, MarkAsSent(n) PROVE TypeStays
  <1>1. n \in Stored /\ n \in Drafts /\ rows[n] \in Row
    BY RowFacts DEF MarkAsSent, Drafts, TypeInv
  <1>2. Seal(rows[n], lines[n]) \in Content
    BY <1>1, SealType DEF TypeInv
  <1>. DEFINE r == [rows[n] EXCEPT !.status = "SENT", !.seal = Seal(rows[n], lines[n])]
  <1>3. r \in Row /\ r.status = "SENT"
    BY <1>1, <1>2 DEF Row
  <1>4. rows' = [rows EXCEPT ![n] = r]
    BY DEF MarkAsSent
  <1>5. rows' \in [Numbers -> Row \cup {None}] /\ Issued \subseteq Issued'
    BY <1>1, <1>3, <1>4, IssuedKept
  <1>. QED  BY <1>5, RegisterOnly DEF MarkAsSent, TypeInv, TypeOK

LEMMA TypeDelete ==
    ASSUME TypeInv, NEW n \in Numbers, Delete(n) PROVE TypeStays
  <1>1. /\ rows' \in [Numbers -> Row \cup {None}]
        /\ lines' \in [Numbers -> SUBSET Lines]
        /\ Issued \subseteq Issued'
    BY DEF Delete, TypeInv, TypeOK, Issued, Drafts, Stored
  <1>. QED  BY <1>1, RegisterOnly DEF Delete, TypeInv, TypeOK

LEMMA TypeArchive ==
    ASSUME TypeInv, NEW n \in Numbers, Archive(n) PROVE TypeStays
  <1>1. n \in Stored /\ rows[n] \in Row /\ rows[n].status # "DRAFT"
    BY RowFacts DEF Archive, Issued, TypeInv
  <1>. DEFINE r == [rows[n] EXCEPT !.archived = TRUE]
  <1>2. r \in Row /\ r.status # "DRAFT" /\ rows' = [rows EXCEPT ![n] = r]
    BY <1>1 DEF Row, Archive
  <1>3. rows' \in [Numbers -> Row \cup {None}] /\ Issued \subseteq Issued'
    BY <1>1, <1>2, IssuedKept
  <1>. QED  BY <1>3, RegisterOnly DEF Archive, TypeInv, TypeOK

LEMMA ToggledType ==
    ASSUME NEW l \in Amounts, NEW ls \in SUBSET Lines PROVE Toggled(ls, l) \subseteq Lines
  BY DEF Toggled, Lines

LEMMA TypeAlter ==
    ASSUME TypeInv, NEW n \in Numbers, Alter(n) PROVE TypeStays
  <1>1. n \in Stored /\ rows[n] \in Row /\ rows[n].status # "DRAFT"
        /\ rows[n].total \in SUBSET Lines /\ lines[n] \in SUBSET Lines
    BY RowFacts DEF Alter, Issued, TypeInv
  <1>2. PICK l \in Amounts :
          \/ /\ rows' = [rows EXCEPT ![n].total = Toggled(@, l), ![n].altered = TRUE]
             /\ UNCHANGED lines
          \/ /\ rows' = [rows EXCEPT ![n].altered = TRUE]
             /\ lines' = [lines EXCEPT ![n] = Toggled(@, l)]
    BY DEF Alter
  <1>. DEFINE t == [rows[n] EXCEPT !.total = Toggled(rows[n].total, l), !.altered = TRUE]
              f == [rows[n] EXCEPT !.altered = TRUE]
  <1>3. Toggled(rows[n].total, l) \subseteq Lines /\ Toggled(lines[n], l) \subseteq Lines
    BY <1>1, ToggledType
  <1>4. /\ t \in Row /\ t.status # "DRAFT"
        /\ f \in Row /\ f.status # "DRAFT"
    BY <1>1, <1>3 DEF Row
  <1>5. lines' \in [Numbers -> SUBSET Lines]
    BY <1>2, <1>3 DEF TypeInv, TypeOK
  <1>6. rows' = [rows EXCEPT ![n] = t] \/ rows' = [rows EXCEPT ![n] = f]
    BY <1>1, <1>2 DEF TypeInv, TypeOK
  <1>. HIDE DEF t, f
  <1>7. rows' \in [Numbers -> Row \cup {None}] /\ Issued \subseteq Issued'
    BY <1>1, <1>4, <1>6, IssuedKept
  <1>. QED  BY <1>5, <1>7, RegisterOnly DEF Alter, TypeInv, TypeOK

LEMMA TypePartnersAndDays ==
    ASSUME TypeInv, DayPasses \/ \E p \in Partners : DeletePartner(p)
    PROVE  TypeStays
  <1>1. /\ UNCHANGED <<rows, lines, last, jobs, evaluations>>
        /\ partners' \subseteq Partners /\ day' \in Days
    BY DEF DayPasses, DeletePartner, TypeInv, TypeOK, Days
  <1>2. Issued' = Issued
    BY <1>1 DEF Issued, Stored
  <1>. QED  BY <1>1, <1>2, RegisterOnly DEF TypeInv, TypeOK

\* POST, and the statements of cancel() and set_sequence_start.
LEMMA TypePost ==
    ASSUME TypeInv, NEW c \in Clients, Post(c) PROVE TypeStays
  <1>1. PICK n \in Numbers : Draw(n) /\ client' = [client EXCEPT ![c] = n]
    BY DEF Post
  <1>2. Issued' = Issued
    BY DEF Post, register, Issued, Stored
  <1>3. TypeOK'
    BY <1>1 DEF Post, Draw, TypeInv, TypeOK, register, evaluations
  <1>. QED  BY <1>2, <1>3 DEF TypeStays, Post, TypeInv, Shapes, CancelAtIssued,
                               CommandPositive, evaluations

LEMMA TypeInsert ==
    ASSUME TypeInv, NEW c \in Clients, Insert(c) PROVE TypeStays
  <1>1. client[c] \in Numbers /\ client' \in [Clients -> Numbers \cup {None}]
    BY DEF Insert, TypeInv, TypeOK
  <1>2. rows' \in [Numbers -> Row \cup {None}] /\ Issued \subseteq Issued'
    <2>1. CASE UNCHANGED rows
      BY <2>1 DEF TypeInv, TypeOK, Issued, Stored
    <2>2. CASE /\ client[c] \notin Stored
               /\ \E p \in partners : rows' = [rows EXCEPT ![client[c]] = Draft(p)]
      <3>1. PICK p \in partners : rows' = [rows EXCEPT ![client[c]] = Draft(p)]
        BY <2>2
      <3>2. Draft(p) \in Row
        BY DraftType DEF TypeInv, TypeOK
      <3>. QED  BY <1>1, <2>2, <3>1, <3>2 DEF TypeInv, TypeOK, Issued, Stored
    <2>. QED  BY <2>1, <2>2 DEF Insert
  <1>3. TypeOK'
    BY <1>1, <1>2 DEF Insert, TypeInv, TypeOK, evaluations
  <1>. QED  BY <1>2, <1>3 DEF TypeStays, Insert, TypeInv, Shapes, CancelAtIssued,
                               CommandPositive, evaluations

LEMMA TypeReadMax == ASSUME TypeInv, ReadMax PROVE TypeStays
  <1>1. Issued' = Issued
    BY DEF ReadMax, register, Issued, Stored
  <1>2. TypeOK' /\ CommandPositive'
    BY DEF ReadMax, Settable, TypeInv, TypeOK, CommandPositive, register, evaluations
  <1>. QED  BY <1>1, <1>2
          DEF TypeStays, ReadMax, TypeInv, Shapes, CancelAtIssued, evaluations

LEMMA TypeSetSequence == ASSUME TypeInv, SetSequence PROVE TypeStays
  <1>1. Issued' = Issued
    BY DEF SetSequence, register, Issued, Stored
  <1>2. command \in Int /\ command >= 1
    BY DEF SetSequence, TypeInv, TypeOK, CommandPositive
  <1>3. TypeOK' /\ CommandPositive'
    BY <1>2 DEF SetSequence, TypeInv, TypeOK, CommandPositive, register, evaluations
  <1>. QED  BY <1>1, <1>3
          DEF TypeStays, SetSequence, TypeInv, Shapes, CancelAtIssued, evaluations

LEMMA TypeBeginCancel ==
    ASSUME TypeInv, NEW n \in Numbers, BeginCancel(n) PROVE TypeStays
  <1>1. PICK cn \in Numbers : /\ Draw(cn)
                              /\ cancel' = [NoCancel EXCEPT !.of = n, !.cn = cn]
    BY DEF BeginCancel
  <1>2. cancel' = [of |-> n, cn |-> cn, inserted |-> FALSE, todo |-> {}]
    BY <1>1 DEF NoCancel
  <1>3. Issued' = Issued /\ n \in Issued
    BY DEF BeginCancel, register, Issued, Stored
  <1>4. last' \in Nat
    BY <1>1 DEF Draw, TypeInv, TypeOK
  <1>5. TypeOK'
    BY <1>2, <1>4 DEF BeginCancel, TypeInv, TypeOK, register, evaluations
  <1>6. CancelAtIssued'
    BY <1>2, <1>3 DEF CancelAtIssued, Numbers
  <1>. QED  BY <1>3, <1>5, <1>6
          DEF TypeStays, BeginCancel, TypeInv, Shapes, CommandPositive, evaluations

\* cancel() is over, at its end or because its worker died.
LEMMA CancelOver == cancel' = NoCancel => CancelAtIssued'
  BY DEF NoCancel, CancelAtIssued

LEMMA TypeInsertStorno == ASSUME TypeInv, InsertStorno PROVE TypeStays
  <1>1. /\ cancel.of \in Issued /\ cancel.of \in Stored /\ cancel.of \in Numbers
        /\ cancel.cn \in Numbers /\ cancel.cn # None
    BY DEF InsertStorno, TypeInv, TypeOK, CancelAtIssued, Issued, Stored
  <1>2. CASE cancel.cn \in Stored
    <2>1. cancel' = NoCancel /\ UNCHANGED rows /\ Issued' = Issued
      BY <1>2 DEF InsertStorno, Issued, Stored
    <2>2. TypeOK'
      BY <2>1 DEF InsertStorno, TypeInv, TypeOK, NoCancel, evaluations
    <2>. QED  BY <2>1, <2>2, CancelOver DEF TypeStays, InsertStorno, TypeInv, Shapes,
                                            CommandPositive, evaluations
  <1>3. CASE cancel.cn \notin Stored
    <2>1. /\ rows' = [rows EXCEPT ![cancel.cn] = Storno(cancel.of)]
          /\ cancel' = [cancel EXCEPT !.inserted = TRUE, !.todo = lines[cancel.of]]
      BY <1>3 DEF InsertStorno
    <2>2. Storno(cancel.of) \in Row /\ Storno(cancel.of).status = "SENT"
      BY <1>1, StornoType DEF TypeInv
    <2>3. /\ rows' \in [Numbers -> Row \cup {None}]
          /\ Issued \subseteq Issued' /\ cancel.cn \in Issued'
      BY <1>1, <1>3, <2>1, <2>2 DEF TypeInv, TypeOK, Issued, Stored
    <2>4. lines[cancel.of] \in SUBSET Lines
      BY <1>1 DEF TypeInv, TypeOK
    <2>5. TypeOK'
      BY <2>1, <2>3, <2>4 DEF InsertStorno, TypeInv, TypeOK, evaluations
    <2>6. CancelAtIssued'
      BY <1>1, <2>1, <2>3 DEF TypeInv, TypeOK, CancelAtIssued
    <2>. QED  BY <2>3, <2>5, <2>6
            DEF TypeStays, InsertStorno, TypeInv, Shapes, CommandPositive,
                                evaluations
  <1>. QED  BY <1>2, <1>3

LEMMA TypeCopyLine == ASSUME TypeInv, CopyLine PROVE TypeStays
  <1>. DEFINE cn == cancel.cn
  <1>1. PICK l \in cancel.todo :
          LET ls == lines[cn] \cup {-l} IN
          /\ lines' = [lines EXCEPT ![cn] = ls]
          /\ rows' = [rows EXCEPT ![cn].total = ls]
          /\ cancel' = [cancel EXCEPT !.todo = @ \ {l}]
    BY DEF CopyLine
  <1>2. cn \in Numbers /\ cn \in Issued /\ cn \in Stored /\ l \in Lines
    BY DEF TypeInv, TypeOK, CancelAtIssued, Issued, Stored
  <1>3. /\ rows[cn] \in Row /\ rows[cn].status # "DRAFT"
        /\ lines[cn] \cup {-l} \in SUBSET Lines
    BY <1>2 DEF TypeInv, TypeOK, Issued, Stored, Lines
  <1>. DEFINE r == [rows[cn] EXCEPT !.total = lines[cn] \cup {-l}]
  <1>4. r \in Row /\ r.status # "DRAFT"
    BY <1>3 DEF Row
  <1>5. rows' = [rows EXCEPT ![cn] = r]
    BY <1>1
  <1>. HIDE DEF r
  <1>6. rows' \in [Numbers -> Row \cup {None}] /\ Issued \subseteq Issued'
    BY <1>2, <1>4, <1>5, IssuedKept
  <1>7. lines' \in [Numbers -> SUBSET Lines]
    BY <1>1, <1>3 DEF TypeInv, TypeOK
  <1>8. TypeOK'
    BY <1>1, <1>6, <1>7 DEF CopyLine, TypeInv, TypeOK, evaluations
  <1>9. CancelAtIssued'
    BY <1>1, <1>6 DEF TypeInv, TypeOK, CancelAtIssued
  <1>. QED  BY <1>6, <1>8, <1>9
          DEF TypeStays, CopyLine, TypeInv, Shapes, CommandPositive, evaluations

LEMMA TypeCloseOriginal == ASSUME TypeInv, CloseOriginal PROVE TypeStays
  <1>. DEFINE n == cancel.of
              r == [rows[n] EXCEPT !.status = "CANCELLED", !.by = cancel.cn]
  <1>1. n \in Stored /\ cancel.cn \in Numbers /\ rows[n] \in Row
    BY DEF CloseOriginal, TypeInv, TypeOK, CancelAtIssued, Issued, Stored
  <1>2. r \in Row /\ r.status # "DRAFT"
    BY <1>1, ZenonT(60) DEF Row
  <1>3. rows' = [rows EXCEPT ![n] = r]
    BY DEF CloseOriginal
  <1>. HIDE DEF r
  <1>4. rows' \in [Numbers -> Row \cup {None}] /\ Issued \subseteq Issued'
    BY <1>1, <1>2, <1>3, IssuedKept
  <1>5. TypeOK'
    BY <1>4 DEF CloseOriginal, TypeInv, TypeOK, NoCancel, evaluations
  <1>. QED  BY <1>4, <1>5, CancelOver DEF TypeStays, CloseOriginal, TypeInv, Shapes,
                                    CommandPositive, evaluations

LEMMA TypeDie == ASSUME TypeInv, Die PROVE TypeStays
  <1>1. Issued' = Issued
    BY DEF Die, register, Issued, Stored
  <1>2. /\ client' \in [Clients -> Numbers \cup {None}]
        /\ cancel' = cancel \/ cancel' = NoCancel
    BY DEF Die, TypeInv, TypeOK
  <1>5. cancel' \in [of : Numbers \cup {None}, cn : Numbers \cup {None},
                    inserted : BOOLEAN, todo : SUBSET Lines]
    <2>1. NoCancel \in [of : Numbers \cup {None}, cn : Numbers \cup {None},
                       inserted : BOOLEAN, todo : SUBSET Lines]
      BY DEF NoCancel
    <2>. QED  BY <1>2, <2>1 DEF TypeInv, TypeOK
  <1>4. TypeOK'
    BY <1>2, <1>5 DEF Die, TypeInv, TypeOK, register, evaluations
  <1>3. CancelAtIssued'
    BY <1>1, CancelOver DEF Die, TypeInv, CancelAtIssued
  <1>. QED  BY <1>1, <1>3, <1>4
          DEF TypeStays, Die, TypeInv, Shapes, CommandPositive, evaluations

\* The queries of an evaluation change only what it has read.
LEMMA TypeEvaluations ==
    ASSUME TypeInv, \/ ReadInvoices \/ ReadLines \/ ReadPartners
                    \/ ListLocked \/ Verify \/ Conclude
    PROVE  TypeStays
  <1>1. UNCHANGED <<register, last, jobs>> /\ Issued' = Issued
    BY DEF ReadInvoices, ReadLines, ReadPartners, ListLocked, Verify, Conclude,
           register, Issued, Stored
  <1>2. Shapes'
    BY DEF ReadInvoices, ReadLines, ReadPartners, ListLocked, Verify, Conclude,
           TypeInv, Shapes, NoExport, NoReport
  <1>3. /\ \A n \in DOMAIN export'.rows : export'.rows[n] \in Row
        /\ export'.partners \subseteq Partners
    <2>1. CASE ReadInvoices
      BY <2>1, RowFacts DEF ReadInvoices, NoExport, InvoiceTable, TypeInv, TypeOK
    <2>2. CASE ReadLines
      BY <2>2 DEF ReadLines, TypeInv, TypeOK, Shapes
    <2>3. CASE ReadPartners
      BY <2>3 DEF ReadPartners, PartnerTable, TypeInv, TypeOK, Shapes
    <2>4. CASE UNCHANGED export
      BY <2>4 DEF TypeInv, TypeOK
    <2>. QED  BY <2>1, <2>2, <2>3, <2>4 DEF ListLocked, Verify, Conclude
  <1>4. /\ \A n \in DOMAIN report'.rows : report'.rows[n] \in Row
        /\ report'.todo \cup report'.blamed \subseteq DOMAIN report'.rows
    <2>1. CASE ListLocked
      <3>1. \A n \in Issued : rows[n] \in Row
        BY RowFacts, IssuedStored DEF TypeInv
      <3>. QED  BY <2>1, <3>1 DEF ListLocked, NoReport
    <2>2. CASE Verify
      <3>1. PICK n \in report.todo : report' = [report EXCEPT
              !.todo = @ \ {n},
              !.blamed = IF Valid(report.rows[n], lines[n]) THEN @ ELSE @ \cup {n}]
        BY <2>2 DEF Verify
      <3>2. /\ report'.rows = report.rows /\ report'.todo \subseteq report.todo
            /\ report'.blamed \subseteq report.blamed \cup {n}
        BY <3>1 DEF TypeInv, Shapes
      <3>. QED  BY <3>2 DEF TypeInv, TypeOK
    <2>3. CASE Conclude
      BY <2>3 DEF Conclude, TypeInv, TypeOK, Shapes
    <2>4. CASE UNCHANGED report
      BY <2>4 DEF TypeInv, TypeOK
    <2>. QED  BY <2>1, <2>2, <2>3, <2>4 DEF ReadInvoices, ReadLines, ReadPartners
  <1>5. TypeOK'
    BY <1>1, <1>3, <1>4 DEF TypeInv, TypeOK, register, jobs
  <1>. QED  BY <1>1, <1>2, <1>5
          DEF TypeStays, TypeInv, CancelAtIssued, CommandPositive, jobs

LEMMA TypeInit == Init => TypeInv
  <1>1. Init => /\ TypeOK /\ CancelAtIssued /\ CommandPositive
    BY DEF Init, TypeOK, NoCancel, NoExport, NoReport, CancelAtIssued,
           CommandPositive, Days
  <1>2. Init => Shapes
    BY DEF Init, Shapes, NoExport, NoReport
  <1>. QED  BY <1>1, <1>2 DEF TypeInv

LEMMA TypeStep == TypeInv /\ [Next]_vars => TypeStays
  <1>. SUFFICES ASSUME TypeInv, [Next]_vars PROVE TypeStays
    OBVIOUS
  <1>1. CASE ReadMax \/ SetSequence
    BY <1>1, TypeReadMax, TypeSetSequence
  <1>2. CASE \E c \in Clients : Post(c) \/ Insert(c)
    BY <1>2, TypePost, TypeInsert
  <1>3. CASE \E n \in Numbers :
               \/ ChangeLines(n) \/ ChangePartner(n) \/ MarkAsSent(n)
               \/ Delete(n) \/ Archive(n) \/ Alter(n) \/ BeginCancel(n)
    BY <1>3, TypeChangeLines, TypeChangePartner, TypeMarkAsSent, TypeDelete,
       TypeArchive, TypeAlter, TypeBeginCancel
  <1>4. CASE DayPasses \/ \E p \in Partners : DeletePartner(p)
    BY <1>4, TypePartnersAndDays
  <1>5. CASE InsertStorno \/ CopyLine \/ CloseOriginal \/ Die
    BY <1>5, TypeInsertStorno, TypeCopyLine, TypeCloseOriginal, TypeDie
  <1>6. CASE \/ ReadInvoices \/ ReadLines \/ ReadPartners
             \/ ListLocked \/ Verify \/ Conclude
    BY <1>6, TypeEvaluations
  <1>7. CASE UNCHANGED vars
    BY <1>7 DEF vars, register, jobs, evaluations, TypeInv, TypeOK, Shapes,
                CancelAtIssued, CommandPositive, Issued, Stored, TypeStays
  <1>. QED  BY <1>1, <1>2, <1>3, <1>4, <1>5, <1>6, <1>7 DEF Next

\* The register and what runs on it are well formed, for any constants.
THEOREM TypeCorrect == Spec => []TypeOK
  <1>1. TypeInv => TypeOK
    BY DEF TypeInv
  <1>2. TypeInv /\ [Next]_vars => TypeInv'
    BY TypeStep DEF TypeStays
  <1>. QED  BY <1>1, <1>2, TypeInit, PTL DEF Spec

-----------------------------------------------------------------------------
(* Numbers.                                                                *)

\* Steps after which no more numbers are in use or in hand than before.
LEMMA NumbersKept ==
    ASSUME NumberInv, TypeInv', Stored' \subseteq Stored,
           UNCHANGED <<last, command>>,
           \A c \in Clients : client'[c] \in {client[c], None},
           \/ cancel' = NoCancel
           \/ cancel'.cn = cancel.cn /\ cancel'.inserted = cancel.inserted /\ cancel # NoCancel
           \/ cancel' = cancel
    PROVE  NumberInv'
  <1>1. cancel'.cn # None => /\ cancel'.cn = cancel.cn
                             /\ cancel'.inserted = cancel.inserted
    BY DEF NoCancel
  <1>2. command # None => cancel' = NoCancel
    BY DEF NumberInv, CommandAlone
  <1>3. NumberFree'
    BY <1>1 DEF NumberInv, NumberFree
  <1>4. BehindSequence'
    BY <1>1 DEF NumberInv, BehindSequence
  <1>5. CommandAlone'
    BY <1>2 DEF NumberInv, CommandAlone
  <1>. QED  BY <1>3, <1>4, <1>5 DEF NumberInv

\* nextval() returns what nobody has.
LEMMA DrawFresh ==
    ASSUME NumberInv, Overlap = FALSE, NEW n \in Numbers, Draw(n)
    PROVE  /\ command = None /\ last' = n /\ last < n
           /\ n \notin Stored /\ \A c \in Clients : client[c] # n
           /\ cancel.cn # n
  <1>1. command = None /\ last \in Nat /\ last' = last + 1 /\ n = last + 1
    BY DEF Draw, NumberInv, TypeInv, TypeOK
  <1>. QED  BY <1>1 DEF NumberInv, BehindSequence, TypeInv, TypeOK, Numbers, Stored

LEMMA NumberStep ==
    ASSUME NumberInv, Overlap = FALSE, [Next]_vars PROVE NumberInv'
  <1>. TypeInv'
    BY TypeStep DEF NumberInv, TypeStays
  <1>1. CASE ReadMax
    <2>1. UNCHANGED <<Stored, last, client, cancel>>
      BY <1>1 DEF ReadMax, register, Stored
    <2>2. /\ cancel = NoCancel /\ \A c \in Clients : client[c] = None
          /\ \A n \in Stored : n <= command'
      BY <1>1 DEF ReadMax, Creating, Settable
    <2>. QED  BY <2>1, <2>2 DEF NumberInv, NumberFree, BehindSequence, CommandAlone
  <1>2. CASE SetSequence
    <2>1. UNCHANGED <<Stored, client, cancel>> /\ command' = None /\ last' = command
      BY <1>2 DEF SetSequence, register, Stored
    <2>2. /\ cancel = NoCancel /\ \A c \in Clients : client[c] = None
          /\ \A n \in Stored : n <= command
      BY <1>2 DEF SetSequence, NumberInv, CommandAlone
    <2>. QED  BY <2>1, <2>2 DEF NumberInv, NumberFree, BehindSequence,
                                CommandAlone, NoCancel
  <1>3. ASSUME NEW c \in Clients, Post(c) PROVE NumberInv'
    <2>1. PICK n \in Numbers : Draw(n) /\ client' = [client EXCEPT ![c] = n]
      BY <1>3 DEF Post
    <2>2. UNCHANGED <<Stored, cancel, command>>
      BY <1>3 DEF Post, register, Stored
    <2>3. /\ command = None /\ last' = n /\ last < n
          /\ n \notin Stored /\ \A d \in Clients : client[d] # n
          /\ cancel.cn # n
      BY <2>1, DrawFresh
    <2>4. n # None /\ n \in Nat /\ last \in Nat
      BY DEF Numbers, NumberInv, TypeInv, TypeOK
    <2>5. \A d \in Clients : client'[d] = IF d = c THEN n ELSE client[d]
      BY <2>1 DEF NumberInv, TypeInv, TypeOK
    <2>6. NumberFree'
      BY <2>2, <2>3, <2>4, <2>5 DEF NumberInv, NumberFree
    <2>7. BehindSequence'
      BY <2>2, <2>3, <2>4, <2>5 DEF NumberInv, BehindSequence, TypeInv, TypeOK,
                                    Stored, Numbers
    <2>. QED  BY <2>2, <2>3, <2>6, <2>7 DEF NumberInv, CommandAlone
  <1>4. ASSUME NEW c \in Clients, Insert(c) PROVE NumberInv'
    <2>. DEFINE n == client[c]
    <2>1. n # None /\ n \in Numbers /\ command = None
      BY <1>4 DEF Insert, NumberInv, CommandAlone, TypeInv, TypeOK
    <2>2. Stored' \subseteq Stored \cup {n}
      BY <1>4 DEF Insert, Stored, NumberInv, TypeInv, TypeOK
    <2>3. /\ UNCHANGED <<last, cancel, command>>
          /\ \A d \in Clients : client'[d] = IF d = c THEN None ELSE client[d]
      BY <1>4 DEF Insert, NumberInv, TypeInv, TypeOK
    <2>4. /\ \A d \in Clients : d # c /\ client[d] # None => client[d] # n
          /\ cancel.cn # n /\ n <= last
      BY <2>1 DEF NumberInv, NumberFree, BehindSequence
    <2>5. NumberFree'
      BY <2>2, <2>3, <2>4 DEF NumberInv, NumberFree
    <2>6. BehindSequence'
      BY <2>2, <2>3, <2>4 DEF NumberInv, BehindSequence
    <2>. QED  BY <2>1, <2>3, <2>5, <2>6 DEF NumberInv, CommandAlone
  <1>5. ASSUME NEW m \in Numbers, BeginCancel(m) PROVE NumberInv'
    <2>1. PICK n \in Numbers : /\ Draw(n)
                               /\ cancel' = [NoCancel EXCEPT !.of = m, !.cn = n]
      BY <1>5 DEF BeginCancel
    <2>2. UNCHANGED <<Stored, client, command>>
      BY <1>5 DEF BeginCancel, register, Stored
    <2>3. /\ command = None /\ last' = n /\ last < n
          /\ n \notin Stored /\ \A d \in Clients : client[d] # n
      BY <2>1, DrawFresh
    <2>4. cancel'.cn = n
      BY <2>1 DEF NoCancel
    <2>5. n \in Nat /\ last \in Nat
      BY DEF Numbers, NumberInv, TypeInv, TypeOK
    <2>6. NumberFree'
      BY <2>2, <2>3, <2>4 DEF NumberInv, NumberFree
    <2>7. BehindSequence'
      BY <2>2, <2>3, <2>4, <2>5 DEF NumberInv, BehindSequence, TypeInv, TypeOK,
                                    Stored, Numbers
    <2>. QED  BY <2>2, <2>3, <2>6, <2>7 DEF NumberInv, CommandAlone
  <1>6. CASE InsertStorno
    <2>. DEFINE n == cancel.cn
    <2>1. n # None /\ n \in Numbers /\ command = None
      BY <1>6 DEF InsertStorno, NumberInv, CommandAlone, NoCancel, TypeInv, TypeOK
    <2>2. /\ Stored' \subseteq Stored \cup {n}
          /\ UNCHANGED <<last, client, command>>
      BY <1>6 DEF InsertStorno, Stored, NumberInv, TypeInv, TypeOK
    <2>3. cancel'.cn \in {n, None} /\ (cancel'.cn # None => cancel'.inserted)
      <3>1. CASE cancel' = NoCancel
        BY <3>1 DEF NoCancel
      <3>2. CASE cancel' = [cancel EXCEPT !.inserted = TRUE, !.todo = lines[cancel.of]]
        BY <3>2 DEF NumberInv, TypeInv, TypeOK
      <3>. QED  BY <1>6, <3>1, <3>2 DEF InsertStorno
    <2>4. n <= last /\ \A c \in Clients : client[c] # None => client[c] # n
      BY <2>1 DEF NumberInv, NumberFree, BehindSequence
    <2>5. NumberFree'
      BY <2>1, <2>2, <2>3, <2>4 DEF NumberInv, NumberFree
    <2>6. BehindSequence'
      BY <2>2, <2>3, <2>4 DEF NumberInv, BehindSequence
    <2>. QED  BY <2>1, <2>2, <2>5, <2>6 DEF NumberInv, CommandAlone
  <1>7. ASSUME NEW n \in Numbers,
               ChangeLines(n) \/ ChangePartner(n) \/ MarkAsSent(n)
                 \/ Delete(n) \/ Archive(n) \/ Alter(n)
        PROVE  NumberInv'
    <2>1. n \in Stored
      BY <1>7 DEF ChangeLines, ChangePartner, MarkAsSent, Delete, Archive,
                  Alter, Drafts, Issued
    <2>2. \A k \in Numbers \ {n} : rows'[k] = rows[k]
      BY <1>7 DEF ChangeLines, ChangePartner, MarkAsSent, Delete, Archive,
                  Alter, NumberInv, TypeInv, TypeOK
    <2>3. Stored' \subseteq Stored
      BY <2>1, <2>2 DEF Stored
    <2>4. UNCHANGED <<last, jobs>>
      BY <1>7 DEF ChangeLines, ChangePartner, MarkAsSent, Delete, Archive, Alter
    <2>. QED  BY <2>3, <2>4, NumbersKept DEF jobs
  <1>8. CASE CopyLine \/ CloseOriginal
    <2>1. \E n \in Stored : \A k \in Numbers \ {n} : rows'[k] = rows[k]
      BY <1>8 DEF CopyLine, CloseOriginal, NumberInv, TypeInv, TypeOK,
                  CancelAtIssued, Issued
    <2>2. Stored' \subseteq Stored
      BY <2>1 DEF Stored
    <2>3. /\ UNCHANGED <<last, client, command>>
          /\ \/ cancel' = NoCancel
             \/ cancel'.cn = cancel.cn /\ cancel'.inserted = cancel.inserted
                /\ cancel # NoCancel
      BY <1>8 DEF CopyLine, CloseOriginal, NoCancel, NumberInv, TypeInv, TypeOK
    <2>. QED  BY <2>2, <2>3, NumbersKept
  <1>9. CASE \/ DayPasses \/ \E p \in Partners : DeletePartner(p)
             \/ ReadInvoices \/ ReadLines \/ ReadPartners
             \/ ListLocked \/ Verify \/ Conclude \/ Die \/ UNCHANGED vars
    <2>1. UNCHANGED <<rows, last, command>>
      BY <1>9 DEF DayPasses, DeletePartner, ReadInvoices, ReadLines, ReadPartners,
                  ListLocked, Verify, Conclude, Die, vars, register, jobs
    <2>2. /\ \A c \in Clients : client'[c] \in {client[c], None}
          /\ cancel' = NoCancel \/ cancel' = cancel
      BY <1>9 DEF DayPasses, DeletePartner, ReadInvoices, ReadLines, ReadPartners,
                  ListLocked, Verify, Conclude, Die, vars, register, jobs,
                  NumberInv, TypeInv, TypeOK
    <2>3. Stored' = Stored
      BY <2>1 DEF Stored
    <2>. QED  BY <2>1, <2>2, <2>3, NumbersKept
  <1>. QED  BY <1>1, <1>2, <1>3, <1>4, <1>5, <1>6, <1>7, <1>8, <1>9 DEF Next

LEMMA NumberInit == Init => NumberInv
  <1>1. Init => Stored = {}
    BY DEF Init, Stored
  <1>2. Init => NumberFree /\ BehindSequence /\ CommandAlone
    BY <1>1 DEF Init, NumberFree, BehindSequence, CommandAlone, NoCancel
  <1>. QED  BY <1>2, TypeInit DEF NumberInv

\* However many requests draw, lose and insert numbers, and whatever
\* set_sequence_start does while nobody creates invoices: a number in hand is
\* in one hand only and not in the register (Invoice.save(),
\* set_sequence_start.py).
THEOREM NumbersAreFree ==
    ASSUME Overlap = FALSE PROVE Spec => []NumberFree
  <1>1. NumberInv /\ [Next]_vars => NumberInv'
    BY NumberStep
  <1>2. NumberInv => NumberFree
    BY DEF NumberInv
  <1>. QED  BY <1>1, <1>2, NumberInit, PTL DEF Spec

-----------------------------------------------------------------------------
(* The integrity report.                                                   *)

\* The seal of an invoice is that of its content, unless it was altered.
Sealed(n) ==
    /\ rows[n].seal \in Content
    /\ rows[n].seal.partner = rows[n].partner
    /\ rows[n].altered <=> rows[n].seal # Seal(rows[n], lines[n])

SealsHold == \A n \in Issued : rows[n].of = None => Sealed(n)

\* Drafts and the credit note being written are no concern of SealsHold.
OthersMarked ==
    /\ \A n \in Drafts : ~rows[n].altered
    /\ cancel.inserted => rows[cancel.cn].of # None

\* A row as the report has read it, and as it is now.
ReadSame(n) ==
    LET r == report.rows[n] IN
    /\ r.of = None /\ r.seal = rows[n].seal /\ r.partner = rows[n].partner
    /\ r.altered => rows[n].altered
    /\ r.altered = rows[n].altered => r.total = rows[n].total

ReportReads ==
    \A n \in DOMAIN report.rows :
        /\ n \in Issued
        /\ report.rows[n].of = rows[n].of
        /\ rows[n].of = None => ReadSame(n)

\* What has been verified has been judged rightly.
BlamedRightly ==
    \A n \in DOMAIN report.rows : rows[n].of = None =>
        /\ n \in report.blamed => rows[n].altered
        /\ report.rows[n].altered => n \in report.todo \cup report.blamed

\* A report that is done has nothing left to verify.
DoneIsDone == report.pc = "done" => report.todo = {}

ReportInv == /\ TypeInv /\ SealsHold /\ OthersMarked
             /\ ReportReads /\ BlamedRightly /\ DoneIsDone

\* The columns of an issued invoice that count for its seal stay as they are.
Untouched(n) ==
    /\ n \in Issued'
    /\ rows'[n].of = rows[n].of /\ rows'[n].seal = rows[n].seal
    /\ rows'[n].partner = rows[n].partner /\ rows'[n].altered = rows[n].altered
    /\ rows[n].of = None => rows'[n].total = rows[n].total /\ lines'[n] = lines[n]

\* Steps that issue nothing but credit notes and leave what is issued alone.
LEMMA ReportKept ==
    ASSUME ReportInv, TypeInv', UNCHANGED report, OthersMarked',
           \A n \in Issued : Untouched(n),
           \A n \in Issued' \ Issued : rows'[n].of = None => Sealed(n)'
    PROVE  ReportInv'
  <1>1. ASSUME NEW n \in Issued', rows'[n].of = None PROVE Sealed(n)'
    <2>1. CASE n \in Issued
      BY <1>1, <2>1 DEF ReportInv, SealsHold, Untouched, Sealed, Seal
    <2>. QED  BY <1>1, <2>1
  <1>2. ReportReads' /\ BlamedRightly'
    BY DEF ReportInv, ReportReads, ReadSame, BlamedRightly, Untouched
  <1>. QED  BY <1>1, <1>2 DEF ReportInv, SealsHold, DoneIsDone

LEMMA ToggledDiffers == ASSUME NEW ls, NEW l PROVE Toggled(ls, l) # ls
  BY DEF Toggled

LEMMA ReportAlter ==
    ASSUME ReportInv, TypeInv', NEW n \in Numbers, Alter(n) PROVE ReportInv'
  <1>1. /\ n \in Issued /\ n \in Stored /\ rows[n] \in Row /\ ~rows[n].altered
        /\ UNCHANGED <<report, cancel>>
    BY RowFacts DEF Alter, Issued, ReportInv, TypeInv, jobs, evaluations
  <1>2. PICK l \in Amounts :
          \/ /\ rows' = [rows EXCEPT ![n].total = Toggled(@, l), ![n].altered = TRUE]
             /\ UNCHANGED lines
          \/ /\ rows' = [rows EXCEPT ![n].altered = TRUE]
             /\ lines' = [lines EXCEPT ![n] = Toggled(@, l)]
    BY DEF Alter
  <1>3. /\ \A k \in Numbers \ {n} : rows'[k] = rows[k] /\ lines'[k] = lines[k]
        /\ rows'[n].altered /\ rows'[n].of = rows[n].of
        /\ rows'[n].seal = rows[n].seal /\ rows'[n].partner = rows[n].partner
        /\ rows'[n].status = rows[n].status
        /\ rows'[n].total # rows[n].total \/ lines'[n] # lines[n]
    BY <1>1, <1>2, ToggledDiffers DEF ReportInv, TypeInv, TypeOK, Row
  <1>4. Issued' = Issued /\ Drafts' = Drafts /\ n \notin Drafts
    <2>1. Issued \subseteq Issued'
      BY TypeAlter DEF ReportInv, TypeStays
    <2>. QED  BY <1>1, <1>3, <2>1 DEF Issued, Drafts, Stored
  <1>5. rows[n].of = None => Sealed(n)'
    <2>1. ASSUME rows[n].of = None
          PROVE  rows[n].seal \in Content /\ rows[n].seal.partner = rows[n].partner
                 /\ rows[n].seal = Seal(rows[n], lines[n])
      BY <1>1, <2>1 DEF ReportInv, SealsHold, Sealed
    <2>. QED  BY <1>3, <2>1 DEF Sealed, Seal
  <1>6. SealsHold'
    BY <1>3, <1>4, <1>5 DEF ReportInv, SealsHold, Sealed, Issued, Stored
  <1>7. OthersMarked'
    BY <1>1, <1>3, <1>4 DEF ReportInv, OthersMarked, TypeInv, CancelAtIssued,
                            Drafts, Issued, Stored
  <1>8. ReportReads' /\ BlamedRightly'
    BY <1>1, <1>3, <1>4 DEF ReportInv, ReportReads, ReadSame, BlamedRightly,
                            Issued, Stored
  <1>. QED  BY <1>1, <1>6, <1>7, <1>8 DEF ReportInv, DoneIsDone

LEMMA ReportMarkAsSent ==
    ASSUME ReportInv, TypeStays, NEW n \in Numbers, MarkAsSent(n) PROVE ReportInv'
  <1>1. /\ n \in Drafts /\ n \in Stored /\ rows[n] \in Row /\ ~rows[n].altered
        /\ UNCHANGED <<lines, report, cancel>>
    BY RowFacts DEF MarkAsSent, Drafts, ReportInv, OthersMarked, TypeInv,
                    jobs, evaluations
  <1>2. Seal(rows[n], lines[n]) \in Content
    BY <1>1, SealType DEF ReportInv, TypeInv
  <1>3. /\ \A k \in Numbers \ {n} : rows'[k] = rows[k]
        /\ rows'[n] = [rows[n] EXCEPT !.status = "SENT", !.seal = Seal(rows[n], lines[n])]
    BY <1>1 DEF MarkAsSent, ReportInv, TypeInv, TypeOK
  <1>4. /\ rows'[n].seal = Seal(rows[n], lines[n]) /\ rows'[n].altered = FALSE
        /\ rows'[n].partner = rows[n].partner /\ rows'[n].total = rows[n].total
        /\ rows'[n].status = "SENT"
    BY <1>1, <1>3 DEF Row
  <1>5. Sealed(n)'
    BY <1>1, <1>2, <1>4 DEF Sealed, Seal
  <1>6. \A k \in Issued : k # n /\ Untouched(k)
    BY <1>1, <1>3 DEF Untouched, Issued, Drafts, Stored, TypeStays
  <1>7. Issued' \subseteq Issued \cup {n} /\ Drafts' \subseteq Drafts /\ n \notin Drafts'
    BY <1>1, <1>3, <1>4 DEF Issued, Drafts, Stored
  <1>8. OthersMarked'
    BY <1>1, <1>3, <1>6, <1>7 DEF ReportInv, OthersMarked, TypeInv, CancelAtIssued,
                            Drafts, Issued, Stored
  <1>. QED  BY <1>1, <1>5, <1>6, <1>7, <1>8, ReportKept DEF TypeStays

\* Steps that touch neither what is issued nor what is being cancelled.
LEMMA ReportDrafts ==
    ASSUME ReportInv, TypeStays,
           \/ \E n \in Numbers : ChangeLines(n) \/ ChangePartner(n) \/ Delete(n)
           \/ rows' # rows /\ \E c \in Clients : Insert(c)
    PROVE  ReportInv'
  <1>1. UNCHANGED <<report, cancel>>
    BY DEF ChangeLines, ChangePartner, Delete, Insert, jobs, evaluations
  <1>2. PICK n \in Numbers :
          /\ n \notin Issued
          /\ \A k \in Numbers \ {n} : rows'[k] = rows[k] /\ lines'[k] = lines[k]
          /\ \/ rows'[n] = None
             \/ rows'[n].status = "DRAFT" /\ ~rows'[n].altered
    <2>1. CASE \E n \in Numbers : ChangeLines(n)
      <3>1. PICK n \in Numbers : ChangeLines(n)
        BY <2>1
      <3>2. n \in Drafts /\ n \notin Issued /\ rows[n] \in Row /\ ~rows[n].altered
            /\ rows[n].status = "DRAFT"
        BY <3>1, RowFacts DEF ChangeLines, Drafts, Issued, ReportInv, OthersMarked,
                              TypeInv
      <3>. QED  BY <3>1, <3>2 DEF ChangeLines, ReportInv, TypeInv, TypeOK, Row
    <2>2. CASE \E n \in Numbers : ChangePartner(n)
      <3>1. PICK n \in Numbers : ChangePartner(n)
        BY <2>2
      <3>2. n \in Drafts /\ n \notin Issued /\ rows[n] \in Row /\ ~rows[n].altered
            /\ rows[n].status = "DRAFT"
        BY <3>1, RowFacts DEF ChangePartner, Drafts, Issued, ReportInv, OthersMarked,
                              TypeInv
      <3>. QED  BY <3>1, <3>2 DEF ChangePartner, ReportInv, TypeInv, TypeOK, Row
    <2>3. CASE \E n \in Numbers : Delete(n)
      BY <2>3 DEF Delete, Drafts, ReportInv, TypeInv, TypeOK
    <2>4. CASE rows' # rows /\ \E c \in Clients : Insert(c)
      <3>1. PICK c \in Clients : Insert(c)
        BY <2>4
      <3>2. client[c] \in Numbers /\ UNCHANGED lines
        BY <3>1 DEF Insert, ReportInv, TypeInv, TypeOK
      <3>3. PICK p \in partners : client[c] \notin Stored
                                  /\ rows' = [rows EXCEPT ![client[c]] = Draft(p)]
        BY <2>4, <3>1 DEF Insert
      <3>. QED  BY <3>2, <3>3 DEF Draft, Issued, ReportInv, TypeInv, TypeOK
    <2>. QED  BY <2>1, <2>2, <2>3, <2>4
  <1>3. \A k \in Issued : Untouched(k)
    BY <1>2 DEF Untouched, Issued, Stored, TypeStays
  <1>4. Issued' = Issued /\ \A k \in Drafts' : ~rows'[k].altered
    BY <1>2 DEF Issued, Drafts, Stored, TypeStays, ReportInv, OthersMarked
  <1>5. OthersMarked'
    BY <1>1, <1>2, <1>4 DEF ReportInv, OthersMarked, TypeInv, CancelAtIssued, Issued, Stored
  <1>. QED  BY <1>1, <1>3, <1>4, <1>5, ReportKept DEF TypeStays

LEMMA ReportArchive ==
    ASSUME ReportInv, TypeStays, NEW n \in Numbers, Archive(n) PROVE ReportInv'
  <1>1. /\ n \in Issued /\ rows[n] \in Row /\ UNCHANGED <<lines, report, cancel>>
        /\ rows' = [rows EXCEPT ![n] = [rows[n] EXCEPT !.archived = TRUE]]
    BY RowFacts DEF Archive, Issued, ReportInv, TypeInv, TypeOK, jobs, evaluations
  <1>2. \A k \in Numbers : k # n => rows'[k] = rows[k]
    BY <1>1 DEF ReportInv, TypeInv, TypeOK
  <1>3. /\ rows'[n].of = rows[n].of /\ rows'[n].seal = rows[n].seal
        /\ rows'[n].partner = rows[n].partner /\ rows'[n].altered = rows[n].altered
        /\ rows'[n].total = rows[n].total /\ rows'[n].status = rows[n].status
    BY <1>1 DEF Row, Issued, Stored, ReportInv, TypeInv, TypeOK
  <1>4. \A k \in Issued : Untouched(k)
    BY <1>1, <1>2, <1>3 DEF Untouched, Issued, Stored, TypeStays
  <1>5. Issued' = Issued /\ Drafts' \subseteq Drafts
    BY <1>1, <1>2, <1>3 DEF TypeStays, Issued, Drafts, Stored
  <1>6. OthersMarked'
    BY <1>1, <1>2, <1>4, <1>5 DEF Untouched, ReportInv, OthersMarked, TypeInv,
                                  CancelAtIssued, Drafts, Issued, Stored
  <1>. QED  BY <1>1, <1>4, <1>5, <1>6, ReportKept DEF TypeStays

LEMMA ReportInsertStorno ==
    ASSUME ReportInv, TypeStays, InsertStorno PROVE ReportInv'
  <1>. DEFINE n == cancel.cn
  <1>1. /\ n \in Numbers /\ cancel.of \in Stored /\ cancel.of \in Numbers
        /\ UNCHANGED <<lines, report>>
    BY DEF InsertStorno, ReportInv, TypeInv, TypeOK, CancelAtIssued, Issued,
           Stored, evaluations
  <1>2. CASE UNCHANGED rows /\ cancel' = NoCancel
    <2>1. Issued' = Issued /\ Drafts' = Drafts
      BY <1>2 DEF Issued, Drafts, Stored
    <2>2. OthersMarked' /\ \A k \in Issued : Untouched(k)
      BY <1>1, <1>2, <2>1 DEF ReportInv, OthersMarked, NoCancel, Untouched
    <2>. QED  BY <1>1, <2>1, <2>2, ReportKept DEF TypeStays
  <1>3. CASE /\ n \notin Stored
             /\ rows' = [rows EXCEPT ![n] = Storno(cancel.of)]
             /\ cancel' = [cancel EXCEPT !.inserted = TRUE, !.todo = lines[cancel.of]]
    <2>1. Storno(cancel.of) \in Row /\ Storno(cancel.of).status = "SENT"
      BY <1>1, StornoType DEF ReportInv, TypeInv
    <2>2. Storno(cancel.of).of = cancel.of
      BY <1>1 DEF Storno, Draft
    <2>3. /\ \A k \in Numbers \ {n} : rows'[k] = rows[k]
          /\ rows'[n].of # None /\ rows'[n].status = "SENT" /\ cancel'.cn = n
      BY <1>1, <1>3, <2>1, <2>2 DEF ReportInv, TypeInv, TypeOK, Numbers
    <2>4. Issued' \subseteq Issued \cup {n} /\ Drafts' \subseteq Drafts /\ n \notin Drafts'
      BY <1>1, <2>3 DEF Issued, Drafts, Stored
    <2>5. \A k \in Issued : k # n /\ Untouched(k)
      BY <1>1, <1>3, <2>3 DEF Untouched, Issued, Stored, TypeStays
    <2>6. OthersMarked'
      BY <2>3, <2>4 DEF ReportInv, OthersMarked, Drafts, Stored
    <2>. QED  BY <1>1, <2>3, <2>4, <2>5, <2>6, ReportKept DEF TypeStays
  <1>. QED  BY <1>2, <1>3 DEF InsertStorno

LEMMA ReportCopyLine == ASSUME ReportInv, TypeStays, CopyLine PROVE ReportInv'
  <1>. DEFINE n == cancel.cn
  <1>1. PICK l \in cancel.todo :
          LET ls == lines[n] \cup {-l} IN
          /\ lines' = [lines EXCEPT ![n] = ls]
          /\ rows' = [rows EXCEPT ![n].total = ls]
          /\ cancel' = [cancel EXCEPT !.todo = @ \ {l}]
    BY DEF CopyLine
  <1>2. /\ n \in Issued /\ n \in Numbers /\ rows[n] \in Row /\ rows[n].of # None
        /\ cancel.inserted /\ UNCHANGED report
    BY DEF CopyLine, ReportInv, OthersMarked, TypeInv, TypeOK, CancelAtIssued,
           Issued, Stored, evaluations
  <1>3. /\ \A k \in Numbers \ {n} : rows'[k] = rows[k] /\ lines'[k] = lines[k]
        /\ rows'[n].of = rows[n].of /\ rows'[n].seal = rows[n].seal
        /\ rows'[n].partner = rows[n].partner /\ rows'[n].altered = rows[n].altered
        /\ rows'[n].status = rows[n].status
    BY <1>1, <1>2 DEF ReportInv, TypeInv, TypeOK, Row
  <1>4. \A k \in Issued : Untouched(k)
    BY <1>2, <1>3 DEF Untouched, Issued, Stored, TypeStays
  <1>5. Issued' = Issued /\ Drafts' \subseteq Drafts
    BY <1>2, <1>3 DEF TypeStays, Issued, Drafts, Stored
  <1>6. cancel'.cn = n
    BY <1>1 DEF ReportInv, TypeInv, TypeOK
  <1>7. OthersMarked'
    BY <1>2, <1>3, <1>5, <1>6 DEF ReportInv, OthersMarked, Drafts, Issued, Stored
  <1>. QED  BY <1>2, <1>4, <1>5, <1>7, ReportKept DEF TypeStays

LEMMA ReportCloseOriginal ==
    ASSUME ReportInv, TypeStays, CloseOriginal PROVE ReportInv'
  <1>. DEFINE n == cancel.of
  <1>1. /\ n \in Issued /\ n \in Numbers /\ rows[n] \in Row
        /\ UNCHANGED <<lines, report>> /\ cancel' = NoCancel
    BY DEF CloseOriginal, ReportInv, TypeInv, TypeOK, CancelAtIssued, Issued,
           Stored, evaluations
  <1>2. /\ \A k \in Numbers \ {n} : rows'[k] = rows[k]
        /\ rows'[n].of = rows[n].of /\ rows'[n].seal = rows[n].seal
        /\ rows'[n].partner = rows[n].partner /\ rows'[n].altered = rows[n].altered
        /\ rows'[n].total = rows[n].total /\ rows'[n].status = "CANCELLED"
    BY <1>1 DEF CloseOriginal, ReportInv, TypeInv, TypeOK, Row
  <1>3. \A k \in Issued : Untouched(k)
    BY <1>1, <1>2 DEF Untouched, Issued, Stored, TypeStays
  <1>4. Issued' = Issued /\ Drafts' \subseteq Drafts /\ n \notin Drafts'
    BY <1>1, <1>2 DEF TypeStays, Issued, Drafts, Stored
  <1>5. OthersMarked'
    BY <1>1, <1>2, <1>4 DEF ReportInv, OthersMarked, NoCancel, Drafts, Stored
  <1>. QED  BY <1>1, <1>3, <1>4, <1>5, ReportKept DEF TypeStays

\* Steps that leave the rows and lines alone, and the report too.
LEMMA ReportElsewhere ==
    ASSUME ReportInv, TypeStays, UNCHANGED <<rows, lines, report>>,
           cancel'.inserted => cancel'.cn = cancel.cn /\ cancel.inserted
    PROVE  ReportInv'
  <1>1. Issued' = Issued /\ Drafts' = Drafts
    BY DEF Issued, Drafts, Stored
  <1>2. OthersMarked' /\ \A k \in Issued : Untouched(k)
    BY <1>1 DEF ReportInv, OthersMarked, Untouched
  <1>. QED  BY <1>1, <1>2, ReportKept DEF TypeStays

\* Steps of the report itself.
LEMMA ReportQuery ==
    ASSUME ReportInv, TypeStays, ListLocked \/ Verify \/ Conclude PROVE ReportInv'
  <1>1. UNCHANGED <<rows, lines, cancel>>
    BY DEF ListLocked, Verify, Conclude, register, jobs
  <1>2. Issued' = Issued /\ Drafts' = Drafts
    BY <1>1 DEF Issued, Drafts, Stored
  <1>3. SealsHold' /\ OthersMarked'
    BY <1>1, <1>2 DEF ReportInv, SealsHold, Sealed, OthersMarked
  <1>4. CASE ListLocked
    <2>. DEFINE found == {n \in Issued : ~rows[n].archived}
    <2>1. report' = [pc |-> "verify", rows |-> [n \in found |-> rows[n]],
                     todo |-> found, blamed |-> {}]
      BY <1>4 DEF ListLocked, NoReport
    <2>2. /\ DOMAIN report'.rows = found /\ report'.todo = found
          /\ report'.blamed = {} /\ report'.pc = "verify"
          /\ \A n \in found : report'.rows[n] = rows[n]
      BY <2>1
    <2>3. ReportReads' /\ BlamedRightly' /\ DoneIsDone'
      BY <1>1, <1>2, <2>2 DEF ReportReads, ReadSame, BlamedRightly, DoneIsDone
    <2>. QED  BY <1>3, <2>3 DEF ReportInv, TypeStays
  <1>5. CASE Verify
    <2>1. PICK n \in report.todo : report' = [report EXCEPT
            !.todo = @ \ {n},
            !.blamed = IF Valid(report.rows[n], lines[n]) THEN @ ELSE @ \cup {n}]
      BY <1>5 DEF Verify
    <2>2. /\ report'.rows = report.rows /\ report'.todo = report.todo \ {n}
          /\ report'.blamed = IF Valid(report.rows[n], lines[n])
                                THEN report.blamed ELSE report.blamed \cup {n}
          /\ report'.pc = report.pc
      BY <2>1 DEF ReportInv, TypeInv, Shapes
    <2>3. n \in DOMAIN report.rows
      BY DEF ReportInv, TypeInv, TypeOK
    <2>4. ASSUME rows[n].of = None
          PROVE  /\ ~Valid(report.rows[n], lines[n]) => rows[n].altered
                 /\ report.rows[n].altered => ~Valid(report.rows[n], lines[n])
      <3>. DEFINE r == report.rows[n]
      <3>1. Sealed(n) /\ ReadSame(n)
        BY <2>3, <2>4 DEF ReportInv, SealsHold, ReportReads
      <3>2. r.seal # None /\ r.seal = rows[n].seal
        BY <3>1 DEF Sealed, ReadSame
      <3>3. Valid(r, lines[n]) <=> Seal(r, lines[n]) = r.seal
        BY <3>2 DEF Valid
      <3>4. r.altered = rows[n].altered =>
              Seal(r, lines[n]) = Seal(rows[n], lines[n])
        BY <3>1 DEF ReadSame, Seal
      <3>5. report.rows[n] \in Row /\ rows[n] \in Row
        BY <2>3, RowFacts, IssuedStored DEF ReportInv, ReportReads, TypeInv, TypeOK
      <3>6. r.altered \in BOOLEAN /\ rows[n].altered \in BOOLEAN
        BY <3>5 DEF Row
      <3>. QED  BY <3>1, <3>2, <3>3, <3>4, <3>6 DEF Sealed, ReadSame
    <2>5. ReportReads' /\ BlamedRightly'
      BY <1>1, <1>2, <2>2, <2>3, <2>4 DEF ReportInv, ReportReads, ReadSame,
                                          BlamedRightly
    <2>6. DoneIsDone'
      BY <1>5, <2>2 DEF Verify, ReportInv, DoneIsDone
    <2>. QED  BY <1>3, <2>5, <2>6 DEF ReportInv, TypeStays
  <1>6. CASE Conclude
    <2>1. /\ report'.rows = report.rows /\ report'.todo = report.todo
          /\ report'.blamed = report.blamed /\ report'.todo = {}
      BY <1>6 DEF Conclude, ReportInv, TypeInv, Shapes
    <2>2. ReportReads' /\ BlamedRightly' /\ DoneIsDone'
      BY <1>1, <1>2, <2>1 DEF ReportInv, ReportReads, ReadSame, BlamedRightly,
                              DoneIsDone
    <2>. QED  BY <1>3, <2>2 DEF ReportInv, TypeStays
  <1>. QED  BY <1>4, <1>5, <1>6

LEMMA ReportStep == ReportInv /\ [Next]_vars => ReportInv'
  <1>. SUFFICES ASSUME ReportInv, [Next]_vars PROVE ReportInv'
    OBVIOUS
  <1>. TypeStays
    BY TypeStep DEF ReportInv
  <1>1. CASE \/ ReadMax \/ SetSequence \/ Die
             \/ \E c \in Clients : Post(c)
             \/ \E n \in Numbers : BeginCancel(n)
             \/ \E p \in Partners : DeletePartner(p)
             \/ DayPasses \/ ReadInvoices \/ ReadLines \/ ReadPartners
             \/ UNCHANGED vars
    <2>1. UNCHANGED <<rows, lines, report>>
      BY <1>1 DEF ReadMax, SetSequence, Die, Post, BeginCancel, DeletePartner,
                  DayPasses, ReadInvoices, ReadLines, ReadPartners, vars,
                  register, jobs, evaluations
    <2>2. ASSUME NEW n \in Numbers, BeginCancel(n) PROVE ~cancel'.inserted
      BY <2>2 DEF BeginCancel, NoCancel
    <2>3. Die => cancel' = cancel \/ ~cancel'.inserted
      BY DEF Die, NoCancel
    <2>4. cancel' = cancel \/ ~cancel'.inserted
      BY <1>1, <2>2, <2>3 DEF ReadMax, SetSequence, Post, DeletePartner,
                  DayPasses, ReadInvoices, ReadLines, ReadPartners, vars,
                  register, jobs, evaluations
    <2>. QED  BY <2>1, <2>4, ReportElsewhere
  <1>2. ASSUME NEW c \in Clients, Insert(c) PROVE ReportInv'
    <2>1. CASE UNCHANGED rows
      <3>1. UNCHANGED <<lines, cancel, report>>
        BY <1>2 DEF Insert, evaluations
      <3>. QED  BY <2>1, <3>1, ReportElsewhere
    <2>2. CASE rows' # rows
      BY <1>2, <2>2, ReportDrafts
    <2>. QED  BY <2>1, <2>2
  <1>3. CASE \E n \in Numbers : ChangeLines(n) \/ ChangePartner(n) \/ Delete(n)
    BY <1>3, ReportDrafts
  <1>4. CASE \E n \in Numbers : MarkAsSent(n) \/ Archive(n) \/ Alter(n)
    BY <1>4, ReportMarkAsSent, ReportArchive, ReportAlter DEF TypeStays
  <1>5. CASE InsertStorno \/ CopyLine \/ CloseOriginal
    BY <1>5, ReportInsertStorno, ReportCopyLine, ReportCloseOriginal
  <1>6. CASE ListLocked \/ Verify \/ Conclude
    BY <1>6, ReportQuery
  <1>. QED  BY <1>1, <1>2, <1>3, <1>4, <1>5, <1>6 DEF Next

LEMMA ReportInit == Init => ReportInv
  <1>1. Init => Stored = {} /\ ~cancel.inserted /\ DOMAIN report.rows = {}
                /\ report.todo = {}
    BY DEF Init, Stored, NoCancel, NoReport
  <1>2. Init => /\ SealsHold /\ OthersMarked /\ ReportReads /\ BlamedRightly
                /\ DoneIsDone
    BY <1>1 DEF Issued, Drafts, SealsHold, OthersMarked, ReportReads,
                BlamedRightly, DoneIsDone
  <1>. QED  BY <1>2, TypeInit DEF ReportInv

\* The integrity report blames every invoice that was altered when it listed
\* the rows and nobody who is not, although it reads the lines of each invoice
\* later, while others issue, archive and cancel; gobd_audit fails if there is
\* one (integrity_service.py:22-44, gobd_audit.py:80-82).
THEOREM ReportIsExact == Spec => []ReportExact
  <1>1. ReportInv => ReportExact
    <2>. SUFFICES ASSUME ReportInv, report.pc = "done",
                         NEW n \in DOMAIN report.rows, report.rows[n].of = None
                  PROVE  /\ report.rows[n].altered => n \in report.blamed /\ ExitCode = 1
                         /\ n \in report.blamed => rows[n].altered
      BY DEF ReportExact
    <2>1. rows[n].of = None /\ report.todo = {}
      BY DEF ReportInv, ReportReads, DoneIsDone
    <2>2. /\ report.rows[n].altered => n \in report.blamed
          /\ n \in report.blamed => rows[n].altered
      BY <2>1 DEF ReportInv, BlamedRightly
    <2>. QED  BY <2>2 DEF ExitCode
  <1>. QED  BY <1>1, ReportInit, ReportStep, PTL DEF Spec

-----------------------------------------------------------------------------
(* The export.                                                             *)

\* The totals of an invoice are those of its lines.
Agree(n) == Altered(n) \/ lines[n] = rows[n].total

\* No invoice, or a credit note cancel() is through with.
Through(n) == \/ rows[n].of = None
              \/ rows[rows[n].of].by = n /\ rows[rows[n].of].of = None

AllAgree == /\ \A n \in Stored : Through(n) => Agree(n)
            /\ \A n \in Numbers \ Stored : lines[n] = {}

\* References lead to what is issued; only what is cancelled has one.
References ==
    \A n \in Stored : /\ rows[n].of # None => rows[n].of \in Issued
                      /\ rows[n].by # None => /\ rows[n].by \in Issued
                                              /\ rows[n].status = "CANCELLED"

\* What cancel() is at refers to nothing yet; its credit note adds up, once all
\* lines are copied.
CancelAgrees ==
    /\ cancel.of # None => rows[cancel.of].by = None
    /\ cancel.inserted =>
         /\ rows[cancel.cn].of = cancel.of
         /\ rows[cancel.of].of = None /\ cancel.todo = {} => Agree(cancel.cn)

PartnersThere == \A n \in Stored : rows[n].partner \in partners

BooksInv == AllAgree /\ References /\ CancelAgrees /\ PartnersThere

\* What the export has read so far still stands in the register.
ExportReads ==
    export.pc # "idle" =>
        /\ \A n \in export.complete :
             /\ n \in DOMAIN export.rows /\ n \in Complete
             /\ Altered(n) \/ export.rows[n].total = rows[n].total
             /\ export.pc # "lines" => Altered(n) \/ export.lines[n] = lines[n]
        /\ \A n \in DOMAIN export.rows :
             export.rows[n].status # "DRAFT" =>
               IF export.pc = "done"
                 THEN export.rows[n].partner \in export.partners
                 ELSE n \in Issued /\ export.rows[n].partner = rows[n].partner

ExportInv == TypeInv /\ BooksInv /\ ExportReads

\* Nothing the inductive invariant says of row k gets worse.
Better(k) ==
    /\ k \in Stored'
    /\ rows'[k].of = rows[k].of
    /\ rows[k].altered => rows'[k].altered
    /\ k \in Issued => rows'[k].partner = rows[k].partner
    /\ k \in Issued /\ Through(k) =>
         rows'[k].altered \/ (rows'[k].total = rows[k].total /\ lines'[k] = lines[k])

LEMMA AlteredStays ==
    ASSUME ExportInv, NEW k \in Stored, \A i \in Stored : Better(i), Altered(k)
    PROVE  Altered(k)'
  BY DEF ExportInv, BooksInv, References, Issued, Better, Altered

\* Steps that are not the export's.
LEMMA ExportKept ==
    ASSUME ExportInv, TypeInv', BooksInv', UNCHANGED export,
           \A k \in Issued : Better(k) /\ k \in Issued',
           \A k \in Complete : k \in Complete'
    PROVE  ExportInv'
  <1>1. ASSUME NEW k \in Issued, Altered(k) PROVE Altered(k)'
    BY <1>1 DEF ExportInv, BooksInv, References, Issued, Better, Altered
  <1>2. ASSUME NEW k \in Complete, rows'[k].altered PROVE Altered(k)'
    BY <1>2 DEF Altered
  <1>3. \A k \in Complete : k \in Issued /\ Through(k)
    BY DEF Complete, Through
  <1>4. ASSUME export.pc # "idle", NEW k \in export.complete
        PROVE  /\ k \in DOMAIN export.rows /\ k \in Complete'
               /\ Altered(k)' \/ export.rows[k].total = rows'[k].total
               /\ export.pc # "lines" => Altered(k)' \/ export.lines[k] = lines'[k]
    <2>1. /\ k \in DOMAIN export.rows /\ k \in Complete
          /\ Altered(k) \/ export.rows[k].total = rows[k].total
          /\ export.pc # "lines" => Altered(k) \/ export.lines[k] = lines[k]
      BY <1>4 DEF ExportInv, ExportReads
    <2>2. k \in Issued /\ Through(k) /\ Better(k)
      BY <1>3, <2>1
    <2>. QED  BY <1>1, <1>2, <2>1, <2>2 DEF Better
  <1>5. ASSUME export.pc # "idle", NEW k \in DOMAIN export.rows,
               export.rows[k].status # "DRAFT"
        PROVE  IF export.pc = "done"
                 THEN export.rows[k].partner \in export.partners
                 ELSE k \in Issued' /\ export.rows[k].partner = rows'[k].partner
    BY <1>5 DEF ExportInv, ExportReads, Better
  <1>6. ExportReads'
    BY <1>4, <1>5 DEF ExportReads
  <1>. QED  BY <1>6 DEF ExportInv

\* Steps that change one row: a draft, whose totals follow its lines, or an
\* invoice whose amounts stay or are altered behind the application.
LEMMA ExportOneRow ==
    ASSUME ExportInv, TypeStays, UNCHANGED <<partners, cancel, export>>,
           NEW n \in Stored, rows'[n] # None,
           \A k \in Numbers \ {n} : rows'[k] = rows[k] /\ lines'[k] = lines[k],
           rows'[n].of = rows[n].of, rows'[n].by = rows[n].by,
           rows[n].altered => rows'[n].altered,
           rows'[n].status = rows[n].status \/ n \in Drafts,
           \/ rows'[n].total = rows[n].total /\ lines'[n] = lines[n]
           \/ n \in Drafts /\ lines'[n] = rows'[n].total
           \/ rows'[n].altered,
           \/ rows'[n].partner = rows[n].partner
           \/ n \in Drafts /\ rows'[n].partner \in partners
    PROVE  ExportInv'
  <1>1. Stored' = Stored /\ Issued \subseteq Issued' /\ n \in Numbers
    BY DEF Stored, TypeStays
  <1>2. \A k \in Stored : rows'[k].of = rows[k].of /\ rows'[k].by = rows[k].by
    BY DEF Stored
  <1>3. \A k \in Stored : rows[k].of # None => rows[k].of \in Issued /\ rows[k].of \in Stored
    BY IssuedStored DEF ExportInv, BooksInv, References
  <1>4. \A k \in Stored : Through(k)' <=> Through(k)
    BY <1>1, <1>2, <1>3 DEF Through
  <1>5. \A k \in Stored : Better(k)
    BY <1>1, <1>2 DEF Better, Stored, Drafts, Issued
  <1>6. \A k \in Stored : Altered(k) => Altered(k)'
    BY <1>5, AlteredStays
  <1>7. ASSUME NEW k \in Stored, Agree(k) PROVE Agree(k)'
    <2>1. CASE k # n
      BY <1>6, <1>7, <2>1 DEF Agree, Stored
    <2>2. CASE k = n
      BY <1>1, <1>6, <1>7, <2>2 DEF Agree, Altered
    <2>. QED  BY <2>1, <2>2
  <1>8. AllAgree'
    BY <1>1, <1>4, <1>7 DEF ExportInv, BooksInv, AllAgree, Stored
  <1>9. References'
    BY <1>1, <1>2 DEF ExportInv, BooksInv, References, Stored, Drafts, Issued
  <1>10. cancel.of # None => cancel.of \in Stored
    BY IssuedStored DEF ExportInv, TypeInv, CancelAtIssued
  <1>11. cancel.inserted => cancel.cn \in Stored /\ cancel.of \in Stored
    BY <1>10, IssuedStored DEF ExportInv, TypeInv, CancelAtIssued
  <1>12. CancelAgrees'
    BY <1>2, <1>7, <1>10, <1>11 DEF ExportInv, BooksInv, CancelAgrees
  <1>13. PartnersThere'
    BY <1>1 DEF ExportInv, BooksInv, PartnersThere, Stored
  <1>14. \A k \in Complete : k \in Complete'
    BY <1>1, <1>2, <1>3 DEF Complete, Issued
  <1>. QED  BY <1>1, <1>5, <1>8, <1>9, <1>12, <1>13, <1>14, IssuedStored, ExportKept
            DEF TypeStays, BooksInv

LEMMA ExportChanges ==
    ASSUME ExportInv, TypeStays, NEW n \in Numbers,
           ChangeLines(n) \/ ChangePartner(n) \/ MarkAsSent(n) \/ Archive(n) \/ Alter(n)
    PROVE  ExportInv'
  <1>1. n \in Stored /\ rows[n] \in Row /\ rows[n] # None
    BY RowFacts, IssuedStored DEF ExportInv, TypeInv, ChangeLines, ChangePartner,
       MarkAsSent, Archive, Alter, Drafts, Stored
  <1>2. UNCHANGED <<partners, cancel, export>>
    BY DEF ChangeLines, ChangePartner, MarkAsSent, Archive, Alter, jobs, evaluations
  <1>3. /\ rows \in [Numbers -> Row \cup {None}] /\ lines \in [Numbers -> SUBSET Lines]
    BY DEF ExportInv, TypeInv, TypeOK
  <1>4. CASE ChangeLines(n)
    <2>1. PICK ls \in SUBSET Amounts :
            /\ lines' = [lines EXCEPT ![n] = ls]
            /\ rows' = [rows EXCEPT ![n].total = ls]
      BY <1>4 DEF ChangeLines
    <2>2. /\ \A k \in Numbers \ {n} : rows'[k] = rows[k] /\ lines'[k] = lines[k]
          /\ rows'[n].of = rows[n].of /\ rows'[n].by = rows[n].by
          /\ rows'[n].altered = rows[n].altered /\ rows'[n].status = rows[n].status
          /\ rows'[n].partner = rows[n].partner /\ rows'[n].total = lines'[n]
      BY <1>1, <1>3, <2>1 DEF Row
    <2>3. [rows[n] EXCEPT !.total = ls] \in Row
      BY <1>1 DEF Row, Lines
    <2>4. n \in Drafts /\ rows'[n] # None
      BY <1>1, <1>3, <1>4, <2>1, <2>3 DEF ChangeLines
    <2>. QED  BY <1>1, <1>2, <2>2, <2>4, ExportOneRow
  <1>5. CASE ChangePartner(n)
    <2>1. PICK p \in partners : rows' = [rows EXCEPT ![n].partner = p]
      BY <1>5 DEF ChangePartner
    <2>2. /\ \A k \in Numbers \ {n} : rows'[k] = rows[k]
          /\ rows'[n].of = rows[n].of /\ rows'[n].by = rows[n].by
          /\ rows'[n].altered = rows[n].altered /\ rows'[n].status = rows[n].status
          /\ rows'[n].partner = p /\ rows'[n].total = rows[n].total
      BY <1>1, <1>3, <2>1 DEF Row
    <2>3. [rows[n] EXCEPT !.partner = p] \in Row
      BY <1>1 DEF Row, ExportInv, TypeInv, TypeOK
    <2>4. n \in Drafts /\ rows'[n] # None /\ lines' = lines
      BY <1>1, <1>3, <1>5, <2>1, <2>3 DEF ChangePartner
    <2>. QED  BY <1>1, <1>2, <2>2, <2>4, ExportOneRow
  <1>6. CASE MarkAsSent(n)
    <2>1. /\ \A k \in Numbers \ {n} : rows'[k] = rows[k]
          /\ rows'[n].of = rows[n].of /\ rows'[n].by = rows[n].by
          /\ rows'[n].altered = rows[n].altered
          /\ rows'[n].partner = rows[n].partner /\ rows'[n].total = rows[n].total
      BY <1>1, <1>3, <1>6 DEF MarkAsSent, Row
    <2>2. Seal(rows[n], lines[n]) \in Content
      BY <1>1, SealType DEF ExportInv, TypeInv
    <2>3. [rows[n] EXCEPT !.status = "SENT", !.seal = Seal(rows[n], lines[n])] \in Row
      BY <1>1, <2>2 DEF Row
    <2>4. n \in Drafts /\ rows'[n] # None /\ lines' = lines
      BY <1>1, <1>3, <1>6, <2>3 DEF MarkAsSent
    <2>. QED  BY <1>1, <1>2, <2>1, <2>4, ExportOneRow
  <1>7. CASE Archive(n)
    <2>1. /\ \A k \in Numbers \ {n} : rows'[k] = rows[k]
          /\ rows'[n].of = rows[n].of /\ rows'[n].by = rows[n].by
          /\ rows'[n].altered = rows[n].altered /\ rows'[n].status = rows[n].status
          /\ rows'[n].partner = rows[n].partner /\ rows'[n].total = rows[n].total
      BY <1>1, <1>3, <1>7 DEF Archive, Row
    <2>2. [rows[n] EXCEPT !.archived = TRUE] \in Row
      BY <1>1 DEF Row
    <2>3. rows'[n] # None /\ lines' = lines
      BY <1>1, <1>3, <1>7, <2>2 DEF Archive
    <2>. QED  BY <1>1, <1>2, <2>1, <2>3, ExportOneRow
  <1>8. CASE Alter(n)
    <2>1. /\ \A k \in Numbers \ {n} : rows'[k] = rows[k] /\ lines'[k] = lines[k]
          /\ rows'[n].of = rows[n].of /\ rows'[n].by = rows[n].by
          /\ rows'[n].altered /\ rows'[n].status = rows[n].status
          /\ rows'[n].partner = rows[n].partner
      BY <1>1, <1>3, <1>8 DEF Alter, Row
    <2>2. n \in Issued' /\ rows'[n] # None
      BY <1>8 DEF Alter, TypeStays, Issued, Stored
    <2>. QED  BY <1>1, <1>2, <2>1, <2>2, ExportOneRow
  <1>. QED  BY <1>4, <1>5, <1>6, <1>7, <1>8

\* A draft comes or goes.
LEMMA ExportDrafts ==
    ASSUME ExportInv, TypeStays, UNCHANGED <<partners, cancel, export>>,
           NEW n \in Numbers \ Issued,
           \A k \in Numbers \ {n} : rows'[k] = rows[k] /\ lines'[k] = lines[k],
           lines'[n] = {},
           \/ rows'[n] = None
           \/ \E p \in partners : rows'[n] = Draft(p) /\ rows'[n] # None
    PROVE  ExportInv'
  <1>1. rows'[n] # None => /\ rows'[n].of = None /\ rows'[n].by = None
                           /\ rows'[n].total = {} /\ rows'[n].partner \in partners
                           /\ rows'[n].status = "DRAFT"
    <2>1. ASSUME NEW p \in partners, rows'[n] = Draft(p)
          PROVE  /\ rows'[n].of = None /\ rows'[n].by = None /\ rows'[n].total = {}
                 /\ rows'[n].partner \in partners /\ rows'[n].status = "DRAFT"
      BY <2>1 DEF Draft
    <2>. QED  BY <2>1
  <1>2. Stored' \ {n} = Stored \ {n} /\ Issued' = Issued
    BY <1>1 DEF Issued, Stored
  <1>3. \A k \in Issued : /\ k # n /\ k \in Numbers \ {n}
                          /\ k \in Stored /\ k \in Stored'
    BY <1>2 DEF Issued, Stored
  <1>4. \A k \in Stored \ {n} : rows[k].of # None => rows[k].of \in Issued
    BY DEF ExportInv, BooksInv, References
  <1>5. \A k \in Stored \ {n} : /\ Through(k)' <=> Through(k)
                                /\ Altered(k)' <=> Altered(k)
                                /\ Agree(k)' <=> Agree(k)
    BY <1>3, <1>4 DEF Through, Agree, Altered, Stored
  <1>6. AllAgree'
    BY <1>1, <1>2, <1>5 DEF ExportInv, BooksInv, AllAgree, Stored, Agree
  <1>7. References'
    BY <1>1, <1>2, <1>4 DEF ExportInv, BooksInv, References, Stored
  <1>8. cancel.of # None => cancel.of \in Issued
    BY DEF ExportInv, TypeInv, CancelAtIssued
  <1>9. cancel.inserted => cancel.cn \in Issued /\ cancel.of \in Issued
    BY DEF ExportInv, TypeInv, CancelAtIssued
  <1>10. CancelAgrees'
    <2>1. /\ cancel.of # None => rows'[cancel.of] = rows[cancel.of]
          /\ cancel.inserted => /\ rows'[cancel.cn] = rows[cancel.cn]
                                /\ rows'[cancel.of] = rows[cancel.of]
                                /\ Agree(cancel.cn)' <=> Agree(cancel.cn)
      BY <1>3, <1>5, <1>8, <1>9
    <2>. QED  BY <2>1 DEF ExportInv, BooksInv, CancelAgrees
  <1>11. PartnersThere'
    BY <1>1, <1>2 DEF ExportInv, BooksInv, PartnersThere, Stored
  <1>12. \A k \in Issued : Better(k) /\ k \in Issued'
    BY <1>2, <1>3 DEF Better
  <1>13. \A k \in Complete : k \in Complete'
    BY <1>2, <1>3, <1>4 DEF Complete, Stored, Issued
  <1>. QED  BY <1>6, <1>7, <1>10, <1>11, <1>12, <1>13, ExportKept
            DEF TypeStays, BooksInv

LEMMA ExportComesAndGoes ==
    ASSUME ExportInv, TypeStays,
           \/ \E n \in Numbers : Delete(n)
           \/ \E c \in Clients : Insert(c) /\ rows' # rows
    PROVE  ExportInv'
  <1>1. /\ rows \in [Numbers -> Row \cup {None}] /\ lines \in [Numbers -> SUBSET Lines]
        /\ client \in [Clients -> Numbers \cup {None}] /\ partners \subseteq Partners
    BY DEF ExportInv, TypeInv, TypeOK
  <1>2. ASSUME NEW n \in Numbers, Delete(n) PROVE ExportInv'
    <2>1. /\ UNCHANGED <<partners, cancel, export>> /\ n \in Numbers \ Issued
          /\ \A k \in Numbers \ {n} : rows'[k] = rows[k] /\ lines'[k] = lines[k]
          /\ lines'[n] = {} /\ rows'[n] = None
      BY <1>1, <1>2 DEF Delete, Drafts, jobs, evaluations
    <2>. QED  BY <2>1, ExportDrafts
  <1>3. ASSUME NEW c \in Clients, Insert(c), rows' # rows PROVE ExportInv'
    <2>1. PICK p \in partners : rows' = [rows EXCEPT ![client[c]] = Draft(p)]
      BY <1>3 DEF Insert
    <2>2. PICK n \in Numbers : n = client[c] /\ n \notin Stored
      BY <1>1, <1>3 DEF Insert
    <2>3. Draft(p) \in Row
      BY <1>1, DraftType DEF ExportInv, TypeInv
    <2>4. /\ UNCHANGED <<lines, partners, cancel, export>> /\ n \in Numbers \ Issued
          /\ \A k \in Numbers \ {n} : rows'[k] = rows[k]
          /\ rows'[n] = Draft(p) /\ rows'[n] # None
      BY <1>1, <1>3, <2>1, <2>2, <2>3 DEF Insert, evaluations, Issued
    <2>5. lines'[n] = {}
      BY <2>2, <2>4 DEF ExportInv, BooksInv, AllAgree
    <2>. QED  BY <2>4, <2>5, ExportDrafts
  <1>. QED  BY <1>2, <1>3

LEMMA ExportInsertStorno ==
    ASSUME ExportInv, TypeStays, InsertStorno, rows' # rows PROVE ExportInv'
  <1>. DEFINE n == cancel.cn
              m == cancel.of
  <1>1. /\ n \in Numbers \ Stored /\ m \in Issued /\ m \in Stored /\ m \in Numbers
        /\ UNCHANGED <<lines, partners, export>>
        /\ rows' = [rows EXCEPT ![n] = Storno(m)]
        /\ cancel' = [cancel EXCEPT !.inserted = TRUE, !.todo = lines[m]]
    BY IssuedStored DEF InsertStorno, ExportInv, TypeInv, TypeOK, CancelAtIssued,
       evaluations, Stored
  <1>2. rows \in [Numbers -> Row \cup {None}]
    BY DEF ExportInv, TypeInv, TypeOK
  <1>3. Storno(m) \in Row /\ Storno(m).status = "SENT"
    BY <1>1, StornoType DEF ExportInv, TypeInv
  <1>4. Storno(m).of = m /\ Storno(m).by = None /\ Storno(m).partner = rows[m].partner
        /\ Storno(m).total = Neg(rows[m].total)
    BY <1>1 DEF Storno, Draft
  <1>5. /\ \A k \in Numbers \ {n} : rows'[k] = rows[k]
        /\ rows'[n] = Storno(m) /\ rows'[n] # None
        /\ cancel'.of = m /\ cancel'.cn = n /\ cancel'.inserted /\ cancel'.todo = lines[m]
    BY <1>1, <1>2, <1>3 DEF ExportInv, TypeInv, TypeOK
  <1>6. Stored' = Stored \cup {n} /\ Issued' = Issued \cup {n}
    BY <1>1, <1>3, <1>5 DEF Stored, Issued
  <1>7. \A k \in Stored : /\ k # n /\ rows[k].of # n /\ rows[k].by # n
                          /\ rows[k].of # None => rows[k].of \in Stored
    BY <1>1, IssuedStored DEF ExportInv, BooksInv, References, Numbers
  <1>8. \A k \in Stored : /\ Through(k)' <=> Through(k)
                          /\ Altered(k)' <=> Altered(k)
                          /\ Agree(k)' <=> Agree(k)
    BY <1>1, <1>5, <1>7 DEF Through, Agree, Altered, Stored
  <1>9. ~Through(n)'
    BY <1>1, <1>4, <1>5, <1>7, NoneIsNothing DEF Through, Numbers
  <1>10. AllAgree'
    BY <1>1, <1>6, <1>8, <1>9 DEF ExportInv, BooksInv, AllAgree
  <1>11. References'
    BY <1>1, <1>4, <1>5, <1>6, <1>7 DEF ExportInv, BooksInv, References
  <1>12. CancelAgrees'
    <2>1. rows'[m] = rows[m] /\ rows[m].by = None
      BY <1>1, <1>5, <1>7, NoneIsNothing DEF ExportInv, BooksInv, CancelAgrees, Numbers
    <2>2. rows[m].of = None /\ lines[m] = {} => Agree(n)'
      <3>1. ASSUME rows[m].of = None, lines[m] = {}, ~Altered(m)
            PROVE  lines[n] = Neg(rows[m].total)
        <4>1. rows[m].total = {}
          BY <1>1, <3>1 DEF ExportInv, BooksInv, AllAgree, Through, Agree
        <4>2. lines[n] = {}
          BY <1>1 DEF ExportInv, BooksInv, AllAgree
        <4>. QED  BY <4>1, <4>2 DEF Neg
      <3>2. ASSUME rows[m].of = None, Altered(m) PROVE Altered(n)'
        BY <1>1, <1>4, <1>5, <2>1, <3>2, NoneIsNothing DEF Altered, Numbers
      <3>. QED  BY <1>1, <1>4, <1>5, <3>1, <3>2 DEF Agree
    <2>. QED  BY <1>4, <1>5, <2>1, <2>2 DEF CancelAgrees
  <1>13. PartnersThere'
    BY <1>1, <1>4, <1>5, <1>6 DEF ExportInv, BooksInv, PartnersThere, Stored
  <1>14. \A k \in Issued : Better(k) /\ k \in Issued'
    BY <1>1, <1>5, <1>6, <1>7, IssuedStored DEF Better, Stored
  <1>15. \A k \in Complete : k \in Complete'
    BY <1>1, <1>5, <1>6, <1>7, IssuedStored DEF Complete, Stored
  <1>. QED  BY <1>1, <1>10, <1>11, <1>12, <1>13, <1>14, <1>15, ExportKept
            DEF TypeStays, BooksInv

\* cancel() adds a line to its credit note.
LEMMA ExportCopyLine == ASSUME ExportInv, TypeStays, CopyLine PROVE ExportInv'
  <1>. DEFINE n == cancel.cn
              m == cancel.of
  <1>1. PICK l \in cancel.todo :
          LET ls == lines[n] \cup {-l} IN
          /\ lines' = [lines EXCEPT ![n] = ls]
          /\ rows' = [rows EXCEPT ![n].total = ls]
          /\ cancel' = [cancel EXCEPT !.todo = @ \ {l}]
    BY DEF CopyLine
  <1>2. cancel.inserted /\ n \in Issued /\ m \in Issued /\ n # None /\ m # None
    BY <1>1 DEF ExportInv, TypeInv, CancelAtIssued, Issued, Stored
  <1>3. /\ n \in Stored /\ m \in Stored /\ rows[n] \in Row
        /\ rows[n].of = m /\ rows[m].by = None
        /\ UNCHANGED <<partners, export>>
    BY <1>2, IssuedStored, RowFacts DEF CopyLine, ExportInv, TypeInv, BooksInv,
       CancelAgrees, evaluations
  <1>4. /\ \A k \in Numbers \ {n} : rows'[k] = rows[k] /\ lines'[k] = lines[k]
        /\ rows'[n].of = rows[n].of /\ rows'[n].by = rows[n].by
        /\ rows'[n].partner = rows[n].partner /\ rows'[n].altered = rows[n].altered
        /\ rows'[n].status = rows[n].status /\ rows'[n].total = lines'[n]
        /\ cancel'.of = m /\ cancel'.cn = n /\ cancel'.inserted
    BY <1>1, <1>2, <1>3 DEF ExportInv, TypeInv, TypeOK, Row, Stored
  <1>5. n \in Issued' /\ n \in Stored'
    BY <1>2, IssuedStored DEF TypeStays, Issued
  <1>6. Stored' = Stored /\ Issued' = Issued
    BY <1>3, <1>4, <1>5 DEF Stored, Issued
  <1>7. \A k \in Stored : /\ rows'[k].of = rows[k].of /\ rows'[k].by = rows[k].by
                          /\ rows'[k].partner = rows[k].partner
                          /\ rows'[k].altered = rows[k].altered
                          /\ rows'[k].status = rows[k].status
    BY <1>4 DEF Stored
  <1>8. \A k \in Stored : rows[k].of # None => rows[k].of \in Stored
    BY IssuedStored DEF ExportInv, BooksInv, References
  <1>9. \A k \in Stored : Through(k)' <=> Through(k)
    BY <1>7, <1>8 DEF Through
  <1>10. \A k \in Stored \ {n} : Agree(k)' <=> Agree(k)
    BY <1>4, <1>7, <1>8 DEF Agree, Altered, Stored
  <1>11. Agree(n)' /\ ~Through(n)
    BY <1>2, <1>3, <1>4 DEF Agree, Through
  <1>12. AllAgree'
    <2>1. ASSUME NEW k \in Stored, Through(k)' PROVE Agree(k)'
      <3>1. CASE k = n
        BY <1>4, <1>11, <3>1 DEF Agree, Altered
      <3>2. CASE k # n
        BY <1>9, <1>10, <2>1, <3>2 DEF ExportInv, BooksInv, AllAgree
      <3>. QED  BY <3>1, <3>2
    <2>2. \A k \in Numbers \ Stored : lines'[k] = {}
      BY <1>3, <1>4 DEF ExportInv, BooksInv, AllAgree
    <2>. QED  BY <1>6, <2>1, <2>2 DEF AllAgree
  <1>13. References' /\ PartnersThere'
    BY <1>3, <1>6, <1>7 DEF ExportInv, BooksInv, References, PartnersThere
  <1>14. CancelAgrees'
    BY <1>3, <1>4, <1>7, <1>11 DEF CancelAgrees
  <1>15. \A k \in Issued : Better(k) /\ k \in Issued'
    BY <1>4, <1>6, <1>7, <1>11, IssuedStored DEF Better, Stored
  <1>16. \A k \in Complete : k \in Complete'
    BY <1>6, <1>7, <1>8, IssuedStored DEF Complete
  <1>. QED  BY <1>3, <1>12, <1>13, <1>14, <1>15, <1>16, ExportKept
            DEF TypeStays, BooksInv

\* The credit note adds up by now.
LEMMA ExportCloseOriginal ==
    ASSUME ExportInv, TypeStays, CloseOriginal PROVE ExportInv'
  <1>. DEFINE n == cancel.cn
              m == cancel.of
  <1>1. /\ n \in Issued /\ m \in Issued /\ n # None /\ m # None
        /\ n \in Stored /\ m \in Stored /\ rows[m] \in Row
        /\ UNCHANGED <<lines, partners, export>> /\ cancel' = NoCancel
    BY IssuedStored, RowFacts DEF CloseOriginal, ExportInv, TypeInv, CancelAtIssued,
       evaluations
  <1>2. /\ rows[n].of = m /\ rows[m].by = None
        /\ rows[m].of = None => Agree(n)
    BY <1>1 DEF CloseOriginal, ExportInv, BooksInv, CancelAgrees
  <1>3. /\ \A k \in Numbers \ {m} : rows'[k] = rows[k]
        /\ rows'[m].of = rows[m].of /\ rows'[m].by = n
        /\ rows'[m].partner = rows[m].partner /\ rows'[m].altered = rows[m].altered
        /\ rows'[m].total = rows[m].total /\ rows'[m].status = "CANCELLED"
    BY <1>1 DEF CloseOriginal, ExportInv, TypeInv, TypeOK, Row, Stored
  <1>4. m \in Issued' /\ m \in Stored'
    BY <1>1, IssuedStored DEF TypeStays, Issued
  <1>5. Stored' = Stored /\ Issued' = Issued
    BY <1>1, <1>3, <1>4 DEF Stored, Issued
  <1>6. \A k \in Stored : /\ rows'[k].of = rows[k].of
                          /\ rows'[k].partner = rows[k].partner
                          /\ rows'[k].total = rows[k].total
                          /\ rows'[k].altered = rows[k].altered
                          /\ k # m => rows'[k].by = rows[k].by
    BY <1>3 DEF Stored
  <1>7. \A k \in Stored : rows[k].of # None => rows[k].of \in Stored
    BY IssuedStored DEF ExportInv, BooksInv, References
  <1>8. \A k \in Stored : Agree(k)' <=> Agree(k)
    BY <1>1, <1>6, <1>7 DEF Agree, Altered
  <1>9. \A k \in Stored : Through(k)' <=> Through(k) \/ (k = n /\ rows[m].of = None)
    <2>1. ASSUME NEW k \in Stored
          PROVE  Through(k)' <=> Through(k) \/ (k = n /\ rows[m].of = None)
      <3>1. CASE rows[k].of = None
        BY <1>6, <3>1 DEF Through
      <3>2. CASE rows[k].of = m
        <4>1. k # None /\ rows'[k].of = m /\ rows'[m].by = n /\ rows'[m].of = rows[m].of
          BY <1>3, <1>6, <3>2, NoneIsNothing DEF Stored, Numbers
        <4>2. Through(k)' <=> n = k /\ rows[m].of = None
          BY <1>1, <4>1 DEF Through
        <4>3. ~Through(k)
          BY <1>1, <1>2, <3>2, <4>1 DEF Through
        <4>. QED  BY <4>2, <4>3
      <3>3. CASE rows[k].of # None /\ rows[k].of # m
        BY <1>2, <1>6, <1>7, <3>3 DEF Through
      <3>. QED  BY <3>1, <3>2, <3>3
    <2>. QED  BY <2>1
  <1>10. AllAgree'
    BY <1>1, <1>2, <1>5, <1>8, <1>9 DEF ExportInv, BooksInv, AllAgree
  <1>11. References'
    BY <1>1, <1>3, <1>5, <1>6 DEF ExportInv, BooksInv, References, Stored
  <1>12. CancelAgrees' /\ PartnersThere'
    BY <1>1, <1>5, <1>6 DEF ExportInv, BooksInv, CancelAgrees, PartnersThere, NoCancel
  <1>13. \A k \in Issued : Better(k) /\ k \in Issued'
    BY <1>1, <1>5, <1>6, IssuedStored DEF Better
  <1>14. \A k \in Complete : k \in Complete'
    <2>1. \A k \in Numbers : k \in Complete <=> k \in Issued /\ Through(k)
      BY DEF Complete, Through, Issued, Stored
    <2>2. \A k \in Numbers : k \in Complete' <=> k \in Issued' /\ Through(k)'
      BY DEF Complete, Through, Issued, Stored
    <2>3. Complete \subseteq Numbers
      BY DEF Complete, Issued, Stored
    <2>. QED  BY <1>5, <1>9, <2>1, <2>2, <2>3, IssuedStored
  <1>. QED  BY <1>1, <1>10, <1>11, <1>12, <1>13, <1>14, ExportKept
            DEF TypeStays, BooksInv

\* Steps that leave the rows and lines alone, and the export too.
LEMMA ExportElsewhere ==
    ASSUME ExportInv, TypeStays, UNCHANGED <<rows, lines, export>>,
           \/ cancel' = cancel
           \/ /\ ~cancel'.inserted
              /\ cancel'.of # None => rows[cancel'.of].by = None,
           PartnersThere'
    PROVE  ExportInv'
  <1>1. Stored' = Stored /\ Issued' = Issued /\ Complete' = Complete
    BY DEF Stored, Issued, Complete
  <1>2. AllAgree' /\ References'
    BY <1>1 DEF ExportInv, BooksInv, AllAgree, References, Through, Agree, Altered
  <1>3. CancelAgrees'
    BY DEF ExportInv, BooksInv, CancelAgrees, Agree, Altered
  <1>4. \A k \in Issued : Better(k) /\ k \in Issued'
    BY <1>1, IssuedStored DEF Better
  <1>. QED  BY <1>1, <1>2, <1>3, <1>4, ExportKept DEF TypeStays, BooksInv

\* Steps of the export itself.
LEMMA ExportQuery ==
    ASSUME ExportInv, TypeStays, ReadInvoices \/ ReadLines \/ ReadPartners
    PROVE  ExportInv'
  <1>1. UNCHANGED <<rows, lines, partners, cancel>>
    BY DEF ReadInvoices, ReadLines, ReadPartners, register, jobs
  <1>2. Stored' = Stored /\ Issued' = Issued /\ Complete' = Complete
        /\ \A n : Altered(n)' <=> Altered(n)
    BY <1>1 DEF Stored, Issued, Complete, Altered
  <1>3. BooksInv'
    BY <1>1, <1>2 DEF ExportInv, BooksInv, AllAgree, References, CancelAgrees,
       PartnersThere, Through, Agree
  <1>4. CASE ReadInvoices
    <2>. DEFINE found == {n \in Stored : InPeriod(n)}
    <2>1. export' = [pc |-> "lines", rows |-> InvoiceTable(found),
                     complete |-> found \cap Complete, lines |-> <<>>, partners |-> {}]
      BY <1>4 DEF ReadInvoices, NoExport
    <2>2. /\ DOMAIN export'.rows = found /\ export'.complete = found \cap Complete
          /\ export'.pc = "lines" /\ \A n \in found : export'.rows[n] = rows[n]
      BY <2>1 DEF InvoiceTable
    <2>3. ExportReads'
      BY <1>1, <1>2, <2>2 DEF ExportReads, Issued
    <2>. QED  BY <1>3, <2>3 DEF ExportInv, TypeStays
  <1>5. CASE ReadLines
    <2>1. /\ export'.rows = export.rows /\ export'.complete = export.complete
          /\ export'.pc = "partners" /\ export'.lines = LineTable(DOMAIN export.rows)
          /\ export.pc = "lines"
      BY <1>5 DEF ReadLines, ExportInv, TypeInv, Shapes
    <2>2. \A n \in DOMAIN export.rows : export'.lines[n] = lines[n]
      BY <2>1 DEF LineTable
    <2>3. ExportReads'
      BY <1>1, <1>2, <2>1, <2>2 DEF ExportInv, ExportReads
    <2>. QED  BY <1>3, <2>3 DEF ExportInv, TypeStays
  <1>6. CASE ReadPartners
    <2>1. /\ export'.rows = export.rows /\ export'.complete = export.complete
          /\ export'.pc = "done" /\ export'.lines = export.lines
          /\ export'.partners = PartnerTable(export.rows)
          /\ export.pc = "partners"
      BY <1>6 DEF ReadPartners, ExportInv, TypeInv, Shapes
    <2>2. ASSUME NEW n \in DOMAIN export.rows, export.rows[n].status # "DRAFT"
          PROVE  export.rows[n].partner \in export'.partners
      <3>1. n \in Issued /\ export.rows[n].partner = rows[n].partner
        BY <2>1, <2>2 DEF ExportInv, ExportReads
      <3>2. rows[n].partner \in partners
        BY <3>1, IssuedStored DEF ExportInv, BooksInv, PartnersThere
      <3>. QED  BY <2>1, <2>2, <3>1, <3>2 DEF PartnerTable
    <2>3. ExportReads'
      BY <1>1, <1>2, <2>1, <2>2 DEF ExportInv, ExportReads
    <2>. QED  BY <1>3, <2>3 DEF ExportInv, TypeStays
  <1>. QED  BY <1>4, <1>5, <1>6

LEMMA ExportStep == ExportInv /\ [Next]_vars => ExportInv'
  <1>. SUFFICES ASSUME ExportInv, [Next]_vars PROVE ExportInv'
    OBVIOUS
  <1>. TypeStays
    BY TypeStep DEF ExportInv
  <1>1. CASE \/ ReadMax \/ SetSequence \/ DayPasses
             \/ \E c \in Clients : Post(c) \/ (Insert(c) /\ rows' = rows)
             \/ ListLocked \/ Verify \/ Conclude \/ UNCHANGED vars
    <2>1. UNCHANGED <<rows, lines, partners, cancel, export>>
      BY <1>1 DEF ReadMax, SetSequence, DayPasses, Post, Insert, ListLocked, Verify,
                  Conclude, vars, register, jobs, evaluations
    <2>2. PartnersThere'
      BY <2>1 DEF ExportInv, BooksInv, PartnersThere, Stored
    <2>. QED  BY <2>1, <2>2, ExportElsewhere
  <1>2. CASE Die \/ (InsertStorno /\ rows' = rows) \/ \E n \in Numbers : BeginCancel(n)
    <2>1. UNCHANGED <<rows, lines, partners, export>>
      BY <1>2 DEF Die, InsertStorno, BeginCancel, register, evaluations
    <2>2. PartnersThere'
      BY <2>1 DEF ExportInv, BooksInv, PartnersThere, Stored
    <2>3. CASE Die
      BY <2>1, <2>2, <2>3, ExportElsewhere DEF Die, NoCancel
    <2>4. CASE InsertStorno /\ rows' = rows
      <3>1. CASE cancel' = NoCancel
        BY <2>1, <2>2, <3>1, ExportElsewhere DEF NoCancel
      <3>2. CASE cancel.cn \notin Stored /\ rows' = [rows EXCEPT ![cancel.cn] = Storno(cancel.of)]
        <4>1. cancel.cn \in Numbers /\ cancel.of \in Stored
          BY <2>4, IssuedStored DEF InsertStorno, ExportInv, TypeInv, TypeOK, CancelAtIssued
        <4>2. Storno(cancel.of) \in Row /\ rows \in [Numbers -> Row \cup {None}]
          BY <4>1, StornoType DEF ExportInv, TypeInv, TypeOK
        <4>. QED  BY <2>4, <3>2, <4>1, <4>2 DEF Stored
      <3>. QED  BY <2>4, <3>1, <3>2 DEF InsertStorno
    <2>5. ASSUME NEW n \in Numbers, BeginCancel(n) PROVE ExportInv'
      <3>1. /\ n \in Issued /\ rows[n].status = "SENT"
            /\ cancel'.of = n /\ ~cancel'.inserted
        BY <2>5 DEF BeginCancel, NoCancel
      <3>2. rows[n].by = None
        BY <3>1, IssuedStored DEF ExportInv, BooksInv, References
      <3>. QED  BY <2>1, <2>2, <3>1, <3>2, ExportElsewhere
    <2>. QED  BY <1>2, <2>3, <2>4, <2>5
  <1>3. ASSUME NEW p \in Partners, DeletePartner(p) PROVE ExportInv'
    <2>1. UNCHANGED <<rows, lines, cancel, export>>
      BY <1>3 DEF DeletePartner, jobs, evaluations
    <2>2. PartnersThere'
      BY <1>3, <2>1 DEF DeletePartner, Deletable, ExportInv, BooksInv, PartnersThere, Stored
    <2>. QED  BY <2>1, <2>2, ExportElsewhere
  <1>4. CASE \/ \E n \in Numbers : Delete(n)
             \/ \E c \in Clients : Insert(c) /\ rows' # rows
    BY <1>4, ExportComesAndGoes
  <1>5. CASE \E n \in Numbers : ChangeLines(n) \/ ChangePartner(n) \/ MarkAsSent(n)
                                \/ Archive(n) \/ Alter(n)
    BY <1>5, ExportChanges
  <1>6. CASE (InsertStorno /\ rows' # rows) \/ CopyLine \/ CloseOriginal
    BY <1>6, ExportInsertStorno, ExportCopyLine, ExportCloseOriginal
  <1>7. CASE ReadInvoices \/ ReadLines \/ ReadPartners
    BY <1>7, ExportQuery
  <1>. QED  BY <1>1, <1>2, <1>3, <1>4, <1>5, <1>6, <1>7 DEF Next

LEMMA ExportInit == Init => ExportInv
  <1>1. Init => Stored = {}
    BY DEF Init, Stored
  <1>2. Init => BooksInv /\ ExportReads
    BY <1>1 DEF Init, BooksInv, AllAgree, References, CancelAgrees, PartnersThere,
       NoCancel, NoExport, ExportReads
  <1>. QED  BY <1>2, TypeInit DEF ExportInv

\* The three tables of an export fit together as far as invoices are issued,
\* although each is read by a query of its own while others cancel, delete and
\* archive (gdpdu_export_service.py:135-147).
THEOREM ExportFitsTogether == Spec => []ExportWhole
  <1>1. ExportInv => ExportWhole
    <2>. SUFFICES ASSUME ExportInv, export.pc = "done" PROVE ExportWhole
      BY DEF ExportWhole
    <2>1. ASSUME NEW n \in export.complete, ~Altered(n)
          PROVE  export.lines[n] = export.rows[n].total
      <3>1. /\ n \in Complete /\ export.rows[n].total = rows[n].total
            /\ export.lines[n] = lines[n]
        BY <2>1 DEF ExportInv, ExportReads
      <3>2. n \in Stored /\ Through(n)
        BY <3>1, IssuedStored DEF Complete, Through
      <3>3. Agree(n)
        BY <3>2 DEF ExportInv, BooksInv, AllAgree
      <3>. QED  BY <2>1, <3>1, <3>3 DEF Agree
    <2>2. \A n \in DOMAIN export.rows :
            export.rows[n].status # "DRAFT" => export.rows[n].partner \in export.partners
      BY DEF ExportInv, ExportReads
    <2>. QED  BY <2>1, <2>2 DEF ExportWhole
  <1>. QED  BY <1>1, ExportInit, ExportStep, PTL DEF Spec
=============================================================================
