----------------------- MODULE InvoiceLifecycleProofs -----------------------
(***************************************************************************)
(* Proofs about InvoiceLifecycle, for any number of workers, invoices,     *)
(* amounts and header versions, all endpoints, with crashes.  The theorems *)
(* on issued invoices in the second half (from OneAtATime on) have         *)
(* premises, stated with them: without these the lost update of PATCH, or  *)
(* the line endpoints that ignore the lock, refute what they say.          *)
(***************************************************************************)
EXTENDS InvoiceLifecycle, TLAPS

USE BoundsAssumption

-----------------------------------------------------------------------------
(* Type correctness.                                                       *)

LEMMA OneIsId == 1 \in Ids
  BY DEF Ids

\* Reversing amounts stays within the signed amounts.
LEMMA NegType == ASSUME NEW s \in SUBSET Lines PROVE Neg(s) \in SUBSET Lines
<1>1. \A x \in Lines : -x \in Lines
  <2> TAKE x \in Lines
  <2>1. CASE x \in Amounts
    BY <2>1 DEF Lines
  <2>2. CASE \E a \in Amounts : x = -a
    <3> PICK a \in Amounts : x = -a  BY <2>2
    <3> a \in Int  BY AmountsAssumption
    <3> -x = a  OBVIOUS
    <3> QED  BY DEF Lines
  <2> QED  BY <2>1, <2>2 DEF Lines
<1> QED  BY <1>1 DEF Neg

LEMMA BlankRowType == BlankRow \in Row
  BY HeadsAssumption DEF BlankRow, Row, Statuses, AnyHead

LEMMA LockType == ASSUME NEW m \in Row PROVE Lock(m) \in Row
  BY DEF Lock, Row

LEMMA IdleType == Idle \in Task
  BY BlankRowType, OneIsId DEF Idle, Task, PCs

LEMMA StornoType ==
    ASSUME NEW i \in Ids, NEW m \in Row PROVE Storno(i, m) \in Row
<1>1. Neg(m.total) \in SUBSET Lines
  BY NegType DEF Row
<1>2. [BlankRow EXCEPT !.status = "SENT", !.head = m.head,
                       !.total = Neg(m.total), !.stornoOf = i] \in Row
  BY <1>1, BlankRowType DEF Row, Statuses
<1> QED  BY <1>2, LockType DEF Storno

LEMMA ContentType ==
    ASSUME NEW h \in Heads, NEW t \in SUBSET Lines, NEW l \in SUBSET Lines
    PROVE  [head |-> h, total |-> t, lines |-> l] \in Content
  BY DEF Content

\* While cancel() works on a credit note, it knows which one: without this
\* the types of `lines' are not preserved by CopyLine.
CnPCs   == {"cn_seal", "cn_lines", "cn_copy", "cn_total"}
CnKnown == \A w \in Workers : task[w].pc \in CnPCs => task[w].cn \in Ids

DataOK == /\ stored \subseteq Ids
          /\ rows \in [Ids -> Row]
          /\ lines \in [Ids -> SUBSET Lines]
          /\ nextId \in 1 .. MaxId + 1
          /\ retained \in BOOLEAN
TaskOK == task \in [Workers -> Task] /\ CnKnown

TypeInv == DataOK /\ TaskOK

\* The facts about a worker's task and about a row that the steps below use.
LEMMA TaskFacts ==
    ASSUME TaskOK, NEW w \in Workers
    PROVE  /\ task[w] \in Task
           /\ task[w].pc \in PCs
           /\ task[w].id \in Ids
           /\ task[w].mem \in Row
           /\ task[w].cn \in Ids \cup {None}
           /\ task[w].todo \in SUBSET Lines
           /\ task[w].agg \in SUBSET Lines
           /\ task[w].pc \in CnPCs => task[w].cn \in Ids
  BY DEF TaskOK, CnKnown, Task

LEMMA RowFacts ==
    ASSUME NEW m \in Row
    PROVE  /\ m.status \in Statuses /\ m.locked \in BOOLEAN
           /\ m.hash \in Content \cup {None} /\ m.head \in Heads
           /\ m.total \in SUBSET Lines /\ m.cancelledBy \in Ids \cup {None}
           /\ m.stornoOf \in Ids \cup {None} /\ m.archived \in BOOLEAN
  BY DEF Row

\* A step that replaces one worker's task by a well-formed one.
LEMMA TaskStep ==
    ASSUME TaskOK, NEW w \in Workers, NEW t \in Task,
           t.pc \in CnPCs => t.cn \in Ids,
           task' = [task EXCEPT ![w] = t]
    PROVE  TaskOK'
<1>1. task' \in [Workers -> Task]
  BY DEF TaskOK
<1>2. ASSUME NEW v \in Workers, task'[v].pc \in CnPCs
      PROVE  task'[v].cn \in Ids
  BY <1>2 DEF TaskOK, CnKnown
<1> QED  BY <1>1, <1>2 DEF TaskOK, CnKnown

LEMMA BeginType ==
    ASSUME TaskOK, NEW w \in Workers, NEW i \in Ids, NEW m \in Row,
           NEW pc \in PCs \ CnPCs, Begin(w, i, m, pc)
    PROVE  TaskOK'
<1> DEFINE t == [Idle EXCEPT !.id = i, !.mem = m, !.pc = pc]
<1>1. t \in Task /\ t.pc \notin CnPCs
  BY IdleType DEF Task
<1> QED  BY <1>1, TaskStep DEF Begin

LEMMA FinishType ==
    ASSUME TaskOK, NEW w \in Workers, Finish(w) PROVE TaskOK'
<1>1. Idle.pc \notin CnPCs
  BY DEF Idle, CnPCs
<1> QED  BY <1>1, IdleType, TaskStep DEF Finish

LEMMA GotoType ==
    ASSUME TaskOK, NEW w \in Workers, NEW pc \in PCs,
           pc \in CnPCs => task[w].cn \in Ids, Goto(w, pc)
    PROVE  TaskOK'
<1> DEFINE t == [task[w] EXCEPT !.pc = pc]
<1>1. t \in Task /\ t.pc = pc /\ t.cn = task[w].cn
  BY TaskFacts DEF Task
<1>2. task' = [task EXCEPT ![w] = t]
  BY DEF Goto, TaskOK
<1> HIDE DEF t
<1> QED  BY <1>1, <1>2, TaskStep

LEMMA CloseType ==
    ASSUME TaskOK, NEW w \in Workers, CloseOriginal(w, task[w])
    PROVE  TaskOK'
<1> DEFINE m == [task[w].mem EXCEPT !.status = "CANCELLED",
                                    !.cancelledBy = task[w].cn]
           t == [task[w] EXCEPT !.pc = "write", !.todo = {}, !.agg = {},
                                !.mem = Lock(m)]
<1>1. m \in Row
  BY TaskFacts DEF Row, Statuses
<1>2. Lock(m) \in Row
  BY <1>1, LockType
<1>3. task' = [task EXCEPT ![w] = t]
  BY DEF CloseOriginal
<1> HIDE DEF m
<1>4. t \in Task /\ t.pc \notin CnPCs
  BY <1>2, TaskFacts DEF Task, PCs, CnPCs
<1> HIDE DEF t
<1> QED  BY <1>3, <1>4, TaskStep

LEMMA SetTotalType ==
    ASSUME rows \in [Ids -> Row], NEW i \in Ids, NEW t \in SUBSET Lines,
           SetTotal(i, t)
    PROVE  rows' \in [Ids -> Row]
  BY DEF SetTotal, Row

LEMMA SettledType ==
    ASSUME NEW s \in Statuses, NEW h \in Heads, NEW ls \in SUBSET Lines
    PROVE  Settled(s, h, ls) \in Row
<1> DEFINE hash == IF s \in LockStatuses
                    THEN [head |-> h, total |-> ls, lines |-> ls] ELSE None
           locked == s \in LockStatuses
<1>1. hash \in Content \cup {None}
  BY ContentType
<1>2. locked \in BOOLEAN
  OBVIOUS
<1>3. Settled(s, h, ls) = [BlankRow EXCEPT !.status = s, !.head = h,
                             !.total = ls, !.locked = locked, !.hash = hash]
  BY DEF Settled
<1> HIDE DEF hash, locked
<1> QED  BY <1>1, <1>2, <1>3, BlankRowType DEF Row

LEMMA InitType == Init => TypeInv
<1> SUFFICES ASSUME Init PROVE TypeInv
  OBVIOUS
<1>1. task \in [Workers -> Task] /\ CnKnown
  BY IdleType DEF Init, Idle, CnKnown, CnPCs
<1>2. stored \subseteq Ids /\ rows \in [Ids -> Row]
      /\ lines \in [Ids -> SUBSET Lines] /\ nextId \in 1 .. MaxId + 1
  <2>1. CASE /\ stored = {}
             /\ nextId = 1
             /\ rows = [i \in Ids |-> BlankRow]
             /\ lines = [i \in Ids |-> {}]
    BY <2>1, BlankRowType DEF Ids
  <2>2. CASE \E s \in InitStatuses, ls \in SUBSET Amounts :
               /\ stored = {1}
               /\ nextId = 2
               /\ rows = [i \in Ids |-> IF i = 1 THEN Settled(s, AnyHead, ls)
                                                 ELSE BlankRow]
               /\ lines = [i \in Ids |-> IF i = 1 THEN ls ELSE {}]
    <3> PICK s \in InitStatuses, ls \in SUBSET Amounts :
               /\ stored = {1}
               /\ nextId = 2
               /\ rows = [i \in Ids |-> IF i = 1 THEN Settled(s, AnyHead, ls)
                                                 ELSE BlankRow]
               /\ lines = [i \in Ids |-> IF i = 1 THEN ls ELSE {}]
      BY <2>2
    <3>1. AnyHead \in Heads /\ s \in Statuses /\ ls \in SUBSET Lines
      BY HeadsAssumption, StatusAssumption DEF AnyHead, Statuses, Lines
    <3>2. Settled(s, AnyHead, ls) \in Row
      BY <3>1, SettledType
    <3> QED  BY <3>1, <3>2, BlankRowType, OneIsId DEF Ids
  <2> QED  BY <2>1, <2>2 DEF Init
<1> QED  BY <1>1, <1>2 DEF Init, TypeInv, DataOK, TaskOK

\* Every request of a client keeps the types.
LEMMA RequestType ==
    ASSUME TypeInv, NEW w \in Workers, Request(w)
    PROVE  TypeInv'
<1> USE DEF TypeInv, Call
<1>1. \A i \in stored : i \in Ids /\ rows[i] \in Row /\ lines[i] \in SUBSET Lines
  BY DEF DataOK
<1>2. CASE Create(w)
  <2> PICK s \in NewStatuses, h \in Heads :
        LET m == Lock([BlankRow EXCEPT !.status = s, !.head = h]) IN
        /\ rows' = [rows EXCEPT ![nextId] = m]
        /\ IF NeedsSeal(m) THEN Begin(w, nextId, m, "seal")
                           ELSE UNCHANGED task
    BY <1>2 DEF Create
  <2> DEFINE m == Lock([BlankRow EXCEPT !.status = s, !.head = h])
  <2>1. s \in Statuses
    BY StatusAssumption
  <2>2. [BlankRow EXCEPT !.status = s, !.head = h] \in Row
    BY <2>1, BlankRowType DEF Row
  <2>3. m \in Row
    BY <2>2, LockType
  <2>4. nextId \in Ids
    BY <1>2 DEF Create
  <2> HIDE DEF m
  <2>5. DataOK'
    <3>1. rows' = [rows EXCEPT ![nextId] = m]
      BY DEF m
    <3> QED  BY <1>2, <2>3, <2>4, <3>1 DEF Create, DataOK, Ids
  <2>6. TaskOK'
    <3>1. CASE NeedsSeal(m)
      BY <2>3, <2>4, <3>1, BeginType DEF m, PCs, CnPCs
    <3>2. CASE ~NeedsSeal(m)
      BY <3>2 DEF m, TaskOK, CnKnown
    <3> QED  BY <3>1, <3>2
  <2> QED  BY <2>5, <2>6
<1>3. ASSUME NEW i \in stored, Patch(w, i) PROVE TypeInv'
  <2> PICK s \in PatchStatuses \cup {rows[i].status}, h \in Heads :
        Begin(w, i, [rows[i] EXCEPT !.status = s, !.head = h], "check")
    BY <1>3 DEF Patch
  <2>1. s \in Statuses
    BY <1>1, RowFacts, StatusAssumption
  <2>2. [rows[i] EXCEPT !.status = s, !.head = h] \in Row
    BY <1>1, <2>1 DEF Row
  <2>3. TaskOK'
    BY <1>1, <2>2, BeginType DEF PCs, CnPCs
  <2> QED  BY <1>3, <2>3 DEF Patch, db, DataOK
<1>4. ASSUME NEW i \in stored, MarkAsSent(w, i) PROVE TypeInv'
  <2>1. [rows[i] EXCEPT !.status = "SENT"] \in Row
    BY <1>1 DEF Row, Statuses
  <2>2. TaskOK'
    BY <1>1, <1>4, <2>1, BeginType DEF MarkAsSent, PCs, CnPCs
  <2> QED  BY <1>4, <2>2 DEF MarkAsSent, db, DataOK
<1>5. ASSUME NEW i \in stored, MarkAsPaid(w, i) PROVE TypeInv'
  <2>1. [rows[i] EXCEPT !.status = "PAID"] \in Row
    BY <1>1 DEF Row, Statuses
  <2>2. TaskOK'
    BY <1>1, <1>5, <2>1, BeginType DEF MarkAsPaid, PCs, CnPCs
  <2> QED  BY <1>5, <2>2 DEF MarkAsPaid, db, DataOK
<1>6. ASSUME NEW i \in stored, GenerateFiles(w, i) PROVE TypeInv'
  <2>1. TaskOK'
    BY <1>1, <1>6, BeginType DEF GenerateFiles, PCs, CnPCs
  <2> QED  BY <1>6, <2>1 DEF GenerateFiles, db, DataOK
<1>7. ASSUME NEW i \in stored, Destroy(w, i) PROVE TypeInv'
  <2>1. [rows[i] EXCEPT !.archived = TRUE] \in Row
    BY <1>1 DEF Row
  <2>2. Lock([rows[i] EXCEPT !.archived = TRUE]) \in Row
    BY <2>1, LockType
  <2>3. \/ Begin(w, i, rows[i], "delete")
        \/ Begin(w, i, Lock([rows[i] EXCEPT !.archived = TRUE]), "write")
    BY <1>7 DEF Destroy
  <2>4. TaskOK'
    BY <1>1, <2>2, <2>3, BeginType DEF PCs, CnPCs
  <2> QED  BY <1>7, <2>4 DEF Destroy, db, DataOK
<1>8. ASSUME NEW i \in stored, Cancel(w, i) PROVE TypeInv'
  <2>1. TaskOK'
    BY <1>1, <1>8, BeginType DEF Cancel, PCs, CnPCs
  <2> QED  BY <1>8, <2>1 DEF Cancel, db, DataOK
<1>9. ASSUME NEW i \in stored, SaveLine(w, i) PROVE TypeInv'
  <2> PICK a \in Amounts \ lines[i], replaced \in SUBSET lines[i] :
         /\ lines' = [lines EXCEPT ![i] = (lines[i] \ replaced) \cup {a}]
         /\ task' = [task EXCEPT ![w] =
                       [Idle EXCEPT !.id = i, !.pc = "total",
                                    !.agg = (lines[i] \ replaced) \cup {a}]]
    BY <1>9 DEF SaveLine
  <2> DEFINE ls == (lines[i] \ replaced) \cup {a}
             t  == [Idle EXCEPT !.id = i, !.pc = "total", !.agg = ls]
  <2>1. ls \in SUBSET Lines
    BY <1>1 DEF Lines
  <2>2. lines' = [lines EXCEPT ![i] = ls] /\ task' = [task EXCEPT ![w] = t]
    OBVIOUS
  <2> HIDE DEF ls
  <2>3. t \in Task /\ t.pc \notin CnPCs
    BY <1>1, <2>1, IdleType DEF Task, PCs, CnPCs
  <2> HIDE DEF t
  <2>4. TaskOK'
    BY <2>2, <2>3, TaskStep
  <2> QED  BY <1>1, <1>9, <2>1, <2>2, <2>4 DEF SaveLine, DataOK
<1>10. ASSUME NEW i \in stored, DeleteLine(w, i) PROVE TypeInv'
  <2> PICK x \in lines[i] : lines' = [lines EXCEPT ![i] = @ \ {x}]
    BY <1>10 DEF DeleteLine
  <2>1. lines' \in [Ids -> SUBSET Lines]
    BY DEF DataOK
  <2> QED  BY <1>10, <2>1 DEF DeleteLine, DataOK, TaskOK, CnKnown
<1> QED
  BY <1>2, <1>3, <1>4, <1>5, <1>6, <1>7, <1>8, <1>9, <1>10 DEF Request

\* Every statement of a running request keeps the types.
LEMMA StatementType ==
    ASSUME TypeInv, NEW w \in Workers, Statement(w)
    PROVE  TypeInv'
<1> USE DEF TypeInv
<1> DEFINE t == task[w]
<1>1. /\ t \in Task /\ t.pc \in PCs /\ t.id \in Ids /\ t.mem \in Row
      /\ t.cn \in Ids \cup {None} /\ t.todo \in SUBSET Lines
      /\ t.agg \in SUBSET Lines
      /\ t.pc \in CnPCs => t.cn \in Ids
  BY TaskFacts
<1> HIDE DEF t
<1>2. CASE CheckLock(w)
  <2>1. CASE Refused(t.id, t.mem)
    BY <1>2, <2>1, FinishType DEF CheckLock, t, db, DataOK
  <2>2. CASE ~Refused(t.id, t.mem)
    <3> DEFINE u == [t EXCEPT !.pc = "write", !.mem = Lock(t.mem)]
    <3>1. Lock(t.mem) \in Row
      BY <1>1, LockType
    <3>2. u \in Task /\ u.pc \notin CnPCs
      BY <1>1, <3>1 DEF Task, PCs, CnPCs
    <3>3. task' = [task EXCEPT ![w] = u]
      BY <1>2, <2>2 DEF CheckLock, t, TaskOK, Task
    <3> HIDE DEF u
    <3>4. TaskOK'
      BY <3>2, <3>3, TaskStep
    <3> QED  BY <1>2, <3>4 DEF CheckLock, db, DataOK
  <2> QED  BY <2>1, <2>2
<1>3. CASE WriteRow(w)
  <2>1. DataOK'
    BY <1>1, <1>3 DEF WriteRow, t, DataOK
  <2>2. TaskOK'
    BY <1>3, FinishType, GotoType DEF WriteRow, PCs, CnPCs
  <2> QED  BY <2>1, <2>2
<1>4. CASE Seal(w)
  <2> DEFINE c == [head |-> t.mem.head, total |-> t.mem.total,
                   lines |-> lines[t.id]]
  <2>1. c \in Content
    BY <1>1, RowFacts, ContentType DEF DataOK
  <2>2. rows' = IF t.id \in stored THEN [rows EXCEPT ![t.id].hash = c]
                                   ELSE rows
    BY <1>4 DEF Seal, t
  <2> HIDE DEF c
  <2>3. rows' \in [Ids -> Row]
    BY <1>1, <2>1, <2>2 DEF DataOK, Row
  <2> QED  BY <1>4, <2>3, FinishType DEF Seal, DataOK
<1>5. CASE HardDelete(w)
  <2>1. \A j \in Ids : [rows[j] EXCEPT !.cancelledBy = None] \in Row
    BY DEF DataOK, Row
  <2>2. rows' \in [Ids -> Row]
    BY <1>5, <2>1, BlankRowType DEF HardDelete, DataOK
  <2>3. lines' \in [Ids -> SUBSET Lines]
    BY <1>5 DEF HardDelete, DataOK
  <2> QED  BY <1>5, <2>2, <2>3, FinishType DEF HardDelete, DataOK
<1>6. CASE InsertStorno(w)
  <2> DEFINE u == [t EXCEPT !.pc = "cn_seal", !.cn = nextId]
             m == Storno(t.id, t.mem)
  <2>1. nextId \in Ids
    BY <1>6 DEF InsertStorno
  <2>2. m \in Row
    BY <1>1, StornoType
  <2>3. u \in Task /\ u.cn \in Ids
    BY <1>1, <2>1 DEF Task, PCs
  <2>4. task' = [task EXCEPT ![w] = u] /\ rows' = [rows EXCEPT ![nextId] = m]
    BY <1>6 DEF InsertStorno, t, TaskOK, Task
  <2> HIDE DEF u, m
  <2>5. TaskOK'
    BY <2>3, <2>4, TaskStep
  <2> QED  BY <1>6, <2>1, <2>2, <2>4, <2>5 DEF InsertStorno, DataOK, Ids
<1>7. CASE SealStorno(w)
  <2> DEFINE m == Storno(t.id, t.mem)
             c == [head |-> m.head, total |-> m.total, lines |-> lines[t.cn]]
  <2>1. t.cn \in Ids
    BY <1>1, <1>7 DEF SealStorno, t, CnPCs
  <2>2. m \in Row
    BY <1>1, StornoType
  <2>3. c \in Content
    <3> HIDE DEF m
    <3> QED  BY <2>1, <2>2, RowFacts, ContentType DEF DataOK
  <2>4. rows' = IF t.cn \in stored THEN [rows EXCEPT ![t.cn].hash = c]
                                   ELSE rows
    BY <1>7 DEF SealStorno, t
  <2> HIDE DEF c
  <2>5. rows' \in [Ids -> Row]
    BY <2>1, <2>3, <2>4 DEF DataOK, Row
  <2>6. TaskOK'
    BY <1>7, <2>1, GotoType DEF SealStorno, t, PCs
  <2> QED  BY <1>7, <2>5, <2>6 DEF SealStorno, DataOK
<1>8. CASE ReadLines(w)
  <2>1. t.cn \in Ids
    BY <1>1, <1>8 DEF ReadLines, t, CnPCs
  <2>2. CASE lines[t.id] = {}
    BY <1>8, <2>2, CloseType DEF ReadLines, t, db, DataOK
  <2>3. CASE lines[t.id] # {}
    <3> DEFINE u == [t EXCEPT !.pc = "cn_copy", !.todo = lines[t.id]]
    <3>1. u \in Task /\ u.cn \in Ids
      BY <1>1, <2>1 DEF Task, PCs, DataOK
    <3>2. task' = [task EXCEPT ![w] = u]
      BY <1>8, <2>3 DEF ReadLines, t, TaskOK, Task
    <3> HIDE DEF u
    <3>3. TaskOK'
      BY <3>1, <3>2, TaskStep
    <3> QED  BY <1>8, <3>3 DEF ReadLines, db, DataOK
  <2> QED  BY <2>2, <2>3
<1>9. CASE CopyLine(w)
  <2>1. t.cn \in Ids
    BY <1>1, <1>9 DEF CopyLine, t, CnPCs
  <2> PICK x \in t.todo :
         LET ls == lines[t.cn] \cup {-x} IN
         /\ lines' = [lines EXCEPT ![t.cn] = ls]
         /\ task' = [task EXCEPT ![w].pc = "cn_total", ![w].agg = ls,
                                 ![w].todo = t.todo \ {x}]
    BY <1>9 DEF CopyLine, t
  <2> DEFINE ls == lines[t.cn] \cup {-x}
             u  == [t EXCEPT !.pc = "cn_total", !.agg = ls,
                             !.todo = t.todo \ {x}]
  <2>2. Neg({x}) = {-x} /\ {x} \in SUBSET Lines
    BY <1>1 DEF Neg
  <2>3. ls \in SUBSET Lines
    BY <2>1, <2>2, NegType DEF DataOK
  <2>4. lines' = [lines EXCEPT ![t.cn] = ls]
    OBVIOUS
  <2>5. task' = [task EXCEPT ![w] = u]
    BY DEF t, TaskOK, Task
  <2> HIDE DEF ls
  <2>6. u \in Task /\ u.cn \in Ids
    BY <1>1, <2>1, <2>3 DEF Task, PCs
  <2> HIDE DEF u
  <2>7. TaskOK'
    BY <2>5, <2>6, TaskStep
  <2> QED  BY <1>9, <2>1, <2>3, <2>4, <2>7 DEF CopyLine, DataOK
<1>10. CASE TotalStorno(w)
  <2>1. t.cn \in Ids
    BY <1>1, <1>10 DEF TotalStorno, t, CnPCs
  <2>2. rows' \in [Ids -> Row]
    BY <1>1, <1>10, <2>1, SetTotalType DEF TotalStorno, t, DataOK
  <2>3. TaskOK'
    BY <1>10, <2>1, CloseType, GotoType DEF TotalStorno, AfterCopy, t, PCs
  <2> QED  BY <1>10, <2>2, <2>3 DEF TotalStorno, DataOK
<1>11. CASE UpdateTotals(w)
  <2>1. rows' \in [Ids -> Row]
    BY <1>1, <1>11, SetTotalType DEF UpdateTotals, t, DataOK
  <2> QED  BY <1>11, <2>1, FinishType DEF UpdateTotals, DataOK
<1> QED
  BY <1>2, <1>3, <1>4, <1>5, <1>6, <1>7, <1>8, <1>9, <1>10, <1>11 DEF Statement

LEMMA TypeStep == TypeInv /\ [Next]_vars => TypeInv'
<1> SUFFICES ASSUME TypeInv, [Next]_vars PROVE TypeInv'
  OBVIOUS
<1>1. ASSUME NEW w \in Workers, Request(w) PROVE TypeInv'
  BY <1>1, RequestType
<1>2. ASSUME NEW w \in Workers, Statement(w) PROVE TypeInv'
  BY <1>2, StatementType
<1>3. ASSUME NEW w \in Workers, Crash(w) PROVE TypeInv'
  BY <1>3, FinishType DEF Crash, TypeInv, db, DataOK
<1>4. CASE RetentionEnds
  BY <1>4 DEF RetentionEnds, TypeInv, db, DataOK, TaskOK, CnKnown
<1>5. CASE UNCHANGED vars
  BY <1>5 DEF vars, TypeInv, DataOK, TaskOK, CnKnown
<1> QED  BY <1>1, <1>2, <1>3, <1>4, <1>5 DEF Next

LEMMA TypeInvariant == Spec => []TypeInv
  BY InitType, TypeStep, PTL DEF Spec

\* Every row, line and running request stays well formed, with any number of
\* workers, invoices and amounts.
THEOREM TypeCorrect == Spec => []TypeOK
<1>1. TypeInv => TypeOK
  BY DEF TypeInv, DataOK, TaskOK, TypeOK
<1> QED  BY <1>1, TypeInvariant, PTL

-----------------------------------------------------------------------------
(* Locks and credit notes.                                                 *)

\* A task with one of these carries an instance of the invoice it works on.
LoadedPCs == CnPCs \cup {"check", "write", "seal", "delete", "cn_insert"}

\* What follows is stated of any set S of stored keys, invoice table R and
\* next key n, so that it can be used before a step and after it.

\* Credit note c was made by cancel() for invoice i.
Link(i, c, S, R) == c \in S /\ R[c].stornoOf = i

\* Rows: keys are handed out once, issued invoices and credit notes are
\* locked, references lead to the credit note of the invoice.
RowGood(i, S, R, n) ==
    /\ i < n
    /\ R[i].status \in LockStatuses => R[i].locked
    /\ R[i].stornoOf # None => R[i].locked
    /\ R[i].cancelledBy # None => Link(i, R[i].cancelledBy, S, R)

\* An instance of a stored credit note agrees with the row in all that
\* StornoFrozen protects, from the lock check on, and is not being deleted.
Agrees(t, R) ==
    /\ t.mem.stornoOf = R[t.id].stornoOf
    /\ t.mem.locked
    /\ t.pc # "delete"
    /\ t.pc # "check" => t.mem.head = R[t.id].head

\* Tasks: what the instance in memory would make of the table is good, too.
TaskGood(t, S, R, n) ==
    t.pc \in LoadedPCs =>
        /\ t.id < n
        /\ t.pc # "check" /\ t.mem.status \in LockStatuses => t.mem.locked
        /\ t.mem.stornoOf # None
             => t.mem.locked /\ Link(t.mem.stornoOf, t.id, S, R)
        /\ t.id \in S /\ R[t.id].stornoOf # None => Agrees(t, R)
        /\ t.mem.cancelledBy # None => Link(t.id, t.mem.cancelledBy, S, R)
        /\ t.pc \in CnPCs => Link(t.id, t.cn, S, R)

RowsGood  == \A i \in stored : RowGood(i, stored, rows, nextId)
TasksGood == \A w \in Workers : TaskGood(task[w], stored, rows, nextId)

LockInv == TypeInv /\ RowsGood /\ TasksGood

\* What every step does to the table: credit notes are frozen, and a new one
\* takes a key never used before.
DbStep(S, R, n, S2, R2, n2) ==
    /\ n <= n2
    /\ \A c \in S : R[c].stornoOf # None
          => c \in S2 /\ R2[c].stornoOf = R[c].stornoOf /\ R2[c].head = R[c].head
    /\ \A c \in S2 : R2[c].stornoOf # None
          => (c \in S /\ R[c].stornoOf # None) \/ n <= c

LEMMA DbSame == ASSUME NEW S, NEW R, NEW n \in Nat PROVE DbStep(S, R, n, S, R, n)
  BY DEF DbStep

\* A link survives every such step.
LEMMA LinkStable ==
    ASSUME NEW S, NEW R, NEW n, NEW S2, NEW R2, NEW n2,
           DbStep(S, R, n, S2, R2, n2),
           NEW i, i # None, NEW c, Link(i, c, S, R)
    PROVE  Link(i, c, S2, R2)
  BY DEF DbStep, Link

\* So does a task that does not move.
LEMMA TaskStable ==
    ASSUME NEW S \in SUBSET Ids, NEW R, NEW n \in Nat,
           NEW S2 \in SUBSET Ids, NEW R2, NEW n2 \in Nat,
           DbStep(S, R, n, S2, R2, n2),
           NEW t \in Task, TaskGood(t, S, R, n)
    PROVE  TaskGood(t, S2, R2, n2)
<1> SUFFICES ASSUME t.pc \in LoadedPCs
             PROVE  TaskGood(t, S2, R2, n2)
  BY DEF TaskGood
<1>1. t.id \in Ids /\ t.id \in Nat /\ t.id # None
  BY NoneAssumption DEF Task, Ids
<1>2. t.id < n2
  BY <1>1 DEF TaskGood, DbStep
<1>3. t.mem.stornoOf # None
        => t.mem.locked /\ Link(t.mem.stornoOf, t.id, S2, R2)
  BY LinkStable DEF TaskGood
<1>4. ASSUME t.id \in S2, R2[t.id].stornoOf # None PROVE Agrees(t, R2)
  <2>1. t.id \in S /\ R[t.id].stornoOf # None
    BY <1>1, <1>4 DEF DbStep, TaskGood
  <2> QED  BY <2>1 DEF TaskGood, DbStep, Agrees
<1>5. t.mem.cancelledBy # None => Link(t.id, t.mem.cancelledBy, S2, R2)
  BY <1>1, LinkStable DEF TaskGood
<1>6. t.pc \in CnPCs => Link(t.id, t.cn, S2, R2)
  BY <1>1, LinkStable DEF TaskGood
<1> QED  BY <1>2, <1>3, <1>4, <1>5, <1>6 DEF TaskGood

\* The invariant is preserved by a step of worker w that keeps the types,
\* leaves good rows and a good task, and changes the table as allowed.
LEMMA StepGood ==
    ASSUME LockInv, TypeInv', NEW w \in Workers, NEW t,
           task' = [task EXCEPT ![w] = t],
           TaskGood(t, stored', rows', nextId'),
           RowsGood', DbStep(stored, rows, nextId, stored', rows', nextId')
    PROVE  LockInv'
<1>1. ASSUME NEW v \in Workers
      PROVE  TaskGood(task'[v], stored', rows', nextId')
  <2>1. CASE v = w
    BY <2>1 DEF LockInv, TypeInv, TaskOK
  <2>2. CASE v # w
    <3>1. task'[v] = task[v] /\ task[v] \in Task
      BY <2>2 DEF LockInv, TypeInv, TaskOK
    <3>2. TaskGood(task[v], stored, rows, nextId)
      BY DEF LockInv, TasksGood
    <3>3. /\ stored \in SUBSET Ids /\ nextId \in Nat
          /\ stored' \in SUBSET Ids /\ nextId' \in Nat
      BY DEF LockInv, TypeInv, DataOK
    <3> QED  BY <3>1, <3>2, <3>3, TaskStable
  <2> QED  BY <2>1, <2>2
<1> QED  BY <1>1 DEF LockInv, TasksGood

LEMMA IdleGood == ASSUME NEW S, NEW R, NEW n PROVE TaskGood(Idle, S, R, n)
  BY DEF TaskGood, Idle, LoadedPCs, CnPCs

\* A request that loads invoice i and leaves what StornoFrozen protects.
LEMMA LoadGood ==
    ASSUME LockInv, NEW i \in stored, NEW m \in Row, NEW pc \in LoadedPCs \ CnPCs,
           m.stornoOf = rows[i].stornoOf, m.cancelledBy = rows[i].cancelledBy,
           rows[i].locked => m.locked,
           pc # "check" => /\ m.head = rows[i].head
                           /\ m.status \in LockStatuses => m.locked,
           pc = "delete" => ~m.locked
    PROVE  TaskGood([Idle EXCEPT !.id = i, !.mem = m, !.pc = pc],
                    stored, rows, nextId)
<1> DEFINE t == [Idle EXCEPT !.id = i, !.mem = m, !.pc = pc]
<1>1. t.id = i /\ t.mem = m /\ t.pc = pc
  BY DEF Idle
<1>2. RowGood(i, stored, rows, nextId)
  BY DEF LockInv, RowsGood
<1> HIDE DEF t
<1> QED  BY <1>1, <1>2 DEF TaskGood, RowGood, Agrees, Link, t

\* The part of the state that LockInv and DbStep speak of.
Step == DbStep(stored, rows, nextId, stored', rows', nextId')

\* A step that leaves the table alone.
LEMMA ReadStep ==
    ASSUME LockInv, TypeInv', NEW w \in Workers, NEW t,
           task' = [task EXCEPT ![w] = t],
           TaskGood(t, stored, rows, nextId),
           stored' = stored, rows' = rows, nextId' = nextId
    PROVE  LockInv' /\ Step
<1>1. Step
  BY DbSame DEF Step, LockInv, TypeInv, DataOK
<1>2. RowsGood'
  BY DEF LockInv, RowsGood
<1> QED  BY <1>1, <1>2, StepGood DEF Step

LEMMA FinishRead ==
    ASSUME LockInv, TypeInv', NEW w \in Workers, Finish(w),
           stored' = stored, rows' = rows, nextId' = nextId
    PROVE  LockInv' /\ Step
  BY IdleGood, ReadStep DEF Finish

\* A new row under the next key.
LEMMA InsertStep ==
    ASSUME LockInv, TypeInv', NEW w \in Workers, NEW t, NEW m \in Row,
           task' = [task EXCEPT ![w] = t],
           nextId \in Ids, nextId' = nextId + 1,
           stored' = stored \cup {nextId},
           rows' = [rows EXCEPT ![nextId] = m],
           m.status \in LockStatuses => m.locked,
           m.stornoOf # None => m.locked,
           m.cancelledBy = None,
           TaskGood(t, stored', rows', nextId')
    PROVE  LockInv' /\ Step
<1>1. stored \subseteq Ids /\ rows \in [Ids -> Row] /\ nextId \in Nat
  BY DEF LockInv, TypeInv, DataOK
<1>2. \A i \in stored : i \in Nat /\ i < nextId /\ rows'[i] = rows[i]
  BY <1>1 DEF LockInv, RowsGood, RowGood, Ids
<1>3. rows'[nextId] = m
  BY <1>1
<1>4. Step
  BY <1>1, <1>2, <1>3 DEF Step, DbStep
<1>5. RowsGood'
  <2> SUFFICES ASSUME NEW i \in stored' PROVE RowGood(i, stored', rows', nextId')
    BY DEF RowsGood
  <2>1. CASE i = nextId
    BY <1>1, <1>3, <2>1 DEF RowGood
  <2>2. CASE i \in stored
    <3>1. RowGood(i, stored, rows, nextId)
      BY <2>2 DEF LockInv, RowsGood
    <3>2. i # None
      BY <1>1, <2>2, NoneAssumption
    <3> QED
      BY <1>1, <1>2, <1>4, <2>2, <3>1, <3>2, LinkStable DEF RowGood, Step
  <2> QED  BY <2>1, <2>2
<1> QED  BY <1>4, <1>5, StepGood DEF Step

LEMMA RequestLocks ==
    ASSUME LockInv, TypeInv', NEW w \in Workers, Request(w)
    PROVE  LockInv' /\ Step
<1> USE DEF LoadedPCs, CnPCs, LockStatuses
<1>0. /\ \A i \in stored : i \in Ids /\ rows[i] \in Row
      /\ \A i \in stored : RowGood(i, stored, rows, nextId)
  BY DEF LockInv, TypeInv, DataOK, RowsGood
<1>1. CASE Create(w)
  <2> PICK s \in NewStatuses, h \in Heads :
        LET m == Lock([BlankRow EXCEPT !.status = s, !.head = h]) IN
        /\ rows' = [rows EXCEPT ![nextId] = m]
        /\ IF NeedsSeal(m) THEN Begin(w, nextId, m, "seal")
                           ELSE UNCHANGED task
    BY <1>1 DEF Create
  <2> DEFINE b == [BlankRow EXCEPT !.status = s, !.head = h]
             m == Lock(b)
             t == [Idle EXCEPT !.id = nextId, !.mem = m, !.pc = "seal"]
  <2>1. s \in Statuses /\ nextId \in Ids /\ nextId \in Nat
    BY <1>1, StatusAssumption DEF Create, Ids
  <2>2. b \in Row /\ b.stornoOf = None /\ b.cancelledBy = None
    BY <2>1, BlankRowType DEF Row, BlankRow
  <2> HIDE DEF b
  <2>3. /\ m \in Row /\ m.stornoOf = None /\ m.cancelledBy = None
        /\ m.status \in LockStatuses => m.locked
    BY <2>2, LockType DEF Lock, Row
  <2>4. rows' = [rows EXCEPT ![nextId] = m]
    BY DEF b
  <2> HIDE DEF m
  <2>5. CASE task' = [task EXCEPT ![w] = t]
    <3>1. t.pc = "seal" /\ t.id = nextId /\ t.mem = m
      BY DEF Idle
    <3>2. rows'[nextId] = m
      BY <2>1, <2>4 DEF LockInv, TypeInv, DataOK
    <3> HIDE DEF t
    <3>3. nextId' = nextId + 1
      BY <1>1 DEF Create
    <3>4. TaskGood(t, stored', rows', nextId')
      BY <2>1, <2>3, <3>1, <3>2, <3>3 DEF TaskGood
    <3> QED  BY <1>1, <2>1, <2>3, <2>4, <2>5, <3>4, InsertStep DEF Create
  <2>6. CASE UNCHANGED task
    <3>1. task' = [task EXCEPT ![w] = task[w]] /\ task[w] \in Task
      BY <2>6 DEF LockInv, TypeInv, TaskOK
    <3>2. DbStep(stored, rows, nextId, stored', rows', nextId')
      BY <1>0, <1>1, <2>1, <2>3, <2>4
      DEF DbStep, Create, LockInv, TypeInv, DataOK, RowGood, Ids
    <3>3. TaskGood(task[w], stored', rows', nextId')
      <4>1. /\ stored \in SUBSET Ids /\ nextId \in Nat
            /\ stored' \in SUBSET Ids /\ nextId' \in Nat
        BY DEF LockInv, TypeInv, DataOK
      <4>2. TaskGood(task[w], stored, rows, nextId)
        BY DEF LockInv, TasksGood
      <4> QED  BY <3>1, <3>2, <4>1, <4>2, TaskStable
    <3> QED  BY <1>1, <2>1, <2>3, <2>4, <3>1, <3>3, InsertStep DEF Create
  <2> QED  BY <2>4, <2>5, <2>6 DEF Begin, m, b
<1>2. ASSUME NEW i \in stored, Patch(w, i) PROVE LockInv' /\ Step
  <2> PICK s \in PatchStatuses \cup {rows[i].status}, h \in Heads :
        Begin(w, i, [rows[i] EXCEPT !.status = s, !.head = h], "check")
    BY <1>2 DEF Patch
  <2> DEFINE m == [rows[i] EXCEPT !.status = s, !.head = h]
  <2>1. s \in Statuses
    BY <1>0, RowFacts, StatusAssumption
  <2>2. /\ m \in Row /\ m.stornoOf = rows[i].stornoOf
        /\ m.cancelledBy = rows[i].cancelledBy /\ m.locked = rows[i].locked
    BY <1>0, <2>1 DEF Row
  <2> HIDE DEF m
  <2>3. TaskGood([Idle EXCEPT !.id = i, !.mem = m, !.pc = "check"],
                 stored, rows, nextId)
    BY <2>2, LoadGood
  <2> QED  BY <1>2, <2>3, ReadStep DEF Patch, Begin, db, m
<1>3. ASSUME NEW i \in stored, NEW s \in {"SENT", "PAID"}, UNCHANGED db,
             Begin(w, i, [rows[i] EXCEPT !.status = s], "check")
      PROVE  LockInv' /\ Step
  <2> DEFINE m == [rows[i] EXCEPT !.status = s]
  <2>1. /\ m \in Row /\ m.stornoOf = rows[i].stornoOf
        /\ m.cancelledBy = rows[i].cancelledBy /\ m.locked = rows[i].locked
    BY <1>0 DEF Row, Statuses
  <2> HIDE DEF m
  <2>2. TaskGood([Idle EXCEPT !.id = i, !.mem = m, !.pc = "check"],
                 stored, rows, nextId)
    BY <2>1, LoadGood
  <2> QED  BY <1>3, <2>2, ReadStep DEF Begin, db, m
<1>4. ASSUME NEW i \in stored, UNCHANGED db,
             NEW pc \in {"check", "cn_insert", "delete"}, Begin(w, i, rows[i], pc),
             pc = "delete" => ~rows[i].locked
      PROVE  LockInv' /\ Step
  <2>1. TaskGood([Idle EXCEPT !.id = i, !.mem = rows[i], !.pc = pc],
                 stored, rows, nextId)
    BY <1>0, <1>4, LoadGood DEF RowGood
  <2> QED  BY <1>4, <2>1, ReadStep DEF Begin, db
<1>5. ASSUME NEW i \in stored, Destroy(w, i) PROVE LockInv' /\ Step
  <2> DEFINE m == Lock([rows[i] EXCEPT !.archived = TRUE])
  <2>1. CASE Begin(w, i, rows[i], "delete") /\ Deletable(rows[i])
    BY <1>4, <1>5, <2>1 DEF Destroy, Deletable
  <2>2. CASE Begin(w, i, m, "write")
    <3>1. [rows[i] EXCEPT !.archived = TRUE] \in Row
      BY <1>0 DEF Row
    <3>2. /\ m \in Row /\ m.stornoOf = rows[i].stornoOf
          /\ m.cancelledBy = rows[i].cancelledBy
          /\ rows[i].locked => m.locked /\ m.head = rows[i].head
          /\ m.head = rows[i].head
          /\ m.status \in LockStatuses => m.locked
      BY <1>0, <3>1, LockType, ZenonT(60) DEF Row, Lock
    <3> HIDE DEF m
    <3>3. TaskGood([Idle EXCEPT !.id = i, !.mem = m, !.pc = "write"],
                   stored, rows, nextId)
      BY <3>2, LoadGood
    <3> QED  BY <1>5, <2>2, <3>3, ReadStep DEF Destroy, Begin, db
  <2> QED  BY <1>5, <2>1, <2>2 DEF Destroy
<1>6. ASSUME NEW i \in stored, SaveLine(w, i) PROVE LockInv' /\ Step
  <2> PICK ls : task' = [task EXCEPT ![w] =
                  [Idle EXCEPT !.id = i, !.pc = "total", !.agg = ls]]
    BY <1>6 DEF SaveLine
  <2>1. TaskGood([Idle EXCEPT !.id = i, !.pc = "total", !.agg = ls],
                 stored, rows, nextId)
    BY DEF TaskGood, Idle
  <2> QED  BY <1>6, <2>1, ReadStep DEF SaveLine
<1>7. ASSUME NEW i \in stored, DeleteLine(w, i) PROVE LockInv' /\ Step
  <2>1. task' = [task EXCEPT ![w] = task[w]]
    BY <1>7 DEF DeleteLine, LockInv, TypeInv, TaskOK
  <2> QED  BY <1>7, <2>1, ReadStep DEF DeleteLine, LockInv, TasksGood
<1> QED
  <2>1. ASSUME NEW i \in stored, MarkAsSent(w, i) \/ MarkAsPaid(w, i)
        PROVE  LockInv' /\ Step
    BY <1>3, <2>1 DEF MarkAsSent, MarkAsPaid
  <2>2. ASSUME NEW i \in stored, GenerateFiles(w, i) \/ Cancel(w, i)
        PROVE  LockInv' /\ Step
    BY <1>4, <2>2 DEF GenerateFiles, Cancel
  <2> QED
    BY <1>1, <1>2, <1>5, <1>6, <1>7, <2>1, <2>2 DEF Request

\* A step that writes row i, stored before, and leaves stornoOf, status, lock
\* and references of all rows alone: a hash or a sum.
LEMMA ColumnStep ==
    ASSUME LockInv, TypeInv', NEW w \in Workers, NEW t,
           task' = [task EXCEPT ![w] = t],
           TaskGood(t, stored, rows, nextId), t \in Task,
           stored' = stored, nextId' = nextId,
           \A c \in Ids : /\ rows'[c].stornoOf = rows[c].stornoOf
                          /\ rows'[c].head = rows[c].head
                          /\ rows'[c].status = rows[c].status
                          /\ rows'[c].locked = rows[c].locked
                          /\ rows'[c].cancelledBy = rows[c].cancelledBy
    PROVE  LockInv' /\ Step
<1>1. stored \in SUBSET Ids /\ nextId \in Nat
  BY DEF LockInv, TypeInv, DataOK
<1>2. Step
  BY <1>1 DEF Step, DbStep
<1>3. TaskGood(t, stored', rows', nextId')
  BY <1>1, <1>2, TaskStable DEF Step
<1>4. RowsGood'
  BY <1>1 DEF LockInv, RowsGood, RowGood, Link
<1> QED  BY <1>2, <1>3, <1>4, StepGood DEF Step

LEMMA IdleIsGood == Idle \in Task /\ TaskGood(Idle, stored, rows, nextId)
  BY IdleType, IdleGood

LEMMA TypesHere ==
    ASSUME LockInv
    PROVE  /\ stored \in SUBSET Ids /\ nextId \in Nat /\ rows \in [Ids -> Row]
           /\ \A i \in Ids : i \in Nat /\ i # None
           /\ \A i \in stored : RowGood(i, stored, rows, nextId)
           /\ \A w \in Workers : /\ task[w] \in Task
                                 /\ TaskGood(task[w], stored, rows, nextId)
  BY NoneAssumption
  DEF LockInv, TypeInv, DataOK, TaskOK, RowsGood, TasksGood, Ids

\* A task that goes on with the same instance.
LEMMA Onward ==
    ASSUME NEW S, NEW R, NEW n, NEW t \in Task, NEW u \in Task,
           TaskGood(t, S, R, n), t.pc \in LoadedPCs \ {"check"},
           u.id = t.id, u.mem = t.mem, u.pc # "delete",
           u.pc \in CnPCs => Link(t.id, u.cn, S, R)
    PROVE  TaskGood(u, S, R, n)
  BY DEF TaskGood, Agrees, LoadedPCs, CnPCs

\* cancel() goes on with its credit note.
LEMMA CnOnward ==
    ASSUME NEW S, NEW R, NEW n, NEW t \in Task, NEW u \in Task,
           TaskGood(t, S, R, n), t.pc \in CnPCs,
           u.id = t.id, u.mem = t.mem, u.cn = t.cn, u.pc \in CnPCs
    PROVE  TaskGood(u, S, R, n)
<1>1. Link(t.id, t.cn, S, R)
  BY DEF TaskGood, LoadedPCs
<1> QED  BY <1>1, Onward DEF LoadedPCs, CnPCs

\* cancel() turns to the original.
LEMMA CloseGood ==
    ASSUME LockInv, NEW w \in Workers, task[w].pc \in CnPCs,
           CloseOriginal(w, task[w])
    PROVE  \E t \in Task : /\ task' = [task EXCEPT ![w] = t]
                           /\ TaskGood(t, stored, rows, nextId)
<1> DEFINE o == task[w]
           b == [o.mem EXCEPT !.status = "CANCELLED", !.cancelledBy = o.cn]
           m == Lock(b)
           t == [o EXCEPT !.pc = "write", !.todo = {}, !.agg = {}, !.mem = m]
<1>1. /\ o \in Task /\ o.mem \in Row /\ o.cn \in Ids /\ o.id \in Ids
      /\ TaskGood(o, stored, rows, nextId) /\ o.pc \in CnPCs
  BY TypesHere, TaskFacts DEF LockInv, TypeInv
<1>2. task' = [task EXCEPT ![w] = t]
  BY DEF CloseOriginal
<1> HIDE DEF o
<1>3. /\ b \in Row /\ b.stornoOf = o.mem.stornoOf /\ b.head = o.mem.head
      /\ b.cancelledBy = o.cn /\ b.status = "CANCELLED"
  BY <1>1 DEF Row, Statuses
<1> HIDE DEF b
<1>4. /\ m \in Row /\ m.stornoOf = o.mem.stornoOf /\ m.head = o.mem.head
      /\ m.cancelledBy = o.cn /\ m.locked
  BY <1>3, LockType DEF Lock, Row, LockStatuses
<1> HIDE DEF m
<1>5. t \in Task /\ t.pc = "write" /\ t.mem = m /\ t.id = o.id
  BY <1>1, <1>4 DEF Task, PCs
<1> HIDE DEF t
<1>6. TaskGood(t, stored, rows, nextId)
  BY <1>1, <1>4, <1>5 DEF TaskGood, LoadedPCs, CnPCs, Agrees, Link
<1> QED  BY <1>2, <1>5, <1>6

LEMMA CloseReads ==
    ASSUME LockInv, TypeInv', NEW w \in Workers, task[w].pc \in CnPCs,
           CloseOriginal(w, task[w]),
           stored' = stored, rows' = rows, nextId' = nextId
    PROVE  LockInv' /\ Step
  BY CloseGood, ReadStep

\* The whole row is written back, by whatever instance the request holds.
LEMMA WriteLocks ==
    ASSUME LockInv, TypeInv', NEW w \in Workers, WriteRow(w)
    PROVE  LockInv' /\ Step
<1> DEFINE t == task[w]
<1>1. /\ t \in Task /\ t.id \in Ids /\ t.mem \in Row /\ t.pc = "write"
      /\ t.id \in Nat /\ t.id # None
      /\ TaskGood(t, stored, rows, nextId)
  BY TypesHere, TaskFacts DEF LockInv, TypeInv, WriteRow
<1>2. /\ rows' = [rows EXCEPT ![t.id] = t.mem] /\ stored' = stored \cup {t.id}
      /\ nextId' = nextId
      /\ IF NeedsSeal(t.mem) THEN Goto(w, "seal") ELSE Finish(w)
  BY DEF WriteRow
<1>3. /\ t.id < nextId
      /\ t.mem.status \in LockStatuses => t.mem.locked
      /\ t.mem.stornoOf # None
             => t.mem.locked /\ Link(t.mem.stornoOf, t.id, stored, rows)
      /\ t.id \in stored /\ rows[t.id].stornoOf # None => Agrees(t, rows)
      /\ t.mem.cancelledBy # None
             => Link(t.id, t.mem.cancelledBy, stored, rows)
  BY <1>1 DEF TaskGood, LoadedPCs
<1> HIDE DEF t
<1>4. /\ rows'[t.id] = t.mem
      /\ \A c \in Ids : c # t.id => rows'[c] = rows[c]
  BY <1>1, <1>2, TypesHere
<1>5. Step
  BY <1>1, <1>2, <1>3, <1>4, TypesHere DEF Step, DbStep, Agrees, Link
<1>6. RowsGood'
  <2> SUFFICES ASSUME NEW i \in stored' PROVE RowGood(i, stored', rows', nextId')
    BY DEF RowsGood
  <2>1. CASE i = t.id
    BY <1>1, <1>2, <1>3, <1>4, <1>5, <2>1, LinkStable DEF RowGood, Step
  <2>2. CASE i # t.id
    <3>1. /\ i \in stored /\ i # None /\ rows'[i] = rows[i]
          /\ RowGood(i, stored, rows, nextId)
      BY <1>2, <1>4, <2>2, TypesHere
    <3> QED  BY <1>2, <1>5, <3>1, LinkStable DEF RowGood, Step
  <2> QED  BY <2>1, <2>2
<1>7. CASE Finish(w)
  BY <1>5, <1>6, <1>7, IdleGood, StepGood DEF Finish, Step
<1>8. CASE Goto(w, "seal")
  <2> DEFINE u == [t EXCEPT !.pc = "seal"]
  <2>1. u \in Task /\ u.id = t.id /\ u.mem = t.mem /\ u.pc = "seal"
    BY <1>1 DEF Task, PCs
  <2>2. task' = [task EXCEPT ![w] = u]
    BY <1>8 DEF Goto, t, LockInv, TypeInv, TaskOK
  <2> HIDE DEF u
  <2>3. TaskGood(u, stored, rows, nextId)
    BY <1>1, <2>1, Onward DEF LoadedPCs, CnPCs
  <2>4. TaskGood(u, stored', rows', nextId')
    <3>1. stored' \in SUBSET Ids /\ nextId' \in Nat
      BY DEF TypeInv, DataOK
    <3> QED  BY <1>5, <2>1, <2>3, <3>1, TypesHere, TaskStable DEF Step
  <2> QED  BY <1>5, <1>6, <2>2, <2>4, StepGood DEF Step
<1> QED  BY <1>2, <1>7, <1>8

\* A draft disappears; references to it are set to NULL.
LEMMA DeleteLocks ==
    ASSUME LockInv, TypeInv', NEW w \in Workers, HardDelete(w)
    PROVE  LockInv' /\ Step
<1> DEFINE i == task[w].id
<1>1. i \in Ids /\ (i \in stored => rows[i].stornoOf = None)
  BY TypesHere, TaskFacts
  DEF LockInv, TypeInv, HardDelete, TaskGood, LoadedPCs, Agrees
<1>2. /\ stored' = stored \ {i} /\ nextId' = nextId
      /\ \A j \in Ids : j # i =>
           rows'[j] = IF rows[j].cancelledBy = i
                        THEN [rows[j] EXCEPT !.cancelledBy = None] ELSE rows[j]
  BY DEF HardDelete
<1> HIDE DEF i
<1>3. \A j \in stored' :
        /\ j \in stored /\ j # None
        /\ rows'[j].stornoOf = rows[j].stornoOf /\ rows'[j].head = rows[j].head
        /\ rows'[j].status = rows[j].status /\ rows'[j].locked = rows[j].locked
        /\ rows'[j].cancelledBy # None
             => rows'[j].cancelledBy = rows[j].cancelledBy
        /\ RowGood(j, stored, rows, nextId)
  <2> SUFFICES ASSUME NEW j \in stored'
               PROVE  /\ j \in stored /\ j # None
                      /\ rows'[j].stornoOf = rows[j].stornoOf
                      /\ rows'[j].head = rows[j].head
                      /\ rows'[j].status = rows[j].status
                      /\ rows'[j].locked = rows[j].locked
                      /\ rows'[j].cancelledBy # None
                           => rows'[j].cancelledBy = rows[j].cancelledBy
                      /\ RowGood(j, stored, rows, nextId)
    OBVIOUS
  <2>1. j \in stored /\ j # i /\ j \in Ids
    BY <1>2, TypesHere
  <2>2. rows[j] \in Row
    BY <2>1, TypesHere
  <2>3. CASE rows[j].cancelledBy = i
    <3>1. rows'[j] = [rows[j] EXCEPT !.cancelledBy = None]
      BY <1>2, <2>1, <2>3
    <3> QED  BY <2>1, <2>2, <3>1, TypesHere DEF Row
  <2>4. CASE rows[j].cancelledBy # i
    <3>1. rows'[j] = rows[j]
      BY <1>2, <2>1, <2>4
    <3> QED  BY <2>1, <3>1, TypesHere
  <2> QED  BY <2>3, <2>4
<1>4. Step
  BY <1>1, <1>2, <1>3, TypesHere DEF Step, DbStep
<1>5. RowsGood'
  BY <1>2, <1>3, <1>4, LinkStable DEF RowsGood, RowGood, Step
<1> QED  BY <1>4, <1>5, IdleGood, StepGood DEF HardDelete, Finish, Step

\* A hash or a sum goes to one row.
Untouched(R, R2) ==
    \A c \in Ids : /\ R2[c].stornoOf = R[c].stornoOf
                   /\ R2[c].head = R[c].head
                   /\ R2[c].status = R[c].status
                   /\ R2[c].locked = R[c].locked
                   /\ R2[c].cancelledBy = R[c].cancelledBy

LEMMA HashUntouched ==
    ASSUME rows \in [Ids -> Row], NEW i, NEW h,
           rows' = IF i \in stored THEN [rows EXCEPT ![i].hash = h] ELSE rows
    PROVE  Untouched(rows, rows')
  BY DEF Untouched, Row

LEMMA TotalUntouched ==
    ASSUME rows \in [Ids -> Row], NEW i, NEW s, SetTotal(i, s)
    PROVE  Untouched(rows, rows')
  BY DEF Untouched, Row, SetTotal

LEMMA GotoTask ==
    ASSUME LockInv, NEW w \in Workers, NEW pc \in PCs, Goto(w, pc)
    PROVE  /\ task' = [task EXCEPT ![w] = [task[w] EXCEPT !.pc = pc]]
           /\ [task[w] EXCEPT !.pc = pc] \in Task
  BY TypesHere DEF Goto, LockInv, TypeInv, TaskOK, Task

LEMMA StatementLocks ==
    ASSUME LockInv, TypeInv', NEW w \in Workers, Statement(w)
    PROVE  LockInv' /\ Step
<1> DEFINE t == task[w]
<1>1. /\ t \in Task /\ t.id \in Ids /\ t.mem \in Row
      /\ t.pc \in CnPCs => t.cn \in Ids
      /\ TaskGood(t, stored, rows, nextId)
  BY TypesHere, TaskFacts DEF LockInv, TypeInv
<1> HIDE DEF t
<1>2. CASE CheckLock(w)
  <2>1. CASE Refused(t.id, t.mem)
    BY <1>2, <2>1, FinishRead DEF CheckLock, t, db
  <2>2. CASE ~Refused(t.id, t.mem)
    <3> DEFINE m == Lock(t.mem)
               u == [t EXCEPT !.pc = "write", !.mem = m]
    <3>1. /\ m \in Row /\ m.stornoOf = t.mem.stornoOf /\ m.head = t.mem.head
          /\ m.cancelledBy = t.mem.cancelledBy
          /\ t.mem.locked => m.locked
          /\ m.status \in LockStatuses => m.locked
      BY <1>1, LockType DEF Lock, Row
    <3>2. task' = [task EXCEPT ![w] = u]
      BY <1>2, <2>2 DEF CheckLock, t, LockInv, TypeInv, TaskOK, Task
    <3>3. t.id \in stored /\ rows[t.id].stornoOf # None /\ t.mem.locked
            => t.mem.head = rows[t.id].head
      BY <2>2, TypesHere DEF Refused, Protected, RowGood
    <3> HIDE DEF m
    <3>4. u.pc = "write" /\ u.mem = m /\ u.id = t.id
      BY <1>1 DEF Task
    <3> HIDE DEF u
    <3>5. t.pc = "check"
      BY <1>2 DEF CheckLock, t
    <3>6. TaskGood(u, stored, rows, nextId)
      BY <1>1, <3>1, <3>3, <3>4, <3>5
      DEF TaskGood, LoadedPCs, CnPCs, Agrees
    <3> QED  BY <1>2, <3>2, <3>6, ReadStep DEF CheckLock, db
  <2> QED  BY <2>1, <2>2
<1>3. CASE Seal(w)
  BY <1>3, HashUntouched, TypesHere, IdleIsGood, ColumnStep
  DEF Seal, Finish, Untouched
<1>4. CASE InsertStorno(w)
  <2> DEFINE m == Storno(t.id, t.mem)
             u == [t EXCEPT !.pc = "cn_seal", !.cn = nextId]
  <2>1. /\ nextId \in Ids /\ nextId \in Nat /\ t.pc = "cn_insert"
        /\ nextId' = nextId + 1 /\ stored' = stored \cup {nextId}
        /\ rows' = [rows EXCEPT ![nextId] = m]
    BY <1>4, TypesHere DEF InsertStorno, t
  <2>2. task' = [task EXCEPT ![w] = u]
    BY <1>4 DEF InsertStorno, t, LockInv, TypeInv, TaskOK, Task
  <2>3. /\ m \in Row /\ m.locked /\ m.stornoOf = t.id /\ m.cancelledBy = None
    <3> DEFINE b == [BlankRow EXCEPT !.status = "SENT", !.head = t.mem.head,
                         !.total = Neg(t.mem.total), !.stornoOf = t.id]
    <3>1. b \in [status : Statuses, locked : BOOLEAN,
                 hash : Content \cup {None}, head : Heads,
                 total : {Neg(t.mem.total)}, cancelledBy : Ids \cup {None},
                 stornoOf : Ids \cup {None}, archived : BOOLEAN]
      BY <1>1, BlankRowType DEF Row, Statuses
    <3>2. b.status = "SENT" /\ b.stornoOf = t.id /\ b.cancelledBy = None
      BY DEF BlankRow
    <3> HIDE DEF b
    <3> QED  BY <1>1, <3>1, <3>2, StornoType DEF Storno, Lock, LockStatuses, b
  <2> HIDE DEF m
  <2>4. u \in Task /\ u.pc = "cn_seal" /\ u.id = t.id /\ u.mem = t.mem
        /\ u.cn = nextId
    BY <1>1, <2>1 DEF Task, PCs
  <2> HIDE DEF u
  <2>5. rows'[nextId] = m /\ \A c \in stored : rows'[c] = rows[c] /\ c < nextId
    BY <2>1, TypesHere DEF RowGood
  <2>6. DbStep(stored, rows, nextId, stored', rows', nextId')
    BY <2>1, <2>5 DEF DbStep
  <2>7. TaskGood(t, stored', rows', nextId')
    <3>1. stored' \in SUBSET Ids /\ nextId' \in Nat
      BY DEF TypeInv, DataOK
    <3> QED  BY <1>1, <2>6, <3>1, TypesHere, TaskStable
  <2>8. Link(t.id, nextId, stored', rows')
    BY <2>1, <2>3, <2>5 DEF Link
  <2>9. TaskGood(u, stored', rows', nextId')
    BY <1>1, <2>1, <2>4, <2>7, <2>8, Onward DEF LoadedPCs, CnPCs
  <2> QED  BY <2>1, <2>2, <2>3, <2>9, InsertStep
<1>5. CASE SealStorno(w)
  <2> DEFINE u == [t EXCEPT !.pc = "cn_lines"]
  <2>1. Untouched(rows, rows') /\ t.pc = "cn_seal"
    BY <1>5, HashUntouched, TypesHere DEF SealStorno, t
  <2>2. task' = [task EXCEPT ![w] = u] /\ u \in Task
    BY <1>5, GotoTask DEF SealStorno, t, PCs
  <2>3. u.pc = "cn_lines" /\ u.id = t.id /\ u.mem = t.mem /\ u.cn = t.cn
    BY <1>1 DEF Task
  <2> HIDE DEF u
  <2>4. TaskGood(u, stored, rows, nextId)
    BY <1>1, <2>1, <2>2, <2>3, CnOnward DEF CnPCs
  <2> QED  BY <1>5, <2>1, <2>2, <2>4, ColumnStep DEF SealStorno, Untouched
<1>6. CASE ReadLines(w)
  <2>1. CASE lines[t.id] = {}
    BY <1>6, <2>1, CloseReads DEF ReadLines, t, db, CnPCs
  <2>2. CASE lines[t.id] # {}
    <3> DEFINE u == [t EXCEPT !.pc = "cn_copy", !.todo = lines[t.id]]
    <3>1. task' = [task EXCEPT ![w] = u] /\ t.pc = "cn_lines"
      BY <1>6, <2>2 DEF ReadLines, t, LockInv, TypeInv, TaskOK, Task
    <3>2. u \in Task /\ u.pc = "cn_copy" /\ u.id = t.id /\ u.mem = t.mem
          /\ u.cn = t.cn
      BY <1>1 DEF Task, PCs, LockInv, TypeInv, DataOK
    <3> HIDE DEF u
    <3>3. TaskGood(u, stored, rows, nextId)
      BY <1>1, <3>1, <3>2, CnOnward DEF CnPCs
    <3> QED  BY <1>6, <3>1, <3>3, ReadStep DEF ReadLines, db
  <2> QED  BY <2>1, <2>2
<1>7. CASE CopyLine(w)
  <2> PICK x \in t.todo :
        LET ls == lines[t.cn] \cup {-x} IN
        task' = [task EXCEPT ![w].pc = "cn_total", ![w].agg = ls,
                             ![w].todo = t.todo \ {x}]
    BY <1>7 DEF CopyLine, t
  <2> DEFINE u == [t EXCEPT !.pc = "cn_total", !.todo = t.todo \ {x},
                            !.agg = lines[t.cn] \cup {-x}]
  <2>1. task' = [task EXCEPT ![w] = u] /\ t.pc = "cn_copy"
    BY <1>7 DEF CopyLine, t, LockInv, TypeInv, TaskOK, Task
  <2>2. u.pc = "cn_total" /\ u.id = t.id /\ u.mem = t.mem /\ u.cn = t.cn
    BY <1>1 DEF Task
  <2>3. u \in Task
    <3> HIDE DEF u
    <3>1. task'[w] = u /\ task'[w] \in Task
      BY <2>1 DEF TypeInv, TaskOK, LockInv
    <3> QED  BY <3>1
  <2> HIDE DEF u
  <2>4. TaskGood(u, stored, rows, nextId)
    BY <1>1, <2>1, <2>2, <2>3, CnOnward DEF CnPCs
  <2> QED  BY <1>7, <2>1, <2>4, ReadStep DEF CopyLine
<1>8. CASE TotalStorno(w)
  <2>1. Untouched(rows, rows') /\ t.pc = "cn_total"
    BY <1>8, TotalUntouched, TypesHere DEF TotalStorno, t
  <2>2. CASE CloseOriginal(w, t)
    BY <1>8, <2>1, <2>2, CloseGood, ColumnStep
    DEF TotalStorno, Untouched, t, CnPCs
  <2>3. CASE Goto(w, "cn_copy")
    <3> DEFINE u == [t EXCEPT !.pc = "cn_copy"]
    <3>1. task' = [task EXCEPT ![w] = u] /\ u \in Task
      BY <2>3, GotoTask DEF t, PCs
    <3>2. u.pc = "cn_copy" /\ u.id = t.id /\ u.mem = t.mem /\ u.cn = t.cn
      BY <1>1 DEF Task
    <3> HIDE DEF u
    <3>3. TaskGood(u, stored, rows, nextId)
      BY <1>1, <2>1, <3>1, <3>2, CnOnward DEF CnPCs
    <3> QED  BY <1>8, <2>1, <3>1, <3>3, ColumnStep DEF TotalStorno, Untouched
  <2> QED  BY <1>8, <2>2, <2>3 DEF TotalStorno, AfterCopy, t
<1>9. CASE UpdateTotals(w)
  BY <1>9, TotalUntouched, TypesHere, IdleIsGood, ColumnStep
  DEF UpdateTotals, Finish, Untouched
<1> QED
  BY <1>2, <1>3, <1>4, <1>5, <1>6, <1>7, <1>8, <1>9, WriteLocks, DeleteLocks
  DEF Statement

LEMMA LockStep == LockInv /\ [Next]_vars => LockInv' /\ Step
<1> SUFFICES ASSUME LockInv, [Next]_vars PROVE LockInv' /\ Step
  OBVIOUS
<1>0. TypeInv'
  BY TypeStep DEF LockInv
<1>1. ASSUME NEW w \in Workers, Request(w) PROVE LockInv' /\ Step
  BY <1>0, <1>1, RequestLocks
<1>2. ASSUME NEW w \in Workers, Statement(w) PROVE LockInv' /\ Step
  BY <1>0, <1>2, StatementLocks
<1>3. ASSUME NEW w \in Workers, Crash(w) PROVE LockInv' /\ Step
  BY <1>0, <1>3, FinishRead DEF Crash, db
<1>4. CASE stored' = stored /\ rows' = rows /\ nextId' = nextId /\ task' = task
  <2>1. Step
    BY <1>4, DbSame, TypesHere DEF Step
  <2> QED  BY <1>0, <1>4, <2>1 DEF LockInv, RowsGood, TasksGood
<1> QED
  BY <1>1, <1>2, <1>3, <1>4 DEF Next, RetentionEnds, vars, db

LEMMA LockInit == Init => LockInv
<1> SUFFICES ASSUME Init PROVE LockInv
  OBVIOUS
<1>1. TypeInv
  BY InitType
<1>2. TasksGood
  BY IdleGood DEF Init, TasksGood
<1>3. RowsGood
  <2>1. CASE stored = {}
    BY <2>1 DEF RowsGood
  <2>2. CASE \E s \in InitStatuses, ls \in SUBSET Amounts :
               /\ stored = {1}
               /\ nextId = 2
               /\ rows = [i \in Ids |-> IF i = 1 THEN Settled(s, AnyHead, ls)
                                                 ELSE BlankRow]
    <3> PICK s \in InitStatuses, ls \in SUBSET Amounts :
               /\ stored = {1}
               /\ nextId = 2
               /\ rows = [i \in Ids |-> IF i = 1 THEN Settled(s, AnyHead, ls)
                                                 ELSE BlankRow]
      BY <2>2
    <3> DEFINE m == Settled(s, AnyHead, ls)
    <3>1. rows[1] = m
      BY OneIsId
    <3>2. /\ m.status = s /\ m.stornoOf = None /\ m.cancelledBy = None
          /\ s \in LockStatuses => m.locked
      BY DEF Settled, BlankRow
    <3> HIDE DEF m
    <3>3. RowGood(1, stored, rows, nextId)
      BY <3>1, <3>2 DEF RowGood
    <3> QED  BY <3>3 DEF RowsGood
  <2> QED  BY <2>1, <2>2 DEF Init
<1> QED  BY <1>1, <1>2, <1>3 DEF LockInv

LEMMA LockInvariant == Spec => []LockInv
  BY LockInit, LockStep, PTL DEF Spec

\* Whoever writes the row of an invoice last - a stale PATCH, the PDF job, a
\* cancellation, an archiving request -, it is locked when it is SENT, PAID or
\* CANCELLED: LockInv says so of every instance behind the lock check as well.
THEOREM IssuedIsLocked == Spec => []LockFollowsStatus
<1>1. LockInv => LockFollowsStatus
  BY DEF LockInv, RowsGood, RowGood, LockFollowsStatus
<1> QED  BY <1>1, LockInvariant, PTL

\* cancelled_by leads to the locked credit note that was made for the invoice.
THEOREM ReferenceIsStorno == Spec => []CancelledByIsStorno
<1>1. LockInv => CancelledByIsStorno
  <2> SUFFICES ASSUME LockInv, NEW i \in stored, rows[i].cancelledBy # None
               PROVE  LET c == rows[i].cancelledBy IN
                      c \in stored /\ rows[c].stornoOf = i /\ rows[c].locked
    BY DEF CancelledByIsStorno
  <2>1. RowGood(i, stored, rows, nextId) /\ i # None
    BY TypesHere
  <2> QED  BY <2>1, TypesHere DEF RowGood, Link
<1> QED  BY <1>1, LockInvariant, PTL

\* No interleaving deletes, unlocks or rewrites a credit note of cancel().
THEOREM StornoIsFrozen == Spec => StornoFrozen
<1>1. LockInv /\ LockInv' /\ [Next]_vars =>
        [\A c \in stored : rows[c].stornoOf # None =>
           /\ c \in stored'
           /\ rows'[c].locked
           /\ rows'[c].head = rows[c].head
           /\ rows'[c].stornoOf = rows[c].stornoOf]_vars
  <2> SUFFICES ASSUME LockInv, LockInv', [Next]_vars, NEW c \in stored,
                      rows[c].stornoOf # None
               PROVE  /\ c \in stored'
                      /\ rows'[c].locked
                      /\ rows'[c].head = rows[c].head
                      /\ rows'[c].stornoOf = rows[c].stornoOf
    OBVIOUS
  <2>1. /\ c \in stored' /\ rows'[c].head = rows[c].head
        /\ rows'[c].stornoOf = rows[c].stornoOf
    BY LockStep DEF Step, DbStep
  <2>2. rows'[c].locked
    BY <2>1 DEF LockInv, RowsGood, RowGood
  <2> QED  BY <2>1, <2>2
<1> QED  BY <1>1, LockInvariant, PTL DEF Spec, StornoFrozen

-----------------------------------------------------------------------------
(* Locked invoices are frozen, and a sealed invoice matches its hash.      *)
(*                                                                         *)
(* CheckLock reads the row back, WriteRow writes it one statement later:   *)
(* a request that loaded a draft may overwrite what another one locked in  *)
(* between.  What follows holds where that window has no second party      *)
(* (OneAtATime), or where no invoice is ever an unlocked draft             *)
(* (BornLocked): then every instance in memory is locked as well, and      *)
(* CheckLock compares it with a row that can no longer change.             *)

OneAtATime == \A v, w \in Workers : v = w

BornLocked == /\ InitStatuses \subseteq LockStatuses
              /\ "create" \in Endpoints => NewStatuses \subseteq LockStatuses

Serial == OneAtATime \/ BornLocked

\* The row of a new invoice is locked one statement before it is sealed: a
\* second request that loads it in between writes the missing hash back.
HashesKept == OneAtATime \/ "create" \notin Endpoints

\* From the lock check on, an instance of a locked row agrees with it in what
\* the row may not change.
Current(t, r) ==
    /\ t.mem.locked
    /\ t.pc # "delete"
    /\ t.pc # "check" =>
         /\ t.mem.head = r.head
         /\ HashesKept /\ r.stornoOf = None => t.mem.hash = r.hash
         /\ OneAtATime \/ (~LinesOfLocked /\ r.stornoOf = None)
              => t.mem.total = r.total

TaskFrozen(t, S, R) ==
    /\ t.pc \in LoadedPCs =>
         /\ t.id \in S
         /\ t.mem.hash # None => R[t.id].locked
         /\ t.pc \in CnPCs \cup {"cn_insert", "seal"} => R[t.id].locked
         /\ t.pc \in CnPCs => t.id < t.cn
         /\ t.pc = "seal" => t.mem.hash = None
         /\ R[t.id].locked => Current(t, R[t.id])
    /\ t.pc = "total" => t.id \in S /\ (LinesOfLocked \/ ~R[t.id].locked)

RowFrozen(r) ==
    /\ r.hash # None => r.locked
    /\ OneAtATime \/ r.locked
    /\ \/ OneAtATime \/ "create" \in Endpoints
       \/ r.stornoOf # None \/ r.hash # None

RowsFrozen  == \A i \in stored : RowFrozen(rows[i])
TasksFrozen == \A w \in Workers : TaskFrozen(task[w], stored, rows)

FrozenInv == LockInv /\ RowsFrozen /\ TasksFrozen

\* What every step leaves of the locked rows,
Frozen ==
    \A i \in stored : rows[i].locked =>
        /\ i \in stored' /\ rows'[i].locked
        /\ rows'[i].head = rows[i].head
        /\ rows'[i].stornoOf = rows[i].stornoOf
        /\ HashesKept /\ rows[i].stornoOf = None /\ rows[i].hash # None
             => rows'[i].hash = rows[i].hash
        /\ ~LinesOfLocked /\ rows[i].stornoOf = None
             => rows'[i].total = rows[i].total

\* and where the hash of an invoice comes from.
Hashed ==
    HashesKept /\ ~LinesOfLocked =>
        \A i \in stored' :
            rows'[i].hash # None /\ rows'[i].stornoOf = None =>
                \/ i \in stored /\ rows[i].hash # None
                \/ rows'[i].hash = [head |-> rows'[i].head,
                                    total |-> rows'[i].total,
                                    lines |-> lines'[i]]

\* The task of another worker survives: if there is one, all rows are locked.
LEMMA OthersFrozen ==
    ASSUME FrozenInv, ~OneAtATime, Frozen, NEW v \in Workers
    PROVE  TaskFrozen(task[v], stored', rows')
<1> DEFINE t == task[v]
<1>1. TaskFrozen(t, stored, rows) /\ \A i \in stored : RowFrozen(rows[i])
  BY DEF FrozenInv, TasksFrozen, RowsFrozen
<1> HIDE DEF t
<1>2. ASSUME t.pc \in LoadedPCs \/ t.pc = "total"
      PROVE  /\ t.id \in stored /\ rows[t.id].locked
             /\ RowFrozen(rows[t.id])
             /\ t.id \in stored' /\ rows'[t.id].locked
             /\ rows'[t.id].head = rows[t.id].head
             /\ rows'[t.id].stornoOf = rows[t.id].stornoOf
             /\ HashesKept /\ rows[t.id].stornoOf = None
                  => rows'[t.id].hash = rows[t.id].hash
             /\ ~LinesOfLocked /\ rows[t.id].stornoOf = None
                  => rows'[t.id].total = rows[t.id].total
  <2>1. t.id \in stored
    BY <1>1, <1>2 DEF TaskFrozen
  <2> QED  BY <1>1, <2>1 DEF RowFrozen, HashesKept, Frozen
<1>3. t.pc = "total" => LinesOfLocked
  BY <1>1, <1>2 DEF TaskFrozen
<1>4. CASE t.pc \in LoadedPCs
  <2>1. Current(t, rows'[t.id])
    BY <1>1, <1>2, <1>4 DEF TaskFrozen, Current
  <2> QED
    BY <1>1, <1>2, <1>3, <1>4, <2>1 DEF TaskFrozen, t
<1>5. CASE t.pc \notin LoadedPCs
  BY <1>2, <1>3, <1>5 DEF TaskFrozen, t
<1> QED  BY <1>4, <1>5

LEMMA FrozenGood ==
    ASSUME FrozenInv, LockInv', NEW w \in Workers, NEW t,
           task' = [task EXCEPT ![w] = t],
           TaskFrozen(t, stored', rows'), RowsFrozen', Frozen
    PROVE  FrozenInv'
<1>1. ASSUME NEW v \in Workers PROVE TaskFrozen(task'[v], stored', rows')
  <2>1. CASE v = w
    BY <2>1 DEF FrozenInv, LockInv, TypeInv, TaskOK
  <2>2. CASE v # w
    <3>1. task'[v] = task[v] /\ ~OneAtATime
      BY <2>2 DEF FrozenInv, LockInv, TypeInv, TaskOK, OneAtATime
    <3> QED  BY <3>1, OthersFrozen
  <2> QED  BY <2>1, <2>2
<1> QED  BY <1>1 DEF FrozenInv, TasksFrozen

LEMMA IdleFrozen == ASSUME NEW S, NEW R PROVE TaskFrozen(Idle, S, R)
  BY DEF TaskFrozen, Idle, LoadedPCs, CnPCs

\* A step that leaves the table alone.
LEMMA FrozenRead ==
    ASSUME FrozenInv, LockInv', NEW w \in Workers, NEW t,
           task' = [task EXCEPT ![w] = t], TaskFrozen(t, stored, rows),
           stored' = stored, rows' = rows
    PROVE  FrozenInv' /\ Frozen /\ Hashed
<1>1. Frozen /\ Hashed /\ RowsFrozen'
  BY DEF Frozen, Hashed, FrozenInv, RowsFrozen
<1> QED  BY <1>1, FrozenGood

LEMMA FinishFrozen ==
    ASSUME FrozenInv, LockInv', NEW w \in Workers, Finish(w),
           stored' = stored, rows' = rows
    PROVE  FrozenInv' /\ Frozen /\ Hashed
  BY IdleFrozen, FrozenRead DEF Finish

\* A request that loads invoice i.
LEMMA LoadFrozen ==
    ASSUME FrozenInv, NEW i \in stored, NEW m \in Row,
           NEW pc \in {"check", "write", "delete", "cn_insert"},
           m.hash = rows[i].hash, rows[i].locked => m.locked,
           pc # "check" => m.head = rows[i].head /\ m.total = rows[i].total,
           pc = "delete" => ~rows[i].locked,
           pc = "cn_insert" => rows[i].locked
    PROVE  TaskFrozen([Idle EXCEPT !.id = i, !.mem = m, !.pc = pc],
                      stored, rows)
<1> DEFINE t == [Idle EXCEPT !.id = i, !.mem = m, !.pc = pc]
<1>1. t.id = i /\ t.mem = m /\ t.pc = pc
  BY DEF Idle
<1>2. RowFrozen(rows[i])
  BY DEF FrozenInv, RowsFrozen
<1> HIDE DEF t
<1> QED  BY <1>1, <1>2 DEF TaskFrozen, RowFrozen, Current, CnPCs, t

\* A new row under the next key.
LEMMA FrozenInsert ==
    ASSUME FrozenInv, LockInv', NEW w \in Workers, NEW t, NEW m \in Row,
           task' = [task EXCEPT ![w] = t],
           nextId \in Ids, stored' = stored \cup {nextId},
           rows' = [rows EXCEPT ![nextId] = m],
           m.hash = None, OneAtATime \/ m.locked,
           OneAtATime \/ "create" \in Endpoints \/ m.stornoOf # None,
           TaskFrozen(t, stored', rows')
    PROVE  FrozenInv' /\ Frozen /\ Hashed
<1>1. rows'[nextId] = m /\ \A i \in stored : rows'[i] = rows[i]
  BY TypesHere DEF FrozenInv, RowGood
<1>2. RowsFrozen'
  BY <1>1 DEF RowsFrozen, RowFrozen, FrozenInv
<1>3. Frozen /\ Hashed
  BY <1>1 DEF Frozen, Hashed
<1> QED  BY <1>2, <1>3, FrozenGood

LEMMA RequestFrozen ==
    ASSUME FrozenInv, LockInv', Serial, NEW w \in Workers, Request(w)
    PROVE  FrozenInv' /\ Frozen /\ Hashed
<1> USE DEF LoadedPCs, CnPCs
<1>0. /\ \A i \in stored : i \in Ids /\ rows[i] \in Row
      /\ \A i \in stored : RowGood(i, stored, rows, nextId)
  BY TypesHere DEF FrozenInv
<1>1. CASE Create(w)
  <2> PICK s \in NewStatuses, h \in Heads :
        LET m == Lock([BlankRow EXCEPT !.status = s, !.head = h]) IN
        /\ rows' = [rows EXCEPT ![nextId] = m]
        /\ IF NeedsSeal(m) THEN Begin(w, nextId, m, "seal")
                           ELSE UNCHANGED task
    BY <1>1 DEF Create
  <2> DEFINE b == [BlankRow EXCEPT !.status = s, !.head = h]
             m == Lock(b)
             t == [Idle EXCEPT !.id = nextId, !.mem = m, !.pc = "seal"]
  <2>1. /\ s \in Statuses /\ nextId \in Ids /\ "create" \in Endpoints
        /\ OneAtATime \/ s \in LockStatuses
    BY <1>1, StatusAssumption DEF Create, Call, Serial, BornLocked
  <2>2. /\ b \in Row /\ b.stornoOf = None /\ b.hash = None /\ b.status = s
    BY <2>1, BlankRowType DEF Row, BlankRow
  <2> HIDE DEF b
  <2>3. /\ m \in Row /\ m.hash = None
        /\ OneAtATime \/ m.locked
    BY <2>1, <2>2, LockType DEF Lock, Row
  <2>4. rows' = [rows EXCEPT ![nextId] = m] /\ stored' = stored \cup {nextId}
    BY <1>1 DEF b, Create
  <2>5. rows'[nextId] = m
    BY <2>1, <2>4, TypesHere DEF FrozenInv
  <2> HIDE DEF m
  <2>6. CASE task' = [task EXCEPT ![w] = t] /\ NeedsSeal(m)
    <3>1. t.pc = "seal" /\ t.id = nextId /\ t.mem = m
      BY DEF Idle
    <3> HIDE DEF t
    <3>2. TaskFrozen(t, stored', rows')
      BY <2>4, <2>5, <2>6, <3>1 DEF TaskFrozen, Current, NeedsSeal
    <3> QED  BY <2>1, <2>3, <2>4, <2>6, <3>2, FrozenInsert
  <2>7. CASE UNCHANGED task
    <3>1. task' = [task EXCEPT ![w] = task[w]] /\ task[w].pc = "idle"
      BY <1>1, <2>7 DEF FrozenInv, LockInv, TypeInv, TaskOK, Create, Call
    <3>2. TaskFrozen(task[w], stored', rows')
      BY <3>1 DEF TaskFrozen
    <3> QED  BY <2>1, <2>3, <2>4, <3>1, <3>2, FrozenInsert
  <2> QED  BY <2>6, <2>7 DEF Begin, m, b
<1>2. ASSUME NEW i \in stored, Patch(w, i)
      PROVE  FrozenInv' /\ Frozen /\ Hashed
  <2> PICK s \in PatchStatuses \cup {rows[i].status}, h \in Heads :
        Begin(w, i, [rows[i] EXCEPT !.status = s, !.head = h], "check")
    BY <1>2 DEF Patch
  <2> DEFINE m == [rows[i] EXCEPT !.status = s, !.head = h]
  <2>1. s \in Statuses
    BY <1>0, RowFacts, StatusAssumption
  <2>2. m \in Row /\ m.hash = rows[i].hash /\ m.locked = rows[i].locked
    BY <1>0, <2>1 DEF Row
  <2> HIDE DEF m
  <2>3. TaskFrozen([Idle EXCEPT !.id = i, !.mem = m, !.pc = "check"],
                   stored, rows)
    BY <2>2, LoadFrozen
  <2> QED  BY <1>2, <2>3, FrozenRead DEF Patch, Begin, db, m
<1>3. ASSUME NEW i \in stored, NEW s \in {"SENT", "PAID"}, UNCHANGED db,
             Begin(w, i, [rows[i] EXCEPT !.status = s], "check")
      PROVE  FrozenInv' /\ Frozen /\ Hashed
  <2> DEFINE m == [rows[i] EXCEPT !.status = s]
  <2>1. m \in Row /\ m.hash = rows[i].hash /\ m.locked = rows[i].locked
    BY <1>0 DEF Row, Statuses
  <2> HIDE DEF m
  <2>2. TaskFrozen([Idle EXCEPT !.id = i, !.mem = m, !.pc = "check"],
                   stored, rows)
    BY <2>1, LoadFrozen
  <2> QED  BY <1>3, <2>2, FrozenRead DEF Begin, db, m
<1>4. ASSUME NEW i \in stored, UNCHANGED db,
             NEW pc \in {"check", "cn_insert", "delete"}, Begin(w, i, rows[i], pc),
             pc = "delete" => ~rows[i].locked,
             pc = "cn_insert" => rows[i].status \in {"SENT", "PAID"}
      PROVE  FrozenInv' /\ Frozen /\ Hashed
  <2>1. pc = "cn_insert" => rows[i].locked
    BY <1>0, <1>4 DEF RowGood, LockStatuses
  <2>2. TaskFrozen([Idle EXCEPT !.id = i, !.mem = rows[i], !.pc = pc],
                   stored, rows)
    BY <1>0, <1>4, <2>1, LoadFrozen
  <2> QED  BY <1>4, <2>2, FrozenRead DEF Begin, db
<1>5. ASSUME NEW i \in stored, Destroy(w, i)
      PROVE  FrozenInv' /\ Frozen /\ Hashed
  <2> DEFINE m == Lock([rows[i] EXCEPT !.archived = TRUE])
  <2>1. CASE Begin(w, i, rows[i], "delete") /\ Deletable(rows[i])
    BY <1>4, <1>5, <2>1 DEF Destroy, Deletable
  <2>2. CASE Begin(w, i, m, "write")
    <3>1. [rows[i] EXCEPT !.archived = TRUE] \in Row
      BY <1>0 DEF Row
    <3>2. /\ m \in Row /\ m.hash = rows[i].hash
          /\ rows[i].locked => m.locked
          /\ m.head = rows[i].head /\ m.total = rows[i].total
      BY <1>0, <3>1, LockType, ZenonT(60) DEF Row, Lock
    <3> HIDE DEF m
    <3>3. TaskFrozen([Idle EXCEPT !.id = i, !.mem = m, !.pc = "write"],
                     stored, rows)
      BY <3>2, LoadFrozen
    <3> QED  BY <1>5, <2>2, <3>3, FrozenRead DEF Destroy, Begin, db
  <2> QED  BY <1>5, <2>1, <2>2 DEF Destroy
<1>6. ASSUME NEW i \in stored, SaveLine(w, i)
      PROVE  FrozenInv' /\ Frozen /\ Hashed
  <2> PICK ls : task' = [task EXCEPT ![w] =
                  [Idle EXCEPT !.id = i, !.pc = "total", !.agg = ls]]
    BY <1>6 DEF SaveLine
  <2>1. TaskFrozen([Idle EXCEPT !.id = i, !.pc = "total", !.agg = ls],
                   stored, rows)
    BY <1>6 DEF TaskFrozen, Idle, SaveLine, MayEditLines
  <2> QED  BY <1>6, <2>1, FrozenRead DEF SaveLine
<1>7. ASSUME NEW i \in stored, DeleteLine(w, i)
      PROVE  FrozenInv' /\ Frozen /\ Hashed
  <2>1. task' = [task EXCEPT ![w] = task[w]]
    BY <1>7 DEF DeleteLine, FrozenInv, LockInv, TypeInv, TaskOK
  <2> QED  BY <1>7, <2>1, FrozenRead DEF DeleteLine, FrozenInv, TasksFrozen
<1> QED
  <2>1. ASSUME NEW i \in stored, MarkAsSent(w, i) \/ MarkAsPaid(w, i)
        PROVE  FrozenInv' /\ Frozen /\ Hashed
    BY <1>3, <2>1 DEF MarkAsSent, MarkAsPaid
  <2>2. ASSUME NEW i \in stored, GenerateFiles(w, i) \/ Cancel(w, i)
        PROVE  FrozenInv' /\ Frozen /\ Hashed
    BY <1>4, <2>2 DEF GenerateFiles, Cancel
  <2> QED
    BY <1>1, <1>2, <1>5, <1>6, <1>7, <2>1, <2>2 DEF Request

\* What a running request knows.
LEMMA FrozenTask ==
    ASSUME FrozenInv, NEW w \in Workers
    PROVE  /\ task[w] \in Task /\ task[w].id \in Ids /\ task[w].mem \in Row
           /\ task[w].pc \in CnPCs => task[w].cn \in Ids
           /\ TaskGood(task[w], stored, rows, nextId)
           /\ TaskFrozen(task[w], stored, rows)
           /\ task[w].pc \in LoadedPCs
                => /\ task[w].id \in stored
                   /\ task[w].mem.stornoOf = rows[task[w].id].stornoOf
           /\ task[w].pc \in CnPCs
                => /\ task[w].cn \in stored /\ task[w].cn # task[w].id
                   /\ rows[task[w].cn].stornoOf = task[w].id
                   /\ rows[task[w].cn].stornoOf # None
                   /\ rows[task[w].cn].locked
<1>1. /\ task[w] \in Task /\ task[w].id \in Ids /\ task[w].mem \in Row
      /\ task[w].pc \in CnPCs => task[w].cn \in Ids
      /\ TaskGood(task[w], stored, rows, nextId)
      /\ TaskFrozen(task[w], stored, rows)
  BY TypesHere, TaskFacts DEF FrozenInv, LockInv, TypeInv, TasksFrozen
<1>2. ASSUME task[w].pc \in LoadedPCs
      PROVE  /\ task[w].id \in stored
             /\ task[w].mem.stornoOf = rows[task[w].id].stornoOf
  BY <1>1, <1>2 DEF TaskGood, TaskFrozen, Agrees, Link
<1>3. ASSUME task[w].pc \in CnPCs
      PROVE  /\ task[w].cn \in stored /\ task[w].cn # task[w].id
             /\ rows[task[w].cn].stornoOf = task[w].id
             /\ rows[task[w].cn].stornoOf # None
             /\ rows[task[w].cn].locked
  <2>1. task[w].cn \in stored /\ rows[task[w].cn].stornoOf = task[w].id
        /\ task[w].id < task[w].cn
    BY <1>1, <1>3 DEF TaskGood, TaskFrozen, Link, LoadedPCs
  <2> QED  BY <1>1, <2>1, TypesHere DEF FrozenInv, RowGood
<1> QED  BY <1>1, <1>2, <1>3

\* A hash or a sum goes to one row, and to one column of it.
LEMMA HashColumn ==
    ASSUME rows \in [Ids -> Row], NEW i \in Ids, NEW h,
           rows' = IF i \in stored THEN [rows EXCEPT ![i].hash = h] ELSE rows
    PROVE  \A c \in Ids :
             /\ rows'[c].total = rows[c].total
             /\ rows'[c].hash = IF c = i /\ i \in stored THEN h
                                                         ELSE rows[c].hash
  BY DEF Row

LEMMA TotalColumn ==
    ASSUME rows \in [Ids -> Row], NEW i \in Ids, NEW s, SetTotal(i, s)
    PROVE  \A c \in Ids :
             /\ rows'[c].hash = rows[c].hash
             /\ rows'[c].total = IF c = i /\ i \in stored THEN s
                                                          ELSE rows[c].total
  BY DEF Row, SetTotal

\* A task whose row keeps what TaskFrozen speaks of.
LEMMA SameRow ==
    ASSUME NEW S, NEW R, NEW R2, NEW t, TaskFrozen(t, S, R),
           R2[t.id].locked = R[t.id].locked, R2[t.id].head = R[t.id].head,
           R2[t.id].stornoOf = R[t.id].stornoOf,
           R2[t.id].hash = R[t.id].hash, R2[t.id].total = R[t.id].total
    PROVE  TaskFrozen(t, S, R2)
<1>1. Current(t, R[t.id]) => Current(t, R2[t.id])
  BY DEF Current
<1> QED  BY <1>1 DEF TaskFrozen

\* A task that goes on with the same instance, behind the lock check.
LEMMA FrozenOnward ==
    ASSUME NEW S, NEW R, NEW t \in Task, NEW u \in Task,
           TaskFrozen(t, S, R), t.pc \in CnPCs \cup {"cn_insert"},
           u.pc \in CnPCs, u.id = t.id, u.mem = t.mem, t.id < u.cn
    PROVE  TaskFrozen(u, S, R)
<1>1. t.id \in S /\ R[t.id].locked /\ Current(t, R[t.id])
  BY DEF TaskFrozen, LoadedPCs
<1>2. Current(u, R[t.id])
  BY <1>1 DEF Current, CnPCs
<1> QED  BY <1>1, <1>2 DEF TaskFrozen, LoadedPCs, CnPCs

\* cancel() turns to the original.
LEMMA CloseFrozen ==
    ASSUME FrozenInv, NEW w \in Workers, task[w].pc \in CnPCs,
           CloseOriginal(w, task[w])
    PROVE  \E t \in Task : /\ task' = [task EXCEPT ![w] = t]
                           /\ t.id = task[w].id /\ t.pc = "write"
                           /\ t.mem.cancelledBy = task[w].cn
                           /\ t.mem.stornoOf = task[w].mem.stornoOf
                           /\ TaskFrozen(t, stored, rows)
<1> DEFINE o == task[w]
           b == [o.mem EXCEPT !.status = "CANCELLED", !.cancelledBy = o.cn]
           m == Lock(b)
           t == [o EXCEPT !.pc = "write", !.todo = {}, !.agg = {}, !.mem = m]
<1>1. /\ o \in Task /\ o.mem \in Row /\ o.cn \in Ids /\ o.id \in stored
      /\ TaskFrozen(o, stored, rows) /\ o.pc \in CnPCs
  BY FrozenTask DEF LoadedPCs
<1>2. task' = [task EXCEPT ![w] = t]
  BY DEF CloseOriginal
<1> HIDE DEF o
<1>3. /\ b \in Row /\ b.stornoOf = o.mem.stornoOf /\ b.head = o.mem.head
      /\ b.cancelledBy = o.cn /\ b.status = "CANCELLED"
      /\ b.hash = o.mem.hash /\ b.total = o.mem.total
  BY <1>1 DEF Row, Statuses
<1> HIDE DEF b
<1>4. /\ m \in Row /\ m.stornoOf = o.mem.stornoOf /\ m.head = o.mem.head
      /\ m.cancelledBy = o.cn /\ m.locked
      /\ m.hash = o.mem.hash /\ m.total = o.mem.total
  BY <1>3, LockType DEF Lock, Row, LockStatuses
<1> HIDE DEF m
<1>5. t \in Task /\ t.pc = "write" /\ t.mem = m /\ t.id = o.id
  BY <1>1, <1>4 DEF Task, PCs
<1> HIDE DEF t
<1>6. rows[o.id].locked /\ Current(o, rows[o.id])
  BY <1>1 DEF TaskFrozen, LoadedPCs
<1>7. Current(t, rows[t.id])
  BY <1>1, <1>4, <1>5, <1>6 DEF Current, CnPCs
<1>8. TaskFrozen(t, stored, rows)
  BY <1>1, <1>5, <1>6, <1>7 DEF TaskFrozen, LoadedPCs, CnPCs
<1> QED  BY <1>2, <1>4, <1>5, <1>8 DEF o

\* The check of save(): what it lets pass agrees with the locked row.
LEMMA CheckFrozen ==
    ASSUME FrozenInv, LockInv', NEW w \in Workers, CheckLock(w)
    PROVE  FrozenInv' /\ Frozen /\ Hashed
<1> DEFINE t == task[w]
           m == Lock(t.mem)
           u == [t EXCEPT !.pc = "write", !.mem = m]
<1>1. /\ t \in Task /\ t.mem \in Row /\ t.pc = "check" /\ t.id \in stored
      /\ TaskFrozen(t, stored, rows) /\ stored' = stored /\ rows' = rows
  BY FrozenTask DEF CheckLock, LoadedPCs, db
<1>2. CASE Refused(t.id, t.mem)
  BY <1>1, <1>2, FinishFrozen DEF CheckLock
<1>3. CASE ~Refused(t.id, t.mem)
  <2>1. /\ task' = [task EXCEPT ![w] = u]
    BY <1>3 DEF CheckLock, FrozenInv, LockInv, TypeInv, TaskOK, Task
  <2> HIDE DEF t
  <2>2. /\ m \in Row /\ m.hash = t.mem.hash /\ m.head = t.mem.head
        /\ m.total = t.mem.total
        /\ t.mem.locked => m.locked
    BY <1>1, LockType DEF Lock, Row
  <2> HIDE DEF m
  <2>3. u.pc = "write" /\ u.mem = m /\ u.id = t.id
    BY <1>1 DEF Task
  <2> HIDE DEF u
  <2>4. rows[t.id].locked => Current(u, rows[t.id])
    <3> SUFFICES ASSUME rows[t.id].locked PROVE Current(u, rows[t.id])
      OBVIOUS
    <3>1. t.mem.locked
      BY <1>1 DEF TaskFrozen, LoadedPCs, Current
    <3>2. Protected(t.mem) = Protected(rows[t.id])
      BY <1>1, <1>3, <3>1 DEF Refused
    <3> QED  BY <2>2, <2>3, <3>1, <3>2 DEF Protected, Current
  <2>5. TaskFrozen(u, stored, rows)
    BY <1>1, <2>2, <2>3, <2>4 DEF TaskFrozen, LoadedPCs, CnPCs
  <2> QED  BY <1>1, <2>1, <2>5, FrozenRead
<1> QED  BY <1>2, <1>3

LEMMA WriteFrozen ==
    ASSUME FrozenInv, LockInv', NEW w \in Workers, WriteRow(w)
    PROVE  FrozenInv' /\ Frozen /\ Hashed
<1> DEFINE t == task[w]
<1>1. /\ t \in Task /\ t.mem \in Row /\ t.pc = "write" /\ t.id \in stored
      /\ TaskFrozen(t, stored, rows)
      /\ t.mem.stornoOf = rows[t.id].stornoOf
  BY FrozenTask DEF WriteRow, LoadedPCs
<1>2. /\ rows' = [rows EXCEPT ![t.id] = t.mem] /\ stored' = stored
      /\ IF NeedsSeal(t.mem) THEN Goto(w, "seal") ELSE Finish(w)
  BY <1>1 DEF WriteRow
<1> HIDE DEF t
<1>3. /\ rows'[t.id] = t.mem
      /\ \A c \in stored : c # t.id => rows'[c] = rows[c]
  BY <1>1, <1>2, TypesHere DEF FrozenInv
<1>4. /\ rows[t.id].locked => Current(t, rows[t.id])
      /\ t.mem.hash # None => rows[t.id].locked
      /\ RowFrozen(rows[t.id])
  BY <1>1 DEF TaskFrozen, LoadedPCs, FrozenInv, RowsFrozen
<1>5. RowFrozen(t.mem)
  BY <1>1, <1>4 DEF RowFrozen, Current, HashesKept
<1>6. RowsFrozen'
  BY <1>2, <1>3, <1>5 DEF RowsFrozen, FrozenInv
<1>7. Frozen
  BY <1>1, <1>2, <1>3, <1>4 DEF Frozen, Current
<1>8. Hashed
  BY <1>1, <1>2, <1>3, <1>4 DEF Hashed, Current
<1>9. CASE Finish(w)
  BY <1>6, <1>7, <1>8, <1>9, IdleFrozen, FrozenGood DEF Finish
<1>10. CASE Goto(w, "seal") /\ NeedsSeal(t.mem)
  <2> DEFINE u == [t EXCEPT !.pc = "seal"]
  <2>1. u.id = t.id /\ u.mem = t.mem /\ u.pc = "seal"
    BY <1>1 DEF Task
  <2>2. task' = [task EXCEPT ![w] = u]
    BY <1>10 DEF Goto, t, FrozenInv, LockInv, TypeInv, TaskOK
  <2> HIDE DEF u
  <2>3. TaskFrozen(u, stored', rows')
    BY <1>1, <1>2, <1>3, <1>10, <2>1
    DEF TaskFrozen, NeedsSeal, Current, LoadedPCs, CnPCs
  <2> QED  BY <1>6, <1>7, <1>8, <2>2, <2>3, FrozenGood
<1> QED  BY <1>2, <1>9, <1>10

LEMMA SealFrozen ==
    ASSUME FrozenInv, LockInv', NEW w \in Workers, Seal(w)
    PROVE  FrozenInv' /\ Frozen /\ Hashed
<1> DEFINE t == task[w]
           h == [head |-> t.mem.head, total |-> t.mem.total,
                 lines |-> lines[t.id]]
<1>1. /\ t \in Task /\ t.mem \in Row /\ t.pc = "seal" /\ t.id \in stored
      /\ TaskFrozen(t, stored, rows) /\ t.id \in Ids
  BY FrozenTask DEF Seal, LoadedPCs
<1>2. /\ rows' = IF t.id \in stored THEN [rows EXCEPT ![t.id].hash = h]
                                    ELSE rows
      /\ stored' = stored /\ lines' = lines /\ Finish(w)
  BY DEF Seal
<1>3. h # None
  BY <1>1, RowFacts, TypesHere, NoneAssumption
  DEF FrozenInv, LockInv, TypeInv, DataOK
<1>4. /\ rows[t.id].locked /\ Current(t, rows[t.id]) /\ t.mem.hash = None
      /\ RowFrozen(rows[t.id])
  BY <1>1 DEF TaskFrozen, LoadedPCs, FrozenInv, RowsFrozen
<1> HIDE DEF h
<1>5. /\ Untouched(rows, rows')
      /\ \A c \in Ids : /\ rows'[c].total = rows[c].total
                        /\ rows'[c].hash = IF c = t.id THEN h
                                                       ELSE rows[c].hash
  <2> HIDE DEF t
  <2>1. rows \in [Ids -> Row]
    BY TypesHere DEF FrozenInv
  <2>2. Untouched(rows, rows')
    BY <1>2, <2>1, HashUntouched
  <2>3. \A c \in Ids : /\ rows'[c].total = rows[c].total
                       /\ rows'[c].hash = IF c = t.id /\ t.id \in stored
                                            THEN h ELSE rows[c].hash
    BY <1>1, <1>2, <2>1, HashColumn
  <2> QED  BY <1>1, <2>2, <2>3
<1>6. RowsFrozen'
  BY <1>2, <1>3, <1>4, <1>5, TypesHere
  DEF RowsFrozen, RowFrozen, FrozenInv, Untouched
<1>7. Frozen
  BY <1>1, <1>2, <1>4, <1>5, TypesHere
  DEF Frozen, FrozenInv, Untouched, Current
<1>8. Hashed
  <2> SUFFICES ASSUME HashesKept, ~LinesOfLocked, NEW i \in stored',
                      rows'[i].hash # None, rows'[i].stornoOf = None,
                      rows[i].hash = None
               PROVE  rows'[i].hash = [head |-> rows'[i].head,
                                       total |-> rows'[i].total,
                                       lines |-> lines'[i]]
    BY <1>2 DEF Hashed
  <2>1. i = t.id /\ i \in Ids
    BY <1>2, <1>5, TypesHere DEF FrozenInv
  <2>2. t.mem.head = rows'[i].head /\ t.mem.total = rows'[i].total
    BY <1>1, <1>4, <1>5, <2>1 DEF Current, Untouched
  <2> QED  BY <1>2, <1>5, <2>1, <2>2 DEF h
<1> QED  BY <1>2, <1>6, <1>7, <1>8, IdleFrozen, FrozenGood DEF Finish

\* Only a lone request finds an unlocked draft to delete.
LEMMA DeleteFrozen ==
    ASSUME FrozenInv, LockInv', NEW w \in Workers, HardDelete(w)
    PROVE  FrozenInv' /\ Frozen /\ Hashed
<1> DEFINE i == task[w].id
<1>1. /\ i \in stored /\ ~rows[i].locked
      /\ stored' = stored \ {i}
      /\ \A j \in Ids : j # i =>
           rows'[j] = IF rows[j].cancelledBy = i
                        THEN [rows[j] EXCEPT !.cancelledBy = None] ELSE rows[j]
  BY FrozenTask DEF HardDelete, TaskFrozen, LoadedPCs, Current
<1> HIDE DEF i
<1>2. \A j \in stored' :
        /\ j \in stored
        /\ rows'[j].stornoOf = rows[j].stornoOf /\ rows'[j].head = rows[j].head
        /\ rows'[j].locked = rows[j].locked
        /\ rows'[j].hash = rows[j].hash /\ rows'[j].total = rows[j].total
  <2> TAKE j \in stored'
  <2>1. j \in stored /\ rows[j] \in Row
        /\ rows'[j] = IF rows[j].cancelledBy = i
                        THEN [rows[j] EXCEPT !.cancelledBy = None] ELSE rows[j]
    BY <1>1, TypesHere DEF FrozenInv
  <2> QED  BY <2>1 DEF Row
<1>3. RowsFrozen' /\ Frozen /\ Hashed
  BY <1>1, <1>2 DEF RowsFrozen, RowFrozen, FrozenInv, Frozen, Hashed
<1> QED  BY <1>3, IdleFrozen, FrozenGood DEF HardDelete, Finish

LEMMA StatementFrozen ==
    ASSUME FrozenInv, LockInv', NEW w \in Workers, Statement(w)
    PROVE  FrozenInv' /\ Frozen /\ Hashed
<1> DEFINE t == task[w]
<1>0. t = task[w]
  OBVIOUS
<1>1. /\ t \in Task /\ t.id \in Ids /\ t.mem \in Row
      /\ TaskFrozen(t, stored, rows)
      /\ t.pc \in CnPCs => /\ t.cn \in Ids /\ t.cn \in stored /\ t.id # t.cn
                           /\ t.id \in stored /\ t.id < t.cn
                           /\ rows[t.cn].stornoOf # None /\ rows[t.cn].locked
  BY FrozenTask DEF TaskFrozen, LoadedPCs
<1>2. rows \in [Ids -> Row] /\ task \in [Workers -> Task] /\ stored \subseteq Ids
  BY DEF FrozenInv, LockInv, TypeInv, DataOK, TaskOK
<1> HIDE DEF t
<1>4. CASE InsertStorno(w)
  <2> DEFINE m == Storno(t.id, t.mem)
             u == [t EXCEPT !.pc = "cn_seal", !.cn = nextId]
  <2>1. /\ nextId \in Ids /\ t.pc = "cn_insert"
        /\ stored' = stored \cup {nextId}
        /\ rows' = [rows EXCEPT ![nextId] = m]
    BY <1>0, <1>4 DEF InsertStorno
  <2>2. task' = [task EXCEPT ![w] = u]
    BY <1>0, <1>2, <1>4 DEF InsertStorno, Task
  <2>3. /\ m \in Row /\ m.locked /\ m.stornoOf # None /\ m.hash = None
    <3> DEFINE b == [BlankRow EXCEPT !.status = "SENT", !.head = t.mem.head,
                         !.total = Neg(t.mem.total), !.stornoOf = t.id]
    <3>1. b \in [status : Statuses, locked : BOOLEAN,
                 hash : {None}, head : Heads,
                 total : {Neg(t.mem.total)}, cancelledBy : Ids \cup {None},
                 stornoOf : Ids \cup {None}, archived : BOOLEAN]
      BY <1>1, BlankRowType DEF Row, Statuses, BlankRow
    <3>2. b.status = "SENT" /\ b.stornoOf = t.id
      BY DEF BlankRow
    <3> HIDE DEF b
    <3> QED
      BY <1>1, <3>1, <3>2, StornoType, NoneAssumption
      DEF Storno, Lock, LockStatuses, b
  <2> HIDE DEF m
  <2>4. u \in Task /\ u.pc = "cn_seal" /\ u.id = t.id /\ u.mem = t.mem
        /\ u.cn = nextId
    BY <1>1, <2>1 DEF Task, PCs
  <2> HIDE DEF u
  <2>5. t.id \in stored /\ t.id < nextId
    BY <1>1, <2>1, TypesHere DEF TaskFrozen, LoadedPCs, FrozenInv, RowGood
  <2>6. TaskFrozen(u, stored, rows)
    BY <1>1, <2>1, <2>4, <2>5, FrozenOnward DEF CnPCs
  <2>7. rows'[u.id] = rows[u.id]
    BY <1>2, <2>1, <2>4, <2>5, TypesHere DEF FrozenInv
  <2>8. TaskFrozen(u, stored', rows')
    BY <2>1, <2>4, <2>5, <2>6, <2>7 DEF TaskFrozen
  <2> QED  BY <2>1, <2>2, <2>3, <2>8, FrozenInsert
<1>5. CASE SealStorno(w)
  <2> DEFINE u == [t EXCEPT !.pc = "cn_lines"]
             m == Storno(t.id, t.mem)
             h == [head |-> m.head, total |-> m.total, lines |-> lines[t.cn]]
  <2>1. /\ t.pc = "cn_seal" /\ t.pc \in CnPCs /\ stored' = stored
        /\ rows' = IF t.cn \in stored THEN [rows EXCEPT ![t.cn].hash = h]
                                      ELSE rows
    BY <1>0, <1>5 DEF SealStorno, CnPCs
  <2>2. task' = [task EXCEPT ![w] = u] /\ u \in Task
    BY <1>0, <1>5, GotoTask DEF SealStorno, PCs, FrozenInv
  <2>3. u.pc = "cn_lines" /\ u.id = t.id /\ u.mem = t.mem /\ u.cn = t.cn
    BY <1>1 DEF Task
  <2> HIDE DEF u, h
  <2>4. /\ Untouched(rows, rows')
        /\ \A c \in Ids : /\ rows'[c].total = rows[c].total
                          /\ c # t.cn => rows'[c].hash = rows[c].hash
    BY <1>1, <1>2, <2>1, HashUntouched, HashColumn
  <2>5. RowsFrozen' /\ Frozen /\ Hashed
    BY <1>1, <1>2, <2>1, <2>4
    DEF RowsFrozen, RowFrozen, FrozenInv, Frozen, Hashed, Untouched
  <2>6. TaskFrozen(u, stored, rows)
    BY <1>1, <2>1, <2>2, <2>3, FrozenOnward DEF CnPCs
  <2>7. TaskFrozen(u, stored, rows')
    <3>1. /\ rows'[u.id].locked = rows[u.id].locked
          /\ rows'[u.id].head = rows[u.id].head
          /\ rows'[u.id].stornoOf = rows[u.id].stornoOf
          /\ rows'[u.id].hash = rows[u.id].hash
          /\ rows'[u.id].total = rows[u.id].total
      BY <1>1, <2>1, <2>3, <2>4 DEF Untouched
    <3> QED  BY <2>6, <3>1, SameRow
  <2> QED  BY <2>1, <2>2, <2>5, <2>7, FrozenGood
<1>6. CASE ReadLines(w)
  <2>0. t.pc = "cn_lines" /\ stored' = stored /\ rows' = rows
    BY <1>0, <1>6 DEF ReadLines, db
  <2>1. CASE CloseOriginal(w, t)
    BY <1>0, <2>0, <2>1, CloseFrozen, FrozenRead DEF CnPCs
  <2>2. CASE lines[t.id] # {}
    <3> DEFINE u == [t EXCEPT !.pc = "cn_copy", !.todo = lines[t.id]]
    <3>1. task' = [task EXCEPT ![w] = u]
      BY <1>0, <1>2, <1>6, <2>2 DEF ReadLines, Task
    <3>2. u \in Task /\ u.pc = "cn_copy" /\ u.id = t.id /\ u.mem = t.mem
          /\ u.cn = t.cn
      BY <1>1 DEF Task, PCs, FrozenInv, LockInv, TypeInv, DataOK
    <3> HIDE DEF u
    <3>3. TaskFrozen(u, stored, rows)
      BY <1>1, <2>0, <3>1, <3>2, FrozenOnward DEF CnPCs
    <3> QED  BY <2>0, <3>1, <3>3, FrozenRead
  <2> QED  BY <1>0, <1>6, <2>1, <2>2 DEF ReadLines
<1>7. CASE CopyLine(w)
  <2>0. t.pc = "cn_copy" /\ stored' = stored /\ rows' = rows
    BY <1>0, <1>7 DEF CopyLine
  <2> PICK x \in t.todo :
        LET ls == lines[t.cn] \cup {-x} IN
        task' = [task EXCEPT ![w].pc = "cn_total", ![w].agg = ls,
                             ![w].todo = t.todo \ {x}]
    BY <1>0, <1>7 DEF CopyLine
  <2> DEFINE u == [t EXCEPT !.pc = "cn_total", !.todo = t.todo \ {x},
                            !.agg = lines[t.cn] \cup {-x}]
  <2>1. task' = [task EXCEPT ![w] = u]
    BY <1>0, <1>2 DEF Task
  <2>2. u.pc = "cn_total" /\ u.id = t.id /\ u.mem = t.mem /\ u.cn = t.cn
    BY <1>1 DEF Task
  <2>3. u \in Task
    <3> HIDE DEF u
    <3>1. task'[w] = u /\ task'[w] \in Task
      BY <1>2, <2>1 DEF LockInv, TypeInv, TaskOK
    <3> QED  BY <3>1
  <2> HIDE DEF u
  <2>4. TaskFrozen(u, stored, rows)
    BY <1>1, <2>0, <2>2, <2>3, FrozenOnward DEF CnPCs
  <2> QED  BY <2>0, <2>1, <2>4, FrozenRead
<1>8. CASE TotalStorno(w)
  <2>1. t.pc = "cn_total" /\ t.pc \in CnPCs /\ stored' = stored
    BY <1>0, <1>8 DEF TotalStorno, CnPCs
  <2>2. /\ Untouched(rows, rows')
        /\ \A c \in Ids : /\ rows'[c].hash = rows[c].hash
                          /\ c # t.cn => rows'[c].total = rows[c].total
    BY <1>0, <1>1, <1>2, <1>8, <2>1, TotalUntouched, TotalColumn
    DEF TotalStorno
  <2>3. RowsFrozen' /\ Frozen /\ Hashed
    BY <1>1, <1>2, <2>1, <2>2
    DEF RowsFrozen, RowFrozen, FrozenInv, Frozen, Hashed, Untouched
  <2>4. \E u : /\ task' = [task EXCEPT ![w] = u] /\ u.id = t.id
               /\ TaskFrozen(u, stored, rows)
    <3>1. CASE CloseOriginal(w, t)
      BY <1>0, <2>1, <3>1, CloseFrozen
    <3>2. CASE Goto(w, "cn_copy")
      <4> DEFINE u == [t EXCEPT !.pc = "cn_copy"]
      <4>1. task' = [task EXCEPT ![w] = u] /\ u \in Task
        BY <1>0, <3>2, GotoTask DEF PCs, FrozenInv
      <4>2. u.pc = "cn_copy" /\ u.id = t.id /\ u.mem = t.mem /\ u.cn = t.cn
        BY <1>1 DEF Task
      <4> HIDE DEF u
      <4>3. TaskFrozen(u, stored, rows)
        BY <1>1, <2>1, <4>1, <4>2, FrozenOnward DEF CnPCs
      <4> QED  BY <4>1, <4>2, <4>3
    <3> QED  BY <1>0, <1>8, <3>1, <3>2 DEF TotalStorno, AfterCopy
  <2> PICK u : /\ task' = [task EXCEPT ![w] = u] /\ u.id = t.id
               /\ TaskFrozen(u, stored, rows)
    BY <2>4
  <2>5. TaskFrozen(u, stored, rows')
    BY <1>1, <2>1, <2>2, SameRow DEF Untouched
  <2> QED  BY <2>1, <2>3, <2>5, FrozenGood
<1>9. CASE UpdateTotals(w)
  <2>1. /\ t.pc = "total" /\ stored' = stored
        /\ LinesOfLocked \/ ~rows[t.id].locked
    BY <1>0, <1>1, <1>9 DEF UpdateTotals, TaskFrozen
  <2>2. /\ Untouched(rows, rows')
        /\ \A c \in Ids : /\ rows'[c].hash = rows[c].hash
                          /\ c # t.id => rows'[c].total = rows[c].total
    BY <1>0, <1>1, <1>2, <1>9, TotalUntouched, TotalColumn DEF UpdateTotals
  <2>3. RowsFrozen' /\ Frozen /\ Hashed
    BY <1>1, <1>2, <2>1, <2>2
    DEF RowsFrozen, RowFrozen, FrozenInv, Frozen, Hashed, Untouched
  <2> QED
    BY <1>9, <2>3, IdleFrozen, FrozenGood DEF UpdateTotals, Finish
<1> QED
  BY <1>4, <1>5, <1>6, <1>7, <1>8, <1>9,
     CheckFrozen, WriteFrozen, SealFrozen, DeleteFrozen
  DEF Statement

LEMMA FrozenStep ==
    Serial /\ FrozenInv /\ [Next]_vars => FrozenInv' /\ Frozen /\ Hashed
<1> SUFFICES ASSUME Serial, FrozenInv, [Next]_vars
             PROVE  FrozenInv' /\ Frozen /\ Hashed
  OBVIOUS
<1>0. LockInv'
  BY LockStep DEF FrozenInv
<1>1. ASSUME NEW w \in Workers, Request(w) PROVE FrozenInv' /\ Frozen /\ Hashed
  BY <1>0, <1>1, RequestFrozen
<1>2. ASSUME NEW w \in Workers, Statement(w)
      PROVE  FrozenInv' /\ Frozen /\ Hashed
  BY <1>0, <1>2, StatementFrozen
<1>3. ASSUME NEW w \in Workers, Crash(w) PROVE FrozenInv' /\ Frozen /\ Hashed
  BY <1>0, <1>3, FinishFrozen DEF Crash, db
<1>4. CASE stored' = stored /\ rows' = rows /\ task' = task
  BY <1>0, <1>4
  DEF FrozenInv, RowsFrozen, TasksFrozen, Frozen, Hashed
<1> QED
  BY <1>1, <1>2, <1>3, <1>4 DEF Next, RetentionEnds, vars, db

LEMMA FrozenInit == Serial /\ Init => FrozenInv
<1> SUFFICES ASSUME Serial, Init PROVE FrozenInv
  OBVIOUS
<1>1. LockInv /\ TasksFrozen
  BY LockInit, IdleFrozen DEF Init, TasksFrozen
<1>2. RowsFrozen
  <2>1. CASE stored = {}
    BY <2>1 DEF RowsFrozen
  <2>2. CASE \E s \in InitStatuses, ls \in SUBSET Amounts :
               /\ stored = {1}
               /\ rows = [i \in Ids |-> IF i = 1 THEN Settled(s, AnyHead, ls)
                                                 ELSE BlankRow]
    <3> PICK s \in InitStatuses, ls \in SUBSET Amounts :
               /\ stored = {1}
               /\ rows = [i \in Ids |-> IF i = 1 THEN Settled(s, AnyHead, ls)
                                                 ELSE BlankRow]
      BY <2>2
    <3> DEFINE m == Settled(s, AnyHead, ls)
               h == [head |-> AnyHead, total |-> ls, lines |-> ls]
    <3>1. rows[1] = m
      BY OneIsId
    <3>2. h # None
      BY HeadsAssumption, NoneAssumption DEF AnyHead, Lines
    <3>3. /\ m.locked = (s \in LockStatuses)
          /\ m.hash = IF s \in LockStatuses THEN h ELSE None
      BY DEF Settled, BlankRow
    <3> HIDE DEF m, h
    <3>4. OneAtATime \/ s \in LockStatuses
      BY DEF Serial, BornLocked
    <3>5. RowFrozen(m)
      BY <3>2, <3>3, <3>4 DEF RowFrozen
    <3> QED  BY <3>1, <3>5 DEF RowsFrozen
  <2> QED  BY <2>1, <2>2 DEF Init
<1> QED  BY <1>1, <1>2 DEF FrozenInv

LEMMA FrozenInvariant == Serial => (Spec => []FrozenInv)
<1> SUFFICES ASSUME Serial PROVE Spec => []FrozenInv
  OBVIOUS
<1>1. Init => FrozenInv
  BY FrozenInit
<1>2. FrozenInv /\ [Next]_vars => FrozenInv'
  BY FrozenStep
<1> QED  BY <1>1, <1>2, PTL DEF Spec

\* A locked invoice is never deleted, unlocked or changed in its header or
\* hash, by one request at a time with all endpoints, or by any number of
\* concurrent ones where every invoice is sealed already: an outdated
\* instance is refused by the lock check or agrees with the row.
THEOREM LockedIsFrozen ==
    ASSUME OneAtATime \/ (BornLocked /\ "create" \notin Endpoints)
    PROVE  Spec => LockedFrozen
<1>1. Serial /\ HashesKept
  BY DEF Serial, HashesKept
<1>2. FrozenInv /\ [Next]_vars =>
        [\A i \in stored : rows[i].locked =>
           /\ i \in stored'
           /\ rows'[i].locked
           /\ rows'[i].head = rows[i].head
           /\ rows[i].hash # None /\ rows[i].stornoOf = None
                => rows'[i].hash = rows[i].hash]_vars
  BY <1>1, FrozenStep DEF Frozen
<1> QED  BY <1>1, <1>2, FrozenInvariant, PTL DEF Spec, LockedFrozen

\* The lines of a locked invoice change under cancel() only, which fills its
\* own credit note.
LinesKept(w) ==
    \A i \in stored :
        rows[i].locked /\ ~(task[w].pc = "cn_copy" /\ i = task[w].cn)
            => lines'[i] = lines[i]

LEMMA LinesFrozen ==
    ASSUME FrozenInv, ~LinesOfLocked, NEW w \in Workers,
           Request(w) \/ Statement(w)
    PROVE  LinesKept(w)
<1>1. /\ stored \subseteq Ids /\ lines \in [Ids -> SUBSET Lines]
      /\ TaskFrozen(task[w], stored, rows)
  BY FrozenTask DEF FrozenInv, LockInv, TypeInv, DataOK
<1>2. CASE UNCHANGED lines
  BY <1>2 DEF LinesKept
<1>3. ASSUME NEW i \in stored, SaveLine(w, i) \/ DeleteLine(w, i)
      PROVE  LinesKept(w)
  <2>1. ~rows[i].locked /\ \E ls : lines' = [lines EXCEPT ![i] = ls]
    BY <1>3 DEF SaveLine, DeleteLine, MayEditLines
  <2> QED  BY <1>1, <2>1 DEF LinesKept
<1>4. CASE HardDelete(w)
  <2>1. ~rows[task[w].id].locked /\ lines' = [lines EXCEPT ![task[w].id] = {}]
    BY <1>1, <1>4 DEF HardDelete, TaskFrozen, LoadedPCs, Current
  <2> QED  BY <1>1, <2>1 DEF LinesKept
<1>5. CASE CopyLine(w)
  <2>1. /\ task[w].pc = "cn_copy"
        /\ \E ls : lines' = [lines EXCEPT ![task[w].cn] = ls]
    BY <1>5 DEF CopyLine
  <2> QED  BY <1>1, <2>1 DEF LinesKept
<1> QED
  BY <1>2, <1>3, <1>4, <1>5
  DEF Request, Statement, Create, Patch, MarkAsSent, MarkAsPaid,
      GenerateFiles, Destroy, Cancel, CheckLock, WriteRow, Seal,
      InsertStorno, SealStorno, ReadLines, TotalStorno, UpdateTotals, db

\* The premises of what follows: no client edits lines of locked invoices.
Sealing == HashesKept /\ Serial /\ ~LinesOfLocked

LEMMA SealedStep ==
    Sealing /\ FrozenInv /\ SealedIntact /\ [Next]_vars => SealedIntact'
<1> SUFFICES ASSUME Sealing, FrozenInv, SealedIntact, [Next]_vars,
                    NEW i \in stored',
                    rows'[i].hash # None, rows'[i].stornoOf = None
             PROVE  rows'[i].hash = [head |-> rows'[i].head,
                                     total |-> rows'[i].total,
                                     lines |-> lines'[i]]
  BY DEF SealedIntact, ContentOf
<1>1. Frozen /\ Hashed
  BY FrozenStep DEF Sealing
<1>2. CASE ~(i \in stored /\ rows[i].hash # None)
  BY <1>1, <1>2 DEF Hashed, Sealing
<1>3. CASE i \in stored /\ rows[i].hash # None
  <2>1. rows[i].locked
    BY <1>3 DEF FrozenInv, RowsFrozen, RowFrozen
  <2>2. rows[i].stornoOf = None
    BY <1>1, <1>3, <2>1 DEF Frozen
  <2>3. /\ rows'[i].head = rows[i].head /\ rows'[i].total = rows[i].total
        /\ rows'[i].hash = rows[i].hash
    BY <1>1, <1>3, <2>1, <2>2 DEF Frozen, Sealing
  <2>4. lines'[i] = lines[i]
    <3>1. ASSUME NEW w \in Workers, Request(w) \/ Statement(w)
          PROVE  lines'[i] = lines[i]
      <4>1. task[w].pc = "cn_copy" => i # task[w].cn
        BY <2>2, FrozenTask DEF CnPCs
      <4> QED  BY <1>3, <2>1, <3>1, <4>1, LinesFrozen DEF LinesKept, Sealing
    <3>2. CASE UNCHANGED lines
      BY <3>2
    <3> QED  BY <3>1, <3>2 DEF Next, Crash, RetentionEnds, vars, db
  <2>5. rows[i].hash = [head |-> rows[i].head, total |-> rows[i].total,
                        lines |-> lines[i]]
    BY <1>3, <2>2 DEF SealedIntact, ContentOf
  <2> QED  BY <2>3, <2>4, <2>5
<1> QED  BY <1>2, <1>3

LEMMA SealedInit == Init => SealedIntact
<1> SUFFICES ASSUME Init PROVE SealedIntact
  OBVIOUS
<1>1. CASE stored = {}
  BY <1>1 DEF SealedIntact
<1>2. CASE \E s \in InitStatuses, ls \in SUBSET Amounts :
             /\ stored = {1}
             /\ rows = [i \in Ids |-> IF i = 1 THEN Settled(s, AnyHead, ls)
                                               ELSE BlankRow]
             /\ lines = [i \in Ids |-> IF i = 1 THEN ls ELSE {}]
  <2> PICK s \in InitStatuses, ls \in SUBSET Amounts :
             /\ stored = {1}
             /\ rows = [i \in Ids |-> IF i = 1 THEN Settled(s, AnyHead, ls)
                                               ELSE BlankRow]
             /\ lines = [i \in Ids |-> IF i = 1 THEN ls ELSE {}]
    BY <1>2
  <2> DEFINE m == Settled(s, AnyHead, ls)
             h == [head |-> AnyHead, total |-> ls, lines |-> ls]
  <2>1. rows[1] = m /\ lines[1] = ls
    BY OneIsId
  <2>2. /\ m.head = AnyHead /\ m.total = ls
        /\ m.hash = IF s \in LockStatuses THEN h ELSE None
    BY DEF Settled, BlankRow
  <2> HIDE DEF m
  <2> QED  BY <2>1, <2>2 DEF SealedIntact, ContentOf
<1> QED  BY <1>1, <1>2 DEF Init

\* verify_integrity() succeeds for every sealed invoice that is no credit
\* note: whatever was rendered, saved or cancelled since, the row and the lines
\* are those the hash was computed from.  Premises: nobody edits the lines of
\* locked invoices (the endpoints allow it), and one request at a time, or
\* concurrent ones on invoices that are sealed.
THEOREM SealedStaysIntact ==
    ASSUME ~LinesOfLocked,
           OneAtATime \/ (BornLocked /\ "create" \notin Endpoints)
    PROVE  Spec => []SealedIntact
<1>1. Sealing /\ Serial
  BY DEF Sealing, Serial, HashesKept
<1>2. Init => SealedIntact
  BY SealedInit
<1>3. FrozenInv /\ SealedIntact /\ [Next]_vars => SealedIntact'
  BY <1>1, SealedStep
<1> QED  BY <1>1, <1>2, <1>3, FrozenInvariant, PTL DEF Spec

-----------------------------------------------------------------------------
(* A cancelled invoice is reversed completely.                             *)
(*                                                                         *)
(* cancel() runs through a dozen statements.  While it does, nothing       *)
(* refers to its credit note c (Privates), and the lines copied so far are *)
(* those it took off its list (Copying); only then may a reference to c    *)
(* appear, first in memory and then in a row, and from there on neither of *)
(* the two documents changes (Kept).                                       *)

\* What a reference from invoice i to credit note c stands for.
Kept(i, c, R, L) ==
    /\ R[i].locked
    /\ R[i].stornoOf = None => L[c] = Neg(L[i])
    /\ OneAtATime /\ L[c] # {} => R[c].total = L[c]

Copying(t, R, L) ==
    t.pc \in CnPCs =>
        /\ t.pc \in {"cn_seal", "cn_lines"} => L[t.cn] = {}
        /\ t.pc \in {"cn_copy", "cn_total"} /\ R[t.id].stornoOf = None
             => t.todo \subseteq L[t.id] /\ L[t.cn] = Neg(L[t.id] \ t.todo)
        /\ t.pc = "cn_total" => t.agg = L[t.cn]
        /\ t.pc = "cn_copy" /\ OneAtATime
             => L[t.cn] = {} \/ R[t.cn].total = L[t.cn]

Refers(t) == t.pc \in LoadedPCs /\ t.mem.cancelledBy # None

TaskKept(t, R, L) == Refers(t) => Kept(t.id, t.mem.cancelledBy, R, L)

RowsKept == \A i \in stored : rows[i].cancelledBy # None
                => Kept(i, rows[i].cancelledBy, rows, lines)

TasksKept == \A w \in Workers : /\ TaskKept(task[w], rows, lines)
                                /\ Copying(task[w], rows, lines)

Privates ==
    \A w \in Workers : task[w].pc \in CnPCs =>
        /\ \A i \in stored : rows[i].cancelledBy # task[w].cn
        /\ \A v \in Workers :
             /\ Refers(task[v]) => task[v].mem.cancelledBy # task[w].cn
             /\ v # w /\ task[v].pc \in CnPCs => task[v].cn # task[w].cn

Unused == \A i \in Ids \ stored : lines[i] = {}

ReversalInv == FrozenInv /\ Unused /\ RowsKept /\ TasksKept /\ Privates

\* What a step of worker w does to all this: it leaves locked documents alone
\* but for the credit note it is filling,
OnlyOwnStorno(w) ==
    \A i \in stored :
        rows[i].locked /\ ~(task[w].pc \in CnPCs /\ i = task[w].cn)
            => /\ lines'[i] = lines[i]
               /\ OneAtATime => rows'[i].total = rows[i].total

\* it writes no reference but the one of its instance,
References(w) ==
    \A i \in stored' : rows'[i].cancelledBy # None =>
        /\ i \in stored
        /\ \/ rows'[i].cancelledBy = rows[i].cancelledBy
           \/ /\ Refers(task[w]) /\ i = task[w].id
              /\ rows'[i].cancelledBy = task[w].mem.cancelledBy

\* its instance got the reference from the row, from its last step, or from a
\* cancel() that is complete,
Remembers(o, t) ==
    Refers(t) =>
        \/ t.id \in stored /\ t.mem.cancelledBy = rows[t.id].cancelledBy
        \/ /\ Refers(o) /\ t.id = o.id
           /\ t.mem.cancelledBy = o.mem.cancelledBy
        \/ /\ o.pc \in CnPCs /\ t.pc \notin CnPCs
           /\ t.id = o.id /\ t.mem.cancelledBy = o.cn
           /\ Kept(t.id, t.mem.cancelledBy, rows', lines')

\* and it keeps its credit note, or takes a new key for one.
Owns(o, t) ==
    t.pc \in CnPCs => \/ o.pc \in CnPCs /\ t.cn = o.cn
                      \/ t.cn \notin stored

Shape(w, t) ==
    /\ task' = [task EXCEPT ![w] = t]
    /\ OnlyOwnStorno(w)
    /\ References(w)
    /\ Remembers(task[w], t)
    /\ Owns(task[w], t)
    /\ Copying(t, rows', lines')
    /\ Unused'

\* The documents a reference is about, and why no step of w disturbs them.
LEMMA KeptStable ==
    ASSUME ReversalInv, Frozen, NEW w \in Workers, OnlyOwnStorno(w),
           ~LinesOfLocked, NEW i \in stored, NEW c \in Ids,
           Link(i, c, stored, rows), Kept(i, c, rows, lines),
           task[w].pc \in CnPCs => c # task[w].cn
    PROVE  Kept(i, c, rows', lines')
<1>1. /\ c \in stored /\ rows[c].stornoOf # None /\ rows[c].locked
      /\ rows[i].locked
  BY TypesHere DEF ReversalInv, FrozenInv, Link, RowGood, Kept
<1>2. rows[i].stornoOf = None /\ task[w].pc \in CnPCs => i # task[w].cn
  BY FrozenTask DEF ReversalInv
<1>3. /\ rows'[i].locked /\ rows'[i].stornoOf = rows[i].stornoOf
      /\ lines'[c] = lines[c]
      /\ OneAtATime => rows'[c].total = rows[c].total
      /\ rows[i].stornoOf = None => lines'[i] = lines[i]
  BY <1>1, <1>2 DEF Frozen, OnlyOwnStorno
<1> QED  BY <1>3 DEF Kept

\* References in rows and in memory: where they lead, and that it is kept.
LEMMA ReferenceFacts ==
    ASSUME ReversalInv
    PROVE  /\ \A i \in stored : rows[i].cancelledBy # None =>
                /\ rows[i].cancelledBy \in Ids
                /\ Link(i, rows[i].cancelledBy, stored, rows)
                /\ Kept(i, rows[i].cancelledBy, rows, lines)
           /\ \A v \in Workers : Refers(task[v]) =>
                /\ task[v].id \in stored
                /\ task[v].mem.cancelledBy \in Ids
                /\ Link(task[v].id, task[v].mem.cancelledBy, stored, rows)
                /\ Kept(task[v].id, task[v].mem.cancelledBy, rows, lines)
<1>1. ASSUME NEW i \in stored, rows[i].cancelledBy # None
      PROVE  /\ rows[i].cancelledBy \in Ids
             /\ Link(i, rows[i].cancelledBy, stored, rows)
             /\ Kept(i, rows[i].cancelledBy, rows, lines)
  BY <1>1, TypesHere DEF ReversalInv, FrozenInv, RowGood, Link, RowsKept
<1>2. ASSUME NEW v \in Workers, Refers(task[v])
      PROVE  /\ task[v].id \in stored
             /\ task[v].mem.cancelledBy \in Ids
             /\ Link(task[v].id, task[v].mem.cancelledBy, stored, rows)
             /\ Kept(task[v].id, task[v].mem.cancelledBy, rows, lines)
  <2>1. /\ task[v].id \in stored
        /\ Link(task[v].id, task[v].mem.cancelledBy, stored, rows)
    BY <1>2, FrozenTask DEF ReversalInv, Refers, TaskGood
  <2> QED
    BY <1>2, <2>1, TypesHere
    DEF ReversalInv, FrozenInv, Link, TasksKept, TaskKept
<1> QED  BY <1>1, <1>2

LEMMA ReversalGood ==
    ASSUME ReversalInv, FrozenInv', Frozen, ~LinesOfLocked,
           NEW w \in Workers, NEW t, Shape(w, t)
    PROVE  ReversalInv'
<1>0. task \in [Workers -> Task] /\ stored \subseteq Ids
  BY DEF ReversalInv, FrozenInv, LockInv, TypeInv, TaskOK, DataOK
<1>1. /\ task'[w] = t
      /\ \A v \in Workers : v # w => task'[v] = task[v]
  BY <1>0 DEF Shape
<1>2. ASSUME NEW i \in stored, rows[i].cancelledBy # None
      PROVE  /\ Kept(i, rows[i].cancelledBy, rows', lines')
             /\ rows[i].cancelledBy \in stored
  <2>1. task[w].pc \in CnPCs => rows[i].cancelledBy # task[w].cn
    BY DEF ReversalInv, Privates
  <2> QED
    BY <1>2, <2>1, ReferenceFacts, KeptStable DEF Shape, Link
<1>3. ASSUME NEW v \in Workers, Refers(task[v])
      PROVE  /\ Kept(task[v].id, task[v].mem.cancelledBy, rows', lines')
             /\ task[v].mem.cancelledBy \in stored
  <2>1. task[w].pc \in CnPCs => task[v].mem.cancelledBy # task[w].cn
    BY <1>3 DEF ReversalInv, Privates
  <2> QED
    BY <1>3, <2>1, ReferenceFacts, KeptStable DEF Shape, Link
<1>4. RowsKept'
  BY <1>2, <1>3 DEF RowsKept, Shape, References
<1>5. TaskKept(t, rows', lines')
  BY <1>2, <1>3 DEF TaskKept, Shape, Remembers, Refers
<1>6. ASSUME NEW v \in Workers, v # w, task[v].pc \in CnPCs
      PROVE  Copying(task[v], rows', lines')
  <2>1. /\ task[v].cn \in stored /\ rows[task[v].cn].locked
        /\ task[v].id \in stored /\ rows[task[v].id].locked
        /\ task[w].pc \in CnPCs => /\ task[v].cn # task[w].cn
                                   /\ rows[task[w].cn].stornoOf # None
    BY <1>6, FrozenTask
    DEF ReversalInv, Privates, TaskFrozen, LoadedPCs
  <2>2. /\ lines'[task[v].cn] = lines[task[v].cn]
        /\ rows'[task[v].id].stornoOf = rows[task[v].id].stornoOf
        /\ rows[task[v].id].stornoOf = None
             => lines'[task[v].id] = lines[task[v].id]
    BY <2>1 DEF Shape, OnlyOwnStorno, Frozen
  <2>3. ~OneAtATime
    BY <1>6 DEF OneAtATime
  <2> QED  BY <2>2, <2>3 DEF ReversalInv, TasksKept, Copying
<1>7. TasksKept'
  <2> SUFFICES ASSUME NEW v \in Workers
               PROVE  /\ TaskKept(task'[v], rows', lines')
                      /\ Copying(task'[v], rows', lines')
    BY DEF TasksKept
  <2>1. CASE v = w
    BY <1>1, <1>5, <2>1 DEF Shape
  <2>2. CASE v # w
    BY <1>1, <1>3, <1>6, <2>2 DEF TaskKept, Copying
  <2> QED  BY <2>1, <2>2
<1>8. Privates'
  <2> SUFFICES ASSUME NEW u \in Workers, task'[u].pc \in CnPCs
               PROVE  /\ \A i \in stored' : rows'[i].cancelledBy # task'[u].cn
                      /\ \A v \in Workers :
                           /\ Refers(task'[v])
                                => task'[v].mem.cancelledBy # task'[u].cn
                           /\ v # u /\ task'[v].pc \in CnPCs
                                => task'[v].cn # task'[u].cn
    BY DEF Privates
  <2> DEFINE c == task'[u].cn
  <2>1. \/ task[u].pc \in CnPCs /\ c = task[u].cn
        \/ u = w /\ c \notin stored
    BY <1>1 DEF Shape, Owns
  <2>2. \A i \in stored : rows[i].cancelledBy # None => rows[i].cancelledBy # c
    BY <1>2, <2>1 DEF ReversalInv, Privates
  <2>3. \A v \in Workers : Refers(task[v]) => task[v].mem.cancelledBy # c
    BY <1>3, <2>1 DEF ReversalInv, Privates
  <2>4. \A v \in Workers : v # u /\ task[v].pc \in CnPCs => task[v].cn # c
    BY <2>1, FrozenTask DEF ReversalInv, Privates
  <2>5. c \in Ids /\ c # None
    BY NoneAssumption DEF FrozenInv, LockInv, TypeInv, TaskOK, CnKnown
  <2> HIDE DEF c
  <2>6. \A i \in stored' : rows'[i].cancelledBy # c
    BY <2>2, <2>3, <2>5 DEF Shape, References
  <2>7. \A v \in Workers : Refers(task'[v]) => task'[v].mem.cancelledBy # c
    <3> SUFFICES ASSUME NEW v \in Workers, Refers(task'[v])
                 PROVE  task'[v].mem.cancelledBy # c
      OBVIOUS
    <3>1. CASE v # w
      BY <1>1, <2>3, <3>1
    <3>2. CASE v = w
      <4>1. u = w => t.pc \in CnPCs
        BY <1>1
      <4>2. task[w].pc \in CnPCs /\ u # w => task[w].cn # c
        BY <2>4
      <4> QED
        BY <1>1, <2>2, <2>3, <3>2, <4>1, <4>2 DEF Shape, Remembers, Refers
    <3> QED  BY <3>1, <3>2
  <2>8. \A v \in Workers : v # u /\ task'[v].pc \in CnPCs => task'[v].cn # c
    <3> SUFFICES ASSUME NEW v \in Workers, v # u, task'[v].pc \in CnPCs
                 PROVE  task'[v].cn # c
      OBVIOUS
    <3>1. CASE v # w
      BY <1>1, <2>4, <3>1
    <3>2. CASE v = w
      <4>1. task[u].pc \in CnPCs /\ c = task[u].cn /\ c \in stored
        BY <2>1, <3>2, FrozenTask DEF ReversalInv
      <4> QED  BY <1>1, <2>4, <3>2, <4>1 DEF Shape, Owns
    <3> QED  BY <3>1, <3>2
  <2> QED  BY <2>6, <2>7, <2>8 DEF c
<1> QED  BY <1>4, <1>7, <1>8 DEF ReversalInv, Shape

LEMMA IdleShape ==
    ASSUME NEW o PROVE Remembers(o, Idle) /\ Owns(o, Idle)
                       /\ \A R, L : Copying(Idle, R, L)
  BY DEF Remembers, Owns, Copying, Refers, Idle, LoadedPCs, CnPCs

\* A step that touches neither table.
LEMMA ReadShape ==
    ASSUME ReversalInv, NEW w \in Workers, NEW t,
           task' = [task EXCEPT ![w] = t],
           stored' = stored, rows' = rows, lines' = lines,
           Remembers(task[w], t), Owns(task[w], t), Copying(t, rows, lines)
    PROVE  Shape(w, t)
  BY DEF Shape, OnlyOwnStorno, References, Unused, ReversalInv

\* A request that loads invoice i.
LEMMA LoadShape ==
    ASSUME ReversalInv, NEW w \in Workers, NEW i \in stored, NEW m,
           NEW pc \in LoadedPCs \ CnPCs, Begin(w, i, m, pc),
           m.cancelledBy = rows[i].cancelledBy, UNCHANGED db
    PROVE  \E t : Shape(w, t)
<1> DEFINE t == [Idle EXCEPT !.id = i, !.mem = m, !.pc = pc]
<1>1. t.id = i /\ t.mem = m /\ t.pc = pc
  BY DEF Idle
<1>2. task' = [task EXCEPT ![w] = t]
  BY DEF Begin
<1> HIDE DEF t
<1>3. Remembers(task[w], t) /\ Owns(task[w], t) /\ Copying(t, rows, lines)
  BY <1>1 DEF Remembers, Owns, Copying
<1> QED  BY <1>2, <1>3, ReadShape DEF db

\* Where the tables change: in the rows by one column or a new row, in the
\* lines by a client.
LEMMA ChangeShape ==
    ASSUME ReversalInv, NEW w \in Workers, Request(w) \/ Statement(w),
           ~LinesOfLocked, NEW t, task' = [task EXCEPT ![w] = t],
           stored \subseteq stored',
           \A i \in Ids : i \notin stored => lines'[i] = lines[i],
           OneAtATime => \A i \in stored :
               rows[i].locked /\ ~(task[w].pc \in CnPCs /\ i = task[w].cn)
                   => rows'[i].total = rows[i].total,
           References(w),
           Remembers(task[w], t), Owns(task[w], t), Copying(t, rows', lines')
    PROVE  Shape(w, t)
<1>1. LinesKept(w)
  BY LinesFrozen DEF ReversalInv
<1>2. OnlyOwnStorno(w)
  BY <1>1 DEF OnlyOwnStorno, LinesKept, CnPCs
<1>3. Unused'
  BY DEF ReversalInv, Unused
<1> QED  BY <1>2, <1>3 DEF Shape

LEMMA RequestShape ==
    ASSUME ReversalInv, ~LinesOfLocked, NEW w \in Workers, Request(w)
    PROVE  \E t : Shape(w, t)
<1> USE DEF LoadedPCs, CnPCs
<1>0. /\ stored \subseteq Ids /\ \A i \in stored : rows[i] \in Row
      /\ rows \in [Ids -> Row] /\ task \in [Workers -> Task]
      /\ \A i \in stored : i # nextId
  BY TypesHere
  DEF ReversalInv, FrozenInv, RowGood, LockInv, TypeInv, DataOK, TaskOK
<1>1. CASE Create(w)
  <2> PICK s \in NewStatuses, h \in Heads :
        LET m == Lock([BlankRow EXCEPT !.status = s, !.head = h]) IN
        /\ rows' = [rows EXCEPT ![nextId] = m]
        /\ IF NeedsSeal(m) THEN Begin(w, nextId, m, "seal")
                           ELSE UNCHANGED task
    BY <1>1 DEF Create
  <2> DEFINE b == [BlankRow EXCEPT !.status = s, !.head = h]
             m == Lock(b)
             t == [Idle EXCEPT !.id = nextId, !.mem = m, !.pc = "seal"]
  <2>1. /\ s \in Statuses /\ nextId \in Ids /\ task[w].pc = "idle"
        /\ stored' = stored \cup {nextId} /\ lines' = lines
    BY <1>1, StatusAssumption DEF Create, Call
  <2>2. b \in Row /\ b.cancelledBy = None
    BY <2>1, BlankRowType DEF Row, BlankRow
  <2> HIDE DEF b
  <2>3. m.cancelledBy = None
    BY <2>2 DEF Lock, Row
  <2>4. rows' = [rows EXCEPT ![nextId] = m]
    BY DEF b
  <2> HIDE DEF m
  <2>5. References(w)
    BY <1>0, <2>1, <2>3, <2>4 DEF References
  <2>6. \A i \in stored : rows'[i].total = rows[i].total
    BY <1>0, <2>4
  <2>7. CASE task' = [task EXCEPT ![w] = t]
    <3>1. t.pc = "seal" /\ t.mem = m
      BY DEF Idle
    <3> HIDE DEF t
    <3>2. Remembers(task[w], t) /\ Owns(task[w], t) /\ Copying(t, rows', lines')
      BY <2>3, <3>1 DEF Remembers, Owns, Copying, Refers
    <3> QED  BY <2>1, <2>5, <2>6, <2>7, <3>2, ChangeShape
  <2>8. CASE UNCHANGED task
    <3>1. task' = [task EXCEPT ![w] = task[w]]
      BY <1>0, <2>8
    <3>2. /\ Remembers(task[w], task[w]) /\ Owns(task[w], task[w])
          /\ Copying(task[w], rows', lines')
      BY <2>1 DEF Remembers, Owns, Copying, Refers
    <3> QED  BY <2>1, <2>5, <2>6, <3>1, <3>2, ChangeShape
  <2> QED  BY <2>7, <2>8 DEF Begin, m, b
<1>2. ASSUME NEW i \in stored, Patch(w, i) PROVE \E t : Shape(w, t)
  <2> PICK s \in PatchStatuses \cup {rows[i].status}, h \in Heads :
        Begin(w, i, [rows[i] EXCEPT !.status = s, !.head = h], "check")
    BY <1>2 DEF Patch
  <2> DEFINE m == [rows[i] EXCEPT !.status = s, !.head = h]
  <2>1. m.cancelledBy = rows[i].cancelledBy
    BY <1>0 DEF Row
  <2> HIDE DEF m
  <2> QED  BY <1>2, <2>1, LoadShape DEF Patch, m
<1>3. ASSUME NEW i \in stored, NEW s \in {"SENT", "PAID"}, UNCHANGED db,
             Begin(w, i, [rows[i] EXCEPT !.status = s], "check")
      PROVE  \E t : Shape(w, t)
  <2> DEFINE m == [rows[i] EXCEPT !.status = s]
  <2>1. m.cancelledBy = rows[i].cancelledBy
    BY <1>0 DEF Row
  <2> HIDE DEF m
  <2> QED  BY <1>3, <2>1, LoadShape DEF m
<1>4. ASSUME NEW i \in stored, UNCHANGED db,
             NEW pc \in {"check", "cn_insert", "delete"}, Begin(w, i, rows[i], pc)
      PROVE  \E t : Shape(w, t)
  BY <1>4, LoadShape
<1>5. ASSUME NEW i \in stored, Destroy(w, i) PROVE \E t : Shape(w, t)
  <2> DEFINE m == Lock([rows[i] EXCEPT !.archived = TRUE])
  <2>1. CASE Begin(w, i, rows[i], "delete")
    BY <1>4, <1>5, <2>1 DEF Destroy
  <2>2. CASE Begin(w, i, m, "write")
    <3>1. m.cancelledBy = rows[i].cancelledBy
      BY <1>0 DEF Row, Lock
    <3> HIDE DEF m
    <3> QED  BY <1>5, <2>2, <3>1, LoadShape DEF Destroy
  <2> QED  BY <1>5, <2>1, <2>2 DEF Destroy
<1>6. ASSUME NEW i \in stored, SaveLine(w, i) PROVE \E t : Shape(w, t)
  <2> PICK ls : /\ lines' = [lines EXCEPT ![i] = ls]
                /\ task' = [task EXCEPT ![w] =
                     [Idle EXCEPT !.id = i, !.pc = "total", !.agg = ls]]
    BY <1>6 DEF SaveLine
  <2> DEFINE t == [Idle EXCEPT !.id = i, !.pc = "total", !.agg = ls]
  <2>1. t.pc = "total"
    BY DEF Idle
  <2>2. task' = [task EXCEPT ![w] = t] /\ stored' = stored /\ rows' = rows
    BY <1>6 DEF SaveLine
  <2> HIDE DEF t
  <2>3. /\ Remembers(task[w], t) /\ Owns(task[w], t)
        /\ Copying(t, rows', lines') /\ References(w)
    BY <2>1, <2>2 DEF Remembers, Owns, Copying, Refers, References
  <2>4. \A j \in Ids : j \notin stored => lines'[j] = lines[j]
    BY DEF ReversalInv, FrozenInv, LockInv, TypeInv, DataOK
  <2> QED  BY <2>2, <2>3, <2>4, ChangeShape
<1>7. ASSUME NEW i \in stored, DeleteLine(w, i) PROVE \E t : Shape(w, t)
  <2>1. /\ task' = [task EXCEPT ![w] = task[w]] /\ task[w].pc = "idle"
        /\ stored' = stored /\ rows' = rows
        /\ \E ls : lines' = [lines EXCEPT ![i] = ls]
    BY <1>0, <1>7 DEF DeleteLine, Call
  <2>2. /\ Remembers(task[w], task[w]) /\ Owns(task[w], task[w])
        /\ Copying(task[w], rows', lines') /\ References(w)
    BY <2>1 DEF Remembers, Owns, Copying, Refers, References
  <2>3. \A j \in Ids : j \notin stored => lines'[j] = lines[j]
    BY <2>1 DEF ReversalInv, FrozenInv, LockInv, TypeInv, DataOK
  <2> QED  BY <2>1, <2>2, <2>3, ChangeShape
<1> QED
  <2>1. ASSUME NEW i \in stored, MarkAsSent(w, i) \/ MarkAsPaid(w, i)
        PROVE  \E t : Shape(w, t)
    BY <1>3, <2>1 DEF MarkAsSent, MarkAsPaid
  <2>2. ASSUME NEW i \in stored, GenerateFiles(w, i) \/ Cancel(w, i)
        PROVE  \E t : Shape(w, t)
    BY <1>4, <2>2 DEF GenerateFiles, Cancel
  <2> QED
    BY <1>1, <1>2, <1>5, <1>6, <1>7, <2>1, <2>2 DEF Request

LEMMA NegNothing == Neg({}) = {}
  BY DEF Neg

\* cancel() turns to the original: its credit note is complete.
LEMMA CloseShape ==
    ASSUME ReversalInv, NEW w \in Workers, task[w].pc \in CnPCs,
           CloseOriginal(w, task[w]),
           Kept(task[w].id, task[w].cn, rows', lines')
    PROVE  \E t : /\ task' = [task EXCEPT ![w] = t]
                  /\ Remembers(task[w], t) /\ Owns(task[w], t)
                  /\ Copying(t, rows', lines')
<1> PICK t \in Task : /\ task' = [task EXCEPT ![w] = t]
                      /\ t.id = task[w].id /\ t.pc = "write"
                      /\ t.mem.cancelledBy = task[w].cn
  BY CloseFrozen DEF ReversalInv
<1>1. t.pc \notin CnPCs
  BY DEF CnPCs
<1>2. Remembers(task[w], t)
  BY <1>1 DEF Remembers
<1> QED  BY <1>1, <1>2 DEF Owns, Copying

LEMMA StatementShape ==
    ASSUME ReversalInv, ~LinesOfLocked, NEW w \in Workers, Statement(w)
    PROVE  \E t : Shape(w, t)
<1> DEFINE o == task[w]
<1>0. o = task[w]
  OBVIOUS
<1>1. /\ o \in Task /\ o.mem \in Row /\ o.id \in Ids
      /\ TaskFrozen(o, stored, rows)
      /\ o.pc \in LoadedPCs => o.id \in stored
      /\ o.pc \in CnPCs => /\ o.cn \in Ids /\ o.cn \in stored /\ o.cn # o.id
                           /\ rows[o.cn].stornoOf # None
                           /\ rows[o.id].locked
  BY FrozenTask DEF ReversalInv, TaskFrozen, LoadedPCs
<1>2. /\ stored \subseteq Ids /\ rows \in [Ids -> Row]
      /\ task \in [Workers -> Task] /\ lines \in [Ids -> SUBSET Lines]
      /\ nextId \notin stored
      /\ Copying(o, rows, lines) /\ Unused
  BY TypesHere
  DEF ReversalInv, TasksKept, FrozenInv, LockInv, TypeInv, DataOK, TaskOK,
      RowGood
<1> HIDE DEF o
<1>3. CASE CheckLock(w)
  <2>1. o.pc = "check" /\ stored' = stored /\ rows' = rows /\ lines' = lines
    BY <1>0, <1>3 DEF CheckLock, db
  <2>2. CASE Finish(w)
    BY <2>1, <2>2, IdleShape, ReadShape DEF Finish
  <2>3. CASE task' = [task EXCEPT ![w].pc = "write", ![w].mem = Lock(o.mem)]
    <3> DEFINE m == Lock(o.mem)
               t == [o EXCEPT !.pc = "write", !.mem = m]
    <3>1. task' = [task EXCEPT ![w] = t]
      BY <1>0, <1>2, <2>3 DEF Task
    <3>2. m.cancelledBy = o.mem.cancelledBy
      BY <1>1 DEF Lock, Row
    <3> HIDE DEF m
    <3>3. t.pc = "write" /\ t.mem = m /\ t.id = o.id
      BY <1>1 DEF Task
    <3> HIDE DEF t
    <3>4. Remembers(o, t) /\ Owns(o, t) /\ Copying(t, rows, lines)
      BY <2>1, <3>2, <3>3
      DEF Remembers, Refers, Owns, Copying, LoadedPCs, CnPCs
    <3> QED  BY <1>0, <2>1, <3>1, <3>4, ReadShape
  <2> QED  BY <1>0, <1>3, <2>2, <2>3 DEF CheckLock
<1>4. CASE WriteRow(w)
  <2>1. /\ o.pc = "write" /\ o.id \in stored /\ stored' = stored
        /\ rows' = [rows EXCEPT ![o.id] = o.mem] /\ lines' = lines
    BY <1>0, <1>1, <1>4 DEF WriteRow, LoadedPCs
  <2>2. rows'[o.id] = o.mem /\ \A i \in Ids : i # o.id => rows'[i] = rows[i]
    BY <1>1, <1>2, <2>1
  <2>3. References(w)
    BY <1>0, <1>2, <2>1, <2>2 DEF References, Refers, LoadedPCs
  <2>4. OneAtATime => \A i \in stored :
          rows[i].locked => rows'[i].total = rows[i].total
    BY <1>1, <1>2, <2>1, <2>2 DEF TaskFrozen, LoadedPCs, Current
  <2>5. CASE Finish(w)
    BY <1>4, <2>1, <2>3, <2>4, <2>5, IdleShape, ChangeShape
    DEF Finish, Statement
  <2>6. CASE Goto(w, "seal")
    <3> DEFINE t == [o EXCEPT !.pc = "seal"]
    <3>1. task' = [task EXCEPT ![w] = t]
      BY <1>0, <2>6 DEF Goto
    <3>2. t.pc = "seal" /\ t.mem = o.mem /\ t.id = o.id
      BY <1>1 DEF Task
    <3> HIDE DEF t
    <3>3. Remembers(o, t) /\ Owns(o, t) /\ Copying(t, rows', lines')
      BY <2>1, <3>2 DEF Remembers, Refers, Owns, Copying, LoadedPCs, CnPCs
    <3> QED
      BY <1>0, <1>4, <2>1, <2>3, <2>4, <3>1, <3>3, ChangeShape DEF Statement
  <2> QED  BY <1>4, <2>5, <2>6 DEF WriteRow
<1>5. CASE Seal(w)
  <2>1. stored' = stored /\ lines' = lines /\ Finish(w)
    BY <1>5 DEF Seal
  <2>2. /\ Untouched(rows, rows')
        /\ \A c \in Ids : rows'[c].total = rows[c].total
    BY <1>0, <1>1, <1>2, <1>5, HashUntouched, HashColumn DEF Seal
  <2>3. References(w)
    BY <1>2, <2>1, <2>2 DEF References, Untouched
  <2> QED
    BY <1>2, <1>5, <2>1, <2>2, <2>3, IdleShape, ChangeShape
    DEF Finish, Statement
<1>6. CASE HardDelete(w)
  <2>1. /\ ~rows[o.id].locked /\ stored' = stored \ {o.id}
        /\ lines' = [lines EXCEPT ![o.id] = {}]
        /\ \A j \in Ids : j # o.id =>
             rows'[j] = IF rows[j].cancelledBy = o.id
                          THEN [rows[j] EXCEPT !.cancelledBy = None]
                          ELSE rows[j]
        /\ Finish(w)
    BY <1>0, <1>1, <1>6 DEF HardDelete, TaskFrozen, LoadedPCs, Current
  <2>2. \A j \in Ids : j # o.id =>
          /\ rows'[j].total = rows[j].total
          /\ rows'[j].cancelledBy # None
               => rows'[j].cancelledBy = rows[j].cancelledBy
    <3> TAKE j \in Ids
    <3> HAVE j # o.id
    <3>1. rows[j] \in Row
          /\ rows'[j] = IF rows[j].cancelledBy = o.id
                          THEN [rows[j] EXCEPT !.cancelledBy = None]
                          ELSE rows[j]
      BY <1>2, <2>1
    <3> QED  BY <3>1 DEF Row
  <2>3. OnlyOwnStorno(w) /\ References(w) /\ Unused'
    BY <1>1, <1>2, <2>1, <2>2 DEF OnlyOwnStorno, References, Unused
  <2> QED  BY <2>1, <2>3, IdleShape DEF Finish, Shape
<1>7. CASE InsertStorno(w)
  <2> DEFINE m == Storno(o.id, o.mem)
             t == [o EXCEPT !.pc = "cn_seal", !.cn = nextId]
  <2>1. /\ nextId \in Ids /\ o.pc = "cn_insert" /\ lines' = lines
        /\ stored' = stored \cup {nextId}
        /\ rows' = [rows EXCEPT ![nextId] = m]
    BY <1>0, <1>7 DEF InsertStorno
  <2>2. task' = [task EXCEPT ![w] = t]
    BY <1>0, <1>2, <1>7 DEF InsertStorno, Task
  <2>3. m.cancelledBy = None
    <3> DEFINE b == [BlankRow EXCEPT !.status = "SENT", !.head = o.mem.head,
                         !.total = Neg(o.mem.total), !.stornoOf = o.id]
    <3>1. b.cancelledBy = None /\ b \in [status : {"SENT"}, locked : BOOLEAN,
                 hash : {None}, head : {o.mem.head},
                 total : {Neg(o.mem.total)}, cancelledBy : {None},
                 stornoOf : {o.id}, archived : BOOLEAN]
      BY DEF BlankRow
    <3> HIDE DEF b
    <3> QED  BY <3>1 DEF Storno, Lock, b
  <2> HIDE DEF m
  <2>4. t.pc = "cn_seal" /\ t.id = o.id /\ t.mem = o.mem /\ t.cn = nextId
    BY <1>1, <2>1 DEF Task
  <2> HIDE DEF t
  <2>5. /\ \A i \in stored : rows'[i] = rows[i]
        /\ rows'[nextId] = m /\ lines'[nextId] = {}
    BY <1>2, <2>1 DEF Unused
  <2>6. References(w)
    BY <1>2, <2>1, <2>3, <2>5 DEF References
  <2>7. Remembers(o, t) /\ Owns(o, t) /\ Copying(t, rows', lines')
    BY <1>2, <2>1, <2>4, <2>5
    DEF Remembers, Refers, Owns, Copying, LoadedPCs, CnPCs
  <2> QED
    BY <1>0, <1>7, <2>1, <2>2, <2>5, <2>6, <2>7, ChangeShape DEF Statement
<1>8. CASE SealStorno(w)
  <2> DEFINE t == [o EXCEPT !.pc = "cn_lines"]
  <2>1. /\ o.pc = "cn_seal" /\ o.pc \in CnPCs
        /\ stored' = stored /\ lines' = lines
    BY <1>0, <1>8 DEF SealStorno, CnPCs
  <2>2. task' = [task EXCEPT ![w] = t]
    BY <1>0, <1>8 DEF SealStorno, Goto
  <2>3. t.pc = "cn_lines" /\ t.id = o.id /\ t.mem = o.mem /\ t.cn = o.cn
    BY <1>1 DEF Task
  <2> HIDE DEF t
  <2>4. /\ Untouched(rows, rows')
        /\ \A c \in Ids : rows'[c].total = rows[c].total
    BY <1>0, <1>1, <1>2, <1>8, <2>1, HashUntouched, HashColumn
    DEF SealStorno
  <2>5. References(w)
    BY <1>2, <2>1, <2>4 DEF References, Untouched
  <2>6. Remembers(o, t) /\ Owns(o, t) /\ Copying(t, rows', lines')
    BY <1>2, <2>1, <2>3
    DEF Remembers, Refers, Owns, Copying, LoadedPCs, CnPCs
  <2> QED
    BY <1>0, <1>2, <1>8, <2>1, <2>2, <2>4, <2>5, <2>6, ChangeShape
    DEF Statement
<1>9. CASE ReadLines(w)
  <2>1. /\ o.pc = "cn_lines" /\ o.pc \in CnPCs
        /\ stored' = stored /\ rows' = rows /\ lines' = lines
        /\ lines[o.cn] = {}
    BY <1>0, <1>2, <1>9 DEF ReadLines, CnPCs, db, Copying
  <2>2. CASE lines[o.id] = {}
    <3>1. Kept(o.id, o.cn, rows', lines')
      BY <1>1, <2>1, <2>2, NegNothing DEF Kept
    <3>2. CloseOriginal(w, task[w])
      BY <1>0, <1>9, <2>2 DEF ReadLines
    <3>3. PICK t : /\ task' = [task EXCEPT ![w] = t]
                   /\ Remembers(task[w], t) /\ Owns(task[w], t)
                   /\ Copying(t, rows', lines')
      BY <1>0, <2>1, <3>1, <3>2, CloseShape
    <3> QED  BY <2>1, <3>3, ReadShape
  <2>3. CASE lines[o.id] # {}
    <3> DEFINE t == [o EXCEPT !.pc = "cn_copy", !.todo = lines[o.id]]
    <3>1. task' = [task EXCEPT ![w] = t]
      BY <1>0, <1>2, <1>9, <2>3 DEF ReadLines, Task
    <3>2. /\ t.pc = "cn_copy" /\ t.id = o.id /\ t.mem = o.mem /\ t.cn = o.cn
          /\ t.todo = lines[o.id]
      BY <1>1 DEF Task
    <3> HIDE DEF t
    <3>3. lines[o.id] \ lines[o.id] = {}
      OBVIOUS
    <3>4. Copying(t, rows, lines)
      BY <2>1, <3>2, <3>3, NegNothing DEF Copying
    <3>5. Remembers(o, t) /\ Owns(o, t)
      BY <2>1, <3>2 DEF Remembers, Refers, Owns, LoadedPCs
    <3> QED  BY <1>0, <2>1, <3>1, <3>4, <3>5, ReadShape
  <2> QED  BY <2>2, <2>3
<1>10. CASE CopyLine(w)
  <2>1. /\ o.pc = "cn_copy" /\ o.pc \in CnPCs
        /\ stored' = stored /\ rows' = rows
    BY <1>0, <1>10 DEF CopyLine, CnPCs
  <2> PICK x \in o.todo :
        LET ls == lines[o.cn] \cup {-x} IN
        /\ lines' = [lines EXCEPT ![o.cn] = ls]
        /\ task' = [task EXCEPT ![w].pc = "cn_total", ![w].agg = ls,
                                ![w].todo = o.todo \ {x}]
    BY <1>0, <1>10 DEF CopyLine
  <2> DEFINE t == [o EXCEPT !.pc = "cn_total", !.todo = o.todo \ {x},
                            !.agg = lines[o.cn] \cup {-x}]
  <2>2. task' = [task EXCEPT ![w] = t]
    BY <1>0, <1>2 DEF Task
  <2>3. /\ t.pc = "cn_total" /\ t.id = o.id /\ t.mem = o.mem /\ t.cn = o.cn
        /\ t.todo = o.todo \ {x} /\ t.agg = lines[o.cn] \cup {-x}
    BY <1>1 DEF Task
  <2> HIDE DEF t
  <2>4. /\ lines'[o.cn] = lines[o.cn] \cup {-x}
        /\ \A j \in Ids : j # o.cn => lines'[j] = lines[j]
    BY <1>1, <1>2, <2>1
  <2>5. rows[o.id].stornoOf = None =>
          /\ t.todo \subseteq lines[o.id]
          /\ lines'[o.cn] = Neg(lines[o.id] \ t.todo)
    <3> SUFFICES ASSUME rows[o.id].stornoOf = None
                 PROVE  /\ t.todo \subseteq lines[o.id]
                        /\ lines'[o.cn] = Neg(lines[o.id] \ t.todo)
      OBVIOUS
    <3>1. /\ o.todo \in SUBSET lines[o.id]
          /\ lines[o.cn] = Neg(lines[o.id] \ o.todo)
      BY <1>2, <2>1 DEF Copying
    <3>2. Neg(lines[o.id] \ (o.todo \ {x})) = lines[o.cn] \cup {-x}
      <4>1. lines[o.id] \ (o.todo \ {x}) = (lines[o.id] \ o.todo) \cup {x}
        BY <3>1
      <4> QED  BY <3>1, <4>1 DEF Neg
    <3>3. o.todo \ {x} \subseteq lines[o.id]
      BY <3>1
    <3> QED  BY <2>3, <2>4, <3>1, <3>2, <3>3
  <2>6. Copying(t, rows', lines')
    BY <1>1, <2>1, <2>3, <2>4, <2>5 DEF Copying
  <2>7. Remembers(o, t) /\ Owns(o, t) /\ References(w)
    BY <2>1, <2>3 DEF Remembers, Refers, Owns, References, LoadedPCs
  <2> QED
    BY <1>0, <1>1, <1>10, <2>1, <2>2, <2>4, <2>6, <2>7, ChangeShape
    DEF Statement
<1>11. CASE TotalStorno(w)
  <2>1. /\ o.pc = "cn_total" /\ o.pc \in CnPCs
        /\ stored' = stored /\ lines' = lines /\ SetTotal(o.cn, o.agg)
        /\ AfterCopy(w, o)
    BY <1>0, <1>11 DEF TotalStorno, CnPCs
  <2>2. /\ Untouched(rows, rows')
        /\ \A c \in Ids : c # o.cn => rows'[c].total = rows[c].total
        /\ rows'[o.cn].total = lines[o.cn]
    BY <1>1, <1>2, <2>1, TotalUntouched, TotalColumn DEF Copying
  <2>3. References(w)
    BY <1>2, <2>1, <2>2 DEF References, Untouched
  <2>4. \E t : /\ task' = [task EXCEPT ![w] = t]
               /\ Remembers(o, t) /\ Owns(o, t) /\ Copying(t, rows', lines')
    <3>1. CASE o.todo = {}
      <4>1. rows[o.id].stornoOf = None => lines[o.cn] = Neg(lines[o.id])
        <5>1. lines[o.id] \ {} = lines[o.id]
          OBVIOUS
        <5> QED  BY <1>2, <2>1, <3>1, <5>1 DEF Copying
      <4>2. Kept(o.id, o.cn, rows', lines')
        BY <1>1, <2>1, <2>2, <4>1 DEF Kept, Untouched
      <4> QED
        BY <1>0, <2>1, <3>1, <4>2, CloseShape DEF AfterCopy
    <3>2. CASE o.todo # {}
      <4> DEFINE t == [o EXCEPT !.pc = "cn_copy"]
      <4>1. task' = [task EXCEPT ![w] = t]
        BY <1>0, <2>1, <3>2 DEF AfterCopy, Goto
      <4>2. /\ t.pc = "cn_copy" /\ t.id = o.id /\ t.mem = o.mem
            /\ t.cn = o.cn /\ t.todo = o.todo
        BY <1>1 DEF Task
      <4> HIDE DEF t
      <4>3. Copying(t, rows', lines')
        BY <1>1, <1>2, <2>1, <2>2, <4>2 DEF Copying, Untouched
      <4>4. Remembers(o, t) /\ Owns(o, t)
        BY <2>1, <4>2 DEF Remembers, Refers, Owns, LoadedPCs
      <4> QED  BY <4>1, <4>3, <4>4
    <3> QED  BY <3>1, <3>2
  <2> PICK t : /\ task' = [task EXCEPT ![w] = t]
               /\ Remembers(o, t) /\ Owns(o, t) /\ Copying(t, rows', lines')
    BY <2>4
  <2>5. OneAtATime => \A i \in stored :
          rows[i].locked /\ ~(task[w].pc \in CnPCs /\ i = task[w].cn)
             => rows'[i].total = rows[i].total
    BY <1>0, <1>2, <2>1, <2>2
  <2> QED  BY <1>0, <1>11, <2>1, <2>3, <2>5, ChangeShape DEF Statement
<1>12. CASE UpdateTotals(w)
  <2>1. /\ o.pc = "total" /\ stored' = stored /\ lines' = lines
        /\ ~rows[o.id].locked /\ SetTotal(o.id, o.agg) /\ Finish(w)
    BY <1>0, <1>1, <1>12 DEF UpdateTotals, TaskFrozen
  <2>2. /\ Untouched(rows, rows')
        /\ \A c \in Ids : c # o.id => rows'[c].total = rows[c].total
    BY <1>1, <1>2, <2>1, TotalUntouched, TotalColumn
  <2>3. References(w)
    BY <1>2, <2>1, <2>2 DEF References, Untouched
  <2>4. \A i \in stored : rows[i].locked => rows'[i].total = rows[i].total
    BY <1>2, <2>1, <2>2
  <2> QED
    BY <1>12, <2>1, <2>3, <2>4, IdleShape, ChangeShape DEF Finish, Statement
<1> QED
  BY <1>3, <1>4, <1>5, <1>6, <1>7, <1>8, <1>9, <1>10, <1>11, <1>12
  DEF Statement

LEMMA ReversalStep ==
    ~LinesOfLocked /\ Serial /\ ReversalInv /\ [Next]_vars => ReversalInv'
<1> SUFFICES ASSUME ~LinesOfLocked, Serial, ReversalInv, [Next]_vars
             PROVE  ReversalInv'
  OBVIOUS
<1>0. FrozenInv' /\ Frozen
  BY FrozenStep DEF ReversalInv
<1>1. ASSUME NEW w \in Workers, Request(w) PROVE ReversalInv'
  BY <1>0, <1>1, RequestShape, ReversalGood
<1>2. ASSUME NEW w \in Workers, Statement(w) PROVE ReversalInv'
  BY <1>0, <1>2, StatementShape, ReversalGood
<1>3. ASSUME NEW w \in Workers, Crash(w) PROVE ReversalInv'
  <2>1. Shape(w, Idle)
    BY <1>3, IdleShape, ReadShape DEF Crash, Finish, db
  <2> QED  BY <1>0, <2>1, ReversalGood
<1>4. CASE stored' = stored /\ rows' = rows /\ lines' = lines /\ task' = task
  BY <1>0, <1>4
  DEF ReversalInv, Unused, RowsKept, TasksKept, Privates
<1> QED
  BY <1>1, <1>2, <1>3, <1>4 DEF Next, RetentionEnds, vars, db

LEMMA ReversalInit == Serial /\ Init => ReversalInv
<1> SUFFICES ASSUME Serial, Init PROVE ReversalInv
  OBVIOUS
<1>1. FrozenInv
  BY FrozenInit
<1>2. TasksKept /\ Privates
  <2>1. \A w \in Workers : task[w] = Idle
    BY DEF Init
  <2>2. Idle.pc \notin CnPCs /\ Idle.pc \notin LoadedPCs
    BY DEF Idle, CnPCs, LoadedPCs
  <2> QED
    BY <2>1, <2>2 DEF TasksKept, TaskKept, Copying, Refers, Privates
<1>3. Unused /\ RowsKept
  <2>1. CASE stored = {} /\ lines = [i \in Ids |-> {}]
    BY <2>1 DEF Unused, RowsKept
  <2>2. CASE \E s \in InitStatuses, ls \in SUBSET Amounts :
               /\ stored = {1}
               /\ rows = [i \in Ids |-> IF i = 1 THEN Settled(s, AnyHead, ls)
                                                 ELSE BlankRow]
               /\ lines = [i \in Ids |-> IF i = 1 THEN ls ELSE {}]
    <3> PICK s \in InitStatuses, ls \in SUBSET Amounts :
               /\ stored = {1}
               /\ rows = [i \in Ids |-> IF i = 1 THEN Settled(s, AnyHead, ls)
                                                 ELSE BlankRow]
               /\ lines = [i \in Ids |-> IF i = 1 THEN ls ELSE {}]
      BY <2>2
    <3> DEFINE m == Settled(s, AnyHead, ls)
    <3>1. rows[1] = m
      BY OneIsId
    <3>2. m.cancelledBy = None
      BY DEF Settled, BlankRow
    <3> HIDE DEF m
    <3> QED  BY <3>1, <3>2 DEF Unused, RowsKept
  <2> QED  BY <2>1, <2>2 DEF Init
<1> QED  BY <1>1, <1>2, <1>3 DEF ReversalInv

LEMMA ReversalInvariant ==
    ASSUME ~LinesOfLocked, Serial PROVE Spec => []ReversalInv
<1>1. Init => ReversalInv
  BY ReversalInit
<1>2. ReversalInv /\ [Next]_vars => ReversalInv'
  BY ReversalStep
<1> QED  BY <1>1, <1>2, PTL DEF Spec

\* An invoice that refers to a credit note is reversed there line by line,
\* whatever crashes, repeats or interleaves with cancel(): for one request at a
\* time, and for concurrent ones where no invoice is an unlocked draft.  (With
\* drafts, a stale PATCH may write a locked invoice back as an unlocked one,
\* whose lines then change.)
THEOREM CancelledIsReversed ==
    ASSUME ~LinesOfLocked, OneAtATime \/ BornLocked
    PROVE  Spec => []StornoComplete
<1>1. Serial
  BY DEF Serial
<1>2. ReversalInv => StornoComplete
  BY DEF ReversalInv, RowsKept, Kept, StornoComplete
<1> QED  BY <1>1, <1>2, ReversalInvariant, PTL

\* The credit note of a cancelled invoice states the sum of its own lines, for
\* one request at a time.  (A second one can load a credit note while cancel()
\* still fills it and write the old total back.)
THEOREM StornoStatesItsTotals ==
    ASSUME ~LinesOfLocked, OneAtATime
    PROVE  Spec => []StornoTotals
<1>1. Serial
  BY DEF Serial
<1>2. ReversalInv => StornoTotals
  BY DEF ReversalInv, RowsKept, Kept, StornoTotals
<1> QED  BY <1>1, <1>2, ReversalInvariant, PTL
=============================================================================
