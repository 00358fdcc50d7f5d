-------------------------- MODULE MasterDataProofs --------------------------
(***************************************************************************)
(* Proofs about MasterData, for any number of workers, rows, rates and      *)
(* requests:                                                               *)
(*   TypeCorrect           the unique columns stay unique;                 *)
(*   GeneratedCodeIsFree   so is the code an import generates next,        *)
(*   GeneratedNumberIsFree and the number a partner gets next;             *)
(*   SuccessfulRowsAreThere  rows that did not fail are in the table;      *)
(*   RatesChangeOnStatedDays rates change only on days the tables state.   *)
(*                                                                         *)
(* The code rests on CodesBehind: no code of the generated form exceeds    *)
(* the primary key of its product, in the table and in the instances that  *)
(* are still to be written.  The number rests on NumbersInOrder: the       *)
(* numbers of a prefix have no gaps and rise with the primary keys, and a  *)
(* number in hand leaves no gap either.  The rows rest on RowsThere: a row *)
(* dealt with is there, was taken away, or is in the hands of its worker.  *)
(***************************************************************************)
EXTENDS MasterData, FiniteSetTheorems, TLAPS

USE MasterAssumption

-----------------------------------------------------------------------------
(* The highest element of a set of primary keys.                           *)

\* The set of the elements above one of them shrinks from element to element.
LEMMA HighestOfIds ==
    ASSUME NEW S \in SUBSET Ids, S # {}
    PROVE  Highest(S) \in S /\ \A n \in S : n <= Highest(S)
<1> DEFINE Above(h) == {n \in S : n > h}
           T == {Above(h) : h \in S}
<1>1. IsFiniteSet(S)
  <2>1. MaxId \in Int /\ 1 \in Int
    OBVIOUS
  <2>2. IsFiniteSet(Ids)
    BY <2>1, FS_Interval DEF Ids
  <2>. QED  BY <2>2, FS_Subset
<1>2. T # {} /\ T \subseteq FiniteSubsetsOf(S)
  <2>1. T # {} /\ T \subseteq SUBSET S
    OBVIOUS
  <2> HIDE DEF T
  <2>. QED  BY <1>1, <2>1, FS_FiniteSubsetsOfFinite
<1>3. PICK A \in T : \A B \in T : <<B, A>> \notin StrictSubsetOrdering(S)
  <2> HIDE DEF T
  <2>. QED  BY <1>2, FS_StrictSubsetOrderingWellFounded, WFMin
<1>4. PICK h \in S : A = Above(h)
  BY <1>3
<1>5. ASSUME NEW n \in S, n > h PROVE FALSE
  <2>1. ~(n > n) /\ \A m \in S : m > n => m > h
    BY <1>5 DEF Ids
  <2>2. Above(n) \subseteq Above(h) /\ n \in Above(h) /\ n \notin Above(n)
    BY <1>5, <2>1, Zenon
  <2>3. <<Above(n), A>> \in StrictSubsetOrdering(S)
    BY <1>4, <2>2 DEF StrictSubsetOrdering
  <2>. QED  BY <1>3, <2>3
<1>6. \A n \in S : n <= h
  BY <1>5 DEF Ids
<1>. QED  BY <1>6 DEF Highest

LEMMA NextCodeType ==
    ASSUME DOMAIN product \subseteq Ids PROVE NextCode \in Nat \ {0}
BY HighestOfIds DEF NextCode, Ids

-----------------------------------------------------------------------------
(* Types, and the unique columns.                                          *)

\* The instance in memory is a row of the table the job is about, and one it
\* will overwrite has been inserted once.
JobOK(j) ==
    /\ j.pc \in {"code", "create", "saveproduct"} => j.mem \in Product
    /\ j.pc \in {"number", "insert", "savepartner"} => j.mem \in Partner
    /\ j.pc = "saveproduct" => j.pk \in Ids /\ j.pk < nextProduct
    /\ j.pc = "savepartner" => j.pk \in Ids /\ j.pk < nextPartner

\* What was inserted lies behind the sequences of primary keys.
KeysBehind ==
    /\ \A i \in DOMAIN product : i < nextProduct
    /\ \A i \in DOMAIN partner : i < nextPartner

TypeInv == TypeOK /\ KeysBehind /\ \A w \in Workers : JobOK(job[w])

LEMMA IdleType == Idle \in Job /\ JobOK(Idle)
BY DEF Idle, Job, JobOK, PCs

LEMMA InitTypeInv == Init => TypeInv
<1> SUFFICES ASSUME Init PROVE TypeInv
  OBVIOUS
<1>1. DOMAIN product = {} /\ DOMAIN partner = {}
  BY DEF Init
<1>2. job \in [Workers -> Job] /\ \A w \in Workers : JobOK(job[w])
  BY IdleType DEF Init
<1>. QED  BY <1>1, <1>2 DEF Init, TypeInv, TypeOK, KeysBehind

\* A step that only moves one job on.
LEMMA JobMoves ==
    ASSUME TypeInv, NEW w \in Workers, NEW j \in Job, JobOK(j),
           job' = [job EXCEPT ![w] = j], UNCHANGED <<tables, day, area>>,
           steps' \in 0 .. MaxSteps
    PROVE  TypeInv'
BY DEF TypeInv, TypeOK, KeysBehind, JobOK, tables

LEMMA StepType == ASSUME TypeInv, Step PROVE steps' \in 0 .. MaxSteps
BY DEF TypeInv, TypeOK, Step

\* How a request or the row of an import ends.
LEMMA EndedType ==
    ASSUME TypeInv, NEW w \in Workers, NEW ok \in BOOLEAN
    PROVE  Ended(w, ok) \in Job /\ JobOK(Ended(w, ok))
<1>1. job[w] \in Job
  BY DEF TypeInv, TypeOK
<1>2. CASE job[w].import = "no"
  BY <1>2, IdleType DEF Ended
<1>3. CASE job[w].import # "no"
  <2>1. /\ Ended(w, ok).pc = job[w].import
        /\ job[w].import \in {"products", "partners"}
    BY <1>1, <1>3 DEF Ended, Job
  <2>2. Ended(w, ok) \in Job
    BY <1>1, <1>3, <2>1 DEF Ended, Job, PCs
  <2>. QED  BY <2>1, <2>2 DEF JobOK
<1>. QED  BY <1>2, <1>3

\* get_object(), changed in memory.
LEMMA LoadType ==
    ASSUME TypeInv, NEW w \in Workers, NEW i \in DOMAIN product,
           NEW row \in Product, Load(w, i, row), Step
    PROVE  TypeInv'
<1> DEFINE j == [Idle EXCEPT !.pc = "saveproduct", !.pk = i, !.mem = row]
<1>1. i \in Ids /\ i < nextProduct
  BY DEF TypeInv, TypeOK, KeysBehind
<1>2. j \in Job /\ JobOK(j)
  BY <1>1, IdleType DEF Idle, Job, JobOK, PCs
<1>. QED  BY <1>2, JobMoves, StepType DEF Load, tables

LEMMA TypeUpdateStock ==
    ASSUME TypeInv, NEW w \in Workers, UpdateStock(w) PROVE TypeInv'
<1>1. PICK i \in DOMAIN product, s \in -MaxStock .. MaxStock :
        Load(w, i, [product[i] EXCEPT !.stock = s])
  BY DEF UpdateStock
<1>2. product[i] \in Product
  BY DEF TypeInv, TypeOK
<1>3. [product[i] EXCEPT !.stock = s] \in Product
  BY <1>2 DEF Product
<1>. QED  BY <1>1, <1>3, LoadType DEF UpdateStock

LEMMA TypePatchProduct ==
    ASSUME TypeInv, NEW w \in Workers, PatchProduct(w) PROVE TypeInv'
<1>1. PICK i \in DOMAIN product :
        \/ Load(w, i, [product[i] EXCEPT !.track = ~@])
        \/ \E q \in Quantities \cup {None} :
             \/ Load(w, i, [product[i] EXCEPT !.minimum = q])
             \/ Load(w, i, [product[i] EXCEPT !.stock = q])
        \/ \E t \in TaxRates : Load(w, i, [product[i] EXCEPT !.rate = t.rate])
        \/ \E r \in ProductRows :
             r.code # None /\ Load(w, i, [product[i] EXCEPT !.code = r.code])
  BY DEF PatchProduct
<1>2. product[i] \in Product
  BY DEF TypeInv, TypeOK
<1>3. Step
  BY DEF PatchProduct
<1>4. CASE Load(w, i, [product[i] EXCEPT !.track = ~@])
  <2>1. [product[i] EXCEPT !.track = ~@] \in Product
    BY <1>2 DEF Product
  <2>. QED  BY <1>3, <1>4, <2>1, LoadType
<1>5. ASSUME NEW q \in Quantities \cup {None},
             \/ Load(w, i, [product[i] EXCEPT !.minimum = q])
             \/ Load(w, i, [product[i] EXCEPT !.stock = q])
      PROVE  TypeInv'
  <2>1. [product[i] EXCEPT !.minimum = q] \in Product
    BY <1>2 DEF Product
  <2>2. [product[i] EXCEPT !.stock = q] \in Product
    BY <1>2 DEF Product
  <2>. QED  BY <1>3, <1>5, <2>1, <2>2, LoadType
<1>6. ASSUME NEW t \in TaxRates, Load(w, i, [product[i] EXCEPT !.rate = t.rate])
      PROVE  TypeInv'
  <2>1. [product[i] EXCEPT !.rate = t.rate] \in Product
    BY <1>2 DEF Product
  <2>. QED  BY <1>3, <1>6, <2>1, LoadType
<1>7. ASSUME NEW r \in ProductRows, r.code # None,
             Load(w, i, [product[i] EXCEPT !.code = r.code])
      PROVE  TypeInv'
  <2>1. r.code \in Int \ {0}
    BY <1>7 DEF ProductRow
  <2>2. [product[i] EXCEPT !.code = r.code] \in Product
    BY <1>2, <2>1 DEF Product
  <2>. QED  BY <1>3, <1>7, <2>2, LoadType
<1>. QED  BY <1>1, <1>4, <1>5, <1>6, <1>7

\* A row is written only if its code is free.
LEMMA PutProduct ==
    ASSUME TypeInv, NEW i \in Ids, NEW row \in Product, NEW k,
           k = i \/ {k, i} \cap DOMAIN product = {},
           ~CodeTaken(row.code, k), product' = Put(product, i, row)
    PROVE  /\ DOMAIN product' \subseteq Ids
           /\ \A m \in DOMAIN product' : product'[m] \in Product
           /\ \A m, n \in DOMAIN product' :
                product'[m].code = product'[n].code => m = n
BY DEF TypeInv, TypeOK, Put, CodeTaken

LEMMA PutPartner ==
    ASSUME TypeInv, NEW i \in Ids, NEW row \in Partner, NEW k,
           k = i \/ {k, i} \cap DOMAIN partner = {},
           ~NumberTaken(row.number, k), partner' = Put(partner, i, row)
    PROVE  /\ DOMAIN partner' \subseteq Ids
           /\ \A m \in DOMAIN partner' : partner'[m] \in Partner
           /\ \A m, n \in DOMAIN partner' :
                partner'[m].number = partner'[n].number => m = n
BY DEF TypeInv, TypeOK, Put, NumberTaken

\* A step that writes a table and moves one job on.
LEMMA JobsKept ==
    ASSUME TypeInv, NEW w \in Workers, NEW j \in Job, JobOK(j),
           job' = [job EXCEPT ![w] = j],
           nextProduct' \in {nextProduct, nextProduct + 1},
           nextPartner' \in {nextPartner, nextPartner + 1}
    PROVE  job' \in [Workers -> Job] /\ \A v \in Workers : JobOK(job[v])'
BY DEF TypeInv, TypeOK, JobOK, Ids

LEMMA TypeSaveProduct ==
    ASSUME TypeInv, NEW w \in Workers, SaveProduct(w) PROVE TypeInv'
<1> DEFINE i == job[w].pk
           row == job[w].mem
           ok == ~CodeTaken(row.code, i)
<1>1. i \in Ids /\ i < nextProduct /\ row \in Product /\ ok \in BOOLEAN
  BY DEF SaveProduct, TypeInv, JobOK
<1>2. \A v \in Workers : JobOK(job[v])'
  BY <1>1, EndedType, JobsKept DEF SaveProduct, End
<1>3. job' \in [Workers -> Job]
  BY <1>1, EndedType, JobsKept DEF SaveProduct, End
<1>4. CASE ok
  <2>1. product' = Put(product, i, row)
    BY <1>4 DEF SaveProduct
  <2>2. \A m \in DOMAIN product' : m < nextProduct
    BY <1>1, <2>1 DEF Put, TypeInv, KeysBehind
  <2>3. /\ DOMAIN product' \subseteq Ids
        /\ \A m \in DOMAIN product' : product'[m] \in Product
        /\ \A m, n \in DOMAIN product' :
             product'[m].code = product'[n].code => m = n
    <3> HIDE DEF i, row
    <3>. QED  BY <1>1, <1>4, <2>1, PutProduct
  <2>. QED  BY <1>2, <1>3, <2>2, <2>3
            DEF SaveProduct, TypeInv, TypeOK, KeysBehind
<1>5. CASE ~ok
  BY <1>2, <1>3, <1>5 DEF SaveProduct, TypeInv, TypeOK, KeysBehind
<1>. QED  BY <1>4, <1>5

LEMMA TypeCreateProduct ==
    ASSUME TypeInv, NEW w \in Workers, CreateProduct(w) PROVE TypeInv'
<1> DEFINE i == nextProduct
           row == job[w].mem
           ok == ~CodeTaken(row.code, None)
<1>1. /\ i \in Ids /\ i \notin DOMAIN product /\ None \notin DOMAIN product
      /\ row \in Product /\ ok \in BOOLEAN
  BY DEF CreateProduct, TypeInv, TypeOK, KeysBehind, JobOK, Ids
<1>2. job' \in [Workers -> Job] /\ \A v \in Workers : JobOK(job[v])'
  BY <1>1, EndedType, JobsKept DEF CreateProduct, End
<1>3. nextProduct' \in 1 .. MaxId + 1
  BY <1>1 DEF CreateProduct, Ids
<1>4. CASE ok
  <2>1. product' = Put(product, i, row)
    BY <1>4 DEF CreateProduct
  <2>2. \A m \in DOMAIN product' : m < nextProduct'
    BY <1>1, <2>1 DEF Put, TypeInv, TypeOK, KeysBehind, CreateProduct, Ids
  <2>3. /\ DOMAIN product' \subseteq Ids
        /\ \A m \in DOMAIN product' : product'[m] \in Product
        /\ \A m, n \in DOMAIN product' :
             product'[m].code = product'[n].code => m = n
    <3>1. ~CodeTaken(row.code, None)
      BY <1>4
    <3> HIDE DEF i, row, ok
    <3>. QED  BY <1>1, <2>1, <3>1, PutProduct
  <2>. QED  BY <1>2, <1>3, <2>2, <2>3
            DEF CreateProduct, TypeInv, TypeOK, KeysBehind
<1>5. CASE ~ok
  BY <1>2, <1>3, <1>5
     DEF CreateProduct, TypeInv, TypeOK, KeysBehind, Ids
<1>. QED  BY <1>4, <1>5

LEMMA TypeSavePartner ==
    ASSUME TypeInv, NEW w \in Workers, SavePartner(w) PROVE TypeInv'
<1> DEFINE i == job[w].pk
           row == job[w].mem
           ok == ~NumberTaken(row.number, i)
<1>1. i \in Ids /\ i < nextPartner /\ row \in Partner /\ ok \in BOOLEAN
  BY DEF SavePartner, TypeInv, JobOK
<1>2. job' \in [Workers -> Job] /\ \A v \in Workers : JobOK(job[v])'
  BY <1>1, EndedType, JobsKept DEF SavePartner, End
<1>3. CASE ok
  <2>1. partner' = Put(partner, i, row)
    BY <1>3 DEF SavePartner
  <2>2. \A m \in DOMAIN partner' : m < nextPartner
    BY <1>1, <2>1 DEF Put, TypeInv, KeysBehind
  <2>3. /\ DOMAIN partner' \subseteq Ids
        /\ \A m \in DOMAIN partner' : partner'[m] \in Partner
        /\ \A m, n \in DOMAIN partner' :
             partner'[m].number = partner'[n].number => m = n
    <3> HIDE DEF i, row
    <3>. QED  BY <1>1, <1>3, <2>1, PutPartner
  <2>. QED  BY <1>2, <2>2, <2>3
            DEF SavePartner, TypeInv, TypeOK, KeysBehind
<1>4. CASE ~ok
  BY <1>2, <1>4 DEF SavePartner, TypeInv, TypeOK, KeysBehind
<1>. QED  BY <1>3, <1>4

LEMMA TypeInsertPartner ==
    ASSUME TypeInv, NEW w \in Workers, InsertPartner(w) PROVE TypeInv'
<1> DEFINE i == nextPartner
           row == job[w].mem
           ok == ~NumberTaken(row.number, None)
<1>1. /\ i \in Ids /\ i \notin DOMAIN partner /\ None \notin DOMAIN partner
      /\ row \in Partner /\ ok \in BOOLEAN
  BY DEF InsertPartner, TypeInv, TypeOK, KeysBehind, JobOK, Ids
<1>2. job' \in [Workers -> Job] /\ \A v \in Workers : JobOK(job[v])'
  BY <1>1, EndedType, JobsKept DEF InsertPartner, End
<1>3. nextPartner' \in 1 .. MaxId + 1
  BY <1>1 DEF InsertPartner, Ids
<1>4. CASE ok
  <2>1. partner' = Put(partner, i, row)
    BY <1>4 DEF InsertPartner
  <2>2. \A m \in DOMAIN partner' : m < nextPartner'
    BY <1>1, <2>1 DEF Put, TypeInv, TypeOK, KeysBehind, InsertPartner, Ids
  <2>3. /\ DOMAIN partner' \subseteq Ids
        /\ \A m \in DOMAIN partner' : partner'[m] \in Partner
        /\ \A m, n \in DOMAIN partner' :
             partner'[m].number = partner'[n].number => m = n
    <3>1. ~NumberTaken(row.number, None)
      BY <1>4
    <3> HIDE DEF i, row, ok
    <3>. QED  BY <1>1, <2>1, <3>1, PutPartner
  <2>. QED  BY <1>2, <1>3, <2>2, <2>3
            DEF InsertPartner, TypeInv, TypeOK, KeysBehind
<1>5. CASE ~ok
  BY <1>2, <1>3, <1>5
     DEF InsertPartner, TypeInv, TypeOK, KeysBehind, Ids
<1>. QED  BY <1>4, <1>5

\* The steps that move a job on and leave the tables alone.
LEMMA TypeImport ==
    ASSUME TypeInv, NEW w \in Workers, StartImport(w) \/ EndImport(w) \/ Die(w)
    PROVE  TypeInv'
<1>1. CASE StartImport(w)
  <2>1. PICK mode \in {"skip", "update", "refuse"} :
          job' = [job EXCEPT ![w] =
                    [Idle EXCEPT !.pc = area, !.import = area, !.mode = mode]]
    BY <1>1 DEF StartImport
  <2> DEFINE j == [Idle EXCEPT !.pc = area, !.import = area, !.mode = mode]
  <2>2. j \in Job /\ JobOK(j)
    BY IdleType DEF TypeInv, TypeOK, Idle, Job, JobOK, PCs
  <2>. QED  BY <1>1, <2>1, <2>2, JobMoves
            DEF StartImport, TypeInv, TypeOK
<1>2. CASE EndImport(w) \/ Die(w)
  BY <1>2, IdleType, JobMoves DEF EndImport, Die, TypeInv, TypeOK
<1>. QED  BY <1>1, <1>2

LEMMA NewProductType ==
    ASSUME NEW r \in ProductRows
    PROVE  /\ NewProduct(r) \in Product
           /\ NewProduct(r).code = IF r.code = None THEN -1 ELSE r.code
<1>1. /\ r.code \in (Int \ {0}) \cup {None} /\ r.stock \in Int \cup {None}
      /\ r.name \in {q.name : q \in ProductRows}
  BY DEF ProductRow
<1>. QED  BY <1>1 DEF NewProduct, Product

LEMMA UpdatedType ==
    ASSUME NEW p \in Product, NEW r \in ProductRows
    PROVE  /\ Updated(p, r) \in Product
           /\ Updated(p, r).code = IF r.code = None THEN p.code ELSE r.code
<1>1. /\ r.code \in (Int \ {0}) \cup {None} /\ r.stock \in Int \cup {None}
      /\ r.name \in {q.name : q \in ProductRows}
  BY DEF ProductRow
<1>. QED  BY <1>1 DEF Updated, Product

LEMMA TypeCheckProduct ==
    ASSUME TypeInv, NEW w \in Workers, CheckProduct(w) PROVE TypeInv'
<1>1. PICK r \in ProductRows :
        \/ \E i \in Existing(r) :
             job' = [job EXCEPT ![w] =
                       [job[w] EXCEPT !.pc = "saveproduct", !.pk = i,
                                      !.mem = Updated(product[i], r)]]
        \/ \E ok \in BOOLEAN : End(w, ok)
        \/ job' = [job EXCEPT ![w] =
                     [job[w] EXCEPT !.pc = IF r.code = None THEN "code"
                                           ELSE "create",
                                    !.mem = NewProduct(r)]]
  BY DEF CheckProduct
<1>2. /\ steps' \in 0 .. MaxSteps /\ UNCHANGED <<tables, day, area>>
      /\ job[w] \in Job
  BY StepType DEF CheckProduct, TypeInv, TypeOK
<1>3. ASSUME NEW i \in Existing(r),
             job' = [job EXCEPT ![w] =
                       [job[w] EXCEPT !.pc = "saveproduct", !.pk = i,
                                      !.mem = Updated(product[i], r)]]
      PROVE  TypeInv'
  <2> DEFINE j == [job[w] EXCEPT !.pc = "saveproduct", !.pk = i,
                                 !.mem = Updated(product[i], r)]
  <2>1. i \in Ids /\ i < nextProduct /\ product[i] \in Product
    BY DEF Existing, TypeInv, TypeOK, KeysBehind
  <2>2. Updated(product[i], r) \in Product
    BY <2>1, UpdatedType
  <2>3. j \in Job /\ JobOK(j)
    BY <1>2, <2>1, <2>2 DEF Job, JobOK, PCs
  <2>. QED  BY <1>2, <1>3, <2>3, JobMoves
<1>4. ASSUME NEW ok \in BOOLEAN, End(w, ok) PROVE TypeInv'
  BY <1>2, <1>4, EndedType, JobMoves DEF End
<1>5. CASE job' = [job EXCEPT ![w] =
                     [job[w] EXCEPT !.pc = IF r.code = None THEN "code"
                                           ELSE "create",
                                    !.mem = NewProduct(r)]]
  <2> DEFINE j == [job[w] EXCEPT !.pc = IF r.code = None THEN "code"
                                        ELSE "create",
                                 !.mem = NewProduct(r)]
  <2>1. NewProduct(r) \in Product
    BY NewProductType
  <2>2. j \in Job /\ JobOK(j)
    BY <1>2, <2>1 DEF Job, JobOK, PCs
  <2>. QED  BY <1>2, <1>5, <2>2, JobMoves
<1>. QED  BY <1>1, <1>3, <1>4, <1>5

\* The row in memory gets the code that was just computed.
LEMMA GeneratedJob ==
    ASSUME TypeInv, NEW w \in Workers, GenerateCode(w)
    PROVE  \E j \in Job : /\ job' = [job EXCEPT ![w] = j] /\ JobOK(j)
                          /\ j.pc = "create" /\ j.mem.code = NextCode
<1> DEFINE n == NextCode
           mem == [job[w].mem EXCEPT !.code = n]
           j == [job[w] EXCEPT !.pc = "create", !.mem = mem]
<1>1. job[w] \in Job /\ job[w].mem \in Product /\ n \in Nat \ {0}
  BY NextCodeType DEF GenerateCode, TypeInv, TypeOK, JobOK
<1>2. mem \in Product /\ mem.code = n
  <2> HIDE DEF n
  <2>. QED  BY <1>1 DEF Product
<1>3. job' = [job EXCEPT ![w] = j]
  <2>1. job' = [job EXCEPT ![w].pc = "create", ![w].mem.code = n]
    BY DEF GenerateCode
  <2>2. job \in [Workers -> Job]
    BY DEF TypeInv, TypeOK
  <2> HIDE DEF n
  <2>. QED  BY <1>1, <2>1, <2>2 DEF Job
<1>4. j \in Job /\ JobOK(j) /\ j.pc = "create" /\ j.mem = mem
  <2> HIDE DEF mem
  <2>. QED  BY <1>1, <1>2 DEF Job, JobOK, PCs
<1>. QED  BY <1>2, <1>3, <1>4

LEMMA TypeGenerateCode ==
    ASSUME TypeInv, NEW w \in Workers, GenerateCode(w) PROVE TypeInv'
BY GeneratedJob, JobMoves DEF GenerateCode, TypeInv, TypeOK

LEMMA TypePostProduct ==
    ASSUME TypeInv, NEW w \in Workers, PostProduct(w) PROVE TypeInv'
<1>1. PICK r \in ProductRows :
        job' = [job EXCEPT ![w] =
                  [Idle EXCEPT !.pc = "create", !.mem = NewProduct(r)]]
  BY DEF PostProduct
<1> DEFINE j == [Idle EXCEPT !.pc = "create", !.mem = NewProduct(r)]
<1>2. j \in Job /\ JobOK(j)
  BY NewProductType DEF Idle, Job, JobOK, PCs
<1>. QED  BY <1>1, <1>2, StepType, JobMoves DEF PostProduct

LEMMA NextNumberType ==
    ASSUME TypeInv, NEW prefix PROVE NextNumber(prefix) \in Nat
<1> DEFINE own == {i \in DOMAIN partner : partner[i].number.prefix = prefix}
<1>1. CASE own = {}
  BY <1>1 DEF NextNumber
<1>2. CASE own # {}
  <2>1. Highest(own) \in DOMAIN partner
    BY <1>2, HighestOfIds DEF TypeInv, TypeOK
  <2>2. partner[Highest(own)].number.n \in Nat
    BY <2>1 DEF TypeInv, TypeOK, Partner
  <2>. QED  BY <1>2, <2>2 DEF NextNumber
<1>. QED  BY <1>1, <1>2

LEMMA TypeNumberPartner ==
    ASSUME TypeInv, NEW w \in Workers, NumberPartner(w) PROVE TypeInv'
<1> DEFINE n == NextNumber(job[w].mem.number.prefix)
           mem == [job[w].mem EXCEPT !.number =
                     [job[w].mem.number EXCEPT !.n = n]]
           j == [job[w] EXCEPT !.pc = "insert", !.mem = mem]
<1>1. job[w] \in Job /\ job[w].mem \in Partner /\ n \in Nat
  BY NextNumberType DEF NumberPartner, TypeInv, TypeOK, JobOK
<1>2. job' = [job EXCEPT ![w] = j]
  <2>1. job' = [job EXCEPT ![w].pc = "insert", ![w].mem.number.n = n]
    BY DEF NumberPartner
  <2>2. job \in [Workers -> Job]
    BY DEF TypeInv, TypeOK
  <2> HIDE DEF n
  <2>. QED  BY <1>1, <2>1, <2>2 DEF Job
<1>3. mem \in Partner
  BY <1>1 DEF Partner
<1>4. j \in Job /\ JobOK(j)
  <2> HIDE DEF mem
  <2>. QED  BY <1>1, <1>3 DEF Job, JobOK, PCs
<1> HIDE DEF j
<1>. QED  BY <1>2, <1>4, JobMoves DEF NumberPartner, TypeInv, TypeOK

LEMMA NewPartnerType ==
    ASSUME TypeInv, NEW j \in Job, NEW r \in PartnerRows
    PROVE  NewPartner(j, r) \in Job /\ JobOK(NewPartner(j, r))
<1> DEFINE mem == [key |-> r.key,
                   number |-> IF r.number # None THEN r.number
                              ELSE [prefix |-> r.prefix, n |-> 0]]
<1>1. mem \in Partner
  BY DEF Partner, PartnerRow
<1>2. NewPartner(j, r) = [j EXCEPT !.pc  = IF r.number = None THEN "number"
                                           ELSE "insert", !.mem = mem]
  BY DEF NewPartner
<1> HIDE DEF mem
<1>. QED  BY <1>1, <1>2 DEF Job, JobOK, PCs

LEMMA TypeCheckPartner ==
    ASSUME TypeInv, NEW w \in Workers, CheckPartner(w) PROVE TypeInv'
<1>1. PICK r \in PartnerRows :
        LET j == [job[w] EXCEPT !.done = @ \cup {r.key}] IN
        \/ \E i \in DOMAIN partner :
             job' = [job EXCEPT ![w] =
                       [j EXCEPT !.pc = "savepartner", !.pk = i,
                                 !.mem = IF r.number = None THEN partner[i]
                                         ELSE [partner[i] EXCEPT
                                                 !.number = r.number]]]
        \/ job' = [job EXCEPT ![w] =
                     [j EXCEPT !.failed = @ \/ j.mode = "refuse"]]
        \/ job' = [job EXCEPT ![w] = NewPartner(j, r)]
  BY DEF CheckPartner
<1> DEFINE j == [job[w] EXCEPT !.done = @ \cup {r.key}]
<1>2. /\ steps' \in 0 .. MaxSteps /\ UNCHANGED <<tables, day, area>>
      /\ job[w] \in Job /\ job[w].pc = "partners"
  BY StepType DEF CheckPartner, TypeInv, TypeOK
<1>3. j \in Job /\ j.pc = "partners"
  BY <1>2 DEF Job
<1>4. ASSUME NEW i \in DOMAIN partner,
             job' = [job EXCEPT ![w] =
                       [j EXCEPT !.pc = "savepartner", !.pk = i,
                                 !.mem = IF r.number = None THEN partner[i]
                                         ELSE [partner[i] EXCEPT
                                                 !.number = r.number]]]
      PROVE  TypeInv'
  <2> DEFINE mem == IF r.number = None THEN partner[i]
                    ELSE [partner[i] EXCEPT !.number = r.number]
             k == [j EXCEPT !.pc = "savepartner", !.pk = i, !.mem = mem]
  <2>1. i \in Ids /\ i < nextPartner /\ partner[i] \in Partner
    BY DEF TypeInv, TypeOK, KeysBehind
  <2>2. mem \in Partner
    BY <2>1 DEF Partner, PartnerRow
  <2>3. k \in Job /\ JobOK(k)
    <3> HIDE DEF mem, j
    <3>. QED  BY <1>3, <2>1, <2>2 DEF Job, JobOK, PCs
  <2>4. job' = [job EXCEPT ![w] = k]
    BY <1>4
  <2> HIDE DEF k
  <2>. QED  BY <1>2, <2>3, <2>4, JobMoves
<1>5. CASE job' = [job EXCEPT ![w] =
                     [j EXCEPT !.failed = @ \/ j.mode = "refuse"]]
  <2> DEFINE k == [j EXCEPT !.failed = @ \/ j.mode = "refuse"]
  <2>1. k \in Job /\ JobOK(k)
    <3> HIDE DEF j
    <3>. QED  BY <1>3 DEF Job, JobOK
  <2>2. job' = [job EXCEPT ![w] = k]
    BY <1>5
  <2> HIDE DEF k
  <2>. QED  BY <1>2, <2>1, <2>2, JobMoves
<1>6. CASE job' = [job EXCEPT ![w] = NewPartner(j, r)]
  <2> HIDE DEF j
  <2>. QED  BY <1>2, <1>3, <1>6, NewPartnerType, JobMoves
<1>. QED  BY <1>1, <1>4, <1>5, <1>6

LEMMA TypePostPartner ==
    ASSUME TypeInv, NEW w \in Workers, PostPartner(w) PROVE TypeInv'
<1>1. PICK r \in PartnerRows : job' = [job EXCEPT ![w] = NewPartner(Idle, r)]
  BY DEF PostPartner
<1>. QED  BY <1>1, NewPartnerType, IdleType, StepType, JobMoves
          DEF PostPartner

LEMMA TypePatchPartner ==
    ASSUME TypeInv, NEW w \in Workers, PatchPartner(w) PROVE TypeInv'
<1>1. PICK i \in DOMAIN partner, r \in PartnerRows :
        job' = [job EXCEPT ![w] =
                  [Idle EXCEPT !.pc = "savepartner", !.pk = i,
                               !.mem = [partner[i] EXCEPT !.key = r.key]]]
  BY DEF PatchPartner
<1> DEFINE mem == [partner[i] EXCEPT !.key = r.key]
           j == [Idle EXCEPT !.pc = "savepartner", !.pk = i, !.mem = mem]
<1>2. i \in Ids /\ i < nextPartner /\ mem \in Partner
  BY DEF TypeInv, TypeOK, KeysBehind, Partner
<1>3. j \in Job /\ JobOK(j)
  <2> HIDE DEF mem
  <2>. QED  BY <1>2, IdleType DEF Idle, Job, JobOK, PCs
<1>. QED  BY <1>1, <1>3, StepType, JobMoves DEF PatchPartner

LEMMA TypeDelete ==
    ASSUME TypeInv, DeleteProduct \/ DeletePartner \/ Midnight PROVE TypeInv'
<1>1. CASE DeleteProduct
  <2>1. steps' \in 0 .. MaxSteps
    BY <1>1, StepType DEF DeleteProduct
  <2>. QED  BY <1>1, <2>1
            DEF DeleteProduct, Without, TypeInv, TypeOK, KeysBehind, JobOK
<1>2. CASE DeletePartner
  <2>1. steps' \in 0 .. MaxSteps
    BY <1>2, StepType DEF DeletePartner
  <2>. QED  BY <1>2, <2>1
            DEF DeletePartner, Without, TypeInv, TypeOK, KeysBehind, JobOK
<1>3. CASE Midnight
  BY <1>3 DEF Midnight, TypeInv, TypeOK, KeysBehind, JobOK, tables
<1>. QED  BY <1>1, <1>2, <1>3

LEMMA TypeStep == TypeInv /\ [Next]_vars => TypeInv'
<1> SUFFICES ASSUME TypeInv, [Next]_vars PROVE TypeInv'
  OBVIOUS
<1>1. CASE UNCHANGED vars
  BY <1>1 DEF vars, tables, TypeInv, TypeOK, KeysBehind, JobOK
<1>2. CASE Next
  BY <1>2, TypeUpdateStock, TypePatchProduct, TypeSaveProduct, TypeImport,
     TypeCheckProduct, TypeGenerateCode, TypeCreateProduct, TypePostProduct,
     TypeCheckPartner, TypeNumberPartner, TypeInsertPartner, TypePostPartner,
     TypePatchPartner, TypeSavePartner, TypeDelete
     DEF Next
<1>. QED  BY <1>1, <1>2

LEMMA TypeInvariant == Spec => []TypeInv
BY InitTypeInv, TypeStep, PTL DEF Spec

\* The tables keep their types, and product_code and partner_number stay
\* unique, whatever stale instances are saved and workers die.
THEOREM TypeCorrect == Spec => []TypeOK
<1>1. TypeInv => TypeOK
  BY DEF TypeInv
<1>. QED  BY <1>1, TypeInvariant, PTL

-----------------------------------------------------------------------------
(* Generated codes.                                                        *)

\* A code of the generated form that is due to a product is at most its
\* primary key; a code of another form is below zero.
CodesBehind ==
    /\ \A i \in DOMAIN product : product[i].code <= i
    /\ \A w \in Workers :
         /\ job[w].pc = "saveproduct" => job[w].mem.code <= job[w].pk
         /\ job[w].pc = "create" => job[w].mem.code <= nextProduct

CodeInv == TypeInv /\ ("code" \notin byHand => CodesBehind)

\* What is due to one job, when nobody has given a code by hand.
CodeOK(j) ==
    /\ j.pc = "saveproduct" => j.mem.code <= j.pk
    /\ j.pc = "create" => j.mem.code <= nextProduct

LEMMA NextCodeBehind ==
    ASSUME TypeInv PROVE NextCode \in Nat \ {0} /\ NextCode <= nextProduct
<1>1. DOMAIN product \subseteq Ids
  BY DEF TypeInv, TypeOK
<1>2. CASE DOMAIN product = {}
  BY <1>2 DEF NextCode, TypeInv, TypeOK
<1>3. CASE DOMAIN product # {}
  <2>1. Highest(DOMAIN product) \in DOMAIN product
    BY <1>1, <1>3, HighestOfIds
  <2>2. Highest(DOMAIN product) < nextProduct
    BY <2>1 DEF TypeInv, KeysBehind
  <2>. QED  BY <1>1, <1>3, <2>1, <2>2 DEF NextCode, TypeInv, TypeOK, Ids
<1>. QED  BY <1>2, <1>3

LEMMA CodeJobMoves ==
    ASSUME TypeInv, CodesBehind, NEW w \in Workers, NEW j, CodeOK(j),
           job' = [job EXCEPT ![w] = j], UNCHANGED tables
    PROVE  CodesBehind'
BY DEF CodesBehind, CodeOK, TypeInv, TypeOK, tables

\* A job that moves on to a state in which it has no product in hand.
LEMMA EndedCode ==
    ASSUME TypeInv, NEW w \in Workers, NEW ok \in BOOLEAN
    PROVE  Ended(w, ok).pc \notin {"saveproduct", "create"}
BY DEF Ended, Idle, TypeInv, TypeOK, Job

LEMMA LoadCode ==
    ASSUME TypeInv, CodesBehind, NEW w \in Workers, NEW i \in DOMAIN product,
           NEW row, row.code <= i, Load(w, i, row)
    PROVE  CodesBehind'
<1> DEFINE j == [Idle EXCEPT !.pc = "saveproduct", !.pk = i, !.mem = row]
<1>1. CodeOK(j)
  BY DEF CodeOK, Idle
<1>. QED  BY <1>1, CodeJobMoves DEF Load

LEMMA CodePatchProduct ==
    ASSUME TypeInv, CodesBehind, NEW w \in Workers, "code" \notin byHand',
           UpdateStock(w) \/ PatchProduct(w)
    PROVE  CodesBehind'
<1>1. PICK i \in DOMAIN product :
        \/ \E s \in -MaxStock .. MaxStock :
             Load(w, i, [product[i] EXCEPT !.stock = s])
        \/ Load(w, i, [product[i] EXCEPT !.track = ~@])
        \/ \E q \in Quantities \cup {None} :
             \/ Load(w, i, [product[i] EXCEPT !.minimum = q])
             \/ Load(w, i, [product[i] EXCEPT !.stock = q])
        \/ \E t \in TaxRates : Load(w, i, [product[i] EXCEPT !.rate = t.rate])
        \/ \E r \in ProductRows :
             /\ r.code # None /\ MarkCode(r)
             /\ Load(w, i, [product[i] EXCEPT !.code = r.code])
  BY DEF UpdateStock, PatchProduct
<1>2. /\ product[i] \in Product /\ product[i].code <= i
      /\ i \in Int /\ 1 <= i
  BY DEF CodesBehind, TypeInv, TypeOK, Ids
<1>3. ASSUME NEW x
      PROVE  /\ [product[i] EXCEPT !.stock = x].code <= i
             /\ [product[i] EXCEPT !.track = x].code <= i
             /\ [product[i] EXCEPT !.minimum = x].code <= i
             /\ [product[i] EXCEPT !.rate = x].code <= i
  BY <1>2 DEF Product
<1>4. ASSUME NEW r \in ProductRows, r.code # None, MarkCode(r),
             Load(w, i, [product[i] EXCEPT !.code = r.code])
      PROVE  CodesBehind'
  <2>1. r.code \in Int /\ ~(r.code > 0)
    BY <1>4 DEF ProductRow, MarkCode
  <2>2. [product[i] EXCEPT !.code = r.code].code <= i
    BY <1>2, <2>1 DEF Product
  <2>. QED  BY <1>4, <2>2, LoadCode
<1>. QED  BY <1>1, <1>3, <1>4, LoadCode

LEMMA CodeCheckProduct ==
    ASSUME TypeInv, CodesBehind, NEW w \in Workers, "code" \notin byHand',
           CheckProduct(w)
    PROVE  CodesBehind'
<1>1. PICK r \in ProductRows :
        /\ MarkCode(r)
        /\ \/ \E i \in Existing(r) :
                job' = [job EXCEPT ![w] =
                          [job[w] EXCEPT !.pc = "saveproduct", !.pk = i,
                                         !.mem = Updated(product[i], r)]]
           \/ \E ok \in BOOLEAN : End(w, ok)
           \/ job' = [job EXCEPT ![w] =
                        [job[w] EXCEPT !.pc = IF r.code = None THEN "code"
                                              ELSE "create",
                                       !.mem = NewProduct(r)]]
  BY DEF CheckProduct
<1>2. /\ UNCHANGED tables /\ job[w] \in Job
      /\ r.code = None \/ (r.code \in Int /\ ~(r.code > 0))
  BY <1>1 DEF CheckProduct, TypeInv, TypeOK, ProductRow, MarkCode
<1>3. ASSUME NEW i \in Existing(r),
             job' = [job EXCEPT ![w] =
                       [job[w] EXCEPT !.pc = "saveproduct", !.pk = i,
                                      !.mem = Updated(product[i], r)]]
      PROVE  CodesBehind'
  <2> DEFINE row == Updated(product[i], r)
             j == [job[w] EXCEPT !.pc = "saveproduct", !.pk = i, !.mem = row]
  <2>1. i \in DOMAIN product /\ i \in Int /\ 1 <= i /\ product[i] \in Product
    BY DEF Existing, TypeInv, TypeOK, Ids
  <2>2. row.code <= i
    BY <1>2, <2>1, UpdatedType DEF CodesBehind
  <2>3. CodeOK(j)
    <3> HIDE DEF row
    <3>. QED  BY <1>2, <2>2 DEF CodeOK, Job
  <2>. QED  BY <1>2, <1>3, <2>3, CodeJobMoves
<1>4. ASSUME NEW ok \in BOOLEAN, End(w, ok) PROVE CodesBehind'
  BY <1>2, <1>4, EndedCode, CodeJobMoves DEF End, CodeOK
<1>5. CASE job' = [job EXCEPT ![w] =
                     [job[w] EXCEPT !.pc = IF r.code = None THEN "code"
                                           ELSE "create",
                                    !.mem = NewProduct(r)]]
  <2> DEFINE row == NewProduct(r)
             j == [job[w] EXCEPT !.pc = IF r.code = None THEN "code"
                                        ELSE "create", !.mem = row]
  <2>1. row.code \in Int /\ row.code <= 0 /\ nextProduct \in Nat
    BY <1>2, NewProductType DEF TypeInv, TypeOK
  <2>2. CodeOK(j)
    <3> HIDE DEF row
    <3>. QED  BY <1>2, <2>1 DEF CodeOK, Job
  <2>. QED  BY <1>2, <1>5, <2>2, CodeJobMoves
<1>. QED  BY <1>1, <1>3, <1>4, <1>5

LEMMA CodeNewProduct ==
    ASSUME TypeInv, CodesBehind, NEW w \in Workers, "code" \notin byHand',
           GenerateCode(w) \/ PostProduct(w)
    PROVE  CodesBehind'
<1>1. CASE GenerateCode(w)
  <2>1. PICK j \in Job : /\ job' = [job EXCEPT ![w] = j]
                         /\ j.pc = "create" /\ j.mem.code = NextCode
    BY <1>1, GeneratedJob
  <2>2. CodeOK(j)
    BY <2>1, NextCodeBehind DEF CodeOK
  <2>. QED  BY <1>1, <2>1, <2>2, CodeJobMoves DEF GenerateCode
<1>2. CASE PostProduct(w)
  <2>1. PICK r \in ProductRows :
          /\ r.code # None /\ MarkCode(r)
          /\ job' = [job EXCEPT ![w] =
                       [Idle EXCEPT !.pc = "create", !.mem = NewProduct(r)]]
    BY <1>2 DEF PostProduct
  <2> DEFINE row == NewProduct(r)
             j == [Idle EXCEPT !.pc = "create", !.mem = row]
  <2>2. row.code \in Int /\ row.code <= 0 /\ nextProduct \in Nat
    BY <2>1, NewProductType DEF TypeInv, TypeOK, MarkCode, ProductRow
  <2>3. CodeOK(j)
    <3> HIDE DEF row
    <3>. QED  BY <2>2 DEF CodeOK, Idle
  <2>. QED  BY <1>2, <2>1, <2>3, CodeJobMoves DEF PostProduct
<1>. QED  BY <1>1, <1>2

\* What is written had its code when its primary key was still to come, or
\* has that very key.
LEMMA CodeWrite ==
    ASSUME TypeInv, CodesBehind, NEW w \in Workers,
           SaveProduct(w) \/ CreateProduct(w)
    PROVE  CodesBehind'
<1>1. CASE SaveProduct(w)
  <2>1. job[w].mem.code <= job[w].pk /\ job[w].pk \in Ids
    BY <1>1 DEF SaveProduct, CodesBehind, TypeInv, JobOK
  <2>2. \A i \in DOMAIN product' : product'[i].code <= i
    BY <1>1, <2>1 DEF SaveProduct, Put, CodesBehind
  <2>3. PICK ok \in BOOLEAN : job' = [job EXCEPT ![w] = Ended(w, ok)]
    BY <1>1 DEF SaveProduct, End
  <2>. QED  BY <1>1, <2>2, <2>3, EndedCode
            DEF SaveProduct, CodesBehind, TypeInv, TypeOK
<1>2. CASE CreateProduct(w)
  <2>1. /\ job[w].mem.code <= nextProduct /\ nextProduct' = nextProduct + 1
        /\ nextProduct \in Int
    BY <1>2 DEF CreateProduct, CodesBehind, Ids
  <2>2. \A i \in DOMAIN product' : product'[i].code <= i
    BY <1>2, <2>1 DEF CreateProduct, Put, CodesBehind
  <2>3. PICK ok \in BOOLEAN : job' = [job EXCEPT ![w] = Ended(w, ok)]
    BY <1>2 DEF CreateProduct, End
  <2>4. ASSUME NEW v \in Workers
        PROVE  /\ job'[v].pc = "saveproduct" => job'[v].mem.code <= job'[v].pk
               /\ job'[v].pc = "create" => job'[v].mem.code <= nextProduct'
    <3>1. CASE v = w
      BY <2>3, <3>1, EndedCode DEF TypeInv, TypeOK
    <3>2. CASE v # w
      <4>1. job'[v] = job[v]
        BY <2>3, <3>2 DEF TypeInv, TypeOK
      <4>2. job[v].pc = "create" => job[v].mem.code \in Int
        BY DEF TypeInv, JobOK, Product
      <4>. QED  BY <2>1, <4>1, <4>2 DEF CodesBehind
    <3>. QED  BY <3>1, <3>2
  <2>. QED  BY <2>2, <2>4 DEF CodesBehind
<1>. QED  BY <1>1, <1>2

\* Partners and deleted products change no code, nor do days.
LEMMA CodeOtherSteps ==
    ASSUME TypeInv, CodesBehind, NEW w \in Workers,
           \/ StartImport(w) \/ EndImport(w) \/ Die(w)
           \/ CheckPartner(w) \/ NumberPartner(w) \/ InsertPartner(w)
           \/ PostPartner(w) \/ PatchPartner(w) \/ SavePartner(w)
    PROVE  CodesBehind'
<1>1. product' = product /\ nextProduct' = nextProduct
  BY DEF StartImport, EndImport, Die, CheckPartner, NumberPartner,
         InsertPartner, PostPartner, PatchPartner, SavePartner, tables
<1> SUFFICES /\ \A v \in Workers \ {w} : job'[v] = job[v]
             /\ job'[w].pc \notin {"saveproduct", "create"}
  BY <1>1 DEF CodesBehind, TypeInv, TypeOK
<1>0. job[w] \in Job /\ job \in [Workers -> Job]
  BY DEF TypeInv, TypeOK
<1>2. CASE StartImport(w)
  BY <1>0, <1>2 DEF StartImport, Idle, TypeInv, TypeOK
<1>3. CASE EndImport(w) \/ Die(w)
  BY <1>0, <1>3 DEF EndImport, Die, Idle
<1>4. CASE CheckPartner(w)
  <2>1. PICK r \in PartnerRows :
          LET j == [job[w] EXCEPT !.done = @ \cup {r.key}] IN
          \/ \E i \in DOMAIN partner :
               job' = [job EXCEPT ![w] =
                         [j EXCEPT !.pc = "savepartner", !.pk = i,
                                   !.mem = IF r.number = None THEN partner[i]
                                           ELSE [partner[i] EXCEPT
                                                   !.number = r.number]]]
          \/ job' = [job EXCEPT ![w] =
                       [j EXCEPT !.failed = @ \/ j.mode = "refuse"]]
          \/ job' = [job EXCEPT ![w] = NewPartner(j, r)]
    BY <1>4 DEF CheckPartner
  <2> DEFINE j == [job[w] EXCEPT !.done = @ \cup {r.key}]
             f == [j EXCEPT !.failed = @ \/ j.mode = "refuse"]
             m(i) == IF r.number = None THEN partner[i]
                     ELSE [partner[i] EXCEPT !.number = r.number]
             u(i) == [j EXCEPT !.pc = "savepartner", !.pk = i, !.mem = m(i)]
  <2>2. j \in Job /\ j.pc = "partners"
    <3>1. job[w].pc = "partners" /\ r.key \in {q.key : q \in PartnerRows}
      BY <1>4 DEF CheckPartner
    <3>. QED  BY <1>0, <3>1, ZenonT(60) DEF Job
  <2>3. NewPartner(j, r).pc \in {"number", "insert"}
    <3> HIDE DEF j
    <3>. QED  BY <2>2 DEF NewPartner, Job
  <2>4. f.pc = "partners" /\ \A i : u(i).pc = "savepartner"
    <3> HIDE DEF j, m
    <3>. QED  BY <2>2 DEF Job
  <2>5. \/ \E i : job' = [job EXCEPT ![w] = u(i)]
        \/ job' = [job EXCEPT ![w] = f]
        \/ job' = [job EXCEPT ![w] = NewPartner(j, r)]
    BY <2>1, Zenon
  <2> HIDE DEF j, f, u
  <2>. QED  BY <1>0, <2>3, <2>4, <2>5
<1>5. CASE NumberPartner(w)
  BY <1>0, <1>5 DEF NumberPartner, Job
<1>6. CASE InsertPartner(w) \/ SavePartner(w)
  <2>1. PICK ok \in BOOLEAN : job' = [job EXCEPT ![w] = Ended(w, ok)]
    BY <1>6 DEF InsertPartner, SavePartner, End
  <2>. QED  BY <1>0, <2>1, EndedCode
<1>7. CASE PostPartner(w)
  <2>1. PICK r \in PartnerRows : job' = [job EXCEPT ![w] = NewPartner(Idle, r)]
    BY <1>7 DEF PostPartner
  <2>2. NewPartner(Idle, r).pc \in {"number", "insert"}
    BY DEF NewPartner, Idle
  <2>. QED  BY <1>0, <2>1, <2>2
<1>8. CASE PatchPartner(w)
  <2>1. PICK i \in DOMAIN partner, r \in PartnerRows :
          job' = [job EXCEPT ![w] =
                    [Idle EXCEPT !.pc = "savepartner", !.pk = i,
                                 !.mem = [partner[i] EXCEPT !.key = r.key]]]
    BY <1>8 DEF PatchPartner
  <2> DEFINE mem == [partner[i] EXCEPT !.key = r.key]
             j == [Idle EXCEPT !.pc = "savepartner", !.pk = i, !.mem = mem]
  <2>2. j.pc = "savepartner"
    <3> HIDE DEF mem
    <3>. QED  BY DEF Idle
  <2>3. job' = [job EXCEPT ![w] = j]
    BY <2>1
  <2> HIDE DEF j
  <2>. QED  BY <1>0, <2>2, <2>3
<1>. QED  BY <1>2, <1>3, <1>4, <1>5, <1>6, <1>7, <1>8

LEMMA CodeDelete ==
    ASSUME TypeInv, CodesBehind, DeleteProduct \/ DeletePartner \/ Midnight
    PROVE  CodesBehind'
<1>1. CASE DeleteProduct
  BY <1>1 DEF DeleteProduct, Without, CodesBehind
<1>2. CASE DeletePartner \/ Midnight
  BY <1>2 DEF DeletePartner, Midnight, CodesBehind, tables
<1>. QED  BY <1>1, <1>2

\* Nobody takes back what was done by hand.
LEMMA ByHandGrows == ASSUME Next PROVE byHand \subseteq byHand'
<1>1. ASSUME NEW w \in Workers,
             UpdateStock(w) \/ PatchProduct(w) \/ SaveProduct(w) \/ StartImport(w)
               \/ EndImport(w) \/ Die(w) \/ CheckProduct(w) \/ GenerateCode(w)
      PROVE  byHand \subseteq byHand'
  BY <1>1 DEF UpdateStock, PatchProduct, SaveProduct, StartImport, EndImport, Die,
              CheckProduct, GenerateCode, MarkCode
<1>2. ASSUME NEW w \in Workers,
             CreateProduct(w) \/ PostProduct(w) \/ CheckPartner(w) \/ NumberPartner(w)
               \/ InsertPartner(w) \/ PostPartner(w) \/ PatchPartner(w) \/ SavePartner(w)
      PROVE  byHand \subseteq byHand'
  BY <1>2 DEF CreateProduct, PostProduct, CheckPartner, NumberPartner, InsertPartner,
              PostPartner, PatchPartner, SavePartner, MarkCode
<1>3. DeleteProduct \/ DeletePartner \/ Midnight => byHand \subseteq byHand'
  BY DEF DeleteProduct, DeletePartner, Midnight
<1>. QED  BY <1>1, <1>2, <1>3 DEF Next

LEMMA CodeStep == CodeInv /\ [Next]_vars => CodeInv'
<1> SUFFICES ASSUME CodeInv, [Next]_vars, "code" \notin byHand'
             PROVE  CodesBehind'
  BY TypeStep DEF CodeInv
<1>1. CASE UNCHANGED vars
  BY <1>1 DEF vars, tables, CodeInv, CodesBehind
<1>2. CASE Next
  <2>1. TypeInv /\ CodesBehind
    BY <1>2, ByHandGrows DEF CodeInv
  <2>. QED  BY <1>2, <2>1, CodePatchProduct, CodeCheckProduct, CodeNewProduct,
            CodeWrite, CodeOtherSteps, CodeDelete
            DEF Next
<1>. QED  BY <1>1, <1>2

\* The code an import generates for the next product is free, as long as
\* nobody gave a code of the generated form by hand: races of imports, failed
\* inserts, deleted products and stale saves that bring them back included.
THEOREM GeneratedCodeIsFree == Spec => []NextCodeFree
<1>1. Init => CodeInv
  <2> SUFFICES ASSUME Init PROVE CodeInv
    OBVIOUS
  <2>1. DOMAIN product = {}
    BY DEF Init
  <2>. QED  BY <2>1, InitTypeInv DEF Init, CodeInv, CodesBehind, Idle
<1>2. CodeInv => NextCodeFree
  <2> SUFFICES ASSUME CodeInv, "code" \notin byHand, NEW i \in DOMAIN product
               PROVE  product[i].code # NextCode
    BY DEF NextCodeFree, CodeTaken
  <2>1. DOMAIN product \subseteq Ids /\ product[i].code \in Int
    BY DEF CodeInv, TypeInv, TypeOK, Product
  <2>2. i <= Highest(DOMAIN product) /\ Highest(DOMAIN product) \in Ids
    BY <2>1, HighestOfIds
  <2>3. product[i].code <= i
    BY DEF CodeInv, CodesBehind
  <2>. QED  BY <2>1, <2>2, <2>3 DEF NextCode, Ids
<1>. QED  BY <1>1, <1>2, CodeStep, PTL DEF Spec

-----------------------------------------------------------------------------
(* An import that reports no failure.                                      *)

\* The partner of the key is in the table, or somebody deleted or renamed it.
There(k) == k \in dropped \/ \E i \in DOMAIN partner : partner[i].key = k

\* The row of the key is still to be inserted.
InHand(j, k) == j.pc \in {"number", "insert"} /\ j.mem.key = k

RowsThere(j) == ~j.failed => \A k \in j.done : There(k) \/ InHand(j, k)

\* What a job must be that a step puts in the place of another one.
RowsThereThen(j) == ~j.failed => \A k \in j.done : There(k)' \/ InHand(j, k)

SuccessInv == TypeInv /\ \A w \in Workers : RowsThere(job[w])

\* No step takes a partner away without dropping its key, nor renames one.
LEMMA ThereStays ==
    ASSUME TypeInv, [Next]_vars, NEW k, There(k) PROVE There(k)'
<1>1. CASE UNCHANGED <<partner, dropped>>
  BY <1>1 DEF There
<1>2. ASSUME NEW w \in Workers, SavePartner(w) PROVE There(k)'
  <2> DEFINE i == job[w].pk
             row == job[w].mem
  <2>1. CASE NumberTaken(row.number, i)
    BY <1>1, <1>2, <2>1 DEF SavePartner
  <2>2. CASE ~NumberTaken(row.number, i)
    <3>1. /\ partner' = Put(partner, i, row)
          /\ dropped' = dropped \cup
               ({IF i \in DOMAIN partner THEN partner[i].key ELSE row.key}
                  \ {row.key})
      BY <1>2, <2>2 DEF SavePartner, Lost
    <3>2. ASSUME NEW m \in DOMAIN partner, partner[m].key = k
          PROVE  There(k)'
      <4>1. m \in DOMAIN partner'
            /\ partner'[m] = IF m = i THEN row ELSE partner[m]
        BY <3>1 DEF Put
      <4>. QED  BY <3>1, <3>2, <4>1 DEF There
    <3>. QED  BY <3>1, <3>2 DEF There
  <2>. QED  BY <2>1, <2>2
<1>3. ASSUME NEW w \in Workers, InsertPartner(w) PROVE There(k)'
  <2>1. nextPartner \notin DOMAIN partner /\ dropped' = dropped
    BY <1>3 DEF InsertPartner, TypeInv, TypeOK, KeysBehind
  <2>2. ASSUME NEW m \in DOMAIN partner
        PROVE  m \in DOMAIN partner' /\ partner'[m] = partner[m]
    BY <1>3, <2>1 DEF InsertPartner, Put
  <2>. QED  BY <2>1, <2>2 DEF There
<1>4. CASE DeletePartner
  <2>1. PICK i \in DOMAIN partner :
          /\ partner' = Without(partner, i)
          /\ dropped' = dropped \cup {partner[i].key}
    BY <1>4 DEF DeletePartner
  <2>. QED  BY <2>1 DEF There, Without
<1>5. ASSUME NEW w \in Workers,
             \/ UpdateStock(w) \/ PatchProduct(w) \/ SaveProduct(w)
             \/ StartImport(w) \/ EndImport(w) \/ Die(w)
             \/ CheckProduct(w) \/ GenerateCode(w) \/ CreateProduct(w)
             \/ PostProduct(w) \/ CheckPartner(w) \/ NumberPartner(w)
             \/ PostPartner(w) \/ PatchPartner(w)
      PROVE  There(k)'
  <2>1. UNCHANGED <<partner, dropped>>
    BY <1>5 DEF UpdateStock, PatchProduct, Load, SaveProduct, StartImport,
       EndImport, Die, CheckProduct, GenerateCode, CreateProduct, PostProduct,
       CheckPartner, NumberPartner, PostPartner, PatchPartner, tables
  <2>. QED  BY <1>1, <2>1
<1>6. CASE DeleteProduct \/ Midnight \/ UNCHANGED vars
  BY <1>1, <1>6 DEF DeleteProduct, Midnight, vars, tables
<1>. QED  BY <1>2, <1>3, <1>4, <1>5, <1>6 DEF Next

\* The step of one worker, whose job then stands as it should.
LEMMA RowsStep ==
    ASSUME SuccessInv, [Next]_vars, NEW w \in Workers, NEW j,
           job' = [job EXCEPT ![w] = j], RowsThereThen(j)
    PROVE  \A v \in Workers : RowsThere(job[v])'
<1>0. RowsThere(job[w])'
  BY DEF RowsThere, RowsThereThen, InHand, SuccessInv, TypeInv, TypeOK
<1> SUFFICES ASSUME NEW v \in Workers, v # w PROVE RowsThere(job[v])'
  BY <1>0
<1>1. job'[v] = job[v] /\ RowsThere(job[v])
  BY DEF SuccessInv, TypeInv, TypeOK
<1>2. \A k : There(k) => There(k)'
  BY ThereStays DEF SuccessInv
<1>. QED  BY <1>1, <1>2 DEF RowsThere, InHand

\* A job that has dealt with no row that it had not dealt with before, and
\* had no new partner in hand.
LEMMA RowsKept ==
    ASSUME SuccessInv, [Next]_vars, NEW w \in Workers, NEW j,
           j.done = {} \/ (j.done = job[w].done /\ (~j.failed => ~job[w].failed)),
           j.done = {} \/ job[w].pc \notin {"number", "insert"}
    PROVE  RowsThereThen(j)
<1>1. \A k : There(k) => There(k)'
  BY ThereStays DEF SuccessInv
<1>. QED  BY <1>1 DEF SuccessInv, RowsThere, RowsThereThen, InHand

LEMMA EndedRows ==
    ASSUME TypeInv, NEW w \in Workers, NEW ok \in BOOLEAN
    PROVE  \/ Ended(w, ok).done = {}
           \/ /\ Ended(w, ok).done = job[w].done
              /\ ~Ended(w, ok).failed => ~job[w].failed /\ ok
<1> DEFINE failed == job[w].failed \/ ~ok
           j == [job[w] EXCEPT !.pc = job[w].import, !.pk = None, !.mem = None,
                               !.failed = failed]
<1>1. CASE job[w].import = "no"
  BY <1>1 DEF Ended, Idle
<1>2. CASE job[w].import # "no"
  <2>1. Ended(w, ok) = j
    BY <1>2 DEF Ended
  <2>2. job[w] \in Job
    BY DEF TypeInv, TypeOK
  <2>3. j.done = job[w].done /\ j.failed = failed
    <3> HIDE DEF failed
    <3>. QED  BY <2>2 DEF Job
  <2>. QED  BY <2>1, <2>3
<1>. QED  BY <1>1, <1>2

\* A row is looked up: its partner is in the table, or has to be inserted.
LEMMA RowsCheckPartner ==
    ASSUME SuccessInv, [Next]_vars, NEW w \in Workers, CheckPartner(w)
    PROVE  \A v \in Workers : RowsThere(job[v])'
<1>1. PICK r \in PartnerRows :
        LET j == [job[w] EXCEPT !.done = @ \cup {r.key}]
            same == {i \in DOMAIN partner : partner[i].key = r.key}
        IN
        \/ \E i \in same :
             job' = [job EXCEPT ![w] =
                       [j EXCEPT !.pc = "savepartner", !.pk = i,
                                 !.mem = IF r.number = None THEN partner[i]
                                         ELSE [partner[i] EXCEPT
                                                 !.number = r.number]]]
        \/ /\ same # {}
           /\ job' = [job EXCEPT ![w] =
                        [j EXCEPT !.failed = @ \/ j.mode = "refuse"]]
        \/ job' = [job EXCEPT ![w] = NewPartner(j, r)]
  BY DEF CheckPartner
<1> DEFINE j == [job[w] EXCEPT !.done = @ \cup {r.key}]
           same == {i \in DOMAIN partner : partner[i].key = r.key}
           f == [j EXCEPT !.failed = @ \/ j.mode = "refuse"]
           m(i) == IF r.number = None THEN partner[i]
                   ELSE [partner[i] EXCEPT !.number = r.number]
           u(i) == [j EXCEPT !.pc = "savepartner", !.pk = i, !.mem = m(i)]
<1>2. /\ job[w] \in Job /\ job[w].pc = "partners" /\ RowsThere(job[w])
      /\ UNCHANGED <<partner, dropped>>
  BY DEF CheckPartner, tables, SuccessInv, TypeInv, TypeOK
<1>3. /\ j \in Job /\ j.done = job[w].done \cup {r.key}
      /\ j.failed = job[w].failed
  BY <1>2 DEF Job
<1>4. ~job[w].failed => \A k \in job[w].done : There(k)'
  BY <1>2 DEF RowsThere, InHand, There
<1>5. ASSUME same # {} PROVE There(r.key)'
  BY <1>2, <1>5 DEF There
<1>6. ASSUME NEW i \in same, job' = [job EXCEPT ![w] = u(i)]
      PROVE  \A v \in Workers : RowsThere(job[v])'
  <2>1. u(i).done = j.done /\ u(i).failed = j.failed
    <3> HIDE DEF j, m
    <3>. QED  BY <1>3 DEF Job
  <2>2. There(r.key)'
    BY <1>5
  <2> HIDE DEF u, j, same
  <2>3. RowsThereThen(u(i))
    BY <1>3, <1>4, <2>1, <2>2 DEF RowsThereThen
  <2>. QED  BY <1>6, <2>3, RowsStep
<1>7. CASE same # {} /\ job' = [job EXCEPT ![w] = f]
  <2>1. f.done = j.done /\ (~f.failed => ~j.failed)
    <3> HIDE DEF j
    <3>. QED  BY <1>3 DEF Job
  <2>2. There(r.key)'
    BY <1>5, <1>7
  <2> HIDE DEF f, j, same
  <2>3. RowsThereThen(f)
    BY <1>3, <1>4, <2>1, <2>2 DEF RowsThereThen
  <2>. QED  BY <1>7, <2>3, RowsStep
<1>8. CASE job' = [job EXCEPT ![w] = NewPartner(j, r)]
  <2> DEFINE n == NewPartner(j, r)
  <2>1. /\ n.done = j.done /\ n.failed = j.failed
        /\ n.pc \in {"number", "insert"} /\ n.mem.key = r.key
    <3> HIDE DEF j
    <3>. QED  BY <1>3 DEF NewPartner, Job
  <2> HIDE DEF n, j
  <2>2. RowsThereThen(n)
    BY <1>3, <1>4, <2>1 DEF RowsThereThen, InHand
  <2>3. job' = [job EXCEPT ![w] = n]
    BY <1>8 DEF n
  <2>. QED  BY <2>2, <2>3, RowsStep
<1>9. \/ \E i \in same : job' = [job EXCEPT ![w] = u(i)]
      \/ same # {} /\ job' = [job EXCEPT ![w] = f]
      \/ job' = [job EXCEPT ![w] = NewPartner(j, r)]
  BY <1>1, Zenon
<1>. QED  BY <1>6, <1>7, <1>8, <1>9

\* A new partner is numbered, or inserted; an insert that fails is counted.
LEMMA RowsNewPartner ==
    ASSUME SuccessInv, [Next]_vars, NEW w \in Workers,
           NumberPartner(w) \/ InsertPartner(w)
    PROVE  \A v \in Workers : RowsThere(job[v])'
<1>0. /\ TypeInv /\ job[w] \in Job /\ RowsThere(job[w])
      /\ \A k : There(k) => There(k)'
  BY ThereStays DEF SuccessInv, TypeInv, TypeOK
<1>1. CASE NumberPartner(w)
  <2> DEFINE n == NextNumber(job[w].mem.number.prefix)
             mem == [job[w].mem EXCEPT !.number =
                       [job[w].mem.number EXCEPT !.n = n]]
             j == [job[w] EXCEPT !.pc = "insert", !.mem = mem]
  <2>1. job[w].mem \in Partner /\ job[w].pc = "number"
    BY <1>1 DEF NumberPartner, SuccessInv, TypeInv, JobOK
  <2>2. job' = [job EXCEPT ![w] = j]
    <3>1. job' = [job EXCEPT ![w].pc = "insert", ![w].mem.number.n = n]
      BY <1>1 DEF NumberPartner
    <3>2. job \in [Workers -> Job]
      BY DEF SuccessInv, TypeInv, TypeOK
    <3> HIDE DEF n
    <3>. QED  BY <1>0, <2>1, <3>1, <3>2 DEF Job
  <2>3. mem.key = job[w].mem.key
    BY <2>1 DEF Partner
  <2>4. /\ j.done = job[w].done /\ j.failed = job[w].failed
        /\ j.pc = "insert" /\ j.mem = mem
    <3> HIDE DEF mem
    <3>. QED  BY <1>0 DEF Job
  <2>5. RowsThereThen(j)
    <3> HIDE DEF j, mem
    <3>. QED  BY <1>0, <2>3, <2>4 DEF RowsThere, RowsThereThen, InHand
  <2> HIDE DEF j
  <2>. QED  BY <2>2, <2>5, RowsStep
<1>2. CASE InsertPartner(w)
  <2> DEFINE row == job[w].mem
             ok == ~NumberTaken(row.number, None)
             j == Ended(w, ok)
  <2>1. ok \in BOOLEAN /\ job' = [job EXCEPT ![w] = j]
    BY <1>2 DEF InsertPartner, End
  <2>0. PICK k : k = row.key
    OBVIOUS
  <2>2. ok => There(k)'
    BY <1>2, <2>0 DEF InsertPartner, Put, There
  <2>3. \/ j.done = {}
        \/ j.done = job[w].done /\ (~j.failed => ~job[w].failed /\ ok)
    <3> HIDE DEF ok
    <3>. QED  BY <1>0, <2>1, EndedRows
  <2>4. RowsThereThen(j)
    <3> HIDE DEF j, ok
    <3>. QED  BY <1>0, <2>0, <2>2, <2>3 DEF RowsThere, RowsThereThen, InHand
  <2> HIDE DEF j
  <2>. QED  BY <2>1, <2>4, RowsStep
<1>. QED  BY <1>1, <1>2

\* No other step deals with a row of partners.
LEMMA RowsOtherSteps ==
    ASSUME SuccessInv, [Next]_vars, NEW w \in Workers,
           \/ UpdateStock(w) \/ PatchProduct(w) \/ SaveProduct(w)
           \/ StartImport(w) \/ EndImport(w) \/ Die(w)
           \/ CheckProduct(w) \/ GenerateCode(w) \/ CreateProduct(w)
           \/ PostProduct(w)
           \/ PostPartner(w) \/ PatchPartner(w) \/ SavePartner(w)
    PROVE  \A v \in Workers : RowsThere(job[v])'
<1>0. TypeInv /\ job[w] \in Job /\ job \in [Workers -> Job]
  BY DEF SuccessInv, TypeInv, TypeOK
<1>1. ASSUME NEW i, NEW row, Load(w, i, row)
      PROVE  \A v \in Workers : RowsThere(job[v])'
  <2> DEFINE j == [Idle EXCEPT !.pc = "saveproduct", !.pk = i, !.mem = row]
  <2>1. j.done = {} /\ job' = [job EXCEPT ![w] = j]
    BY <1>1 DEF Load, Idle
  <2> HIDE DEF j
  <2>. QED  BY <2>1, RowsKept, RowsStep
<1>2. CASE UpdateStock(w) \/ PatchProduct(w)
  BY <1>1, <1>2 DEF UpdateStock, PatchProduct
<1>3. ASSUME NEW ok \in BOOLEAN, End(w, ok),
             job[w].pc \notin {"number", "insert"}
      PROVE  \A v \in Workers : RowsThere(job[v])'
  BY <1>0, <1>3, EndedRows, RowsKept, RowsStep DEF End
<1>4. CASE SaveProduct(w) \/ CreateProduct(w) \/ SavePartner(w)
  BY <1>3, <1>4 DEF SaveProduct, CreateProduct, SavePartner
<1>5. CASE StartImport(w) \/ EndImport(w) \/ Die(w)
  <2>1. PICK j : j.done = {} /\ job' = [job EXCEPT ![w] = j]
    BY <1>5 DEF StartImport, EndImport, Die, Idle
  <2>. QED  BY <2>1, RowsKept, RowsStep
<1>6. CASE CheckProduct(w)
  <2>1. PICK r \in ProductRows :
          \/ \E i \in Existing(r) :
               job' = [job EXCEPT ![w] =
                         [job[w] EXCEPT !.pc = "saveproduct", !.pk = i,
                                        !.mem = Updated(product[i], r)]]
          \/ \E ok \in BOOLEAN : End(w, ok)
          \/ job' = [job EXCEPT ![w] =
                       [job[w] EXCEPT !.pc = IF r.code = None THEN "code"
                                             ELSE "create",
                                      !.mem = NewProduct(r)]]
    BY <1>6 DEF CheckProduct
  <2>2. job[w].pc = "products"
    BY <1>6 DEF CheckProduct
  <2>3. ASSUME NEW pc, NEW pk, NEW mem,
               job' = [job EXCEPT ![w] = [job[w] EXCEPT !.pc = pc, !.pk = pk,
                                                        !.mem = mem]]
        PROVE  \A v \in Workers : RowsThere(job[v])'
    <3> DEFINE j == [job[w] EXCEPT !.pc = pc, !.pk = pk, !.mem = mem]
    <3>1. j.done = job[w].done /\ j.failed = job[w].failed
      BY <1>0 DEF Job
    <3>2. job' = [job EXCEPT ![w] = j]
      BY <2>3
    <3> HIDE DEF j
    <3>. QED  BY <2>2, <3>1, <3>2, RowsKept, RowsStep
  <2>4. ASSUME job' = [job EXCEPT ![w] =
                         [job[w] EXCEPT !.pc = IF r.code = None THEN "code"
                                               ELSE "create",
                                        !.mem = NewProduct(r)]]
        PROVE  \A v \in Workers : RowsThere(job[v])'
    <3> DEFINE pc == IF r.code = None THEN "code" ELSE "create"
               mem == NewProduct(r)
               j == [job[w] EXCEPT !.pc = pc, !.mem = mem]
    <3>1. j = [job[w] EXCEPT !.pc = pc, !.pk = job[w].pk, !.mem = mem]
      <4> HIDE DEF pc, mem
      <4>. QED  BY <1>0 DEF Job
    <3>2. job' = [job EXCEPT ![w] = j]
      BY <2>4
    <3> HIDE DEF pc, mem, j
    <3>. QED  BY <2>3, <3>1, <3>2
  <2>. QED  BY <1>3, <2>1, <2>2, <2>3, <2>4
<1>7. CASE GenerateCode(w)
  <2>1. job' = [job EXCEPT ![w].pc = "create", ![w].mem.code = NextCode]
    BY <1>7 DEF GenerateCode
  <2>2. job'[w].done = job[w].done /\ job'[w].failed = job[w].failed
    BY <1>0, <2>1 DEF Job
  <2>3. job' = [job EXCEPT ![w] = job'[w]]
    BY <1>0, <2>1
  <2>4. job[w].pc = "code"
    BY <1>7 DEF GenerateCode
  <2>5. PICK j : j = job'[w]
    OBVIOUS
  <2>. QED  BY <2>2, <2>3, <2>4, <2>5, RowsKept, RowsStep
<1>8. CASE PostProduct(w) \/ PostPartner(w) \/ PatchPartner(w)
  <2>1. PICK j : j.done = {} /\ job' = [job EXCEPT ![w] = j]
    BY <1>8 DEF PostProduct, PostPartner, PatchPartner, NewPartner, Idle
  <2>. QED  BY <2>1, RowsKept, RowsStep
<1>. QED  BY <1>2, <1>4, <1>5, <1>6, <1>7, <1>8

LEMMA SuccessStep == SuccessInv /\ [Next]_vars => SuccessInv'
<1> SUFFICES ASSUME SuccessInv, [Next]_vars
             PROVE  \A v \in Workers : RowsThere(job[v])'
  BY TypeStep DEF SuccessInv
<1>1. CASE job' = job
  <2>1. \A k : There(k) => There(k)'
    BY ThereStays DEF SuccessInv
  <2>. QED  BY <1>1, <2>1 DEF SuccessInv, RowsThere, InHand
<1>2. CASE \E w \in Workers :
              \/ UpdateStock(w) \/ PatchProduct(w) \/ SaveProduct(w)
              \/ StartImport(w) \/ EndImport(w) \/ Die(w)
              \/ CheckProduct(w) \/ GenerateCode(w) \/ CreateProduct(w)
              \/ PostProduct(w)
              \/ PostPartner(w) \/ PatchPartner(w) \/ SavePartner(w)
  BY <1>2, RowsOtherSteps
<1>3. CASE \E w \in Workers :
              CheckPartner(w) \/ NumberPartner(w) \/ InsertPartner(w)
  BY <1>3, RowsCheckPartner, RowsNewPartner
<1>4. CASE DeleteProduct \/ DeletePartner \/ Midnight \/ UNCHANGED vars
  BY <1>1, <1>4 DEF DeleteProduct, DeletePartner, Midnight, vars
<1>. QED  BY <1>2, <1>3, <1>4 DEF Next

\* While no row of an import has failed, every row it has dealt with has its
\* partner in the table, unless somebody deleted or renamed that partner:
\* with any number of imports, requests and stale saves at the same time.
THEOREM SuccessfulRowsAreThere == Spec => []SuccessMeansThere
<1>1. Init => SuccessInv
  <2>1. Init => \A w \in Workers : RowsThere(job[w])
    BY DEF Init, Idle, RowsThere
  <2>. QED  BY <2>1, InitTypeInv DEF SuccessInv
<1>2. SuccessInv => SuccessMeansThere
  BY DEF SuccessInv, SuccessMeansThere, RowsThere, There, InHand
<1>. QED  BY <1>1, <1>2, SuccessStep, PTL DEF Spec

-----------------------------------------------------------------------------
(* The rates on offer.                                                     *)

\* Where no rate begins on the next day or ends with this one, the same rates
\* are valid on both, and the same of them are the latest of their type.
LEMMA SameRates ==
    ASSUME NEW d \in Int,
           \A t \in TaxRates : t.active => t.from # d + 1 /\ t.to # d
    PROVE  Offered(d + 1) = Offered(d)
<1>1. ASSUME NEW t \in TaxRates PROVE Valid(t, d + 1) <=> Valid(t, d)
  <2>1. t.from \in Int /\ (t.to = None \/ t.to \in Int)
    BY DEF TaxRate
  <2>2. t.active => t.from # d + 1 /\ t.to # d
    OBVIOUS
  <2>3. t.active => (t.from <= d + 1 <=> t.from <= d)
    BY <2>1, <2>2
  <2>4. t.active /\ t.to # None => (t.to >= d + 1 <=> t.to >= d)
    BY <2>1, <2>2
  <2>. QED  BY <2>3, <2>4 DEF Valid
<1>2. Effective(d + 1) = Effective(d)
  BY <1>1 DEF Effective
<1>. QED  BY <1>2 DEF Offered

\* From one day to the next the rates on offer change only if one begins on
\* the new day or the old day was the last of one, whatever rates there are:
\* periods that overlap, leave a gap or never end.
THEOREM RatesChangeOnStatedDays == Spec => RatesContinuous
<1>1. TypeInv /\ [Next]_vars
        => [day' # day /\ Offered(day') # Offered(day)
              => \E t \in TaxRates :
                   t.active /\ (t.from = day' \/ t.to = day)]_vars
  <2> SUFFICES ASSUME TypeInv, [Next]_vars, day' # day,
                      \A t \in TaxRates :
                        t.active => t.from # day' /\ t.to # day
               PROVE  Offered(day') = Offered(day)
    OBVIOUS
  <2>1. Midnight
    <3>1. ASSUME NEW w \in Workers,
                 UpdateStock(w) \/ PatchProduct(w) \/ SaveProduct(w)
          PROVE  day' = day
      BY <3>1 DEF UpdateStock, PatchProduct, Load, SaveProduct
    <3>2. ASSUME NEW w \in Workers,
                 StartImport(w) \/ EndImport(w) \/ Die(w) \/ CheckProduct(w)
                   \/ GenerateCode(w) \/ CreateProduct(w) \/ PostProduct(w)
          PROVE  day' = day
      BY <3>2 DEF StartImport, EndImport, Die, CheckProduct, GenerateCode, CreateProduct,
                  PostProduct
    <3>3. ASSUME NEW w \in Workers,
                 CheckPartner(w) \/ NumberPartner(w) \/ InsertPartner(w)
                   \/ PostPartner(w) \/ PatchPartner(w) \/ SavePartner(w)
          PROVE  day' = day
      BY <3>3 DEF CheckPartner, NumberPartner, InsertPartner, PostPartner, PatchPartner,
                  SavePartner
    <3>4. DeleteProduct \/ DeletePartner \/ UNCHANGED vars => day' = day
      BY DEF DeleteProduct, DeletePartner, vars
    <3>. QED  BY <3>1, <3>2, <3>3, <3>4 DEF Next
  <2>2. day \in Int /\ day' = day + 1
    BY <2>1 DEF Midnight, TypeInv, TypeOK
  <2>. QED  BY <2>2, SameRates
<1>. QED  BY <1>1, TypeInvariant, PTL DEF Spec, RatesContinuous

-----------------------------------------------------------------------------
(* Generated numbers.                                                      *)

Number(p, n) == [prefix |-> p, n |-> n]
Given(p, n)  == \E i \in DOMAIN partner : partner[i].number = Number(p, n)

\* The numbers before this one are all given.
AllBefore(p, n) == n > 0 /\ \A m \in 1 .. n - 1 : Given(p, m)

\* What is due to one job: the number in hand leaves no gap, and an instance
\* that is written back has the number its row has.
NumberOK(j) ==
    /\ j.pc = "insert" => AllBefore(j.mem.number.prefix, j.mem.number.n)
    /\ j.pc = "savepartner" => /\ j.pk \in DOMAIN partner
                               /\ j.mem.number = partner[j.pk].number

\* The numbers of a prefix have no gaps and rise with the primary keys.
NoGaps ==
    \A i \in DOMAIN partner :
        AllBefore(partner[i].number.prefix, partner[i].number.n)
Rising ==
    \A i, k \in DOMAIN partner :
        partner[i].number.prefix = partner[k].number.prefix /\ i < k
            => partner[i].number.n < partner[k].number.n

NumbersInOrder ==
    NoGaps /\ Rising /\ \A w \in Workers : NumberOK(job[w])

NumberInv ==
    TypeInv /\ (byHand \cap {"number", "delete"} = {} => NumbersInOrder)

\* The next number exceeds all there are, and leaves no gap.
LEMMA NextNumberIsNext ==
    ASSUME TypeInv, NoGaps, Rising, NEW p
    PROVE  /\ AllBefore(p, NextNumber(p))
           /\ \A i \in DOMAIN partner :
                partner[i].number.prefix = p
                    => partner[i].number.n < NextNumber(p)
<1> DEFINE own == {i \in DOMAIN partner : partner[i].number.prefix = p}
<1>0. /\ DOMAIN partner \subseteq Ids
      /\ \A i \in DOMAIN partner : partner[i].number \in [prefix : Prefixes, n : Nat]
  BY DEF TypeInv, TypeOK, Partner
<1>1. CASE own = {}
  BY <1>1 DEF NextNumber, AllBefore
<1>2. CASE own # {}
  <2> DEFINE h == Highest(own)
  <2>1. h \in own /\ \A i \in own : i <= h
    BY <1>0, <1>2, HighestOfIds
  <2>2. NextNumber(p) = partner[h].number.n + 1
    BY <1>2 DEF NextNumber
  <2> HIDE DEF h
  <2>3. partner[h].number \in [prefix : Prefixes, n : Nat] /\ h \in Ids
    BY <1>0, <2>1
  <2>4. ASSUME NEW i \in own PROVE partner[i].number.n < NextNumber(p)
    <3>1. i = h \/ i < h
      BY <1>0, <2>1, <2>3 DEF Ids
    <3>2. partner[i].number.n <= partner[h].number.n
      BY <1>0, <2>1, <2>3, <3>1 DEF Rising
    <3>. QED  BY <1>0, <2>2, <2>3, <3>2
  <2>5. partner[h].number = Number(p, partner[h].number.n)
    BY <2>1, <2>3 DEF Number
  <2>6. AllBefore(p, partner[h].number.n)
    BY <2>1 DEF NoGaps
  <2>7. Given(p, partner[h].number.n)
    BY <2>1, <2>5 DEF Given
  <2>8. AllBefore(p, NextNumber(p))
    <3>1. ASSUME NEW m \in 1 .. NextNumber(p) - 1 PROVE Given(p, m)
      <4>1. m = partner[h].number.n \/ m \in 1 .. partner[h].number.n - 1
        BY <2>2, <2>3
      <4>. QED  BY <2>6, <2>7, <4>1 DEF AllBefore
    <3>. QED  BY <2>2, <2>3, <3>1 DEF AllBefore
  <2>. QED  BY <2>4, <2>8
<1>. QED  BY <1>1, <1>2

\* A step that moves one job on and leaves every number where it is.
LEMMA NumbersStay ==
    ASSUME TypeInv, NumbersInOrder, NEW w \in Workers, NEW j, NumberOK(j),
           job' = [job EXCEPT ![w] = j],
           DOMAIN partner' = DOMAIN partner,
           \A i \in DOMAIN partner : partner'[i].number = partner[i].number
    PROVE  NumbersInOrder'
<1>1. \A p, n : Given(p, n)' <=> Given(p, n)
  BY DEF Given, Number
<1>2. \A p, n : AllBefore(p, n)' <=> AllBefore(p, n)
  BY <1>1 DEF AllBefore
<1>3. NoGaps' /\ Rising'
  BY <1>2 DEF NumbersInOrder, NoGaps, Rising
<1>4. ASSUME NEW v \in Workers PROVE NumberOK(job[v])'
  <2>1. PICK k : k = job'[v] /\ NumberOK(k)
    BY DEF NumbersInOrder, TypeInv, TypeOK
  <2>2. NumberOK(k)'
    BY <1>2, <2>1 DEF NumberOK
  <2>. QED  BY <2>1, <2>2 DEF NumberOK
<1>. QED  BY <1>3, <1>4 DEF NumbersInOrder

LEMMA NumberEnded ==
    ASSUME TypeInv, NEW w \in Workers, NEW ok \in BOOLEAN
    PROVE  Ended(w, ok).pc \notin {"insert", "savepartner"}
BY DEF Ended, Idle, TypeInv, TypeOK, Job

LEMMA NumberCheckPartner ==
    ASSUME TypeInv, NumbersInOrder, NEW w \in Workers, CheckPartner(w),
           "number" \notin byHand'
    PROVE  NumbersInOrder'
<1>1. PICK r \in PartnerRows :
        LET j == [job[w] EXCEPT !.done = @ \cup {r.key}] IN
        /\ r.number = None
        /\ \/ \E i \in DOMAIN partner :
                job' = [job EXCEPT ![w] =
                          [j EXCEPT !.pc = "savepartner", !.pk = i,
                                    !.mem = partner[i]]]
           \/ job' = [job EXCEPT ![w] =
                        [j EXCEPT !.failed = @ \/ j.mode = "refuse"]]
           \/ job' = [job EXCEPT ![w] = NewPartner(j, r)]
  BY DEF CheckPartner
<1> DEFINE j == [job[w] EXCEPT !.done = @ \cup {r.key}]
           f == [j EXCEPT !.failed = @ \/ j.mode = "refuse"]
           u(i) == [j EXCEPT !.pc = "savepartner", !.pk = i, !.mem = partner[i]]
           n == NewPartner(j, r)
<1>2. /\ job[w] \in Job /\ job[w].pc = "partners" /\ UNCHANGED partner
  BY DEF CheckPartner, tables, TypeInv, TypeOK
<1>3. j \in Job /\ j.pc = "partners"
  BY <1>2 DEF Job
<1>4. ASSUME NEW i \in DOMAIN partner PROVE NumberOK(u(i))
  <2> HIDE DEF j
  <2>. QED  BY <1>3 DEF NumberOK, Job
<1>5. NumberOK(f) /\ NumberOK(n)
  <2> HIDE DEF j
  <2>1. f.pc = "partners"
    BY <1>3 DEF Job
  <2>2. n.pc = "number"
    BY <1>1, <1>3 DEF NewPartner, Job
  <2> HIDE DEF f, n
  <2>. QED  BY <2>1, <2>2 DEF NumberOK
<1>6. \/ \E i \in DOMAIN partner : job' = [job EXCEPT ![w] = u(i)]
      \/ job' = [job EXCEPT ![w] = f]
      \/ job' = [job EXCEPT ![w] = n]
  BY <1>1, Zenon
<1> HIDE DEF u, f, n, j
<1>. QED  BY <1>2, <1>4, <1>5, <1>6, NumbersStay

LEMMA NumberNumberPartner ==
    ASSUME TypeInv, NumbersInOrder, NEW w \in Workers, NumberPartner(w)
    PROVE  NumbersInOrder'
<1> DEFINE p == job[w].mem.number.prefix
           n == NextNumber(p)
           mem == [job[w].mem EXCEPT !.number = [job[w].mem.number EXCEPT !.n = n]]
           j == [job[w] EXCEPT !.pc = "insert", !.mem = mem]
<1>1. /\ job[w] \in Job /\ job \in [Workers -> Job]
      /\ job[w].mem \in Partner /\ UNCHANGED partner
  BY DEF NumberPartner, tables, TypeInv, TypeOK, JobOK
<1>2. job' = [job EXCEPT ![w] = j]
  <2>1. job' = [job EXCEPT ![w].pc = "insert", ![w].mem.number.n = n]
    BY DEF NumberPartner
  <2> HIDE DEF n
  <2>. QED  BY <1>1, <2>1 DEF Job
<1>3. mem.number.prefix = p /\ mem.number.n = n
  <2> HIDE DEF n
  <2>. QED  BY <1>1 DEF Partner
<1>4. j.pc = "insert" /\ j.mem = mem
  <2> HIDE DEF mem
  <2>. QED  BY <1>1 DEF Job
<1>5. AllBefore(p, n)
  BY NextNumberIsNext DEF NumbersInOrder
<1>6. NumberOK(j)
  <2> HIDE DEF j, mem, n, p
  <2>. QED  BY <1>3, <1>4, <1>5 DEF NumberOK
<1> HIDE DEF j
<1>. QED  BY <1>1, <1>2, <1>6, NumbersStay

\* Nobody deleted a row, so what is written back is still there, and has its
\* number.
LEMMA NumberSavePartner ==
    ASSUME TypeInv, NumbersInOrder, NEW w \in Workers, SavePartner(w)
    PROVE  NumbersInOrder'
<1>1. PICK ok \in BOOLEAN : job' = [job EXCEPT ![w] = Ended(w, ok)]
  BY DEF SavePartner, End
<1>2. /\ job[w].pk \in DOMAIN partner
      /\ job[w].mem.number = partner[job[w].pk].number
  BY DEF SavePartner, NumbersInOrder, NumberOK
<1>3. partner' = partner \/ partner' = Put(partner, job[w].pk, job[w].mem)
  BY DEF SavePartner
<1>4. /\ DOMAIN partner' = DOMAIN partner
      /\ \A i \in DOMAIN partner : partner'[i].number = partner[i].number
  BY <1>2, <1>3 DEF Put
<1>5. NumberOK(Ended(w, ok))
  BY NumberEnded DEF NumberOK
<1>. QED  BY <1>1, <1>4, <1>5, NumbersStay

\* A number that can be inserted is the next one: all before it are given, and
\* were it smaller, it would be given too.
LEMMA NumberInsertPartner ==
    ASSUME TypeInv, NumbersInOrder, NEW w \in Workers, InsertPartner(w)
    PROVE  NumbersInOrder'
<1> DEFINE row == job[w].mem
           p == row.number.prefix
           n == row.number.n
           ok == ~NumberTaken(row.number, None)
<1>1. /\ ok \in BOOLEAN /\ job' = [job EXCEPT ![w] = Ended(w, ok)]
      /\ row \in Partner /\ AllBefore(p, n) /\ row.number = Number(p, n)
      /\ nextPartner \in Ids /\ n \in Nat
  BY DEF InsertPartner, End, NumbersInOrder, NumberOK, TypeInv, JobOK, Partner,
         Number
<1>2. NumberOK(Ended(w, ok))
  BY <1>1, NumberEnded DEF NumberOK
<1>3. CASE ~ok
  BY <1>1, <1>2, <1>3, NumbersStay DEF InsertPartner
<1>4. CASE ok
  <2>1. /\ \A i \in DOMAIN partner : i < nextPartner /\ i \in Ids
        /\ \A i \in DOMAIN partner : partner[i].number \in [prefix : Prefixes, n : Nat]
        /\ None \notin DOMAIN partner
    BY DEF TypeInv, TypeOK, KeysBehind, Partner, Ids
  <2>2. /\ DOMAIN partner' = DOMAIN partner \cup {nextPartner}
        /\ partner'[nextPartner] = row
        /\ \A i \in DOMAIN partner : partner'[i] = partner[i]
    <3>1. partner' = Put(partner, nextPartner, row)
      BY <1>4 DEF InsertPartner
    <3>2. nextPartner \notin DOMAIN partner
      BY <1>1, <2>1 DEF Ids
    <3> HIDE DEF row
    <3>. QED  BY <3>1, <3>2 DEF Put
  <2>3. ~Given(p, n)
    BY <1>1, <1>4, <2>1 DEF Given, NumberTaken
  <2>4. ASSUME NEW i \in DOMAIN partner, partner[i].number.prefix = p
        PROVE  partner[i].number.n < n
    <3>1. partner[i].number = Number(p, partner[i].number.n)
      BY <2>1, <2>4 DEF Number
    <3>2. partner[i].number.n # n
      BY <2>3, <3>1 DEF Given
    <3>3. ~(n < partner[i].number.n)
      <4>1. AllBefore(p, partner[i].number.n)
        BY <2>4 DEF NumbersInOrder, NoGaps
      <4>. QED  BY <1>1, <2>1, <2>3, <4>1 DEF AllBefore
    <3>. QED  BY <1>1, <2>1, <3>2, <3>3
  <2>5. \A q, m : Given(q, m) => Given(q, m)'
    BY <2>2 DEF Given, Number
  <2>6. \A q, m : AllBefore(q, m) => AllBefore(q, m)'
    BY <2>5 DEF AllBefore
  <2>7. NoGaps'
    <3>1. PICK q, m : q = p /\ m = n
      OBVIOUS
    <3>2. AllBefore(q, m)'
      BY <1>1, <2>6, <3>1
    <3>. QED  BY <2>2, <2>6, <3>1, <3>2 DEF NumbersInOrder, NoGaps
  <2>8. Rising'
    <3> SUFFICES ASSUME NEW i \in DOMAIN partner', NEW k \in DOMAIN partner',
                        partner'[i].number.prefix = partner'[k].number.prefix,
                        i < k
                 PROVE  partner'[i].number.n < partner'[k].number.n
      BY DEF Rising
    <3>1. i # nextPartner
      BY <1>1, <2>1, <2>2 DEF Ids
    <3>2. CASE k = nextPartner
      BY <2>2, <2>4, <3>1, <3>2
    <3>3. CASE k # nextPartner
      BY <2>2, <3>1, <3>3 DEF NumbersInOrder, Rising
    <3>. QED  BY <3>2, <3>3
  <2>9. ASSUME NEW v \in Workers PROVE NumberOK(job[v])'
    <3>1. PICK k : k = job'[v] /\ NumberOK(k)
      BY <1>1, <1>2 DEF NumbersInOrder, TypeInv, TypeOK
    <3>2. NumberOK(k)'
      BY <2>2, <2>6, <3>1 DEF NumberOK
    <3>. QED  BY <3>1, <3>2 DEF NumberOK
  <2>. QED  BY <2>7, <2>8, <2>9 DEF NumbersInOrder
<1>. QED  BY <1>3, <1>4

\* The steps that neither insert a partner nor write one back.
LEMMA NumberOtherSteps ==
    ASSUME TypeInv, NumbersInOrder, NEW w \in Workers,
           \/ UpdateStock(w) \/ PatchProduct(w) \/ SaveProduct(w)
           \/ StartImport(w) \/ EndImport(w) \/ Die(w)
           \/ CheckProduct(w) \/ GenerateCode(w) \/ CreateProduct(w)
           \/ PostProduct(w) \/ PostPartner(w) \/ PatchPartner(w)
    PROVE  NumbersInOrder'
<1>0. job[w] \in Job /\ job \in [Workers -> Job] /\ UNCHANGED partner
  BY DEF UpdateStock, PatchProduct, Load, SaveProduct, StartImport, EndImport,
     Die, CheckProduct, GenerateCode, CreateProduct, PostProduct, PostPartner,
     PatchPartner, tables, TypeInv, TypeOK
<1>1. ASSUME NEW j, j.pc \notin {"insert", "savepartner"},
             job' = [job EXCEPT ![w] = j]
      PROVE  NumbersInOrder'
  BY <1>0, <1>1, NumbersStay DEF NumberOK
<1>2. ASSUME NEW i, NEW row, Load(w, i, row) PROVE NumbersInOrder'
  BY <1>1, <1>2 DEF Load, Idle
<1>3. CASE UpdateStock(w) \/ PatchProduct(w)
  BY <1>2, <1>3 DEF UpdateStock, PatchProduct
<1>4. ASSUME NEW ok \in BOOLEAN, End(w, ok) PROVE NumbersInOrder'
  BY <1>1, <1>4, NumberEnded DEF End
<1>5. CASE SaveProduct(w) \/ CreateProduct(w)
  BY <1>4, <1>5 DEF SaveProduct, CreateProduct
<1>6. CASE StartImport(w) \/ EndImport(w) \/ Die(w)
  <2>1. PICK j : /\ j.pc \notin {"insert", "savepartner"}
                 /\ job' = [job EXCEPT ![w] = j]
    BY <1>6 DEF StartImport, EndImport, Die, Idle, TypeInv, TypeOK
  <2>. QED  BY <1>1, <2>1
<1>7. CASE CheckProduct(w)
  <2>1. PICK r \in ProductRows :
          \/ \E i \in Existing(r) :
               job' = [job EXCEPT ![w] =
                         [job[w] EXCEPT !.pc = "saveproduct", !.pk = i,
                                        !.mem = Updated(product[i], r)]]
          \/ \E ok \in BOOLEAN : End(w, ok)
          \/ job' = [job EXCEPT ![w] =
                       [job[w] EXCEPT !.pc = IF r.code = None THEN "code"
                                             ELSE "create",
                                      !.mem = NewProduct(r)]]
    BY <1>7 DEF CheckProduct
  <2>2. ASSUME NEW i \in Existing(r),
               job' = [job EXCEPT ![w] =
                         [job[w] EXCEPT !.pc = "saveproduct", !.pk = i,
                                        !.mem = Updated(product[i], r)]]
        PROVE  NumbersInOrder'
    <3> DEFINE row == Updated(product[i], r)
               j == [job[w] EXCEPT !.pc = "saveproduct", !.pk = i, !.mem = row]
    <3>1. j.pc = "saveproduct"
      <4> HIDE DEF row
      <4>. QED  BY <1>0 DEF Job
    <3> HIDE DEF row
    <3>. QED  BY <1>1, <2>2, <3>1 DEF row
  <2>3. ASSUME job' = [job EXCEPT ![w] =
                         [job[w] EXCEPT !.pc = IF r.code = None THEN "code"
                                               ELSE "create",
                                        !.mem = NewProduct(r)]]
        PROVE  NumbersInOrder'
    <3> DEFINE row == NewProduct(r)
               pc == IF r.code = None THEN "code" ELSE "create"
               j == [job[w] EXCEPT !.pc = pc, !.mem = row]
    <3>1. j.pc \in {"code", "create"}
      <4> HIDE DEF row
      <4>. QED  BY <1>0 DEF Job
    <3>2. job' = [job EXCEPT ![w] = j]
      BY <2>3
    <3> HIDE DEF j
    <3>. QED  BY <1>1, <3>1, <3>2
  <2>. QED  BY <1>4, <2>1, <2>2, <2>3
<1>8. CASE GenerateCode(w)
  <2>1. PICK j \in Job : job' = [job EXCEPT ![w] = j] /\ j.pc = "create"
    BY <1>8, GeneratedJob
  <2>. QED  BY <1>1, <2>1
<1>9. CASE PostProduct(w)
  BY <1>1, <1>9 DEF PostProduct, Idle
<1>10. CASE PostPartner(w)
  <2>1. PICK r \in PartnerRows :
          r.number = None /\ job' = [job EXCEPT ![w] = NewPartner(Idle, r)]
    BY <1>10 DEF PostPartner
  <2>2. NewPartner(Idle, r).pc = "number"
    BY <2>1 DEF NewPartner, Idle
  <2>. QED  BY <1>1, <2>1, <2>2
<1>11. CASE PatchPartner(w)
  <2>1. PICK i \in DOMAIN partner, r \in PartnerRows :
          job' = [job EXCEPT ![w] =
                    [Idle EXCEPT !.pc = "savepartner", !.pk = i,
                                 !.mem = [partner[i] EXCEPT !.key = r.key]]]
    BY <1>11 DEF PatchPartner
  <2> DEFINE mem == [partner[i] EXCEPT !.key = r.key]
             j == [Idle EXCEPT !.pc = "savepartner", !.pk = i, !.mem = mem]
  <2>2. mem.number = partner[i].number
    BY DEF TypeInv, TypeOK, Partner
  <2>3. j.pk = i /\ j.mem = mem /\ j.pc = "savepartner"
    BY DEF Idle
  <2>4. NumberOK(j)
    <3> HIDE DEF j, mem
    <3>. QED  BY <2>2, <2>3 DEF NumberOK
  <2>5. job' = [job EXCEPT ![w] = j]
    BY <2>1
  <2> HIDE DEF j
  <2>. QED  BY <1>0, <2>4, <2>5, NumbersStay
<1>. QED  BY <1>3, <1>5, <1>6, <1>7, <1>8, <1>9, <1>10, <1>11

\* Nobody takes back that a number was given by hand or a partner deleted.
LEMMA ByHandStays ==
    ASSUME Next
    PROVE  byHand' \cap {"number", "delete"} = {}
             => byHand \cap {"number", "delete"} = {} /\ ~DeletePartner
<1>1. DeletePartner => "delete" \in byHand'
  BY DEF DeletePartner
<1>. QED  BY <1>1, ByHandGrows

LEMMA NumberStep == NumberInv /\ [Next]_vars => NumberInv'
<1> SUFFICES ASSUME NumberInv, [Next]_vars,
                    byHand' \cap {"number", "delete"} = {}
             PROVE  NumbersInOrder'
  BY TypeStep DEF NumberInv
<1>1. CASE byHand' = byHand /\ UNCHANGED <<partner, job>>
  BY <1>1 DEF NumberInv, NumbersInOrder, NoGaps, Rising, NumberOK, AllBefore,
     Given
<1>2. CASE UNCHANGED vars \/ DeleteProduct \/ Midnight
  BY <1>1, <1>2 DEF vars, tables, DeleteProduct, Midnight
<1>3. CASE Next
  <2>1. TypeInv /\ NumbersInOrder /\ ~DeletePartner /\ "number" \notin byHand'
    BY <1>3, ByHandStays DEF NumberInv
  <2>. QED  BY <1>2, <1>3, <2>1, NumberOtherSteps, NumberCheckPartner,
            NumberNumberPartner, NumberInsertPartner, NumberSavePartner
            DEF Next
<1>. QED  BY <1>2, <1>3

\* BusinessPartner.save(): the number generated for the next partner is free,
\* although it is read off the newest partner only and creations race, as long
\* as nobody gave a number by hand or deleted a partner.
THEOREM GeneratedNumberIsFree == Spec => []NextNumberFree
<1>1. Init => NumberInv
  <2> SUFFICES ASSUME Init PROVE NumberInv
    OBVIOUS
  <2>1. DOMAIN partner = {}
    BY DEF Init
  <2>. QED  BY <2>1, InitTypeInv
            DEF Init, NumberInv, NumbersInOrder, NoGaps, Rising, NumberOK, Idle
<1>2. NumberInv => NextNumberFree
  <2> SUFFICES ASSUME TypeInv, NoGaps, Rising, NEW p \in Prefixes,
                      NEW i \in DOMAIN partner,
                      partner[i].number = [prefix |-> p, n |-> NextNumber(p)]
               PROVE  FALSE
    BY DEF NextNumberFree, NumberTaken, NumberInv, NumbersInOrder
  <2>1. partner[i].number.n < NextNumber(p)
    BY NextNumberIsNext
  <2>. QED  BY <2>1, NextNumberType
<1>. QED  BY <1>1, <1>2, NumberStep, PTL DEF Spec
=============================================================================
