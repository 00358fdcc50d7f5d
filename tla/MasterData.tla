----------------------------- MODULE MasterData -----------------------------
(***************************************************************************)
(* Master data: products with their stock and tax rates, and business      *)
(* partners with their generated numbers (models/product.py,               *)
(* business_partner.py, country.py), as the viewsets and the bulk imports  *)
(* of api/rest_views.py read and write them.                               *)
(*                                                                         *)
(* Nothing here runs in a transaction: every statement is a step, and      *)
(* save() writes all columns of an instance loaded before, inserting the   *)
(* row again if it was deleted in between.                                 *)
(*                                                                         *)
(* A code n > 0 stands for P followed by n in five digits, a code below    *)
(* zero for a code of another form.  A partner number is a prefix and the  *)
(* value of its digits; 0 also stands for a suffix that is not a number.   *)
(***************************************************************************)
EXTENDS Integers, FiniteSets

CONSTANTS
    Workers,      \* requests that run at the same time
    ProductRows,  \* rows of product imports, and bodies of POST
    PartnerRows,  \* rows of partner imports, and bodies of POST
    Quantities,   \* numbers a client may send as quantity or minimum
    TaxRates,     \* rates of the company's country
    MaxStock,     \* bound: stock of a product, in both directions
    MaxId,        \* bound: primary keys handed out per table
    MaxDay,       \* bound: days that pass
    MaxSteps,     \* bound: requests made, rows imported and rows deleted
    None          \* NULL, or a field that is left out

Ids      == 1 .. MaxId
Prefixes == {"BUS", "IND"}

\* The columns that matter here; default_tax_rate is 19 unless it is given.
Product == [code    : Int \ {0},
            name    : {r.name : r \in ProductRows},
            track   : BOOLEAN,
            stock   : Int \cup {None},
            minimum : Quantities \cup {None},
            rate    : {t.rate : t \in TaxRates} \cup {19}]

Partner == [key    : {r.key : r \in PartnerRows},   \* name and postal code
            number : [prefix : Prefixes, n : Nat]]

\* Rows as the import serializers hand them on: empty fields are dropped, and
\* a row that gives a stock switches tracking on.
ProductRow == [code : (Int \ {0}) \cup {None}, name : STRING, stock : Int \cup {None}]
PartnerRow == [key : STRING, prefix : Prefixes,
               number : [prefix : Prefixes, n : Nat] \cup {None}]

TaxRate == [type : {"STANDARD", "REDUCED", "SUPER_REDUCED", "EXEMPT"},
            rate : Nat, from : Int, to : Int \cup {None}, active : BOOLEAN]

ASSUME MasterAssumption ==
    /\ ProductRows \subseteq ProductRow /\ PartnerRows \subseteq PartnerRow
    /\ Quantities \subseteq Int /\ None \notin Int
    /\ TaxRates \subseteq TaxRate
    /\ MaxId \in Nat /\ MaxStock \in Nat /\ MaxDay \in Nat /\ MaxSteps \in Nat
    /\ None \notin [prefix : Prefixes, n : Nat]

PCs == {"idle", "products", "partners", "code", "create", "saveproduct",
        "number", "insert", "savepartner"}

Job == [pc     : PCs,
        import : {"no", "products", "partners"},
        mode   : {"skip", "update", "refuse"},  \* of duplicates
        pk     : Ids \cup {None},
        mem    : Product \cup Partner \cup {None},
        done   : SUBSET {r.key : r \in PartnerRows},
        failed : BOOLEAN]                       \* error_count > 0

Idle == [pc |-> "idle", import |-> "no", mode |-> "skip", pk |-> None,
         mem |-> None, done |-> {}, failed |-> FALSE]

VARIABLES
    product,   \* table of products, by primary key
    partner,   \* table of business partners, by primary key
    nextProduct, nextPartner,  \* primary key sequences
    day,
    steps,     \* of MaxSteps
    area,      \* bound: the table this behaviour fills, as they share nothing
    job,       \* what each worker is doing
    byHand,    \* history: codes or numbers given, partners deleted
    dropped    \* history: keys some partner lost

tables == <<product, partner, nextProduct, nextPartner>>
vars == <<tables, day, steps, area, job, byHand, dropped>>

Init ==
    /\ product = << >> /\ partner = << >>
    /\ nextProduct = 1 /\ nextPartner = 1
    /\ day = 0 /\ steps = 0 /\ area \in {"products", "partners"}
    /\ job = [w \in Workers |-> Idle]
    /\ byHand = {} /\ dropped = {}

Put(table, i, row) ==
    [j \in DOMAIN table \cup {i} |-> IF j = i THEN row ELSE table[j]]
Without(table, i) == [j \in DOMAIN table \ {i} |-> table[j]]

\* A request begins, a row is read or something is deleted.
Step == steps < MaxSteps /\ steps' = steps + 1

-----------------------------------------------------------------------------
(* Tax rates.                                                              *)

\* Mutation of Valid: valid_to__gt.
ValidBefore(t, d) ==
    t.active /\ t.from <= d /\ (t.to = None \/ t.to > d)

Valid(t, d) == t.active /\ t.from <= d /\ (t.to = None \/ t.to >= d)

\* CountryTaxRate.get_effective_rates(): the latest per type.
Effective(d) ==
    {t \in TaxRates :
        /\ Valid(t, d)
        /\ \A u \in TaxRates :
             Valid(u, d) /\ u.type = t.type => u.from <= t.from}

\* tax_options(); validate_default_tax_rate() accepts any rate where there
\* is none to offer.
Offered(d) == {t.rate : t \in Effective(d)}
Accepts(rate, d) == Offered(d) = {} \/ rate \in Offered(d)

-----------------------------------------------------------------------------
(* Stock.                                                                  *)

OrZero(n) == IF n = None THEN 0 ELSE n

Booked(op, stock, q) ==
    CASE op = "set"      -> q
      [] op = "add"      -> OrZero(stock) + q
      [] op = "subtract" ->
           IF OrZero(stock) - q > 0 THEN OrZero(stock) - q ELSE 0

\* The action low_stock: SQL compares no NULL.
LowStock(p) ==
    /\ p.track
    /\ p.minimum # None /\ p.stock # None
    /\ p.stock <= p.minimum

\* Product.needs_restock: zero counts as absent.
NeedsRestock(p) ==
    /\ p.track
    /\ p.minimum \notin {None, 0} /\ p.stock \notin {None, 0}
    /\ p.stock <= p.minimum

\* get_object() and the change in memory; the write is SaveProduct.
Load(w, i, row) ==
    /\ job[w].pc = "idle"
    /\ job' = [job EXCEPT ![w] =
                 [Idle EXCEPT !.pc = "saveproduct", !.pk = i, !.mem = row]]
    /\ UNCHANGED <<tables, day, area, dropped>>

UpdateStock(w) ==
    /\ Step
    /\ UNCHANGED byHand
    /\ \E i \in DOMAIN product, q \in Quantities,
          op \in {"set", "add", "subtract"} :
         LET stock == Booked(op, product[i].stock, q) IN
         /\ product[i].track
         /\ stock \in -MaxStock .. MaxStock   \* bound
         /\ Load(w, i, [product[i] EXCEPT !.stock = stock])

\* product_code and partner_number are unique.
CodeTaken(code, i)  == \E j \in DOMAIN product \ {i} : product[j].code = code

\* Mutation of NumberTaken: unique=True is missing.
NumberNeverTaken(nr, i) == FALSE

NumberTaken(nr, i)  == \E j \in DOMAIN partner \ {i} : partner[j].number = nr

MarkCode(r) ==
    byHand' = IF r.code # None /\ r.code > 0 THEN byHand \cup {"code"} ELSE byHand

\* PATCH of one field; Product.clean() is not called.
PatchProduct(w) ==
    /\ Step
    /\ \E i \in DOMAIN product :
         \/ /\ \/ Load(w, i, [product[i] EXCEPT !.track = ~@])
               \/ \E q \in Quantities \cup {None} :
                    \/ Load(w, i, [product[i] EXCEPT !.minimum = q])
                    \/ Load(w, i, [product[i] EXCEPT !.stock = q])
               \/ \E t \in TaxRates :
                    /\ Accepts(t.rate, day)
                    /\ Load(w, i, [product[i] EXCEPT !.rate = t.rate])
            /\ UNCHANGED byHand
         \/ \E r \in ProductRows :
              /\ r.code # None /\ ~CodeTaken(r.code, i)
              /\ MarkCode(r)
              /\ Load(w, i, [product[i] EXCEPT !.code = r.code])

-----------------------------------------------------------------------------
(* How a request, or a row of an import, ends.                             *)

\* Mutation of Ended: error_count += 1 is forgotten.
EndedUncounted(w, ok) ==
    LET j == job[w] IN
    IF j.import = "no" THEN Idle
    ELSE [j EXCEPT !.pc = j.import, !.pk = None, !.mem = None]

\* An exception of the row is caught and counted.
Ended(w, ok) ==
    LET j == job[w] IN
    IF j.import = "no" THEN Idle
    ELSE [j EXCEPT !.pc = j.import, !.pk = None, !.mem = None,
                   !.failed = @ \/ ~ok]

End(w, ok) == job' = [job EXCEPT ![w] = Ended(w, ok)]

SaveProduct(w) ==
    LET i == job[w].pk  row == job[w].mem  ok == ~CodeTaken(row.code, i) IN
    /\ job[w].pc = "saveproduct"
    /\ product' = IF ok THEN Put(product, i, row) ELSE product
    /\ End(w, ok)
    /\ UNCHANGED <<partner, nextProduct, nextPartner, day, area, steps, byHand, dropped>>

\* A failed INSERT has used a primary key.
CreateProduct(w) ==
    LET row == job[w].mem  ok == ~CodeTaken(row.code, None) IN
    /\ job[w].pc = "create"
    /\ nextProduct \in Ids   \* bound
    /\ nextProduct' = nextProduct + 1
    /\ product' = IF ok THEN Put(product, nextProduct, row) ELSE product
    /\ End(w, ok)
    /\ UNCHANGED <<partner, nextPartner, day, area, steps, byHand, dropped>>

DeleteProduct ==
    /\ Step
    /\ \E i \in DOMAIN product : product' = Without(product, i)
    /\ UNCHANGED <<partner, nextProduct, nextPartner, day, area, job, byHand, dropped>>

-----------------------------------------------------------------------------
(* Product import.                                                         *)

StartImport(w) ==
    /\ job[w].pc = "idle"
    /\ \E mode \in {"skip", "update", "refuse"} :
         job' = [job EXCEPT ![w] =
                   [Idle EXCEPT !.pc = area, !.import = area, !.mode = mode]]
    /\ UNCHANGED <<tables, day, area, steps, byHand, dropped>>

\* The answer, 201 or 207 (the aggregated audit entry is AuditTrail's).
EndImport(w) ==
    /\ job[w].pc \in {"products", "partners"}
    /\ job' = [job EXCEPT ![w] = Idle]
    /\ UNCHANGED <<tables, day, area, steps, byHand, dropped>>

\* A worker dies; what it has written stays.
Die(w) ==
    /\ job[w].pc \notin {"idle", "products", "partners"}
    /\ job' = [job EXCEPT ![w] = Idle]
    /\ UNCHANGED <<tables, day, area, steps, byHand, dropped>>

Existing(r) ==
    LET byCode == {i \in DOMAIN product : product[i].code = r.code}
    IN  IF byCode # {} THEN byCode
        ELSE {i \in DOMAIN product : product[i].name = r.name}

\* Only the fields the row gives.
Updated(p, r) ==
    [p EXCEPT !.code  = IF r.code = None THEN @ ELSE r.code,
              !.name  = r.name,
              !.stock = IF r.stock = None THEN @ ELSE r.stock,
              !.track = @ \/ r.stock # None]

NewProduct(r) ==
    [code |-> IF r.code = None THEN -1 ELSE r.code, name |-> r.name,
     track |-> r.stock # None, stock |-> r.stock, minimum |-> None, rate |-> 19]

\* The look-up of one row; the matches come in no order that matters here.
CheckProduct(w) ==
    LET j == job[w] IN
    /\ j.pc = "products"
    /\ Step
    /\ \E r \in ProductRows :
         /\ MarkCode(r)
         /\ \/ \E i \in Existing(r) :
                 /\ j.mode = "update"
                 /\ job' = [job EXCEPT ![w] =
                              [j EXCEPT !.pc = "saveproduct", !.pk = i,
                                        !.mem = Updated(product[i], r)]]
            \/ /\ Existing(r) # {} /\ j.mode # "update"
               /\ End(w, j.mode = "skip")
            \/ /\ Existing(r) = {}
               /\ job' = [job EXCEPT ![w] =
                            [j EXCEPT !.pc = IF r.code = None THEN "code"
                                             ELSE "create",
                                      !.mem = NewProduct(r)]]
    /\ UNCHANGED <<tables, day, area, dropped>>

Highest(S) == CHOOSE m \in S : \A n \in S : n <= m

\* Mutation of NextCode: the number of products.
NextCodeByCount == Cardinality(DOMAIN product) + 1

\* One more than the highest primary key.
NextCode ==
    IF DOMAIN product = {} THEN 1 ELSE Highest(DOMAIN product) + 1

GenerateCode(w) ==
    /\ job[w].pc = "code"
    /\ job' = [job EXCEPT ![w].pc = "create", ![w].mem.code = NextCode]
    /\ UNCHANGED <<tables, day, area, steps, byHand, dropped>>

\* POST of a product: the code is required and checked before the INSERT.
PostProduct(w) ==
    /\ job[w].pc = "idle" /\ area = "products"
    /\ Step
    /\ \E r \in ProductRows :
         /\ r.code # None /\ ~CodeTaken(r.code, None)
         /\ MarkCode(r)
         /\ job' = [job EXCEPT ![w] =
                      [Idle EXCEPT !.pc = "create", !.mem = NewProduct(r)]]
    /\ UNCHANGED <<tables, day, area, dropped>>

-----------------------------------------------------------------------------
(* Business partners and their import.                                     *)

Lost(old, new) == dropped' = dropped \cup ({old} \ {new})

SavePartner(w) ==
    LET i == job[w].pk  row == job[w].mem  ok == ~NumberTaken(row.number, i) IN
    /\ job[w].pc = "savepartner"
    /\ IF ok THEN /\ partner' = Put(partner, i, row)
                  /\ Lost(IF i \in DOMAIN partner THEN partner[i].key
                          ELSE row.key, row.key)
       ELSE UNCHANGED <<partner, dropped>>
    /\ End(w, ok)
    /\ UNCHANGED <<product, nextProduct, nextPartner, day, area, steps, byHand>>

InsertPartner(w) ==
    LET row == job[w].mem  ok == ~NumberTaken(row.number, None) IN
    /\ job[w].pc = "insert"
    /\ nextPartner \in Ids   \* bound
    /\ nextPartner' = nextPartner + 1
    /\ partner' = IF ok THEN Put(partner, nextPartner, row) ELSE partner
    /\ End(w, ok)
    /\ UNCHANGED <<product, nextProduct, day, area, steps, byHand, dropped>>

\* save(): one more than the number of the newest partner with the prefix.
NextNumber(prefix) ==
    LET own == {i \in DOMAIN partner : partner[i].number.prefix = prefix}
    IN  IF own = {} THEN 1 ELSE partner[Highest(own)].number.n + 1

NumberPartner(w) ==
    /\ job[w].pc = "number"
    /\ job' = [job EXCEPT ![w].pc = "insert",
                 ![w].mem.number.n = NextNumber(job[w].mem.number.prefix)]
    /\ UNCHANGED <<tables, day, area, steps, byHand, dropped>>

NewPartner(j, r) ==
    [j EXCEPT !.pc  = IF r.number = None THEN "number" ELSE "insert",
              !.mem = [key |-> r.key,
                       number |-> IF r.number # None THEN r.number
                                  ELSE [prefix |-> r.prefix, n |-> 0]]]

\* One row: duplicates are recognised by company name and postal code.
CheckPartner(w) ==
    \E r \in PartnerRows :
      LET j    == [job[w] EXCEPT !.done = @ \cup {r.key}]
          same == {i \in DOMAIN partner : partner[i].key = r.key}
      IN
      /\ job[w].pc = "partners"
      /\ Step
      /\ byHand' = IF r.number = None THEN byHand ELSE byHand \cup {"number"}
      /\ \/ \E i \in same :
              /\ j.mode = "update"
              /\ job' = [job EXCEPT ![w] =
                           [j EXCEPT !.pc = "savepartner", !.pk = i,
                                     !.mem = IF r.number = None THEN partner[i]
                                             ELSE [partner[i] EXCEPT
                                                     !.number = r.number]]]
         \/ /\ same # {} /\ j.mode # "update"
            /\ job' = [job EXCEPT ![w] =
                         [j EXCEPT !.failed = @ \/ j.mode = "refuse"]]
         \/ /\ same = {}
            /\ job' = [job EXCEPT ![w] = NewPartner(j, r)]
      /\ UNCHANGED <<tables, day, area, dropped>>

\* POST: the number is read-only, and nothing looks for duplicates.
PostPartner(w) ==
    /\ job[w].pc = "idle" /\ area = "partners"
    /\ Step
    /\ \E r \in PartnerRows :
         /\ r.number = None
         /\ job' = [job EXCEPT ![w] = NewPartner(Idle, r)]
    /\ UNCHANGED <<tables, day, area, byHand, dropped>>

PatchPartner(w) ==
    /\ job[w].pc = "idle"
    /\ Step
    /\ \E i \in DOMAIN partner, r \in PartnerRows :
         job' = [job EXCEPT ![w] =
                   [Idle EXCEPT !.pc = "savepartner", !.pk = i,
                                !.mem = [partner[i] EXCEPT !.key = r.key]]]
    /\ UNCHANGED <<tables, day, area, byHand, dropped>>

\* Refused for partners of invoices (PROTECT).
DeletePartner ==
    /\ Step
    /\ \E i \in DOMAIN partner :
         /\ partner' = Without(partner, i)
         /\ dropped' = dropped \cup {partner[i].key}
    /\ byHand' = byHand \cup {"delete"}
    /\ UNCHANGED <<product, nextProduct, nextPartner, day, area, job>>

Midnight ==
    /\ day < MaxDay
    /\ day' = day + 1
    /\ UNCHANGED <<tables, steps, area, job, byHand, dropped>>

Next ==
    \/ \E w \in Workers :
         \/ UpdateStock(w) \/ PatchProduct(w) \/ SaveProduct(w)
         \/ StartImport(w) \/ EndImport(w) \/ Die(w)
         \/ CheckProduct(w) \/ GenerateCode(w) \/ CreateProduct(w)
         \/ PostProduct(w)
         \/ CheckPartner(w) \/ NumberPartner(w) \/ InsertPartner(w)
         \/ PostPartner(w) \/ PatchPartner(w) \/ SavePartner(w)
    \/ DeleteProduct \/ DeletePartner \/ Midnight

Spec == Init /\ [][Next]_vars

-----------------------------------------------------------------------------
(* Properties.                                                             *)

\* Types, and the unique columns of both tables.
TypeOK ==
    /\ DOMAIN product \subseteq Ids
    /\ \A i \in DOMAIN product : product[i] \in Product
    /\ DOMAIN partner \subseteq Ids
    /\ \A i \in DOMAIN partner : partner[i] \in Partner
    /\ nextProduct \in 1 .. MaxId + 1 /\ nextPartner \in 1 .. MaxId + 1
    /\ day \in 0 .. MaxDay /\ steps \in 0 .. MaxSteps
    /\ area \in {"products", "partners"}
    /\ job \in [Workers -> Job]
    /\ \A i, k \in DOMAIN product : product[i].code = product[k].code => i = k
    /\ \A i, k \in DOMAIN partner : partner[i].number = partner[k].number => i = k

\* ProductImportView: the code generated for the next product is free,
\* whatever importers raced, inserts failed and products were deleted or
\* brought back by a stale save(), as long as nobody gave a code of the
\* generated form by hand.
NextCodeFree == "code" \notin byHand => ~CodeTaken(NextCode, None)

\* BusinessPartner.save(): the number generated for the next partner is free,
\* whatever creations raced, as long as no number was given by hand and no
\* partner was deleted.
NextNumberFree ==
    byHand \cap {"number", "delete"} = {}
        => \A p \in Prefixes :
             ~NumberTaken([prefix |-> p, n |-> NextNumber(p)], None)

\* BusinessPartnerImportView: while no row of an import has failed, every row
\* it has dealt with has its partner in the table, unless that partner was
\* deleted or renamed by somebody.
SuccessMeansThere ==
    \A w \in Workers :
        job[w].pc = "partners" /\ ~job[w].failed
            => \A k \in job[w].done :
                 k \in dropped \/ \E i \in DOMAIN partner : partner[i].key = k

\* get_effective_rates(): from one day to the next the rates on offer change
\* only if one begins on the new day or the old day was the last of one.
RatesContinuous ==
    [][day' # day /\ Offered(day') # Offered(day)
         => \E t \in TaxRates : t.active /\ (t.from = day' \/ t.to = day)]_vars

\* low_stock and needs_restock speak of the same products.
RestockAgrees ==
    \A i \in DOMAIN product : LowStock(product[i]) <=> NeedsRestock(product[i])

\* A deleted product does not come back.
DeletedStaysDeleted ==
    [][\A i \in DOMAIN product' \ DOMAIN product : i >= nextProduct]_vars

\* The number generated for the next partner is free, full stop.
NumberingNeverSticks ==
    \A p \in Prefixes : ~NumberTaken([prefix |-> p, n |-> NextNumber(p)], None)

\* An import in "skip" or "refuse" mode adds no second partner of a key.
NoDuplicates ==
    \A i, k \in DOMAIN partner : partner[i].key = partner[k].key => i = k
=============================================================================
