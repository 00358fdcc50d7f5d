------------------------ MODULE InvoiceDispatchProofs ------------------------
(***************************************************************************)
(* Proofs about InvoiceDispatch and about ElectronicInvoice, the document  *)
(* its jobs render and mail.                                               *)
(*                                                                         *)
(* The document: for any lines, allowances, charges and rates its amounts  *)
(* add up and are those of the stored totals up to the roundings, and its  *)
(* validation answers what the schemas say.                                *)
(*                                                                         *)
(* The jobs: for any number of jobs of any kind, any business partner and  *)
(* all faults, what the columns, the audit log and the answers say of a    *)
(* mail is true.  A mail is never taken back, so a stale instance that is  *)
(* written back may lose the record of a mail and cannot invent one; and a *)
(* job mails at most once, at one place, after which it only records.  A   *)
(* PDF the invoice names is whole where no job renders it twice, and an    *)
(* authority only gets documents of its own kind.                          *)
(***************************************************************************)
EXTENDS InvoiceDispatch, ElectronicInvoice, FiniteSetTheorems, TLAPS

-----------------------------------------------------------------------------
(* Sums.                                                                   *)

\* A fold over a finite set, as the library defines it, is the sum of a
\* function.  What holds of sums is proved from a least counterexample: among
\* the subsets of a finite set that have a property one is smallest.
Chosen(s)     == CHOOSE x \in s : TRUE
Iter(F, g, S) == F = [s \in SUBSET S |->
                        IF s = {} THEN 0 ELSE g[Chosen(s)] + F[s \ {Chosen(s)}]]
SumOf(g, S)   == (CHOOSE F : Iter(F, g, S))[S]

LEMMA LeastNumber ==
    ASSUME NEW T \in SUBSET Nat, T # {} PROVE \E x \in T : \A y \in T : x <= y
<1>1. IsWellFoundedOn(OpToRel(<, Nat), Nat)
  BY NatLessThanWellFounded
<1>2. PICK R : R = OpToRel(<, Nat)
  OBVIOUS
<1>3. \A x, y \in Nat : y < x => <<y, x>> \in R
  BY <1>2 DEF OpToRel
<1>4. \E x \in T : \A y \in T : ~ (<<y, x>> \in R)
  BY <1>1, <1>2, WFMin
<1>5. \A x, y \in T : ~ (<<y, x>> \in R) => x <= y
  BY <1>3
<1>. QED  BY <1>4, <1>5

LEMMA ChosenIn == \A s : s # {} => Chosen(s) \in s
BY DEF Chosen

\* Among the subsets of a finite set with a property one is smallest.
LEMMA SmallestSubset ==
    ASSUME NEW S, IsFiniteSet(S), NEW T \in SUBSET SUBSET S, T # {}
    PROVE  \E m \in T : /\ IsFiniteSet(m)
                        /\ \A x \in m : m \ {x} \notin T
<1>1. \A s \in SUBSET S : IsFiniteSet(s) /\ Cardinality(s) \in Nat
  BY FS_Subset, FS_CardinalityType
<1>2. PICK n \in {Cardinality(s) : s \in T} : \A k \in {Cardinality(s) : s \in T} : n <= k
  <2>1. {Cardinality(s) : s \in T} \in SUBSET Nat /\ {Cardinality(s) : s \in T} # {}
    BY <1>1
  <2>. QED  BY <2>1, LeastNumber
<1>3. PICK m \in T : Cardinality(m) = n
  BY <1>2
<1>4. ASSUME NEW x \in m PROVE m \ {x} \notin T
  <2>1. Cardinality(m \ {x}) = n - 1 /\ n \in Nat
    BY <1>1, <1>3, FS_RemoveElement
  <2>. QED  BY <1>2, <2>1
<1>. QED  BY <1>1, <1>3, <1>4

LEMMA IterExists ==
    ASSUME NEW S, IsFiniteSet(S), NEW g PROVE \E F : Iter(F, g, S)
<1> DEFINE Upto(n)  == {s \in SUBSET S : Cardinality(s) <= n}
           Steps(F, n) == F = [s \in Upto(n) |->
                             IF s = {} THEN 0 ELSE g[Chosen(s)] + F[s \ {Chosen(s)}]]
<1>1. \A s \in SUBSET S : IsFiniteSet(s) /\ Cardinality(s) \in Nat
                          /\ Cardinality(s) <= Cardinality(S)
  BY FS_Subset, FS_CardinalityType
<1>2. \A n \in Nat : \E F : Steps(F, n)
  <2> SUFFICES ASSUME \E n \in Nat : ~ \E F : Steps(F, n) PROVE FALSE
    OBVIOUS
  <2>1. PICK n \in Nat : /\ ~ \E F : Steps(F, n)
                         /\ \A k \in Nat : k < n => \E F : Steps(F, k)
    <3> DEFINE T == {n \in Nat : ~ \E F : Steps(F, n)}
    <3>1. T \in SUBSET Nat /\ T # {}
      OBVIOUS
    <3> HIDE DEF Steps
    <3>2. PICK n \in T : \A k \in T : n <= k
      BY <3>1, LeastNumber
    <3>. QED  BY <3>2
  <2>2. CASE n = 0
    <3>1. \A s \in Upto(0) : s = {}
      BY <1>1, FS_EmptySet
    <3>2. Steps([s \in Upto(0) |-> 0], 0)
      BY <3>1
    <3>. QED  BY <2>1, <2>2, <3>2
  <2>3. CASE n # 0
    <3>1. PICK m \in Nat : n = m + 1
      BY <2>3
    <3>2. PICK F : Steps(F, m)
      <4>1. m < n
        BY <3>1
      <4> HIDE DEF Steps
      <4>. QED  BY <2>1, <4>1
    <3> DEFINE G == [s \in Upto(n) |->
                       IF s = {} THEN 0 ELSE g[Chosen(s)] + F[s \ {Chosen(s)}]]
    <3>3. ASSUME NEW t \in Upto(m) PROVE G[t] = F[t]
      <4>1. t \in Upto(n)
        BY <1>1, <3>1
      <4>. QED  BY <3>2, <4>1
    <3>4. ASSUME NEW s \in Upto(n), s # {} PROVE s \ {Chosen(s)} \in Upto(m)
      <4>1. Chosen(s) \in s /\ Cardinality(s) <= n
        BY <3>4, ChosenIn
      <4>2. Cardinality(s \ {Chosen(s)}) = Cardinality(s) - 1
        BY <1>1, <4>1, FS_RemoveElement
      <4>. QED  BY <1>1, <3>1, <4>1, <4>2
    <3>5. Steps(G, n)
      BY <3>3, <3>4
    <3>. QED  BY <2>1, <3>5
  <2>. QED  BY <2>2, <2>3
<1>3. PICK F : Steps(F, Cardinality(S))
  BY <1>1, <1>2
<1>4. Upto(Cardinality(S)) = SUBSET S
  BY <1>1
<1>. QED  BY <1>3, <1>4 DEF Iter

\* The sum is what any such function gives, on any larger set.
LEMMA IterUnique ==
    ASSUME NEW S, IsFiniteSet(S), NEW R, NEW F, NEW G, NEW g, NEW h,
           Iter(F, g, S), Iter(G, h, R), S \subseteq R, \A x \in S : g[x] = h[x]
    PROVE  \A s \in SUBSET S : F[s] = G[s]
<1> DEFINE T == {s \in SUBSET S : F[s] # G[s]}
<1> SUFFICES ASSUME T # {} PROVE FALSE
  OBVIOUS
<1>1. PICK m \in T : \A x \in m : m \ {x} \notin T
  BY SmallestSubset
<1>2. /\ m \in SUBSET S /\ m \in SUBSET R
      /\ F[m] = IF m = {} THEN 0 ELSE g[Chosen(m)] + F[m \ {Chosen(m)}]
      /\ G[m] = IF m = {} THEN 0 ELSE h[Chosen(m)] + G[m \ {Chosen(m)}]
  BY DEF Iter
<1>3. m # {} => F[m \ {Chosen(m)}] = G[m \ {Chosen(m)}] /\ g[Chosen(m)] = h[Chosen(m)]
  BY <1>1, <1>2, ChosenIn
<1>. QED  BY <1>1, <1>2, <1>3

LEMMA SumIs ==
    ASSUME NEW S, IsFiniteSet(S), NEW R, NEW G, NEW g, NEW h,
           Iter(G, h, R), S \subseteq R, \A x \in S : g[x] = h[x]
    PROVE  SumOf(g, S) = G[S]
<1>1. PICK F : F = CHOOSE H : Iter(H, g, S)
  OBVIOUS
<1>2. Iter(F, g, S)
  BY <1>1, IterExists
<1>. QED  BY <1>1, <1>2, IterUnique DEF SumOf

LEMMA SumStep ==
    ASSUME NEW S, IsFiniteSet(S), NEW g
    PROVE  SumOf(g, S) = IF S = {} THEN 0 ELSE g[Chosen(S)] + SumOf(g, S \ {Chosen(S)})
<1>1. PICK F : Iter(F, g, S)
  BY IterExists
<1>2. \A s \in SUBSET S : SumOf(g, s) = F[s]
  BY <1>1, SumIs, FS_Subset
<1>3. F[S] = IF S = {} THEN 0 ELSE g[Chosen(S)] + F[S \ {Chosen(S)}]
  BY <1>1 DEF Iter
<1>. QED  BY <1>2, <1>3

LEMMA SumInt ==
    ASSUME NEW S, IsFiniteSet(S), NEW g, \A x \in S : g[x] \in Int
    PROVE  SumOf(g, S) \in Int
<1> DEFINE T == {s \in SUBSET S : SumOf(g, s) \notin Int}
<1> SUFFICES ASSUME T # {} PROVE FALSE
  OBVIOUS
<1>1. PICK m \in T : IsFiniteSet(m) /\ \A x \in m : m \ {x} \notin T
  BY SmallestSubset
<1>2. SumOf(g, m) = IF m = {} THEN 0 ELSE g[Chosen(m)] + SumOf(g, m \ {Chosen(m)})
  BY <1>1, SumStep
<1>3. m # {} => Chosen(m) \in m /\ SumOf(g, m \ {Chosen(m)}) \in Int
  BY <1>1, ChosenIn
<1>. QED  BY <1>2, <1>3

\* Any element may be added last.
LEMMA SumAdd ==
    ASSUME NEW S, IsFiniteSet(S), NEW g, \A x \in S : g[x] \in Int, NEW a \in S
    PROVE  SumOf(g, S) = g[a] + SumOf(g, S \ {a})
<1> DEFINE T == {s \in SUBSET S : \E x \in s : SumOf(g, s) # g[x] + SumOf(g, s \ {x})}
<1> SUFFICES ASSUME T # {} PROVE FALSE
  OBVIOUS
<1>1. PICK m \in T : IsFiniteSet(m) /\ \A x \in m : m \ {x} \notin T
  BY SmallestSubset
<1>2. PICK b \in m : SumOf(g, m) # g[b] + SumOf(g, m \ {b})
  OBVIOUS
<1>3. PICK x \in m : SumOf(g, m) = g[x] + SumOf(g, m \ {x})
  <2>1. m # {} /\ Chosen(m) \in m
    BY <1>2, ChosenIn
  <2>2. SumOf(g, m) = g[Chosen(m)] + SumOf(g, m \ {Chosen(m)})
    BY <1>1, <2>1, SumStep
  <2>. QED  BY <2>1, <2>2
<1>4. CASE x # b
  <2>1. SumOf(g, m \ {x}) = g[b] + SumOf(g, (m \ {x}) \ {b})
    BY <1>1, <1>4
  <2>2. SumOf(g, m \ {b}) = g[x] + SumOf(g, (m \ {b}) \ {x})
    BY <1>1, <1>4
  <2>3. (m \ {x}) \ {b} = (m \ {b}) \ {x}
    OBVIOUS
  <2>4. PICK r \in Int : r = SumOf(g, (m \ {b}) \ {x})
    <3>1. IsFiniteSet((m \ {b}) \ {x})
      BY <1>1, FS_Subset
    <3>. QED  BY <3>1, SumInt
  <2>5. g[b] \in Int /\ g[x] \in Int
    OBVIOUS
  <2>6. SumOf(g, m) = g[x] + (g[b] + r) /\ SumOf(g, m \ {b}) = g[x] + r
    BY <1>3, <2>1, <2>2, <2>3, <2>4
  <2>. QED  BY <1>2, <2>4, <2>5, <2>6
<1>. QED  BY <1>2, <1>3, <1>4

LEMMA SumEmpty == \A g : SumOf(g, {}) = 0
BY SumStep, FS_EmptySet

LEMMA SumSame ==
    ASSUME NEW S, IsFiniteSet(S), NEW g, NEW h, \A x \in S : g[x] = h[x]
    PROVE  SumOf(g, S) = SumOf(h, S)
<1>1. PICK F : Iter(F, h, S)
  BY IterExists
<1>2. SumOf(g, S) = F[S] /\ SumOf(h, S) = F[S]
  BY <1>1, SumIs
<1>. QED  BY <1>2

LEMMA SumPlus ==
    ASSUME NEW S, IsFiniteSet(S), NEW f, NEW g, NEW h,
           \A x \in S : g[x] \in Int /\ h[x] \in Int /\ f[x] = g[x] + h[x]
    PROVE  SumOf(f, S) = SumOf(g, S) + SumOf(h, S)
<1> DEFINE T == {s \in SUBSET S : SumOf(f, s) # SumOf(g, s) + SumOf(h, s)}
<1> SUFFICES ASSUME T # {} PROVE FALSE
  OBVIOUS
<1>1. PICK m \in T : IsFiniteSet(m) /\ \A x \in m : m \ {x} \notin T
  BY SmallestSubset
<1>2. CASE m = {}
  BY <1>2, SumEmpty
<1>3. CASE m # {}
  <2>1. PICK x \in m : x = Chosen(m)
    BY <1>3, ChosenIn
  <2>2. /\ SumOf(f, m) = f[x] + SumOf(f, m \ {x})
        /\ SumOf(g, m) = g[x] + SumOf(g, m \ {x})
        /\ SumOf(h, m) = h[x] + SumOf(h, m \ {x})
    BY <1>1, <1>3, <2>1, SumStep
  <2>3. SumOf(f, m \ {x}) = SumOf(g, m \ {x}) + SumOf(h, m \ {x})
    BY <1>1
  <2>4. SumOf(g, m \ {x}) \in Int /\ SumOf(h, m \ {x}) \in Int
    BY <1>1, SumInt, FS_Subset
  <2>5. g[x] \in Int /\ h[x] \in Int /\ f[x] = g[x] + h[x]
    OBVIOUS
  <2>. QED  BY <2>2, <2>3, <2>4, <2>5
<1>. QED  BY <1>2, <1>3

LEMMA SumUnion ==
    ASSUME NEW A, NEW B, IsFiniteSet(A), IsFiniteSet(B), A \cap B = {}, NEW g,
           \A x \in A \cup B : g[x] \in Int
    PROVE  SumOf(g, A \cup B) = SumOf(g, A) + SumOf(g, B)
<1> DEFINE T == {s \in SUBSET A : SumOf(g, s \cup B) # SumOf(g, s) + SumOf(g, B)}
<1> SUFFICES ASSUME T # {} PROVE FALSE
  OBVIOUS
<1>1. PICK m \in T : IsFiniteSet(m) /\ \A x \in m : m \ {x} \notin T
  BY SmallestSubset
<1>2. SumOf(g, B) \in Int
  BY SumInt
<1>3. CASE m = {}
  <2>1. m \cup B = B
    BY <1>3
  <2>. QED  BY <1>2, <1>3, <2>1, SumEmpty
<1>4. CASE m # {}
  <2>1. PICK x : x \in m
    BY <1>4
  <2>2. IsFiniteSet(m \cup B) /\ IsFiniteSet(m \ {x})
    BY <1>1, FS_Union, FS_Subset
  <2>3. (m \cup B) \ {x} = (m \ {x}) \cup B
    BY <2>1
  <2>4. SumOf(g, m \cup B) = g[x] + SumOf(g, (m \cup B) \ {x})
    BY <2>1, <2>2, SumAdd
  <2>5. SumOf(g, m) = g[x] + SumOf(g, m \ {x})
    BY <1>1, <2>1, SumAdd
  <2>6. SumOf(g, (m \ {x}) \cup B) = SumOf(g, m \ {x}) + SumOf(g, B)
    BY <1>1, <2>1
  <2>7. PICK r, y \in Int : r = SumOf(g, m \ {x}) /\ y = g[x]
    BY <2>1, <2>2, SumInt
  <2>8. SumOf(g, m \cup B) = y + (r + SumOf(g, B)) /\ SumOf(g, m) = y + r
    BY <2>3, <2>4, <2>5, <2>6, <2>7
  <2>. QED  BY <1>2, <2>7, <2>8
<1>. QED  BY <1>3, <1>4

LEMMA SumOne ==
    ASSUME NEW a, NEW g, g[a] \in Int PROVE SumOf(g, {a}) = g[a]
<1>1. IsFiniteSet({a}) /\ {a} \ {a} = {}
  BY FS_Singleton
<1>2. SumOf(g, {a}) = g[a] + SumOf(g, {a} \ {a})
  BY <1>1, SumAdd
<1>3. SumOf(g, {a} \ {a}) = 0
  BY <1>1, SumEmpty
<1>. QED  BY <1>2, <1>3

LEMMA SumTwo ==
    ASSUME NEW a, NEW b, a # b, NEW g, g[a] \in Int, g[b] \in Int
    PROVE  SumOf(g, {a, b}) = g[a] + g[b]
<1>1. IsFiniteSet({a}) /\ IsFiniteSet({b}) /\ {a} \cap {b} = {}
  BY FS_Singleton
<1>2. \A x \in {a} \cup {b} : g[x] \in Int
  OBVIOUS
<1>3. SumOf(g, {a} \cup {b}) = SumOf(g, {a}) + SumOf(g, {b})
  BY <1>1, <1>2, SumUnion
<1>4. {a} \cup {b} = {a, b}
  OBVIOUS
<1>. QED  BY <1>3, <1>4, SumOne

-----------------------------------------------------------------------------
(* The sums of an invoice.                                                 *)

\* A fold over a set is the sum of a function.
NetSum(S)  == [x \in S |-> lines[x].total]
TaxSum(S)  == [x \in S |-> lines[x].tax]
Sign(c)    == IF charges[c].charge THEN charges[c].amount ELSE -charges[c].amount
SignSum(S) == [x \in S |-> Sign(x)]

\* The function a fold chooses, as the library writes it, is one of those.
LEMMA NetIs == ASSUME NEW S, IsFiniteSet(S) PROVE NetOf(S) = SumOf(NetSum(S), S)
<1> DEFINE Raw(F) == F = [s \in SUBSET S |-> IF s = {} THEN 0
                            ELSE lines[CHOOSE x \in s : TRUE].total
                                 + F[s \ {CHOOSE x \in s : TRUE}]]
<1>1. NetOf(S) = (CHOOSE F : Raw(F))[S]
  BY DEF NetOf, MapThenSumSet, MapThenFoldSet
<1>2. \A s \in SUBSET S : s # {} =>
         NetSum(S)[Chosen(s)] = lines[CHOOSE x \in s : TRUE].total
  BY DEF NetSum, Chosen
<1>3. \A F : Raw(F) <=> Iter(F, NetSum(S), S)
  BY <1>2 DEF Iter, Chosen
<1> HIDE DEF Raw
<1>4. PICK G : G = CHOOSE F : Raw(F)
  OBVIOUS
<1>5. Iter(G, NetSum(S), S)
  BY <1>3, <1>4, IterExists
<1>. QED  BY <1>1, <1>4, <1>5, SumIs

LEMMA TaxIs == ASSUME NEW S, IsFiniteSet(S) PROVE TaxOf(S) = SumOf(TaxSum(S), S)
<1> DEFINE Raw(F) == F = [s \in SUBSET S |-> IF s = {} THEN 0
                            ELSE lines[CHOOSE x \in s : TRUE].tax
                                 + F[s \ {CHOOSE x \in s : TRUE}]]
<1>1. TaxOf(S) = (CHOOSE F : Raw(F))[S]
  BY DEF TaxOf, MapThenSumSet, MapThenFoldSet
<1>2. \A s \in SUBSET S : s # {} =>
         TaxSum(S)[Chosen(s)] = lines[CHOOSE x \in s : TRUE].tax
  BY DEF TaxSum, Chosen
<1>3. \A F : Raw(F) <=> Iter(F, TaxSum(S), S)
  BY <1>2 DEF Iter, Chosen
<1> HIDE DEF Raw
<1>4. PICK G : G = CHOOSE F : Raw(F)
  OBVIOUS
<1>5. Iter(G, TaxSum(S), S)
  BY <1>3, <1>4, IterExists
<1>. QED  BY <1>1, <1>4, <1>5, SumIs

LEMMA SignedIs == ASSUME NEW S, IsFiniteSet(S) PROVE Signed(S) = SumOf(SignSum(S), S)
<1> DEFINE Raw(F) == F = [s \in SUBSET S |-> IF s = {} THEN 0
                            ELSE (IF charges[CHOOSE x \in s : TRUE].charge
                                  THEN charges[CHOOSE x \in s : TRUE].amount
                                  ELSE -charges[CHOOSE x \in s : TRUE].amount)
                                 + F[s \ {CHOOSE x \in s : TRUE}]]
<1>1. Signed(S) = (CHOOSE F : Raw(F))[S]
  BY DEF Signed, MapThenSumSet, MapThenFoldSet
<1>2. \A s \in SUBSET S : s # {} => SignSum(S)[Chosen(s)] = Sign(Chosen(s))
  BY DEF SignSum, Chosen
<1>3. \A F : Raw(F) <=> Iter(F, SignSum(S), S)
  BY <1>2 DEF Iter, Chosen, Sign
<1> HIDE DEF Raw
<1>4. PICK G : G = CHOOSE F : Raw(F)
  OBVIOUS
<1>5. Iter(G, SignSum(S), S)
  BY <1>3, <1>4, IterExists
<1>. QED  BY <1>1, <1>4, <1>5, SumIs

\* The rows, as far as the sums need their types.
RowsOK ==
    /\ \A l \in Present : lines[l] \in Line
    /\ \A c \in Charged : charges[c] \in Charge

LEMMA Finite ==
    /\ IsFiniteSet(LineIds) /\ IsFiniteSet(ChargeIds)
    /\ IsFiniteSet(Present) /\ IsFiniteSet(Charged) /\ IsFiniteSet(LineRates)
    /\ \A x : IsFiniteSet(On(x))
    /\ \A r : IsFiniteSet({l \in Present : lines[l].rate = r})
<1>1. IsFiniteSet(LineIds) /\ IsFiniteSet(ChargeIds)
  BY InputsAssumption
<1>2. Present \subseteq LineIds /\ Charged \subseteq ChargeIds
  BY DEF Present, Charged
<1>3. IsFiniteSet(Present) /\ IsFiniteSet(Charged)
  BY <1>1, <1>2, FS_Subset
<1>4. IsFiniteSet(LineRates)
  <2>1. [l \in Present |-> lines[l].rate] \in Surjection(Present, LineRates)
    BY DEF LineRates, Surjection
  <2>. QED  BY <1>3, <2>1, FS_Surjection
<1>5. \A x : On(x) \subseteq Charged
  BY DEF On
<1>6. \A r : {l \in Present : lines[l].rate = r} \subseteq Present
  OBVIOUS
<1>. QED  BY <1>1, <1>3, <1>4, <1>5, <1>6, FS_Subset

LEMMA QuantizedInt ==
    ASSUME NEW n \in Int, NEW d \in Int, d # 0 PROVE Quantized(n, d) \in Int
BY DEF Quantized

LEMMA RoundedInt ==
    ASSUME NEW n \in Int, NEW d \in Int, d # 0, NEW u PROVE Rounded(n, d, u) \in Int
BY DEF Rounded

LEMMA NetInt == ASSUME RowsOK, NEW S \in SUBSET Present PROVE NetOf(S) \in Int
<1>1. IsFiniteSet(S)
  BY Finite, FS_Subset
<1>2. \A x \in S : NetSum(S)[x] \in Int
  BY DEF NetSum, RowsOK, Line
<1>. QED  BY <1>1, <1>2, NetIs, SumInt

LEMMA TaxInt == ASSUME RowsOK, NEW S \in SUBSET Present PROVE TaxOf(S) \in Int
<1>1. IsFiniteSet(S)
  BY Finite, FS_Subset
<1>2. \A x \in S : TaxSum(S)[x] \in Int
  BY DEF TaxSum, RowsOK, Line
<1>. QED  BY <1>1, <1>2, TaxIs, SumInt

LEMMA SignedInt == ASSUME RowsOK, NEW S \in SUBSET Charged PROVE Signed(S) \in Int
<1>1. IsFiniteSet(S)
  BY Finite, FS_Subset
<1>2. \A x \in S : SignSum(S)[x] \in Int
  BY DEF SignSum, Sign, RowsOK, Charge
<1>. QED  BY <1>1, <1>2, SignedIs, SumInt

LEMMA GroupInt == ASSUME RowsOK, NEW r PROVE Group(r) \in Int
BY NetInt DEF Group

LEMMA RateNat == ASSUME RowsOK PROVE \A r \in LineRates : r \in Nat
BY DEF RowsOK, LineRates, Line

\* The adjustment of the tax of a rate, and their sum.
Change(r) ==
    IF NetOf(Present) = 0 THEN 0
    ELSE Quantized((Group(r) * NetOf(Present) + Signed(On(Header)) * Group(r)) * r,
                   100 * NetOf(Present))
         - Quantized(Group(r) * r, 100)
ChangeSum == [r \in LineRates |-> Change(r)]

LEMMA AggregateIs ==
    Aggregate = [basis |-> NetOf(Present) + Signed(On(Header)),
                 tax   |-> TaxOf(Present) + IF Signed(On(Header)) = 0 THEN 0
                                            ELSE SumOf(ChangeSum, LineRates)]
<1> DEFINE Of(r) ==
             IF NetOf(Present) = 0 THEN 0
             ELSE Quantized((Group(r) * NetOf(Present) + Signed(On(Header)) * Group(r)) * r,
                            100 * NetOf(Present))
                  - Quantized(Group(r) * r, 100)
           Raw(F) == F = [s \in SUBSET LineRates |-> IF s = {} THEN 0
                            ELSE Of(CHOOSE x \in s : TRUE)
                                 + F[s \ {CHOOSE x \in s : TRUE}]]
<1>1. Aggregate = [basis |-> NetOf(Present) + Signed(On(Header)),
                   tax   |-> TaxOf(Present) + IF Signed(On(Header)) = 0 THEN 0
                                              ELSE (CHOOSE F : Raw(F))[LineRates]]
  BY DEF Aggregate, MapThenSumSet, MapThenFoldSet
<1>2. \A r : Of(r) = Change(r)
  BY DEF Change
<1> HIDE DEF Of
<1>3. \A s \in SUBSET LineRates : s # {} => ChangeSum[Chosen(s)] = Of(CHOOSE x \in s : TRUE)
  BY <1>2 DEF ChangeSum, Chosen
<1>4. \A F : Raw(F) <=> Iter(F, ChangeSum, LineRates)
  BY <1>3 DEF Iter, Chosen
<1> HIDE DEF Raw
<1>5. PICK G : G = CHOOSE F : Raw(F)
  OBVIOUS
<1>6. IsFiniteSet(LineRates)
  BY Finite
<1>7. Iter(G, ChangeSum, LineRates)
  BY <1>4, <1>5, <1>6, IterExists
<1>8. (CHOOSE F : Raw(F))[LineRates] = SumOf(ChangeSum, LineRates)
  BY <1>5, <1>6, <1>7, SumIs
<1>. QED  BY <1>1, <1>8

LEMMA AggregateType == ASSUME RowsOK PROVE Aggregate \in Totals
<1>1. NetOf(Present) \in Int /\ TaxOf(Present) \in Int /\ Signed(On(Header)) \in Int
  BY NetInt, TaxInt, SignedInt DEF On
<1>2. ASSUME NEW r \in LineRates PROVE Change(r) \in Int
  <2>1. Group(r) \in Int /\ r \in Int
    BY GroupInt, RateNat
  <2>2. PICK n, g, a \in Int : n = NetOf(Present) /\ g = Group(r) /\ a = Signed(On(Header))
    BY <1>1, <2>1
  <2>3. /\ (g * n + a * g) * r \in Int /\ 100 * n \in Int /\ g * r \in Int
        /\ n # 0 => 100 * n # 0
    BY <2>1
  <2>4. Quantized(g * r, 100) \in Int
        /\ (n # 0 => Quantized((g * n + a * g) * r, 100 * n) \in Int)
    BY <2>3, QuantizedInt
  <2>. QED  BY <2>2, <2>4 DEF Change
<1>3. SumOf(ChangeSum, LineRates) \in Int
  BY <1>2, Finite, SumInt DEF ChangeSum
<1>. QED  BY <1>1, <1>3, AggregateIs DEF Totals

LEMMA TypeRows == TotalsTypeOK => RowsOK
<1> SUFFICES ASSUME TotalsTypeOK PROVE RowsOK
  OBVIOUS
<1>1. /\ \A l \in LineIds : lines[l] # Absent => lines[l] \in Line
      /\ \A c \in ChargeIds : charges[c] # Absent => charges[c] \in Charge
  BY DEF TotalsTypeOK
<1>. QED  BY <1>1 DEF RowsOK, Present, Charged

-----------------------------------------------------------------------------
(* Types of an invoice, its lines and its requests.                        *)

LEMMA PricedType == ASSUME NEW line \in Line, NEW a \in Int PROVE Priced(line, a) \in Line
<1>1. line.net + a \in Int /\ (line.net + a) * line.rate \in Int
  BY DEF Line
<1>2. Quantized((line.net + a) * line.rate, 100) \in Int
  BY <1>1, QuantizedInt
<1>. QED  BY <1>1, <1>2 DEF Priced, Line

LEMMA TreatmentType ==
    ASSUME NEW o \in Offers
    PROVE  Treatment(o).rate \in Nat /\ Treatment(o).stored \in {"S", "Z", "E", "AE", "G"}
<1>1. o \in Offer
  BY InputsAssumption
<1>2. CASE o.product # Absent /\ o.rate = 0
  <2>1. o.product \in Product
    BY <1>1, <1>2 DEF Offer
  <2>2. o.product.rate \in Nat
    BY <2>1 DEF Product
  <2>3. Treatment(o) = Determination(o.product, buyer)
    BY <1>2 DEF Treatment
  <2>. QED  BY <2>2, <2>3 DEF Determination
<1>3. CASE ~(o.product # Absent /\ o.rate = 0)
  BY <1>1, <1>3 DEF Treatment, Offer
<1>. QED  BY <1>2, <1>3

LEMMA BeginType ==
    ASSUME TotalsTypeOK, NEW h \in Handlers, NEW pc \in {"idle", "line", "read", "write"},
           NEW x \in LineIds \cup {Header}, Begin(h, pc, x)
    PROVE  /\ buyer' \in Buyers /\ totals' \in Totals /\ req' \in [Handlers -> Request]
           /\ alone' \subseteq {k \in Handlers : Busy(k)}' /\ started' \in 0 .. MaxRequests
<1>1. req[h] \in Request /\ req' \in [Handlers -> Request] /\ req'[h].pc = pc
  BY DEF TotalsTypeOK, Begin, Request
<1>2. started' \in 0 .. MaxRequests
  BY RequestsAssumption DEF TotalsTypeOK, Begin
<1>3. alone' \subseteq {k \in Handlers : Busy(k)}'
  BY <1>1 DEF Begin, Busy
<1>. QED  BY <1>1, <1>2, <1>3 DEF TotalsTypeOK, Begin

LEMMA GoOnType ==
    ASSUME TotalsTypeOK, NEW h \in Handlers, Busy(h), NEW pc \in {"line", "read", "write"},
           GoOn(h, pc), alone' = alone
    PROVE  req' \in [Handlers -> Request] /\ alone' \subseteq {k \in Handlers : Busy(k)}'
BY DEF TotalsTypeOK, GoOn, Request, Busy

LEMMA EndType ==
    ASSUME TotalsTypeOK, NEW h \in Handlers,
           req' = [req EXCEPT ![h] = Idle], alone' = alone \ {h}
    PROVE  req' \in [Handlers -> Request] /\ alone' \subseteq {k \in Handlers : Busy(k)}'
<1>1. Idle \in Request
  BY DEF Idle, Request, Totals
<1>. QED  BY <1>1 DEF TotalsTypeOK, Busy

LEMMA TotalsTypeStep ==
    ASSUME TotalsTypeOK, NEW h \in Handlers,
           \/ CreateLine(h) \/ PatchLine(h) \/ DeleteLine(h)
           \/ CreateCharge(h) \/ PatchCharge(h) \/ DeleteCharge(h)
           \/ RecalculateLine(h) \/ ReadAggregates(h) \/ WriteTotals(h)
           \/ Die(h)
    PROVE  TotalsTypeOK'
<1>1. RowsOK
  BY TypeRows
<1>2. Present \subseteq LineIds /\ Charged \subseteq ChargeIds /\ \A x : On(x) \subseteq Charged
  BY DEF Present, Charged, On
<1>3. \A x : Signed(On(x)) \in Int
  BY <1>1, <1>2, SignedInt
<1>4. CASE CreateLine(h)
  <2>1. PICK l \in LineIds \ Present, net \in Nets, o \in Offers :
           lines' = [lines EXCEPT ![l] =
                       Priced([net |-> net, rate |-> Treatment(o).rate,
                               stored |-> Treatment(o).stored, total |-> 0, tax |-> 0], 0)]
    BY <1>4 DEF CreateLine
  <2>2. Begin(h, "read", Header) /\ UNCHANGED charges
    BY <1>4 DEF CreateLine
  <2>3. net \in Int
    BY AmountsAssumption
  <2>4. Priced([net |-> net, rate |-> Treatment(o).rate,
                stored |-> Treatment(o).stored, total |-> 0, tax |-> 0], 0) \in Line
    <3>1. [net |-> net, rate |-> Treatment(o).rate, stored |-> Treatment(o).stored,
           total |-> 0, tax |-> 0] \in Line
      BY <2>3, TreatmentType DEF Line
    <3>. QED  BY <3>1, PricedType
  <2>5. lines' \in [LineIds -> Line \cup {Absent}]
    BY <2>1, <2>4 DEF TotalsTypeOK
  <2>. QED  BY <2>2, <2>5, BeginType DEF TotalsTypeOK
<1>5. CASE PatchLine(h)
  <2>1. PICK l \in Present, net \in Nets, r \in Rates :
           lines' = [lines EXCEPT ![l] =
                       Priced([lines[l] EXCEPT !.net = net, !.rate = r], Signed(On(l)))]
    BY <1>5 DEF PatchLine
  <2>2. Begin(h, "read", Header) /\ UNCHANGED charges
    BY <1>5 DEF PatchLine
  <2>3. net \in Int /\ r \in Nat /\ lines[l] \in Line
    BY <1>1, AmountsAssumption DEF RowsOK
  <2>4. Priced([lines[l] EXCEPT !.net = net, !.rate = r], Signed(On(l))) \in Line
    <3>1. PICK line : line = [lines[l] EXCEPT !.net = net, !.rate = r]
      OBVIOUS
    <3>2. line \in Line
      BY <2>3, <3>1 DEF Line
    <3>. QED  BY <1>3, <3>1, <3>2, PricedType
  <2>5. lines' \in [LineIds -> Line \cup {Absent}]
    BY <2>1, <2>4 DEF TotalsTypeOK
  <2>. QED  BY <2>2, <2>5, BeginType DEF TotalsTypeOK
<1>6. CASE DeleteLine(h)
  BY <1>6, BeginType DEF DeleteLine, TotalsTypeOK
<1>7. ASSUME NEW c \in ChargeIds, NEW ch \in Charge, SetCharge(h, c, ch) PROVE TotalsTypeOK'
  <2>1. ch.on \in LineIds \cup {Header}
    BY DEF Charge
  <2>. QED  BY <1>7, <2>1, BeginType DEF SetCharge, TotalsTypeOK
<1>8. CASE CreateCharge(h)
  <2>1. PICK c \in ChargeIds, x \in Present \cup {Header}, charge \in BOOLEAN,
             amount \in Amounts :
           SetCharge(h, c, [on |-> x, charge |-> charge, amount |-> amount])
    BY <1>8 DEF CreateCharge
  <2>2. [on |-> x, charge |-> charge, amount |-> amount] \in Charge
    BY <1>2, AmountsAssumption DEF Charge
  <2>. QED  BY <1>7, <2>1, <2>2
<1>9. CASE PatchCharge(h)
  <2>1. PICK c \in Charged, x \in Present \cup {Header}, amount \in Amounts :
           SetCharge(h, c, [charges[c] EXCEPT !.on = x, !.amount = amount])
    BY <1>9 DEF PatchCharge
  <2>2. [charges[c] EXCEPT !.on = x, !.amount = amount] \in Charge
    <3>1. charges[c] \in Charge
      BY <1>1 DEF RowsOK
    <3>. QED  BY <1>2, <3>1, AmountsAssumption DEF Charge
  <2>. QED  BY <1>2, <1>7, <2>1, <2>2
<1>10. CASE DeleteCharge(h)
  <2>1. PICK c \in Charged :
           /\ charges' = [charges EXCEPT ![c] = Absent]
           /\ Begin(h, IF charges[c].on = Header THEN "read" ELSE "line", charges[c].on)
           /\ UNCHANGED lines
    BY <1>10 DEF DeleteCharge
  <2>2. charges[c].on \in LineIds \cup {Header}
    BY <1>1 DEF RowsOK, Charge
  <2>. QED  BY <2>1, <2>2, BeginType DEF TotalsTypeOK
<1>11. CASE RecalculateLine(h)
  <2>1. ASSUME req[h].on \in Present PROVE Priced(lines[req[h].on], Signed(On(req[h].on))) \in Line
    <3>1. lines[req[h].on] \in Line
      BY <1>1, <2>1 DEF RowsOK
    <3>. QED  BY <1>3, <3>1, PricedType
  <2>2. lines' \in [LineIds -> Line \cup {Absent}]
    BY <1>11, <2>1 DEF RecalculateLine, TotalsTypeOK
  <2>3. Busy(h)
    BY <1>11 DEF RecalculateLine, Busy
  <2>. QED  BY <1>11, <2>2, <2>3, GoOnType DEF RecalculateLine, TotalsTypeOK
<1>12. CASE ReadAggregates(h)
  <2>1. Aggregate \in Totals
    BY <1>1, AggregateType
  <2>2. req' \in [Handlers -> Request] /\ alone' \subseteq {k \in Handlers : Busy(k)}'
    BY <1>12, <2>1 DEF ReadAggregates, TotalsTypeOK, Request, Busy
  <2>. QED  BY <1>12, <2>2 DEF ReadAggregates, TotalsTypeOK
<1>13. CASE WriteTotals(h)
  <2>1. req[h].sum \in Totals
    BY DEF TotalsTypeOK, Request
  <2>. QED  BY <1>13, <2>1, EndType DEF WriteTotals, TotalsTypeOK
<1>14. CASE Die(h)
  BY <1>14, EndType DEF Die, TotalsTypeOK
<1>. QED
  BY <1>4, <1>5, <1>6, <1>8, <1>9, <1>10, <1>11, <1>12, <1>13, <1>14

\* The rows of an invoice, what its requests hold and the stored totals are of
\* their types, whatever lines and charges there are (invoice_models.py).
THEOREM TotalsTypeCorrect == TotalsSpec => []TotalsTypeOK
<1>1. TotalsInit => TotalsTypeOK
  BY RequestsAssumption
     DEF TotalsInit, TotalsTypeOK, Totals, Idle, Request
<1>2. TotalsTypeOK /\ [TotalsNext]_totalsVars => TotalsTypeOK'
  <2> SUFFICES ASSUME TotalsTypeOK, [TotalsNext]_totalsVars PROVE TotalsTypeOK'
    OBVIOUS
  <2>1. CASE TotalsNext
    BY <2>1, TotalsTypeStep DEF TotalsNext
  <2>2. CASE UNCHANGED totalsVars
    BY <2>2 DEF totalsVars, TotalsTypeOK, Busy
  <2>. QED  BY <2>1, <2>2
<1>. QED  BY <1>1, <1>2, PTL DEF TotalsSpec

-----------------------------------------------------------------------------
(* The amounts of a document add up.                                       *)

\* What a rate states: the sum over its categories, which is one amount for
\* a rate with one category.
BasisAt(r, up) == (CHOOSE F : F = [s \in SUBSET Categories(r) |-> IF s = {} THEN 0
                     ELSE BasisAmount(r, CHOOSE x \in s : TRUE, up)
                          + F[s \ {CHOOSE x \in s : TRUE}]])[Categories(r)]
TaxAt(r, up)   == (CHOOSE F : F = [s \in SUBSET Categories(r) |-> IF s = {} THEN 0
                     ELSE CalculatedAmount(r, CHOOSE x \in s : TRUE, up)
                          + F[s \ {CHOOSE x \in s : TRUE}]])[Categories(r)]

LEMMA BasesAre ==
    ASSUME NEW up
    PROVE  OverGroups(LAMBDA r, k : BasisAmount(r, k, up))
             = SumOf([r \in LineRates |-> BasisAt(r, up)], LineRates)
<1> DEFINE g == [r \in LineRates |-> BasisAt(r, up)]
           Raw(F) == F = [s \in SUBSET LineRates |-> IF s = {} THEN 0
                            ELSE BasisAt(CHOOSE x \in s : TRUE, up)
                                 + F[s \ {CHOOSE x \in s : TRUE}]]
<1>1. OverGroups(LAMBDA r, k : BasisAmount(r, k, up)) = (CHOOSE F : Raw(F))[LineRates]
  BY DEF OverGroups, MapThenSumSet, MapThenFoldSet, BasisAt
<1>2. \A s \in SUBSET LineRates : s # {} => g[Chosen(s)] = BasisAt(CHOOSE x \in s : TRUE, up)
  BY DEF Chosen
<1> HIDE DEF g
<1>3. \A F : Raw(F) <=> Iter(F, g, LineRates)
  BY <1>2 DEF Iter, Chosen
<1> HIDE DEF Raw
<1>4. PICK G : G = CHOOSE F : Raw(F)
  OBVIOUS
<1>5. Iter(G, g, LineRates)
  BY <1>3, <1>4, IterExists, Finite
<1>6. OverGroups(LAMBDA r, k : BasisAmount(r, k, up)) = SumOf(g, LineRates)
  BY <1>1, <1>4, <1>5, SumIs, Finite
<1>. QED  BY <1>6 DEF g

LEMMA TaxesAre ==
    ASSUME NEW up
    PROVE  OverGroups(LAMBDA r, k : CalculatedAmount(r, k, up))
             = SumOf([r \in LineRates |-> TaxAt(r, up)], LineRates)
<1> DEFINE g == [r \in LineRates |-> TaxAt(r, up)]
           Raw(F) == F = [s \in SUBSET LineRates |-> IF s = {} THEN 0
                            ELSE TaxAt(CHOOSE x \in s : TRUE, up)
                                 + F[s \ {CHOOSE x \in s : TRUE}]]
<1>1. OverGroups(LAMBDA r, k : CalculatedAmount(r, k, up)) = (CHOOSE F : Raw(F))[LineRates]
  BY DEF OverGroups, MapThenSumSet, MapThenFoldSet, TaxAt
<1>2. \A s \in SUBSET LineRates : s # {} => g[Chosen(s)] = TaxAt(CHOOSE x \in s : TRUE, up)
  BY DEF Chosen
<1> HIDE DEF g
<1>3. \A F : Raw(F) <=> Iter(F, g, LineRates)
  BY <1>2 DEF Iter, Chosen
<1> HIDE DEF Raw
<1>4. PICK G : G = CHOOSE F : Raw(F)
  OBVIOUS
<1>5. Iter(G, g, LineRates)
  BY <1>3, <1>4, IterExists, Finite
<1>6. OverGroups(LAMBDA r, k : CalculatedAmount(r, k, up)) = SumOf(g, LineRates)
  BY <1>1, <1>4, <1>5, SumIs, Finite
<1>. QED  BY <1>6 DEF g

LEMMA RestIs ==
    ASSUME NEW c, NEW up, NEW S, IsFiniteSet(S)
    PROVE  MapThenSumSet(LAMBDA q : Share(c, q, up), S)
             = SumOf([q \in S |-> Share(c, q, up)], S)
<1> DEFINE g == [q \in S |-> Share(c, q, up)]
           Raw(F) == F = [s \in SUBSET S |-> IF s = {} THEN 0
                            ELSE Share(c, CHOOSE x \in s : TRUE, up)
                                 + F[s \ {CHOOSE x \in s : TRUE}]]
<1>1. MapThenSumSet(LAMBDA q : Share(c, q, up), S) = (CHOOSE F : Raw(F))[S]
  BY DEF MapThenSumSet, MapThenFoldSet
<1>2. \A s \in SUBSET S : s # {} => g[Chosen(s)] = Share(c, CHOOSE x \in s : TRUE, up)
  BY DEF Chosen
<1> HIDE DEF g
<1>3. \A F : Raw(F) <=> Iter(F, g, S)
  BY <1>2 DEF Iter, Chosen
<1> HIDE DEF Raw
<1>4. PICK G : G = CHOOSE F : Raw(F)
  OBVIOUS
<1>5. Iter(G, g, S)
  BY <1>3, <1>4, IterExists
<1>6. MapThenSumSet(LAMBDA q : Share(c, q, up), S) = SumOf(g, S)
  BY <1>1, <1>4, <1>5, SumIs
<1>. QED  BY <1>6 DEF g

SignedPart(c, r, up) == IF charges[c].charge THEN Part(c, r, up) ELSE -Part(c, r, up)

LEMMA AdjustmentIs ==
    ASSUME NEW r, NEW up
    PROVE  Adjustment(r, up) = SumOf([c \in Charged |-> SignedPart(c, r, up)], Charged)
<1> DEFINE g == [c \in Charged |-> SignedPart(c, r, up)]
           Raw(F) == F = [s \in SUBSET Charged |-> IF s = {} THEN 0
                            ELSE (IF charges[CHOOSE x \in s : TRUE].charge
                                  THEN Part(CHOOSE x \in s : TRUE, r, up)
                                  ELSE -Part(CHOOSE x \in s : TRUE, r, up))
                                 + F[s \ {CHOOSE x \in s : TRUE}]]
<1>1. Adjustment(r, up) = (CHOOSE F : Raw(F))[Charged]
  BY DEF Adjustment, MapThenSumSet, MapThenFoldSet
<1>2. \A s \in SUBSET Charged : s # {} => g[Chosen(s)] = SignedPart(Chosen(s), r, up)
  BY DEF Chosen
<1> HIDE DEF g
<1>3. \A F : Raw(F) <=> Iter(F, g, Charged)
  BY <1>2 DEF Iter, Chosen, SignedPart
<1> HIDE DEF Raw
<1>4. PICK G : G = CHOOSE F : Raw(F)
  OBVIOUS
<1>5. Iter(G, g, Charged)
  BY <1>3, <1>4, IterExists, Finite
<1>6. Adjustment(r, up) = SumOf(g, Charged)
  BY <1>1, <1>4, <1>5, SumIs, Finite
<1>. QED  BY <1>6 DEF g

LEMMA TaxTotalIs ==
    ASSUME NEW up
    PROVE  TaxTotal(up) = SumOf([r \in LineRates |->
               Rounded((Group(r) + Adjustment(r, up)) * r, 100, r \in up)], LineRates)
<1> DEFINE Of(r) == Rounded((Group(r) + Adjustment(r, up)) * r, 100, r \in up)
           g == [r \in LineRates |-> Of(r)]
           Raw(F) == F = [s \in SUBSET LineRates |-> IF s = {} THEN 0
                            ELSE Of(CHOOSE x \in s : TRUE)
                                 + F[s \ {CHOOSE x \in s : TRUE}]]
<1>1. TaxTotal(up) = (CHOOSE F : Raw(F))[LineRates]
  BY DEF TaxTotal, MapThenSumSet, MapThenFoldSet
<1> HIDE DEF Of
<1>2. \A s \in SUBSET LineRates : s # {} => g[Chosen(s)] = Of(CHOOSE x \in s : TRUE)
  BY DEF Chosen
<1> HIDE DEF g
<1>3. \A F : Raw(F) <=> Iter(F, g, LineRates)
  BY <1>2 DEF Iter, Chosen
<1> HIDE DEF Raw
<1>4. PICK G : G = CHOOSE F : Raw(F)
  OBVIOUS
<1>5. Iter(G, g, LineRates)
  BY <1>3, <1>4, IterExists, Finite
<1>6. TaxTotal(up) = SumOf(g, LineRates)
  BY <1>1, <1>4, <1>5, SumIs, Finite
<1>. QED  BY <1>6 DEF g, Of

LEMMA AdjustmentInt == ASSUME RowsOK, NEW up, NEW r, \A c \in Charged : Part(c, r, up) \in Int
                       PROVE  Adjustment(r, up) \in Int
<1>1. \A c \in Charged : [x \in Charged |-> SignedPart(x, r, up)][c] \in Int
  BY DEF SignedPart
<1>2. SumOf([x \in Charged |-> SignedPart(x, r, up)], Charged) \in Int
  BY <1>1, SumInt, Finite
<1>. QED  BY <1>2, AdjustmentIs

\* With one category, what a rate states needs no sum.
LEMMA OneBasis ==
    ASSUME RowsOK, NEW up, NEW r, Cardinality(Categories(r)) = 1, IsFiniteSet(Categories(r)),
           Adjustment(r, up) \in Int
    PROVE  BasisAt(r, up) = Group(r) + Adjustment(r, up)
<1>1. PICK k : Categories(r) = {k}
  BY FS_Singleton
<1> DEFINE g == [x \in {k} |-> BasisAmount(r, x, up)]
           Raw(F) == F = [s \in SUBSET {k} |-> IF s = {} THEN 0
                            ELSE BasisAmount(r, CHOOSE x \in s : TRUE, up)
                                 + F[s \ {CHOOSE x \in s : TRUE}]]
<1>2. BasisAt(r, up) = (CHOOSE F : Raw(F))[{k}]
  BY <1>1 DEF BasisAt
<1>3. \A s \in SUBSET {k} : s # {} => g[Chosen(s)] = BasisAmount(r, CHOOSE x \in s : TRUE, up)
  BY DEF Chosen
<1> HIDE DEF g
<1>4. \A F : Raw(F) <=> Iter(F, g, {k})
  BY <1>3 DEF Iter, Chosen
<1> HIDE DEF Raw
<1>5. PICK G : G = CHOOSE F : Raw(F)
  OBVIOUS
<1>6. IsFiniteSet({k})
  BY FS_Singleton
<1>7. Iter(G, g, {k})
  BY <1>4, <1>5, <1>6, IterExists
<1>8. BasisAt(r, up) = SumOf(g, {k})
  BY <1>2, <1>5, <1>6, <1>7, SumIs
<1>9. BasisAmount(r, k, up) = Group(r) + Adjustment(r, up)
  <2>1. \A l \in Present : lines[l].rate = r => CategoryCode(l) = k
    BY <1>1 DEF Categories
  <2>2. {l \in Present : lines[l].rate = r /\ CategoryCode(l) = k}
          = {l \in Present : lines[l].rate = r}
    BY <2>1
  <2>3. PICK b \in Int : b = Group(r) + Adjustment(r, up)
    BY GroupInt
  <2>4. Basis(r, k, up) = b
    <3>1. NetOf({l \in Present : lines[l].rate = r /\ CategoryCode(l) = k}) = Group(r)
      BY <2>2 DEF Group
    <3>2. 1 * Group(r) = Group(r)
      BY GroupInt
    <3>. QED  BY <2>3, <3>1, <3>2 DEF Basis
  <2>5. Rounded(b, 1, r \in up) = b
    BY DEF Rounded
  <2>. QED  BY <2>3, <2>4, <2>5 DEF BasisAmount
<1>. QED  BY <1>8, <1>9, GroupInt, SumOne DEF g

LEMMA OneTax ==
    ASSUME RowsOK, NEW up, NEW r, Cardinality(Categories(r)) = 1, IsFiniteSet(Categories(r)),
           Adjustment(r, up) \in Int, r \in Int
    PROVE  TaxAt(r, up) = Rounded((Group(r) + Adjustment(r, up)) * r, 100, r \in up)
<1>1. PICK k : Categories(r) = {k}
  BY FS_Singleton
<1> DEFINE g == [x \in {k} |-> CalculatedAmount(r, x, up)]
           Raw(F) == F = [s \in SUBSET {k} |-> IF s = {} THEN 0
                            ELSE CalculatedAmount(r, CHOOSE x \in s : TRUE, up)
                                 + F[s \ {CHOOSE x \in s : TRUE}]]
<1>2. TaxAt(r, up) = (CHOOSE F : Raw(F))[{k}]
  BY <1>1 DEF TaxAt
<1>3. \A s \in SUBSET {k} : s # {} =>
         g[Chosen(s)] = CalculatedAmount(r, CHOOSE x \in s : TRUE, up)
  BY DEF Chosen
<1> HIDE DEF g
<1>4. \A F : Raw(F) <=> Iter(F, g, {k})
  BY <1>3 DEF Iter, Chosen
<1> HIDE DEF Raw
<1>5. PICK G : G = CHOOSE F : Raw(F)
  OBVIOUS
<1>6. IsFiniteSet({k})
  BY FS_Singleton
<1>7. Iter(G, g, {k})
  BY <1>4, <1>5, <1>6, IterExists
<1>8. TaxAt(r, up) = SumOf(g, {k})
  BY <1>2, <1>5, <1>6, <1>7, SumIs
<1>9. PICK b \in Int : b = Group(r) + Adjustment(r, up)
  BY GroupInt
<1>10. CalculatedAmount(r, k, up) = Rounded(b * r, 100, r \in up)
  <2>1. \A l \in Present : lines[l].rate = r => CategoryCode(l) = k
    BY <1>1 DEF Categories
  <2>2. {l \in Present : lines[l].rate = r /\ CategoryCode(l) = k}
          = {l \in Present : lines[l].rate = r}
    BY <2>1
  <2>3. Basis(r, k, up) = b
    <3>1. NetOf({l \in Present : lines[l].rate = r /\ CategoryCode(l) = k}) = Group(r)
      BY <2>2 DEF Group
    <3>2. 1 * Group(r) = Group(r)
      BY GroupInt
    <3>. QED  BY <1>9, <3>1, <3>2 DEF Basis
  <2>4. 100 * Cardinality(Categories(r)) = 100
    OBVIOUS
  <2>. QED  BY <2>3, <2>4 DEF CalculatedAmount
<1>11. Rounded(b * r, 100, r \in up) \in Int
  BY <1>9, RoundedInt
<1>. QED  BY <1>8, <1>9, <1>10, <1>11, SumOne DEF g

LEMMA CategoriesFinite == ASSUME RowsOK, NEW r PROVE IsFiniteSet(Categories(r))
<1>1. IsFiniteSet({l \in Present : lines[l].rate = r})
  BY Finite
<1>2. [l \in {l \in Present : lines[l].rate = r} |-> CategoryCode(l)]
        \in Surjection({l \in Present : lines[l].rate = r}, Categories(r))
  BY DEF Categories, Surjection
<1>. QED  BY <1>1, <1>2, FS_Surjection

\* A share of an amount is none of it, all of it, or in between.
LEMMA RoundedBetween ==
    ASSUME NEW a \in Nat, NEW g \in Nat, NEW n \in Nat, g <= n, n # 0, NEW u
    PROVE  0 <= Rounded(a * g, n, u) /\ Rounded(a * g, n, u) <= a
<1>1. PICK x \in Nat : x = a * g
  OBVIOUS
<1>2. PICK q, m \in Int : q = x \div n /\ m = x % n
  OBVIOUS
<1>3. x = n * q + m /\ 0 <= m /\ m < n
  BY <1>2
<1>4. Rounded(x, n, u) = q + IF 2 * m > n \/ (2 * m = n /\ u) THEN 1 ELSE 0
  BY <1>2 DEF Rounded
<1>5. x <= n * a
  BY <1>1
<1>6. 0 <= q
  BY <1>2, <1>3
<1>7. q <= a
  <2>1. n * q <= n * a
    BY <1>3, <1>5
  <2>. QED  BY <2>1
<1>8. m # 0 => q < a
  <2>1. m # 0 => n * q < n * a
    BY <1>3, <1>5
  <2>. QED  BY <2>1
<1>. QED  BY <1>1, <1>3, <1>4, <1>6, <1>7, <1>8

\* The groups of the rates make up the whole.
LEMMA GroupsMakeNet ==
    ASSUME RowsOK PROVE NetOf(Present) = SumOf([r \in LineRates |-> Group(r)], LineRates)
<1> DEFINE g == [r \in LineRates |-> Group(r)]
           Of(R) == {l \in Present : lines[l].rate \in R}
           T == {R \in SUBSET LineRates : NetOf(Of(R)) # SumOf(g, R)}
<1>1. T = {}
  <2> SUFFICES ASSUME T # {} PROVE FALSE
    OBVIOUS
  <2>1. PICK R \in T : IsFiniteSet(R) /\ \A r \in R : R \ {r} \notin T
    BY SmallestSubset, Finite
  <2>2. CASE R = {}
    <3>1. Of(R) = {} /\ IsFiniteSet({})
      BY <2>2, FS_EmptySet
    <3>2. NetOf({}) = 0
      BY <3>1, NetIs, SumEmpty
    <3>. QED  BY <2>1, <2>2, <3>1, <3>2, SumEmpty
  <2>3. CASE R # {}
    <3>1. PICK r \in R : r \in LineRates
      BY <2>1, <2>3
    <3>2. NetOf(Of(R \ {r})) = SumOf(g, R \ {r})
      BY <2>1
    <3>3. \A x \in R : g[x] \in Int
      BY <2>1, GroupInt
    <3>4. SumOf(g, R) = g[r] + SumOf(g, R \ {r})
      BY <2>1, <3>3, SumAdd
    <3> DEFINE A == {l \in Present : lines[l].rate = r}
               B == Of(R \ {r})
    <3>5. Of(R) = A \cup B /\ A \cap B = {} /\ A \cup B \subseteq Present
      BY <3>1
    <3>6. IsFiniteSet(A) /\ IsFiniteSet(B) /\ IsFiniteSet(A \cup B)
      BY <3>5, Finite, FS_Subset
    <3> HIDE DEF A, B
    <3>7. NetOf(A \cup B) = NetOf(A) + NetOf(B)
      <4>1. \A x \in A \cup B : NetSum(A \cup B)[x] \in Int
        BY <3>5 DEF NetSum, RowsOK, Line
      <4>2. SumOf(NetSum(A \cup B), A \cup B)
              = SumOf(NetSum(A \cup B), A) + SumOf(NetSum(A \cup B), B)
        BY <3>5, <3>6, <4>1, SumUnion
      <4>3. SumOf(NetSum(A \cup B), A) = SumOf(NetSum(A), A)
        BY <3>6, SumSame DEF NetSum
      <4>4. SumOf(NetSum(A \cup B), B) = SumOf(NetSum(B), B)
        BY <3>6, SumSame DEF NetSum
      <4>. QED  BY <3>6, <4>2, <4>3, <4>4, NetIs
    <3>8. NetOf(A) = Group(r)
      BY DEF A, Group
    <3>9. NetOf(B) = SumOf(g, R \ {r}) /\ g[r] = Group(r)
      BY <3>1, <3>2 DEF B
    <3>. QED  BY <2>1, <3>4, <3>5, <3>7, <3>8, <3>9
  <2>. QED  BY <2>2, <2>3
<1>2. Of(LineRates) = Present
  BY DEF LineRates
<1>. QED  BY <1>1, <1>2

LEMMA FewRates ==
    ASSUME RowsOK, Cardinality(LineRates) <= 2
    PROVE  \/ LineRates = {}
           \/ \E r \in Nat : LineRates = {r}
           \/ \E p, q \in Nat : p < q /\ LineRates = {p, q}
<1> SUFFICES ASSUME LineRates # {} PROVE (\E r \in Nat : LineRates = {r})
                                  \/ \E p, q \in Nat : p < q /\ LineRates = {p, q}
  OBVIOUS
<1>1. PICK p \in LineRates : TRUE
  OBVIOUS
<1>2. IsFiniteSet(LineRates \ {p}) /\ Cardinality(LineRates \ {p}) = Cardinality(LineRates) - 1
  BY <1>1, Finite, FS_RemoveElement
<1>3. CASE LineRates \ {p} = {}
  BY <1>1, <1>3, RateNat
<1>4. CASE LineRates \ {p} # {}
  <2>1. PICK q \in LineRates \ {p} : TRUE
    BY <1>4
  <2>2. /\ IsFiniteSet((LineRates \ {p}) \ {q})
        /\ Cardinality((LineRates \ {p}) \ {q}) = Cardinality(LineRates \ {p}) - 1
        /\ Cardinality(LineRates) \in Nat /\ Cardinality((LineRates \ {p}) \ {q}) \in Nat
    BY <1>2, <2>1, Finite, FS_RemoveElement, FS_CardinalityType
  <2>3. Cardinality((LineRates \ {p}) \ {q}) = 0
    BY <1>2, <2>2
  <2>4. (LineRates \ {p}) \ {q} = {}
    BY <2>2, <2>3, FS_EmptySet
  <2>5. LineRates = {p, q} /\ LineRates = {q, p}
    BY <1>1, <2>1, <2>4
  <2>6. p \in Nat /\ q \in Nat /\ (p < q \/ q < p)
    BY <1>1, <2>1, RateNat
  <2>. QED  BY <2>5, <2>6
<1>. QED  BY <1>3, <1>4

LEMMA OnlyRate ==
    ASSUME RowsOK, NEW r \in Nat, LineRates = {r}, NEW c \in Charged, NEW up
    PROVE  Part(c, r, up) = charges[c].amount
<1>1. LastRate = r /\ LineRates \ {LastRate} = {}
  BY DEF LastRate, Max
<1>2. MapThenSumSet(LAMBDA q : Share(c, q, up), LineRates \ {LastRate}) = 0
  <2>1. PICK S : S = {}
    OBVIOUS
  <2>2. IsFiniteSet(S)
    BY <2>1, FS_EmptySet
  <2>3. MapThenSumSet(LAMBDA q : Share(c, q, up), S) = SumOf([q \in S |-> Share(c, q, up)], S)
    BY <2>2, RestIs
  <2>4. SumOf([q \in S |-> Share(c, q, up)], S) = 0
    BY <2>1, SumEmpty
  <2>. QED  BY <1>1, <2>1, <2>3, <2>4
<1>3. charges[c].amount \in Nat
  BY DEF RowsOK, Charge
<1>. QED  BY <1>1, <1>2, <1>3 DEF Part

\* Of two rates the first takes its share and the last the rest.
LEMMA TwoRates ==
    ASSUME RowsOK, NEW p \in Nat, NEW q \in Nat, p < q, LineRates = {p, q},
           Group(p) >= 0, Group(q) >= 0, NEW c \in Charged, NEW up
    PROVE  /\ Part(c, p, up) \in Int /\ Part(c, q, up) \in Int
           /\ Part(c, p, up) + Part(c, q, up) = charges[c].amount
<1>1. LastRate = q /\ LineRates \ {LastRate} = {p}
  BY DEF LastRate, Max
<1>2. NetOf(Present) = Group(p) + Group(q) /\ Group(p) \in Nat /\ Group(q) \in Nat
  <2>1. Group(p) \in Int /\ Group(q) \in Int
    BY GroupInt
  <2>2. SumOf([r \in LineRates |-> Group(r)], {p, q}) = Group(p) + Group(q)
    BY <2>1, SumTwo
  <2>. QED  BY <2>1, <2>2, GroupsMakeNet
<1>3. PICK a \in Nat : a = charges[c].amount
  BY DEF RowsOK, Charge
<1>4. Share(c, p, up) \in Int /\ 0 <= Share(c, p, up) /\ Share(c, p, up) <= a
  <2>1. PICK n \in Nat : n = (IF NetOf(Present) = 0 THEN 100 ELSE NetOf(Present))
    BY <1>2
  <2>2. Group(p) <= n /\ n # 0
    BY <1>2, <2>1
  <2>3. Share(c, p, up) = Rounded(a * Group(p), n, p \in up)
    BY <1>3, <2>1 DEF Share
  <2>4. Rounded(a * Group(p), n, p \in up) \in Int
    BY <1>2, <2>2, RoundedInt
  <2>. QED  BY <1>2, <2>2, <2>3, <2>4, RoundedBetween
<1>5. MapThenSumSet(LAMBDA x : Share(c, x, up), LineRates \ {LastRate}) = Share(c, p, up)
  <2>1. IsFiniteSet({p})
    BY FS_Singleton
  <2>2. MapThenSumSet(LAMBDA x : Share(c, x, up), {p})
          = SumOf([x \in {p} |-> Share(c, x, up)], {p})
    BY <2>1, RestIs
  <2>3. SumOf([x \in {p} |-> Share(c, x, up)], {p}) = Share(c, p, up)
    BY <1>4, SumOne
  <2>. QED  BY <1>1, <2>2, <2>3
<1>6. Part(c, p, up) = (IF Share(c, p, up) > 0 THEN Share(c, p, up) ELSE 0)
  BY <1>1 DEF Part
<1>7. Part(c, q, up) = (IF a - Share(c, p, up) > 0 THEN a - Share(c, p, up) ELSE 0)
  BY <1>1, <1>3, <1>5 DEF Part
<1>. QED  BY <1>3, <1>4, <1>6, <1>7

LEMMA AdjustmentsMakeSigned ==
    ASSUME RowsOK, Plain, Generable, NEW up
    PROVE  /\ \A r \in LineRates : Adjustment(r, up) \in Int
           /\ SumOf([r \in LineRates |-> Adjustment(r, up)], LineRates) = Signed(Charged)
<1> DEFINE g == [r \in LineRates |-> Adjustment(r, up)]
<1>1. Signed(Charged) = SumOf(SignSum(Charged), Charged) /\ IsFiniteSet(Charged)
  BY Finite, SignedIs
<1>2. \A c \in Charged : charges[c].amount \in Nat /\ charges[c].charge \in BOOLEAN
  BY DEF RowsOK, Charge
<1>3. CASE LineRates = {}
  <2>1. Charged = {}
    BY <1>3 DEF Generable, LineRates
  <2>2. Signed(Charged) = 0
    BY <1>1, <2>1, SumEmpty
  <2>3. SumOf(g, LineRates) = 0
    BY <1>3, SumEmpty
  <2>. QED  BY <1>3, <2>2, <2>3
<1>4. ASSUME NEW r \in Nat, LineRates = {r}
      PROVE  Adjustment(r, up) \in Int /\ SumOf(g, LineRates) = Signed(Charged)
  <2>1. \A c \in Charged : Part(c, r, up) = charges[c].amount
    BY <1>4, OnlyRate
  <2>2. Adjustment(r, up) \in Int
    BY <1>2, <2>1, AdjustmentInt
  <2>3. \A c \in Charged : [x \in Charged |-> SignedPart(x, r, up)][c] = SignSum(Charged)[c]
    BY <2>1 DEF SignedPart, SignSum, Sign
  <2>4. Adjustment(r, up) = Signed(Charged)
    BY <1>1, <2>3, AdjustmentIs, SumSame
  <2>5. SumOf(g, {r}) = g[r] /\ g[r] = Adjustment(r, up)
    BY <1>4, <2>2, SumOne
  <2>. QED  BY <1>4, <2>2, <2>4, <2>5
<1>5. ASSUME NEW p \in Nat, NEW q \in Nat, p < q, LineRates = {p, q}
      PROVE  /\ Adjustment(p, up) \in Int /\ Adjustment(q, up) \in Int
             /\ SumOf(g, LineRates) = Signed(Charged)
  <2>1. Group(p) >= 0 /\ Group(q) >= 0
    BY <1>5 DEF Plain
  <2>2. \A c \in Charged : /\ Part(c, p, up) \in Int /\ Part(c, q, up) \in Int
                           /\ Part(c, p, up) + Part(c, q, up) = charges[c].amount
    BY <1>5, <2>1, TwoRates
  <2>3. Adjustment(p, up) \in Int /\ Adjustment(q, up) \in Int
    BY <2>2, AdjustmentInt
  <2> DEFINE P == [x \in Charged |-> SignedPart(x, p, up)]
             Q == [x \in Charged |-> SignedPart(x, q, up)]
  <2>4. \A c \in Charged : P[c] \in Int /\ Q[c] \in Int /\ SignSum(Charged)[c] = P[c] + Q[c]
    BY <1>2, <2>2 DEF SignedPart, SignSum, Sign
  <2> HIDE DEF P, Q
  <2>5. SumOf(SignSum(Charged), Charged) = SumOf(P, Charged) + SumOf(Q, Charged)
    BY <1>1, <2>4, SumPlus
  <2>6. Adjustment(p, up) = SumOf(P, Charged) /\ Adjustment(q, up) = SumOf(Q, Charged)
    BY AdjustmentIs DEF P, Q
  <2>7. SumOf(g, {p, q}) = Adjustment(p, up) + Adjustment(q, up)
    <3>1. g[p] = Adjustment(p, up) /\ g[q] = Adjustment(q, up) /\ p # q
      BY <1>5
    <3> HIDE DEF g
    <3>. QED  BY <2>3, <3>1, SumTwo
  <2>. QED  BY <1>1, <1>5, <2>3, <2>5, <2>6, <2>7
<1>6. Cardinality(LineRates) <= 2
  BY DEF Plain
<1>. QED  BY <1>3, <1>4, <1>5, <1>6, FewRates

LEMMA AmountsAddUp == ASSUME RowsOK PROVE AddsUp
<1> SUFFICES ASSUME Generable, Plain, NEW up \in SUBSET LineRates
             PROVE  /\ OverGroups(LAMBDA r, k : BasisAmount(r, k, up)) = TaxBasisTotal
                    /\ OverGroups(LAMBDA r, k : CalculatedAmount(r, k, up)) = TaxTotal(up)
  BY DEF AddsUp
<1>1. /\ \A r \in LineRates : Adjustment(r, up) \in Int
      /\ SumOf([r \in LineRates |-> Adjustment(r, up)], LineRates) = Signed(Charged)
  BY AdjustmentsMakeSigned
<1>2. \A r \in LineRates : Cardinality(Categories(r)) = 1 /\ IsFiniteSet(Categories(r))
                           /\ r \in Int
  BY CategoriesFinite, RateNat DEF Plain, OneCategory
<1>3. OverGroups(LAMBDA r, k : BasisAmount(r, k, up)) = TaxBasisTotal
  <2> DEFINE B == [r \in LineRates |-> BasisAt(r, up)]
             G == [r \in LineRates |-> Group(r)]
             A == [r \in LineRates |-> Adjustment(r, up)]
  <2>1. \A r \in LineRates : G[r] \in Int /\ A[r] \in Int /\ B[r] = G[r] + A[r]
    BY <1>1, <1>2, GroupInt, OneBasis
  <2>2. SumOf(B, LineRates) = SumOf(G, LineRates) + SumOf(A, LineRates)
    <3> HIDE DEF A, B, G
    <3>. QED  BY <2>1, Finite, SumPlus
  <2>3. SumOf(G, LineRates) = NetOf(Present)
    BY GroupsMakeNet
  <2>4. SumOf(A, LineRates) = Signed(Charged)
    BY <1>1
  <2>. QED  BY <2>2, <2>3, <2>4, BasesAre DEF TaxBasisTotal
<1>4. OverGroups(LAMBDA r, k : CalculatedAmount(r, k, up)) = TaxTotal(up)
  <2> DEFINE X == [r \in LineRates |-> TaxAt(r, up)]
             Y == [r \in LineRates |->
                     Rounded((Group(r) + Adjustment(r, up)) * r, 100, r \in up)]
  <2>1. \A r \in LineRates : X[r] = Y[r]
    BY <1>1, <1>2, OneTax
  <2>2. SumOf(X, LineRates) = SumOf(Y, LineRates)
    <3> HIDE DEF X, Y
    <3>. QED  BY <2>1, Finite, SumSame
  <2>. QED  BY <2>2, TaxesAre, TaxTotalIs
<1>. QED  BY <1>3, <1>4

\* For any lines, allowances, charges and rates, and any way a half cent falls,
\* the bases and the taxes of a document add up to its totals
\* (_split_allowances_charges_proportionally, _add_monetary_summation).
THEOREM DocumentAddsUp == TotalsSpec => []AddsUp
<1>1. TotalsTypeOK => AddsUp
  BY TypeRows, AmountsAddUp
<1>. QED  BY <1>1, TotalsTypeCorrect, PTL

-----------------------------------------------------------------------------
(* What the validation of a document answers.                              *)

\* What a stylesheet reports is an error unless it passes.
LEMMA SaxonExact ==
    ASSUME NEW r \in Reports
    PROVE  LET v == SchematronSaxon(r) IN
           /\ v.is_valid = (v.errors = {})
           /\ (v.errors = {}) <=> Passes(r)
<1>1. CASE r \in [outcome : {"report"}, found : SUBSET Findings]
  <2>1. r.outcome = "report" /\ r.found \subseteq Findings
    BY <1>1
  <2>2. {r.outcome} \ {"report"} = {}
    BY <2>1
  <2>3. Errors(r) = {} <=> "failed-assert" \notin r.found
    BY <2>1 DEF Errors
  <2>. QED  BY <2>1, <2>2, <2>3 DEF SchematronSaxon, ValidationResult, Passes
<1>2. CASE r \in [outcome : {"nothing", "raises"}, found : {{}}]
  <2>1. r.outcome # "report"
    BY <1>2
  <2>2. {<<"Schematron", o>> : o \in {r.outcome} \ {"report"}} # {}
    BY <2>1
  <2>. QED  BY <2>1, <2>2 DEF SchematronSaxon, ValidationResult, Passes
<1>. QED  BY <1>1, <1>2 DEF Reports

LEMMA XsdExact ==
    ASSUME NEW rejected
    PROVE  LET v == XsdOnly(rejected) IN
           /\ v.is_valid = (v.errors = {})
           /\ (v.errors = {}) <=> rejected = {}
BY DEF XsdOnly, ValidationResult

LEMMA ValidateExact ==
    ASSUME NEW setup \in Setups, NEW rejected, NEW r \in Reports
    PROVE  LET v == ValidateXml(setup, rejected, r) IN
           /\ v.is_valid = (v.errors = {})
           /\ (v.errors = {}) <=> /\ Schemas(setup) # {}
                                  /\ "xsd" \in Schemas(setup) => rejected = {}
                                  /\ "en16931" \in Schemas(setup) => Passes(r)
<1> DEFINE x == XsdOnly(rejected)
           s == SchematronSaxon(r)
           v == ValidateXml(setup, rejected, r)
<1>1. /\ x.is_valid = (x.errors = {}) /\ ((x.errors = {}) <=> rejected = {})
      /\ s.is_valid = (s.errors = {}) /\ ((s.errors = {}) <=> Passes(r))
  BY XsdExact, SaxonExact
<1> HIDE DEF x, s
<1>2. Schemas(setup) \subseteq {"xsd", "en16931"}
  BY DEF Schemas
<1>3. CASE Schemas(setup) = {"xsd", "en16931"}
  <2>1. v = Combined(rejected, r)
    BY <1>3 DEF ValidateXml
  <2>2. v.errors = x.errors \cup s.errors /\ v.is_valid = (x.is_valid /\ s.is_valid)
    <3>1. Merge(Merge(ValidationResult({}, {}), x), s).errors = x.errors \cup s.errors
      BY DEF Merge, ValidationResult
    <3>2. Merge(Merge(ValidationResult({}, {}), x), s).is_valid = (x.is_valid /\ s.is_valid)
      BY <1>1 DEF Merge, ValidationResult
    <3>. QED  BY <2>1, <3>1, <3>2 DEF Combined, x, s
  <2>. QED  BY <1>1, <1>3, <2>2
<1>4. CASE Schemas(setup) = {"xsd"}
  BY <1>1, <1>4 DEF ValidateXml, x
<1>5. CASE Schemas(setup) = {"en16931"}
  BY <1>1, <1>5 DEF ValidateXml, s
<1>6. CASE Schemas(setup) = {}
  <2>1. v = NoOp
    BY <1>6 DEF ValidateXml
  <2>2. {<<"NoOp", "no schemas">>} # {}
    OBVIOUS
  <2>3. NoOp.errors # {} /\ NoOp.is_valid = FALSE
    BY <2>2 DEF NoOp, ValidationResult
  <2>. QED  BY <1>6, <2>1, <2>3
<1>7. \/ Schemas(setup) = {"xsd", "en16931"} \/ Schemas(setup) = {"xsd"}
      \/ Schemas(setup) = {"en16931"} \/ Schemas(setup) = {}
  <2>1. PICK S : S = Schemas(setup)
    OBVIOUS
  <2>. QED  BY <1>2, <2>1
<1>. QED  BY <1>3, <1>4, <1>5, <1>6, <1>7

LEMMA AlwaysExact == \A rejected : AnsweredExactly(rejected)
<1> SUFFICES ASSUME NEW rejected
             PROVE  \A setup \in {s \in Setups : Startable(s)},
                       profile \in {"COMFORT", "XRECHNUNG"}, r, national \in Reports :
      LET answer == Answer(setup, profile, rejected, r, national)
      IN  /\ answer.is_valid = (answer.validation_errors = {})
          /\ answer.is_valid =
                /\ Schemas(setup) # {}
                /\ "xsd" \in Schemas(setup) => rejected = {}
                /\ "en16931" \in Schemas(setup) => Passes(r)
                /\ (profile = "XRECHNUNG" /\ setup.xrechnung = "intact") => Passes(national)
  BY DEF AnsweredExactly
<1> TAKE setup \in {s \in Setups : Startable(s)}, profile \in {"COMFORT", "XRECHNUNG"},
         r, national \in Reports
<1>0. setup \in Setups
  OBVIOUS
<1> DEFINE first == ValidateXml(setup, rejected, r)
           s     == SchematronSaxon(national)
           more  == {v \in NationalRules(setup, national) :
                        profile = "XRECHNUNG" /\ ~v.is_valid}
           held  == profile = "XRECHNUNG" /\ setup.xrechnung = "intact"
<1>1. /\ first.is_valid = (first.errors = {})
      /\ (first.errors = {}) <=> /\ Schemas(setup) # {}
                                 /\ "xsd" \in Schemas(setup) => rejected = {}
                                 /\ "en16931" \in Schemas(setup) => Passes(r)
  BY <1>0, ValidateExact
<1>2. s.is_valid = (s.errors = {}) /\ ((s.errors = {}) <=> Passes(national))
  BY SaxonExact
<1> HIDE DEF first, s
<1>3. more = IF held /\ ~s.is_valid THEN {s} ELSE {}
  BY DEF NationalRules, s
<1>4. UNION {v.errors : v \in more} = IF held /\ ~s.is_valid THEN s.errors ELSE {}
  BY <1>3
<1>5. (more = {}) <=> (held => Passes(national))
  BY <1>2, <1>3
<1>6. (UNION {v.errors : v \in more} = {}) <=> (more = {})
  BY <1>2, <1>3, <1>4
<1>7. /\ Answer(setup, profile, rejected, r, national).is_valid
           = (first.is_valid /\ more = {})
      /\ Answer(setup, profile, rejected, r, national).validation_errors
           = first.errors \cup UNION {v.errors : v \in more}
  BY DEF Answer, first
<1> HIDE DEF more
<1>. QED  BY <1>1, <1>5, <1>6, <1>7

\* The answer to a document is that of the schemas that are there, and an
\* invalid one has an error to show (backends.py, validator.py).
THEOREM AnswersAreExact == TotalsSpec => []AnswersExactly
<1>1. AnswersExactly
  BY AlwaysExact DEF AnswersExactly, Misanswered
<1>. QED  BY <1>1, PTL

-----------------------------------------------------------------------------
(* Recalculation.                                                          *)

\* The rows determine what is computed from them.
LEMMA SumsSame ==
    ASSUME UNCHANGED <<lines, charges>>
    PROVE  /\ Aggregate' = Aggregate /\ Present' = Present
           /\ \A l : Followed(l)' = Followed(l)
<1>1. Present' = Present
  BY DEF Present
<1>2. Aggregate' = Aggregate
  BY DEF Aggregate, Signed, NetOf, TaxOf, Group, On, Charged, Present, LineRates,
         Quantized, MapThenSumSet, MapThenFoldSet
<1>3. \A l : Followed(l)' = Followed(l)
  BY DEF Followed, Signed, On, Charged, MapThenSumSet, MapThenFoldSet
<1>. QED  BY <1>1, <1>2, <1>3

LEMMA SignedSame == ASSUME UNCHANGED charges, NEW l PROVE Signed(On(l))' = Signed(On(l))
BY DEF Signed, On, Charged, MapThenSumSet, MapThenFoldSet

\* What a request has done that no other has overlapped.
Undisturbed(h) ==
    /\ \A k \in Handlers \ {h} : ~Busy(k)
    /\ req[h].pc \in {"read", "write"} =>
          \A l \in Present : l = req[h].on => Followed(l)
    /\ req[h].pc = "write" => req[h].sum = Aggregate

HealInv == TotalsTypeOK /\ \A h \in alone : Undisturbed(h)

LEMMA BeginUndisturbed ==
    ASSUME TotalsTypeOK, NEW h \in Handlers, NEW pc \in {"idle", "line", "read"}, NEW x,
           Begin(h, pc, x), pc = "read" => x = Header, NEW k \in alone'
    PROVE  Undisturbed(k)'
<1>1. AtRest /\ k = h /\ pc # "idle"
  BY DEF Begin
<1>2. req'[h].pc = pc /\ req'[h].on = x /\ \A j \in Handlers \ {h} : req'[j] = req[j]
  BY DEF Begin, TotalsTypeOK, Request
<1>3. \A j \in Handlers \ {h} : ~Busy(j)'
  BY <1>1, <1>2 DEF AtRest, Busy
<1>4. Header \notin Present'
  BY AbsentAssumption DEF Present
<1>. QED  BY <1>1, <1>2, <1>3, <1>4 DEF Undisturbed

LEMMA HealStep ==
    ASSUME HealInv, NEW h \in Handlers,
           \/ CreateLine(h) \/ PatchLine(h) \/ DeleteLine(h)
           \/ CreateCharge(h) \/ PatchCharge(h) \/ DeleteCharge(h)
           \/ RecalculateLine(h) \/ ReadAggregates(h) \/ WriteTotals(h)
           \/ Die(h),
           NEW k \in alone'
    PROVE  Undisturbed(k)'
<1>1. TotalsTypeOK /\ \A j \in alone : Undisturbed(j) /\ Busy(j) /\ j \in Handlers
  BY DEF HealInv, TotalsTypeOK
<1>2. CASE CreateLine(h)
  BY <1>1, <1>2, BeginUndisturbed DEF CreateLine
<1>3. CASE PatchLine(h)
  BY <1>1, <1>3, BeginUndisturbed DEF PatchLine
<1>4. CASE DeleteLine(h)
  BY <1>1, <1>4, BeginUndisturbed DEF DeleteLine
<1>5. ASSUME NEW c, NEW ch, SetCharge(h, c, ch) PROVE Undisturbed(k)'
  BY <1>1, <1>5, BeginUndisturbed DEF SetCharge
<1>6. CASE CreateCharge(h)
  BY <1>5, <1>6 DEF CreateCharge
<1>7. CASE PatchCharge(h)
  BY <1>5, <1>7 DEF PatchCharge
<1>8. CASE DeleteCharge(h)
  BY <1>1, <1>8, BeginUndisturbed DEF DeleteCharge
<1>9. CASE RecalculateLine(h)
  <2>1. Busy(h) /\ k \in alone
    BY <1>9 DEF RecalculateLine, Busy
  <2>2. k = h /\ Undisturbed(h)
    BY <1>1, <2>1 DEF Undisturbed
  <2>3. /\ req'[h].pc = "read" /\ req'[h].on = req[h].on
        /\ \A j \in Handlers \ {h} : req'[j] = req[j]
    BY <1>1, <1>9 DEF RecalculateLine, GoOn, TotalsTypeOK, Request
  <2>4. ASSUME NEW l \in Present', l = req'[h].on PROVE Followed(l)'
    <3>1. UNCHANGED charges
      BY <1>9 DEF RecalculateLine
    <3>2. l \in Present /\ l \in LineIds
      BY <1>9, <2>3, <2>4 DEF RecalculateLine, Present
    <3>3. lines' = [lines EXCEPT ![l] = Priced(lines[l], Signed(On(l)))]
      BY <1>9, <2>3, <2>4, <3>2 DEF RecalculateLine
    <3>4. lines[l] \in Line
      BY <1>1, <3>2, TypeRows DEF RowsOK
    <3>5. lines'[l] = Priced(lines[l], Signed(On(l)))
      BY <1>1, <3>2, <3>3 DEF TotalsTypeOK
    <3>6. lines'[l].total = lines[l].net + Signed(On(l)) /\ lines'[l].net = lines[l].net
      BY <3>4, <3>5 DEF Priced, Line
    <3>. QED  BY <3>1, <3>6, SignedSame DEF Followed
  <2>. QED  BY <2>2, <2>3, <2>4 DEF Undisturbed, Busy
<1>10. CASE ReadAggregates(h)
  <2>1. Busy(h) /\ k \in alone
    BY <1>10 DEF ReadAggregates, Busy
  <2>2. k = h /\ Undisturbed(h) /\ req[h].pc = "read"
    BY <1>1, <1>10, <2>1 DEF Undisturbed, ReadAggregates
  <2>3. /\ req'[h].pc = "write" /\ req'[h].on = req[h].on /\ req'[h].sum = Aggregate
        /\ \A j \in Handlers \ {h} : req'[j] = req[j]
    BY <1>1, <1>10 DEF ReadAggregates, TotalsTypeOK, Request
  <2>4. Aggregate' = Aggregate /\ Present' = Present /\ \A l : Followed(l)' = Followed(l)
    BY <1>10, SumsSame DEF ReadAggregates
  <2>. QED  BY <2>2, <2>3, <2>4 DEF Undisturbed, Busy
<1>11. CASE WriteTotals(h) \/ Die(h)
  <2>1. Busy(h) /\ k \in alone /\ k # h
    BY <1>11 DEF WriteTotals, Die, Busy
  <2>. QED  BY <1>1, <2>1 DEF Undisturbed
<1>. QED  BY <1>2, <1>3, <1>4, <1>6, <1>7, <1>8, <1>9, <1>10, <1>11

LEMMA HealHolds == TotalsSpec => []HealInv
<1>1. TotalsInit => (\A h \in alone : Undisturbed(h))
  BY DEF TotalsInit
<1>2. HealInv /\ TotalsTypeOK' /\ [TotalsNext]_totalsVars => HealInv'
  <2> SUFFICES ASSUME HealInv, TotalsTypeOK', [TotalsNext]_totalsVars,
                      NEW k \in alone'
               PROVE  Undisturbed(k)'
    BY DEF HealInv
  <2>1. CASE TotalsNext
    BY <2>1, HealStep DEF TotalsNext
  <2>2. CASE UNCHANGED totalsVars
    <3>1. UNCHANGED <<lines, charges>> /\ UNCHANGED <<req, alone>>
      BY <2>2 DEF totalsVars
    <3>2. Aggregate' = Aggregate /\ Present' = Present /\ \A l : Followed(l)' = Followed(l)
      BY <3>1, SumsSame
    <3>3. Undisturbed(k)
      BY <3>1 DEF HealInv
    <3>. QED  BY <3>1, <3>2, <3>3 DEF Undisturbed, Busy
  <2>. QED  BY <2>1, <2>2
<1>3. TotalsTypeOK /\ (\A h \in alone : Undisturbed(h)) => HealInv
  BY DEF HealInv
<1>4. TotalsInit /\ TotalsTypeOK => HealInv
  BY <1>1, <1>3
<1>. QED  BY <1>2, <1>4, TotalsTypeCorrect, PTL DEF TotalsSpec

\* Whatever crossed or died before it, a request no other overlaps leaves the
\* stored totals equal to the rows (recalculate_totals, InvoiceLine.save).
THEOREM RecalculationHeals == TotalsSpec => AloneHeals
<1>1. HealInv /\ [TotalsNext]_totalsVars =>
         [\A h \in alone : (WriteTotals(h) =>
            /\ totals' = Aggregate'
            /\ \A l \in Present : l = req[h].on => Followed(l)')]_totalsVars
  <2> SUFFICES ASSUME HealInv, NEW h \in alone, WriteTotals(h)
               PROVE  /\ totals' = Aggregate'
                      /\ \A l \in Present : l = req[h].on => Followed(l)'
    OBVIOUS
  <2>1. Undisturbed(h) /\ req[h].pc = "write" /\ totals' = req[h].sum
    BY DEF HealInv, WriteTotals
  <2>2. Aggregate' = Aggregate /\ \A l : Followed(l)' = Followed(l)
    BY SumsSame DEF WriteTotals
  <2>. QED  BY <2>1, <2>2 DEF Undisturbed
<1>. QED  BY <1>1, HealHolds, PTL DEF TotalsSpec, AloneHeals

-----------------------------------------------------------------------------
(* How far rounding goes.                                                  *)

\* Rounding to a cent moves an amount by half a cent at most.
LEMMA QuantizedNear ==
    ASSUME NEW n \in Int, NEW d \in Nat, d # 0
    PROVE  /\ Quantized(n, d) \in Int
           /\ -d <= 2 * (d * Quantized(n, d)) - 2 * n
           /\ 2 * (d * Quantized(n, d)) - 2 * n <= d
<1>1. PICK q, m \in Int : q = n \div d /\ m = n % d
  OBVIOUS
<1>2. n = d * q + m /\ 0 <= m /\ m < d
  BY <1>1
<1>3. Quantized(n, d) = q \/ Quantized(n, d) = q + 1
  BY <1>1 DEF Quantized
<1>4. Quantized(n, d) = q => 2 * m <= d
  BY <1>1, <1>2 DEF Quantized
<1>5. Quantized(n, d) = q + 1 => 2 * m >= d
  BY <1>1, <1>2 DEF Quantized
<1>6. d * (q + 1) = d * q + d
  OBVIOUS
<1>7. PICK x \in Int : x = d * q
  OBVIOUS
<1>. QED  BY <1>2, <1>3, <1>4, <1>5, <1>6, <1>7

LEMMA RoundedNear ==
    ASSUME NEW n \in Int, NEW d \in Nat, d # 0, NEW u
    PROVE  /\ Rounded(n, d, u) \in Int
           /\ -d <= 2 * (d * Rounded(n, d, u)) - 2 * n
           /\ 2 * (d * Rounded(n, d, u)) - 2 * n <= d
<1>1. PICK q, m \in Int : q = n \div d /\ m = n % d
  OBVIOUS
<1>2. n = d * q + m /\ 0 <= m /\ m < d
  BY <1>1
<1>3. Rounded(n, d, u) = q \/ Rounded(n, d, u) = q + 1
  BY <1>1 DEF Rounded
<1>4. Rounded(n, d, u) = q => 2 * m <= d
  BY <1>1, <1>2 DEF Rounded
<1>5. Rounded(n, d, u) = q + 1 => 2 * m >= d
  BY <1>1, <1>2 DEF Rounded
<1>6. d * (q + 1) = d * q + d
  OBVIOUS
<1>7. PICK x \in Int : x = d * q
  OBVIOUS
<1>. QED  BY <1>2, <1>3, <1>4, <1>5, <1>6, <1>7

LEMMA SumScale ==
    ASSUME NEW S, IsFiniteSet(S), NEW f, NEW g, NEW a \in Int,
           \A x \in S : g[x] \in Int /\ f[x] = a * g[x]
    PROVE  SumOf(f, S) = a * SumOf(g, S)
<1> DEFINE T == {s \in SUBSET S : SumOf(f, s) # a * SumOf(g, s)}
<1> SUFFICES ASSUME T # {} PROVE FALSE
  OBVIOUS
<1>1. PICK m \in T : IsFiniteSet(m) /\ \A x \in m : m \ {x} \notin T
  BY SmallestSubset
<1>2. CASE m = {}
  BY <1>2, SumEmpty
<1>3. CASE m # {}
  <2>1. PICK x \in m : x = Chosen(m)
    BY <1>3, ChosenIn
  <2>2. /\ SumOf(f, m) = f[x] + SumOf(f, m \ {x})
        /\ SumOf(g, m) = g[x] + SumOf(g, m \ {x})
    BY <1>1, <1>3, <2>1, SumStep
  <2>3. SumOf(f, m \ {x}) = a * SumOf(g, m \ {x})
    BY <1>1
  <2>4. SumOf(g, m \ {x}) \in Int /\ g[x] \in Int /\ f[x] = a * g[x]
    BY <1>1, SumInt, FS_Subset
  <2>5. PICK y, z \in Int : y = SumOf(g, m \ {x}) /\ z = g[x]
    BY <2>4
  <2>6. SumOf(f, m) = a * z + a * y /\ SumOf(g, m) = z + y
    BY <2>2, <2>3, <2>4, <2>5
  <2>7. a * (z + y) = a * z + a * y
    OBVIOUS
  <2>. QED  BY <2>6, <2>7
<1>. QED  BY <1>2, <1>3

\* Sums of what differs by no more than b differ by no more than b each.
LEMMA SumNear ==
    ASSUME NEW S, IsFiniteSet(S), NEW f, NEW g, NEW b \in Nat,
           \A x \in S : /\ f[x] \in Int /\ g[x] \in Int
                        /\ -b <= f[x] - g[x] /\ f[x] - g[x] <= b
    PROVE  /\ -(b * Cardinality(S)) <= SumOf(f, S) - SumOf(g, S)
           /\ SumOf(f, S) - SumOf(g, S) <= b * Cardinality(S)
<1> DEFINE Near(s) == /\ -(b * Cardinality(s)) <= SumOf(f, s) - SumOf(g, s)
                      /\ SumOf(f, s) - SumOf(g, s) <= b * Cardinality(s)
           T == {s \in SUBSET S : ~Near(s)}
<1> SUFFICES ASSUME T # {} PROVE FALSE
  OBVIOUS
<1>1. PICK m \in T : IsFiniteSet(m) /\ \A x \in m : m \ {x} \notin T
  BY SmallestSubset
<1>2. CASE m = {}
  <2>1. Cardinality(m) = 0 /\ SumOf(f, m) = 0 /\ SumOf(g, m) = 0
    BY <1>2, SumEmpty, FS_EmptySet
  <2>. QED  BY <2>1
<1>3. CASE m # {}
  <2>1. PICK x \in m : x = Chosen(m)
    BY <1>3, ChosenIn
  <2>2. /\ SumOf(f, m) = f[x] + SumOf(f, m \ {x})
        /\ SumOf(g, m) = g[x] + SumOf(g, m \ {x})
    BY <1>1, <1>3, <2>1, SumStep
  <2>3. Near(m \ {x})
    BY <1>1
  <2>4. /\ SumOf(g, m \ {x}) \in Int /\ g[x] \in Int
        /\ SumOf(f, m \ {x}) \in Int /\ f[x] \in Int
        /\ -b <= f[x] - g[x] /\ f[x] - g[x] <= b
    BY <1>1, SumInt, FS_Subset
  <2>5. PICK k \in Nat : /\ Cardinality(m \ {x}) = k /\ Cardinality(m) = k + 1
    <3>1. Cardinality(m) \in Nat /\ Cardinality(m \ {x}) = Cardinality(m) - 1
          /\ IsFiniteSet(m \ {x})
      BY <1>1, <2>1, FS_RemoveElement, FS_CardinalityType
    <3>2. Cardinality(m \ {x}) \in Nat
      BY <3>1, FS_CardinalityType
    <3>. QED  BY <3>1, <3>2
  <2>6. PICK e \in Nat : e = b * k /\ b * (k + 1) = e + b
    OBVIOUS
  <2>7. Near(m)
    BY <2>2, <2>3, <2>4, <2>5, <2>6
  <2>. QED  BY <2>7
<1>. QED  BY <1>2, <1>3

-----------------------------------------------------------------------------
(* The document states what is booked.                                     *)

\* Every line is taxed as it stands.
Taxed(l)  == lines[l].tax = Quantized(lines[l].total * lines[l].rate, 100)
TaxedInv  == TotalsTypeOK /\ \A l \in Present : Taxed(l)

LEMMA PricedTaxed ==
    ASSUME NEW line \in Line, NEW a
    PROVE  Priced(line, a).tax = Quantized(Priced(line, a).total * Priced(line, a).rate, 100)
BY DEF Priced, Line

LEMMA TaxedStep ==
    ASSUME TaxedInv, NEW h \in Handlers,
           \/ CreateLine(h) \/ PatchLine(h) \/ DeleteLine(h)
           \/ CreateCharge(h) \/ PatchCharge(h) \/ DeleteCharge(h)
           \/ RecalculateLine(h) \/ ReadAggregates(h) \/ WriteTotals(h)
           \/ Die(h),
           NEW l \in Present'
    PROVE  Taxed(l)'
<1>1. /\ l \in LineIds /\ lines'[l] # Absent
      /\ (lines'[l] = lines[l] => Taxed(l)')
  BY DEF Present, TaxedInv, Taxed
<1>2. ASSUME NEW k \in LineIds, NEW line \in Line, NEW a,
             lines' = [lines EXCEPT ![k] = Priced(line, a)]
      PROVE  Taxed(l)'
  <2>1. l # k => lines'[l] = lines[l]
    BY <1>1, <1>2 DEF TaxedInv, TotalsTypeOK
  <2>2. l = k => lines'[l] = Priced(line, a)
    BY <1>1, <1>2 DEF TaxedInv, TotalsTypeOK
  <2>. QED  BY <1>1, <2>1, <2>2, PricedTaxed DEF Taxed
<1>3. RowsOK /\ Present \subseteq LineIds
  BY TypeRows DEF TaxedInv, Present
<1>4. CASE CreateLine(h)
  <2>1. PICK k \in LineIds \ Present, net \in Nets, o \in Offers :
           lines' = [lines EXCEPT ![k] =
                       Priced([net |-> net, rate |-> Treatment(o).rate,
                               stored |-> Treatment(o).stored, total |-> 0, tax |-> 0], 0)]
    BY <1>4 DEF CreateLine
  <2>2. [net |-> net, rate |-> Treatment(o).rate, stored |-> Treatment(o).stored,
         total |-> 0, tax |-> 0] \in Line
    BY TreatmentType, AmountsAssumption DEF Line
  <2>. QED  BY <1>2, <2>1, <2>2
<1>5. CASE PatchLine(h)
  <2>1. PICK k \in Present, net \in Nets, r \in Rates :
           lines' = [lines EXCEPT ![k] =
                       Priced([lines[k] EXCEPT !.net = net, !.rate = r], Signed(On(k)))]
    BY <1>5 DEF PatchLine
  <2>2. [lines[k] EXCEPT !.net = net, !.rate = r] \in Line
    <3>1. lines[k] \in Line /\ net \in Int /\ r \in Nat
      BY <1>3, AmountsAssumption DEF RowsOK
    <3>. QED  BY <3>1 DEF Line
  <2>. QED  BY <1>2, <1>3, <2>1, <2>2
<1>6. CASE DeleteLine(h)
  BY <1>1, <1>6 DEF DeleteLine, TaxedInv, TotalsTypeOK
<1>7. CASE RecalculateLine(h)
  <2>1. CASE req[h].on \in Present
    <3>1. lines' = [lines EXCEPT ![req[h].on]
                       = Priced(lines[req[h].on], Signed(On(req[h].on)))]
      BY <1>7, <2>1 DEF RecalculateLine
    <3>. QED  BY <1>2, <1>3, <2>1, <3>1 DEF RowsOK
  <2>2. CASE req[h].on \notin Present
    BY <1>1, <1>7, <2>2 DEF RecalculateLine
  <2>. QED  BY <2>1, <2>2
<1>8. CASE CreateCharge(h) \/ PatchCharge(h) \/ DeleteCharge(h)
           \/ ReadAggregates(h) \/ WriteTotals(h) \/ Die(h)
  BY <1>1, <1>8
     DEF CreateCharge, PatchCharge, DeleteCharge, SetCharge, ReadAggregates, WriteTotals, Die
<1>. QED  BY <1>4, <1>5, <1>6, <1>7, <1>8

LEMMA TaxedHolds == TotalsSpec => []TaxedInv
<1>1. TotalsInit => (\A l \in Present : Taxed(l))
  BY DEF TotalsInit, Present
<1>2. TaxedInv /\ TotalsTypeOK' /\ [TotalsNext]_totalsVars => TaxedInv'
  <2> SUFFICES ASSUME TaxedInv, TotalsTypeOK', [TotalsNext]_totalsVars, NEW l \in Present'
               PROVE  Taxed(l)'
    BY DEF TaxedInv
  <2>1. CASE TotalsNext
    BY <2>1, TaxedStep DEF TotalsNext
  <2>2. CASE UNCHANGED totalsVars
    BY <2>2 DEF totalsVars, TaxedInv, Taxed, Present
  <2>. QED  BY <2>1, <2>2
<1>3. TotalsInit /\ TotalsTypeOK => TaxedInv
  BY <1>1 DEF TaxedInv
<1>. QED  BY <1>2, <1>3, TotalsTypeCorrect, PTL DEF TotalsSpec

Weight(S) == [l \in S |-> lines[l].total * lines[l].rate]

\* Taxed line by line, an amount is half a cent per line off at most.
LEMMA LinesNear ==
    ASSUME RowsOK, \A l \in Present : Taxed(l)
    PROVE  /\ SumOf(Weight(Present), Present) \in Int
           /\ TaxOf(Present) \in Int /\ Cardinality(Present) \in Nat
           /\ -(100 * Cardinality(Present))
                <= 200 * TaxOf(Present) - 2 * SumOf(Weight(Present), Present)
           /\ 200 * TaxOf(Present) - 2 * SumOf(Weight(Present), Present)
                <= 100 * Cardinality(Present)
<1> DEFINE w == Weight(Present)
           t == TaxSum(Present)
           f == [l \in Present |-> 200 * t[l]]
           g == [l \in Present |-> 2 * w[l]]
<1>1. ASSUME NEW l \in Present
      PROVE  /\ w[l] \in Int /\ t[l] \in Int
             /\ -100 <= 200 * t[l] - 2 * w[l] /\ 200 * t[l] - 2 * w[l] <= 100
  <2>1. PICK x \in Int : x = lines[l].total * lines[l].rate
    BY DEF RowsOK, Line
  <2>2. t[l] = Quantized(x, 100) /\ w[l] = x
    BY <2>1 DEF Taxed, TaxSum, Weight
  <2>3. /\ Quantized(x, 100) \in Int
        /\ -100 <= 2 * (100 * Quantized(x, 100)) - 2 * x
        /\ 2 * (100 * Quantized(x, 100)) - 2 * x <= 100
    BY <2>1, QuantizedNear
  <2>. QED  BY <2>1, <2>2, <2>3
<1>2. IsFiniteSet(Present) /\ Cardinality(Present) \in Nat
  BY Finite, FS_CardinalityType
<1>3. TaxOf(Present) = SumOf(t, Present)
  BY <1>2, TaxIs
<1> HIDE DEF w, t
<1>4. SumOf(w, Present) \in Int /\ SumOf(t, Present) \in Int
  BY <1>1, <1>2, SumInt
<1>5. SumOf(f, Present) = 200 * SumOf(t, Present)
  BY <1>1, <1>2, SumScale
<1>6. SumOf(g, Present) = 2 * SumOf(w, Present)
  BY <1>1, <1>2, SumScale
<1>7. \A l \in Present : f[l] \in Int /\ g[l] \in Int /\ -100 <= f[l] - g[l] /\ f[l] - g[l] <= 100
  BY <1>1
<1> HIDE DEF f, g
<1>8. /\ -(100 * Cardinality(Present)) <= SumOf(f, Present) - SumOf(g, Present)
      /\ SumOf(f, Present) - SumOf(g, Present) <= 100 * Cardinality(Present)
  BY <1>2, <1>7, SumNear
<1>. QED  BY <1>2, <1>3, <1>4, <1>5, <1>6, <1>8 DEF w

LEMMA GroupWeight ==
    ASSUME RowsOK, NEW r \in Nat, NEW A, A = {l \in Present : lines[l].rate = r}
    PROVE  SumOf(Weight(Present), A) = r * Group(r)
<1>1. IsFiniteSet(A) /\ A \subseteq Present
  BY Finite
<1>2. \A l \in A : NetSum(A)[l] \in Int /\ Weight(Present)[l] = r * NetSum(A)[l]
  BY DEF NetSum, Weight, RowsOK, Line
<1>3. SumOf(Weight(Present), A) = r * SumOf(NetSum(A), A)
  BY <1>1, <1>2, SumScale
<1>4. Group(r) = SumOf(NetSum(A), A)
  BY <1>1, NetIs DEF Group
<1>. QED  BY <1>3, <1>4

LEMMA WeightOfTwo ==
    ASSUME RowsOK, NEW p \in Nat, NEW q \in Nat, p # q, LineRates = {p, q}
    PROVE  SumOf(Weight(Present), Present) = p * Group(p) + q * Group(q)
<1>1. PICK A, B : /\ A = {l \in Present : lines[l].rate = p}
                  /\ B = {l \in Present : lines[l].rate = q}
  OBVIOUS
<1>2. Present = A \cup B /\ A \cap B = {} /\ IsFiniteSet(A) /\ IsFiniteSet(B)
  BY <1>1, Finite DEF LineRates
<1>3. \A l \in A \cup B : Weight(Present)[l] \in Int
  BY <1>2 DEF Weight, RowsOK, Line
<1>4. SumOf(Weight(Present), A \cup B)
        = SumOf(Weight(Present), A) + SumOf(Weight(Present), B)
  BY <1>2, <1>3, SumUnion
<1>. QED  BY <1>1, <1>2, <1>4, GroupWeight

LEMMA WeightOfOne ==
    ASSUME RowsOK, NEW r \in Nat, LineRates = {r}
    PROVE  SumOf(Weight(Present), Present) = r * Group(r) /\ NetOf(Present) = Group(r)
<1>1. Present = {l \in Present : lines[l].rate = r}
  BY DEF LineRates
<1>. QED  BY <1>1, GroupWeight DEF Group

LEMMA Multiplied ==
    ASSUME NEW N \in Nat, NEW x \in Int, NEW y \in Int, -y <= x, x <= y
    PROVE  -(N * y) <= N * x /\ N * x <= N * y
OBVIOUS

LEMMA Divided ==
    ASSUME NEW N \in Nat, N # 0, NEW x \in Int, NEW y \in Int,
           -(N * y) <= N * x, N * x <= N * y
    PROVE  -y <= x /\ x <= y
OBVIOUS

LEMMA TwoRatesPlainDrift ==
    ASSUME NEW N \in Nat, N # 0, NEW gp \in Int, NEW gq \in Int, N = gp + gq,
           NEW ap \in Int, NEW aq \in Int, ap + aq = 0, NEW c \in Nat, NEW n \in Nat,
           NEW p \in Nat, NEW q \in Nat, p < q,
           NEW Rp \in Int, NEW Rq \in Int, NEW T \in Int,
           -(N * c) <= 2 * N * ap, 2 * N * ap <= N * c,
           NEW eRp \in Int, -100 <= eRp, eRp <= 100, eRp = 200 * Rp - 2 * ((gp + ap) * p),
           NEW eRq \in Int, -100 <= eRq, eRq <= 100, eRq = 200 * Rq - 2 * ((gq + aq) * q),
           NEW eT \in Int, -(100 * n) <= eT, eT <= 100 * n, eT = 200 * T - 2 * (p * gp + q * gq),
           NEW x \in Int, x = 200 * (Rp + Rq - T)
    PROVE  /\ -(100 * n + 600 + (q - p) * c) <= x
           /\ x <= 100 * n + 600 + (q - p) * c
<1>1. -c <= 2 * ap /\ 2 * ap <= c
  <2>1. N * (2 * ap) = 2 * N * ap
    OBVIOUS
  <2>. QED  BY <2>1, Divided
<1>2. PICK d \in Nat : d = q - p
  OBVIOUS
<1>3. -(d * c) <= d * (2 * ap) /\ d * (2 * ap) <= d * c
  BY <1>1, Multiplied
<1>4. x = eRp + eRq - eT - d * (2 * ap)
  <2>1. aq = -ap
    OBVIOUS
  <2>2. (gp + ap) * p = p * gp + ap * p /\ (gq + aq) * q = q * gq - ap * q
    BY <2>1
  <2>3. d * (2 * ap) = 2 * (ap * q) - 2 * (ap * p)
    BY <1>2
  <2>. QED  BY <2>2, <2>3
<1>5. PICK y, z \in Int : y = d * c /\ z = d * (2 * ap)
  OBVIOUS
<1>6. -(100 * n + 200 + y) <= x /\ x <= 100 * n + 200 + y
  <2>1. -y <= z /\ z <= y
    BY <1>3, <1>5
  <2>2. x = eRp + eRq - eT - z
    BY <1>4, <1>5
  <2>3. PICK m \in Nat : m = 100 * n
    OBVIOUS
  <2>4. -m <= eT /\ eT <= m
    BY <2>3
  <2>. QED  BY <2>1, <2>2, <2>3, <2>4
<1>. QED  BY <1>2, <1>5, <1>6

LEMMA OneRateDrift ==
    ASSUME NEW N \in Nat, N # 0, NEW a \in Int, NEW n \in Nat, NEW r \in Nat,
           NEW R \in Int, NEW T \in Int, NEW Y \in Int, NEW Z \in Int,
           NEW eR \in Int, -100 <= eR, eR <= 100, eR = 200 * R - 2 * ((N + a) * r),
           NEW eZ \in Int, -100 <= eZ, eZ <= 100, eZ = 200 * Z - 2 * (N * r),
           NEW eT \in Int, -(100 * n) <= eT, eT <= 100 * n, eT = 200 * T - 2 * (r * N),
           NEW eY \in Int, eY = 200 * N * Y - 2 * ((N * N + a * N) * r),
           -(100 * N) <= eY, eY <= 100 * N,
           NEW x \in Int, x = 200 * (R - (T + (Y - Z)))
    PROVE  -(100 * n + 300) <= x /\ x <= 100 * n + 300
<1>1. PICK e \in Int : e = eR - eT + eZ
  OBVIOUS
<1>2. -(200 + 100 * n) <= e /\ e <= 200 + 100 * n
  BY <1>1
<1>3. -(N * (200 + 100 * n)) <= N * e /\ N * e <= N * (200 + 100 * n)
  BY <1>2, Multiplied
<1>4. N * x = N * e - eY
  BY <1>1
<1>5. N * (100 * n + 300) = N * (200 + 100 * n) + 100 * N
  OBVIOUS
<1>6. -(N * (100 * n + 300)) <= N * x /\ N * x <= N * (100 * n + 300)
  <2>1. PICK f, u \in Int : f = N * e /\ u = N * (200 + 100 * n)
    OBVIOUS
  <2>2. N * x = f - eY /\ N * (100 * n + 300) = u + 100 * N /\ -u <= f /\ f <= u
    BY <1>3, <1>4, <1>5, <2>1
  <2>. QED  BY <2>2
<1>. QED  BY <1>6, Divided

LEMMA FirstPart ==
    ASSUME RowsOK, NEW p \in Nat, NEW q \in Nat, p < q, LineRates = {p, q},
           Group(p) >= 0, Group(q) >= 0, NetOf(Present) # 0, NEW c \in Charged, NEW up
    PROVE  Part(c, p, up) = Rounded(charges[c].amount * Group(p), NetOf(Present), p \in up)
<1>1. LastRate = q
  BY DEF LastRate, Max
<1>2. NetOf(Present) = Group(p) + Group(q) /\ Group(p) \in Nat /\ Group(q) \in Nat
  <2>1. Group(p) \in Int /\ Group(q) \in Int
    BY GroupInt
  <2>2. SumOf([r \in LineRates |-> Group(r)], {p, q}) = Group(p) + Group(q)
    BY <2>1, SumTwo
  <2>. QED  BY <2>1, <2>2, GroupsMakeNet
<1>3. PICK a \in Nat : a = charges[c].amount
  BY DEF RowsOK, Charge
<1>4. Share(c, p, up) = Rounded(a * Group(p), NetOf(Present), p \in up)
  BY <1>3 DEF Share
<1>5. Share(c, p, up) \in Int /\ 0 <= Share(c, p, up)
  <2>1. NetOf(Present) \in Nat /\ Group(p) <= NetOf(Present)
    BY <1>2
  <2>2. Rounded(a * Group(p), NetOf(Present), p \in up) \in Int
    BY <1>2, <2>1, RoundedInt
  <2>3. 0 <= Rounded(a * Group(p), NetOf(Present), p \in up)
    BY <1>2, <2>1, RoundedBetween
  <2>. QED  BY <1>4, <2>2, <2>3
<1>6. Part(c, p, up) = (IF Share(c, p, up) > 0 THEN Share(c, p, up) ELSE 0)
  BY <1>1 DEF Part
<1>. QED  BY <1>3, <1>4, <1>5, <1>6

\* The first rate is given its share of all allowances and charges up to half
\* a cent for each.
LEMMA FirstAdjustment ==
    ASSUME RowsOK, NEW p \in Nat, NEW q \in Nat, p < q, LineRates = {p, q},
           Group(p) >= 0, Group(q) >= 0, NetOf(Present) # 0, NEW up, NEW N, NetOf(Present) = N
    PROVE  /\ -(N * Cardinality(Charged))
                <= 2 * N * Adjustment(p, up) - 2 * Group(p) * Signed(Charged)
           /\ 2 * N * Adjustment(p, up) - 2 * Group(p) * Signed(Charged)
                <= N * Cardinality(Charged)
<1>1. N = Group(p) + Group(q) /\ Group(p) \in Nat /\ Group(q) \in Nat /\ N \in Nat /\ N # 0
  <2>1. Group(p) \in Int /\ Group(q) \in Int
    BY GroupInt
  <2>2. SumOf([r \in LineRates |-> Group(r)], {p, q}) = Group(p) + Group(q)
    BY <2>1, SumTwo
  <2>. QED  BY <2>1, <2>2, GroupsMakeNet
<1> DEFINE P == [c \in Charged |-> SignedPart(c, p, up)]
           S == SignSum(Charged)
           f == [c \in Charged |-> (2 * N) * P[c]]
           g == [c \in Charged |-> (2 * Group(p)) * S[c]]
<1>2. ASSUME NEW c \in Charged
      PROVE  /\ P[c] \in Int /\ S[c] \in Int
             /\ -N <= (2 * N) * P[c] - (2 * Group(p)) * S[c]
             /\ (2 * N) * P[c] - (2 * Group(p)) * S[c] <= N
  <2>1. PICK a \in Nat : a = charges[c].amount
    BY DEF RowsOK, Charge
  <2>2. charges[c].charge \in BOOLEAN
    BY DEF RowsOK, Charge
  <2>3. PICK b : b = Rounded(a * Group(p), N, p \in up)
    OBVIOUS
  <2>4. Part(c, p, up) = b
    BY <2>1, <2>3, FirstPart
  <2>5. b \in Int /\ -N <= 2 * (N * b) - 2 * (a * Group(p)) /\ 2 * (N * b) - 2 * (a * Group(p)) <= N
    <3>1. a * Group(p) \in Int
      BY <1>1
    <3>. QED  BY <1>1, <2>3, <3>1, RoundedNear
  <2>6. /\ P[c] = IF charges[c].charge THEN b ELSE -b
        /\ S[c] = IF charges[c].charge THEN a ELSE -a
    BY <2>1, <2>4 DEF SignedPart, SignSum, Sign
  <2> HIDE DEF P, S
  <2>7. PICK u \in Int : u = 2 * (N * b) - 2 * (a * Group(p))
    BY <1>1, <2>5
  <2>8. /\ (2 * N) * b - (2 * Group(p)) * a = u
        /\ (2 * N) * (-b) - (2 * Group(p)) * (-a) = -u
    BY <1>1, <2>5, <2>7
  <2>. QED  BY <1>1, <2>2, <2>5, <2>6, <2>7, <2>8
<1>3. IsFiniteSet(Charged)
  BY Finite
<1>4. Adjustment(p, up) = SumOf(P, Charged) /\ Signed(Charged) = SumOf(S, Charged)
  BY <1>3, AdjustmentIs, SignedIs
<1> HIDE DEF P, S
<1>5. SumOf(f, Charged) = (2 * N) * SumOf(P, Charged)
  BY <1>1, <1>2, <1>3, SumScale
<1>6. SumOf(g, Charged) = (2 * Group(p)) * SumOf(S, Charged)
  BY <1>1, <1>2, <1>3, SumScale
<1>7. \A c \in Charged : f[c] \in Int /\ g[c] \in Int /\ -N <= f[c] - g[c] /\ f[c] - g[c] <= N
  BY <1>1, <1>2
<1> HIDE DEF f, g
<1>8. /\ -(N * Cardinality(Charged)) <= SumOf(f, Charged) - SumOf(g, Charged)
      /\ SumOf(f, Charged) - SumOf(g, Charged) <= N * Cardinality(Charged)
  BY <1>1, <1>3, <1>7, SumNear
<1>. QED  BY <1>4, <1>5, <1>6, <1>8

\* How far the tax of the document is from the tax of the totals.
Drift(up) == 200 * (TaxTotal(up) - Aggregate.tax)
Bound     == 100 * Cardinality(Present) + 300 * Cardinality(LineRates)
               + Spread * Cardinality(Charged)

LEMMA AggregateTax ==
    ASSUME RowsOK
    PROVE  /\ Signed(On(Header)) = 0 => Aggregate.tax = TaxOf(Present)
           /\ Signed(On(Header)) # 0 =>
                 Aggregate.tax = TaxOf(Present) + SumOf(ChangeSum, LineRates)
<1>1. TaxOf(Present) \in Int
  BY TaxInt
<1>2. Aggregate.tax = TaxOf(Present) + IF Signed(On(Header)) = 0 THEN 0
                                       ELSE SumOf(ChangeSum, LineRates)
  BY AggregateIs
<1>. QED  BY <1>1, <1>2

LEMMA DriftOfNone ==
    ASSUME RowsOK, Generable, LineRates = {}, NEW up
    PROVE  -Bound <= Drift(up) /\ Drift(up) <= Bound
<1>1. Present = {} /\ Charged = {}
  BY DEF Generable, LineRates
<1>2. On(Header) = {}
  BY <1>1 DEF On
<1>3. IsFiniteSet({}) /\ Cardinality({}) = 0
  BY FS_EmptySet
<1>4. TaxTotal(up) = 0
  BY TaxTotalIs, SumEmpty
<1>5. TaxOf(Present) = 0
  BY <1>1, <1>3, TaxIs, SumEmpty
<1>6. Signed(On(Header)) = 0
  BY <1>2, <1>3, SignedIs, SumEmpty
<1>7. Aggregate.tax = 0
  BY <1>5, <1>6, AggregateIs
<1>8. Bound = 0
  BY <1>1, <1>3 DEF Bound, Spread
<1>. QED  BY <1>4, <1>7, <1>8 DEF Drift

\* What the premises say of every invoice with lines.
Booked == /\ RowsOK /\ Plain /\ Generable /\ Charged = On(Header)
          /\ Charged = {} \/ NetOf(Present) # 0
          /\ \A l \in Present : Taxed(l)

LEMMA DriftOfOne ==
    ASSUME Booked, NEW r \in Nat, LineRates = {r}, NEW up
    PROVE  -Bound <= Drift(up) /\ Drift(up) <= Bound
<1>1. RowsOK /\ Plain /\ Generable
  BY DEF Booked
<1>2. PICK n \in Nat : n = Cardinality(Present)
  BY Finite, FS_CardinalityType
<1>3. Bound = 100 * n + 300
  <2>1. Cardinality(LineRates) = 1
    BY FS_Singleton
  <2>2. Spread = 0
    BY DEF Spread, Max, Min
  <2>3. Cardinality(Charged) \in Nat
    BY Finite, FS_CardinalityType
  <2>. QED  BY <1>2, <2>1, <2>2, <2>3 DEF Bound
<1>4. PICK N \in Nat : N = NetOf(Present) /\ N = Group(r)
  BY <1>1, WeightOfOne, GroupInt DEF Plain
<1>5. PICK a \in Int : a = Signed(Charged) /\ a = Adjustment(r, up)
                       /\ a = Signed(On(Header))
  <2>1. Adjustment(r, up) \in Int
        /\ SumOf([x \in LineRates |-> Adjustment(x, up)], LineRates) = Signed(Charged)
    BY <1>1, AdjustmentsMakeSigned
  <2>2. SumOf([x \in LineRates |-> Adjustment(x, up)], {r}) = Adjustment(r, up)
    BY <2>1, SumOne
  <2>. QED  BY <2>1, <2>2 DEF Booked
<1>6. PICK R : R = Rounded((N + a) * r, 100, r \in up)
  OBVIOUS
<1>7. /\ R \in Int
      /\ -100 <= 2 * (100 * R) - 2 * ((N + a) * r) /\ 2 * (100 * R) - 2 * ((N + a) * r) <= 100
  <2>1. (N + a) * r \in Int
    OBVIOUS
  <2>. QED  BY <1>6, <2>1, RoundedNear
<1>8. TaxTotal(up) = R
  <2> DEFINE g == [x \in LineRates |->
                      Rounded((Group(x) + Adjustment(x, up)) * x, 100, x \in up)]
  <2>1. g[r] = R
    BY <1>4, <1>5, <1>6
  <2>2. TaxTotal(up) = SumOf(g, LineRates)
    BY TaxTotalIs
  <2> HIDE DEF g
  <2>. QED  BY <1>7, <2>1, <2>2, SumOne
<1>9. PICK T \in Int : T = TaxOf(Present)
  BY <1>1, TaxInt
<1>10. -(100 * n) <= 200 * T - 2 * (r * N) /\ 200 * T - 2 * (r * N) <= 100 * n
  BY <1>1, <1>2, <1>4, <1>9, LinesNear, WeightOfOne DEF Booked
<1>11. PICK eR \in Int : /\ eR = 200 * R - 2 * ((N + a) * r)
                         /\ -100 <= eR /\ eR <= 100
  <2>1. 2 * (100 * R) = 200 * R /\ (N + a) * r \in Int
    BY <1>7
  <2>. QED  BY <1>7, <2>1
<1>12. PICK eT \in Int : eT = 200 * T - 2 * (r * N)
  <2>1. 200 * T - 2 * (r * N) \in Int
    OBVIOUS
  <2>. QED  BY <2>1
<1>13. -(100 * n) <= eT /\ eT <= 100 * n
  BY <1>10, <1>12
<1>14. CASE a = 0
  <2>1. Aggregate.tax = T
    BY <1>1, <1>5, <1>9, <1>14, AggregateTax
  <2>2. Drift(up) = 200 * R - 200 * T
    BY <1>7, <1>8, <2>1 DEF Drift
  <2>3. (N + a) * r = r * N
    BY <1>14
  <2>4. Drift(up) = eR - eT
    BY <1>7, <1>11, <1>12, <2>2, <2>3
  <2>. QED  BY <1>3, <1>11, <1>13, <2>4
<1>15. CASE a # 0
  <2>1. N # 0
    <3>1. Charged # {}
      BY <1>5, <1>15, SignedIs, SumEmpty, FS_EmptySet
    <3>. QED  BY <1>4, <3>1 DEF Booked
  <2>2. PICK Y, Z : Y = Quantized((N * N + a * N) * r, 100 * N) /\ Z = Quantized(N * r, 100)
    OBVIOUS
  <2>3. /\ Z \in Int
        /\ -100 <= 2 * (100 * Z) - 2 * (N * r) /\ 2 * (100 * Z) - 2 * (N * r) <= 100
    BY <2>2, QuantizedNear
  <2>4. /\ Y \in Int
        /\ -(100 * N) <= 2 * ((100 * N) * Y) - 2 * ((N * N + a * N) * r)
        /\ 2 * ((100 * N) * Y) - 2 * ((N * N + a * N) * r) <= 100 * N
    <3>1. (N * N + a * N) * r \in Int /\ 100 * N \in Nat /\ 100 * N # 0
      BY <2>1
    <3>. QED  BY <2>2, <3>1, QuantizedNear
  <2>5. Aggregate.tax = T + (Y - Z)
    <3>1. Change(r) = Y - Z
      BY <1>4, <1>5, <2>1, <2>2 DEF Change
    <3>2. SumOf(ChangeSum, LineRates) = Y - Z
      BY <2>3, <2>4, <3>1, SumOne DEF ChangeSum
    <3>. QED  BY <1>1, <1>5, <1>9, <1>15, <3>2, AggregateTax
  <2>6. PICK eZ \in Int : eZ = 200 * Z - 2 * (N * r)
    <3>1. 200 * Z - 2 * (N * r) \in Int
      BY <2>3
    <3>. QED  BY <3>1
  <2>7. -100 <= eZ /\ eZ <= 100
    BY <2>3, <2>6
  <2>8. PICK eY \in Int : eY = 200 * N * Y - 2 * ((N * N + a * N) * r)
    <3>1. 200 * N * Y - 2 * ((N * N + a * N) * r) \in Int
      BY <2>4
    <3>. QED  BY <3>1
  <2>9. -(100 * N) <= eY /\ eY <= 100 * N
    <3>1. 2 * ((100 * N) * Y) = 200 * N * Y
      BY <2>4
    <3>. QED  BY <2>4, <2>8, <3>1
  <2>10. PICK x \in Int : x = 200 * (R - (T + (Y - Z)))
    BY <1>7, <2>3, <2>4
  <2>11. Drift(up) = x
    BY <1>8, <2>5, <2>10 DEF Drift
  <2>12. -(100 * n + 300) <= x /\ x <= 100 * n + 300
    BY <1>7, <1>11, <1>12, <1>13, <2>1, <2>3, <2>4, <2>6, <2>8, <2>10, <2>7, <2>9,
       OneRateDrift
  <2>. QED  BY <1>3, <2>11, <2>12
<1>. QED  BY <1>14, <1>15

LEMMA GroupRounding ==
    ASSUME NEW g \in Int, NEW r \in Nat
    PROVE  LET Z == Quantized(g * r, 100)
           IN  /\ Z \in Int
               /\ -100 <= 200 * Z - 2 * (g * r) /\ 200 * Z - 2 * (g * r) <= 100
<1>1. PICK Z : Z = Quantized(g * r, 100)
  OBVIOUS
<1>2. g * r \in Int
  OBVIOUS
<1>3. /\ Z \in Int
      /\ -100 <= 2 * (100 * Z) - 2 * (g * r) /\ 2 * (100 * Z) - 2 * (g * r) <= 100
  BY <1>1, <1>2, QuantizedNear
<1>4. 2 * (100 * Z) = 200 * Z
  BY <1>3
<1>. QED  BY <1>1, <1>3, <1>4

LEMMA ShareRounding ==
    ASSUME NEW g \in Int, NEW a \in Int, NEW N \in Nat, N # 0, NEW r \in Nat
    PROVE  LET Y == Quantized((g * N + a * g) * r, 100 * N)
           IN  /\ Y \in Int
               /\ 200 * N * Y - 2 * ((g * N + a * g) * r) \in Int
               /\ -(100 * N) <= 200 * N * Y - 2 * ((g * N + a * g) * r)
               /\ 200 * N * Y - 2 * ((g * N + a * g) * r) <= 100 * N
<1>1. PICK Y : Y = Quantized((g * N + a * g) * r, 100 * N)
  OBVIOUS
<1>2. (g * N + a * g) * r \in Int /\ 100 * N \in Nat /\ 100 * N # 0
  OBVIOUS
<1>3. /\ Y \in Int
      /\ -(100 * N) <= 2 * ((100 * N) * Y) - 2 * ((g * N + a * g) * r)
      /\ 2 * ((100 * N) * Y) - 2 * ((g * N + a * g) * r) <= 100 * N
  BY <1>1, <1>2, QuantizedNear
<1>4. 2 * ((100 * N) * Y) = 200 * N * Y
  BY <1>3
<1>5. 200 * N * Y - 2 * ((g * N + a * g) * r) \in Int
  BY <1>3
<1>. QED  BY <1>1, <1>3, <1>4, <1>5

LEMMA DriftOfTwo ==
    ASSUME Booked, NEW p \in Nat, NEW q \in Nat, p < q, LineRates = {p, q}, NEW up
    PROVE  -Bound <= Drift(up) /\ Drift(up) <= Bound
<1>1. RowsOK /\ Plain /\ Generable /\ Group(p) >= 0 /\ Group(q) >= 0
  BY DEF Booked, Plain
<1>2. PICK n, c \in Nat : n = Cardinality(Present) /\ c = Cardinality(Charged)
  BY Finite, FS_CardinalityType
<1>3. Bound = 100 * n + 600 + (q - p) * c
  <2>1. Cardinality(LineRates) = 2
    <3>1. IsFiniteSet({p}) /\ Cardinality({p}) = 1
      BY FS_Singleton
    <3>2. q \notin {p}
      OBVIOUS
    <3>3. Cardinality({p} \cup {q}) = 2
      BY <3>1, <3>2, FS_AddElement
    <3>4. LineRates = {p} \cup {q}
      OBVIOUS
    <3>. QED  BY <3>3, <3>4
  <2>2. Spread = q - p
    <3>1. Max(LineRates) = q
      BY DEF Max
    <3>2. Min(LineRates) = p
      BY DEF Min
    <3>. QED  BY <3>1, <3>2 DEF Spread
  <2>. QED  BY <1>2, <2>1, <2>2 DEF Bound
<1>4. PICK gp \in Nat : gp = Group(p)
  BY <1>1, GroupInt
<1>5. PICK gq \in Nat : gq = Group(q)
  BY <1>1, GroupInt
<1>6. PICK N \in Nat : N = NetOf(Present) /\ N = gp + gq
  <2>1. SumOf([r \in LineRates |-> Group(r)], {p, q}) = gp + gq
    BY <1>4, <1>5, SumTwo
  <2>2. NetOf(Present) = gp + gq
    BY <1>1, <2>1, GroupsMakeNet
  <2>. QED  BY <2>2
<1>7. /\ \A x \in LineRates : Adjustment(x, up) \in Int
      /\ SumOf([x \in LineRates |-> Adjustment(x, up)], LineRates) = Signed(Charged)
  BY <1>1, AdjustmentsMakeSigned
<1>8. PICK ap \in Int : ap = Adjustment(p, up)
  BY <1>7
<1>9. PICK aq \in Int : aq = Adjustment(q, up)
  BY <1>7
<1>10. PICK a \in Int : a = ap + aq /\ a = Signed(Charged) /\ a = Signed(On(Header))
  <2>1. SumOf([x \in LineRates |-> Adjustment(x, up)], {p, q}) = ap + aq
    BY <1>7, <1>8, <1>9, SumTwo
  <2>2. Signed(Charged) = ap + aq /\ Signed(Charged) = Signed(On(Header))
    BY <1>7, <2>1 DEF Booked
  <2>. QED  BY <2>2
<1>11. PICK T \in Int : T = TaxOf(Present)
  BY <1>1, TaxInt
<1>12. PICK eT \in Int : eT = 200 * T - 2 * (p * gp + q * gq)
  <2>1. 200 * T - 2 * (p * gp + q * gq) \in Int
    OBVIOUS
  <2>. QED  BY <2>1
<1>13. -(100 * n) <= eT /\ eT <= 100 * n
  <2>1. SumOf(Weight(Present), Present) = p * gp + q * gq
    BY <1>1, <1>4, <1>5, WeightOfTwo
  <2>2. /\ -(100 * n) <= 200 * T - 2 * SumOf(Weight(Present), Present)
        /\ 200 * T - 2 * SumOf(Weight(Present), Present) <= 100 * n
    BY <1>1, <1>2, <1>11, LinesNear DEF Booked
  <2>. QED  BY <1>12, <2>1, <2>2
<1>14. PICK Rp : Rp = Rounded((gp + ap) * p, 100, p \in up)
  OBVIOUS
<1>15. PICK Rq : Rq = Rounded((gq + aq) * q, 100, q \in up)
  OBVIOUS
<1>16. /\ Rp \in Int
       /\ -100 <= 200 * Rp - 2 * ((gp + ap) * p) /\ 200 * Rp - 2 * ((gp + ap) * p) <= 100
  <2>1. (gp + ap) * p \in Int
    OBVIOUS
  <2>2. /\ Rp \in Int
        /\ -100 <= 2 * (100 * Rp) - 2 * ((gp + ap) * p)
        /\ 2 * (100 * Rp) - 2 * ((gp + ap) * p) <= 100
    BY <1>14, <2>1, RoundedNear
  <2>3. 2 * (100 * Rp) = 200 * Rp
    BY <2>2
  <2>. QED  BY <2>2, <2>3
<1>17. /\ Rq \in Int
       /\ -100 <= 200 * Rq - 2 * ((gq + aq) * q) /\ 200 * Rq - 2 * ((gq + aq) * q) <= 100
  <2>1. (gq + aq) * q \in Int
    OBVIOUS
  <2>2. /\ Rq \in Int
        /\ -100 <= 2 * (100 * Rq) - 2 * ((gq + aq) * q)
        /\ 2 * (100 * Rq) - 2 * ((gq + aq) * q) <= 100
    BY <1>15, <2>1, RoundedNear
  <2>3. 2 * (100 * Rq) = 200 * Rq
    BY <2>2
  <2>. QED  BY <2>2, <2>3
<1>18. TaxTotal(up) = Rp + Rq
  <2> DEFINE g == [x \in LineRates |->
                      Rounded((Group(x) + Adjustment(x, up)) * x, 100, x \in up)]
  <2>1. g[p] = Rp /\ g[q] = Rq /\ p # q
    BY <1>4, <1>5, <1>8, <1>9, <1>14, <1>15
  <2>2. TaxTotal(up) = SumOf(g, LineRates)
    BY TaxTotalIs
  <2> HIDE DEF g
  <2>. QED  BY <1>16, <1>17, <2>1, <2>2, SumTwo
<1>19. PICK eRp \in Int : /\ eRp = 200 * Rp - 2 * ((gp + ap) * p)
                          /\ -100 <= eRp /\ eRp <= 100
  <2>1. 200 * Rp - 2 * ((gp + ap) * p) \in Int
    BY <1>16
  <2>. QED  BY <1>16, <2>1
<1>20. PICK eRq \in Int : /\ eRq = 200 * Rq - 2 * ((gq + aq) * q)
                          /\ -100 <= eRq /\ eRq <= 100
  <2>1. 200 * Rq - 2 * ((gq + aq) * q) \in Int
    BY <1>17
  <2>. QED  BY <1>17, <2>1
<1>21. PICK D \in Int : D = 2 * N * ap - 2 * gp * (ap + aq)
  <2>1. 2 * N * ap - 2 * gp * (ap + aq) \in Int
    OBVIOUS
  <2>. QED  BY <2>1
<1>22. N # 0 => -(N * c) <= D /\ D <= N * c
  BY <1>1, <1>2, <1>4, <1>6, <1>8, <1>10, <1>21, FirstAdjustment
<1>23. CASE a = 0
  <2>1. Aggregate.tax = T
    BY <1>1, <1>10, <1>11, <1>23, AggregateTax
  <2>2. PICK x \in Int : x = 200 * (Rp + Rq - T)
    BY <1>16, <1>17
  <2>3. Drift(up) = x
    <3>1. Drift(up) = 200 * ((Rp + Rq) - T)
      BY <1>18, <2>1 DEF Drift
    <3>. QED  BY <1>16, <1>17, <2>2, <3>1
  <2>4. CASE N # 0
    <3>1. D = 2 * N * ap
      BY <1>10, <1>21, <1>23
    <3>2. -(N * c) <= 2 * N * ap /\ 2 * N * ap <= N * c
      BY <1>22, <2>4, <3>1
    <3>3. ap + aq = 0
      BY <1>10, <1>23
    <3>4. -(100 * n + 600 + (q - p) * c) <= x /\ x <= 100 * n + 600 + (q - p) * c
      BY <1>6, <1>12, <1>13, <1>16, <1>17, <1>19, <1>20, <2>2, <2>4, <3>2, <3>3,
         TwoRatesPlainDrift
    <3>. QED
      BY <1>3, <2>3, <3>4
  <2>5. CASE N = 0
    <3>1. Charged = {}
      BY <1>6, <2>5 DEF Booked
    <3>2. c = 0
      BY <1>2, <3>1, FS_EmptySet
    <3>3. Adjustment(p, up) = 0 /\ Adjustment(q, up) = 0
      BY <3>1, AdjustmentIs, SumEmpty, FS_EmptySet
    <3>4. gp = 0 /\ gq = 0 /\ ap = 0 /\ aq = 0
      BY <1>6, <1>8, <1>9, <2>5, <3>3
    <3>5. (gp + ap) * p = 0 /\ (gq + aq) * q = 0 /\ p * gp + q * gq = 0
      BY <3>4
    <3>6. eRp = 200 * Rp /\ eRq = 200 * Rq /\ eT = 200 * T
      BY <1>12, <1>16, <1>17, <1>19, <1>20, <3>5
    <3>7. x = eRp + eRq - eT
      BY <1>16, <1>17, <2>2, <3>6
    <3>8. (q - p) * c = 0
      BY <3>2
    <3>9. Bound = 100 * n + 600
      BY <1>3, <3>8
    <3>. QED  BY <1>13, <1>19, <1>20, <2>3, <3>9, <3>7
  <2>. QED  BY <2>4, <2>5
<1>24. CASE a # 0
  <2>1. N # 0
    <3>1. Charged # {}
      BY <1>10, <1>24, SignedIs, SumEmpty, FS_EmptySet
    <3>. QED  BY <1>6, <3>1 DEF Booked
  <2>2. PICK Yp : Yp = Quantized((gp * N + a * gp) * p, 100 * N)
    OBVIOUS
  <2>3. PICK Yq : Yq = Quantized((gq * N + a * gq) * q, 100 * N)
    OBVIOUS
  <2>4. PICK Zp : Zp = Quantized(gp * p, 100)
    OBVIOUS
  <2>5. PICK Zq : Zq = Quantized(gq * q, 100)
    OBVIOUS
  <2>6. /\ Yp \in Int
        /\ 200 * N * Yp - 2 * ((gp * N + a * gp) * p) \in Int
        /\ -(100 * N) <= 200 * N * Yp - 2 * ((gp * N + a * gp) * p)
        /\ 200 * N * Yp - 2 * ((gp * N + a * gp) * p) <= 100 * N
    BY <2>1, <2>2, ShareRounding
  <2>7. /\ Yq \in Int
        /\ 200 * N * Yq - 2 * ((gq * N + a * gq) * q) \in Int
        /\ -(100 * N) <= 200 * N * Yq - 2 * ((gq * N + a * gq) * q)
        /\ 200 * N * Yq - 2 * ((gq * N + a * gq) * q) <= 100 * N
    BY <2>1, <2>3, ShareRounding
  <2>8. Zp \in Int /\ -100 <= 200 * Zp - 2 * (gp * p) /\ 200 * Zp - 2 * (gp * p) <= 100
    BY <2>4, GroupRounding
  <2>9. Zq \in Int /\ -100 <= 200 * Zq - 2 * (gq * q) /\ 200 * Zq - 2 * (gq * q) <= 100
    BY <2>5, GroupRounding
  <2>10. Aggregate.tax = T + ((Yp - Zp) + (Yq - Zq))
    <3>1. Change(p) = Yp - Zp
      BY <1>4, <1>6, <1>10, <2>1, <2>2, <2>4 DEF Change
    <3>2. Change(q) = Yq - Zq
      BY <1>5, <1>6, <1>10, <2>1, <2>3, <2>5 DEF Change
    <3>3. SumOf(ChangeSum, LineRates) = (Yp - Zp) + (Yq - Zq)
      <4>1. ChangeSum[p] = Yp - Zp /\ ChangeSum[q] = Yq - Zq /\ p # q
        BY <3>1, <3>2 DEF ChangeSum
      <4>2. Yp - Zp \in Int /\ Yq - Zq \in Int
        BY <2>6, <2>7, <2>8, <2>9
      <4>3. PICK f : f = ChangeSum
        OBVIOUS
      <4>4. SumOf(f, {p, q}) = f[p] + f[q]
        BY <4>1, <4>2, <4>3, SumTwo
      <4>. QED  BY <4>1, <4>3, <4>4
    <3>4. (Yp - Zp) + (Yq - Zq) \in Int
      BY <2>6, <2>7, <2>8, <2>9
    <3>. QED  BY <1>1, <1>10, <1>11, <1>24, <3>3, <3>4, AggregateTax
  <2>11. PICK eZp \in Int : eZp = 200 * Zp - 2 * (gp * p)
    <3>1. 200 * Zp - 2 * (gp * p) \in Int
      BY <2>8
    <3>. QED  BY <3>1
  <2>12. PICK eZq \in Int : eZq = 200 * Zq - 2 * (gq * q)
    <3>1. 200 * Zq - 2 * (gq * q) \in Int
      BY <2>9
    <3>. QED  BY <3>1
  <2>13. PICK eYp \in Int : eYp = 200 * N * Yp - 2 * ((gp * N + a * gp) * p)
    BY <2>6
  <2>14. PICK eYq \in Int : eYq = 200 * N * Yq - 2 * ((gq * N + a * gq) * q)
    BY <2>7
  <2>15. /\ -100 <= eZp /\ eZp <= 100 /\ -100 <= eZq /\ eZq <= 100
         /\ -(100 * N) <= eYp /\ eYp <= 100 * N /\ -(100 * N) <= eYq /\ eYq <= 100 * N
    BY <2>6, <2>7, <2>8, <2>9, <2>11, <2>12, <2>13, <2>14
  <2>16. /\ eYp = 200 * N * Yp - 2 * ((gp * N + (ap + aq) * gp) * p)
         /\ eYq = 200 * N * Yq - 2 * ((gq * N + (ap + aq) * gq) * q)
    BY <1>10, <2>13, <2>14
  <2>17. PICK x \in Int : x = 200 * (Rp + Rq - (T + ((Yp - Zp) + (Yq - Zq))))
    BY <1>16, <1>17, <2>6, <2>7, <2>8, <2>9
  <2>18. Drift(up) = x
    <3>1. Drift(up) = 200 * ((Rp + Rq) - (T + ((Yp - Zp) + (Yq - Zq))))
      BY <1>18, <2>10 DEF Drift
    <3>. QED  BY <1>16, <1>17, <2>6, <2>7, <2>8, <2>9, <2>17, <3>1
  <2>19. -(N * c) <= D /\ D <= N * c
    BY <1>22, <2>1
  <2>20. Rp \in Int /\ Rq \in Int /\ Yp \in Int /\ Yq \in Int /\ Zp \in Int /\ Zq \in Int
    BY <1>16, <1>17, <2>6, <2>7, <2>8, <2>9
  <2>21. PICK e \in Int : e = eRp + eRq - eT + eZp + eZq
    OBVIOUS
  <2>22. -(N * (400 + 100 * n)) <= N * e /\ N * e <= N * (400 + 100 * n)
    <3>1. -(400 + 100 * n) <= e /\ e <= 400 + 100 * n
      <4>1. PICK m \in Nat : m = 100 * n
        OBVIOUS
      <4>. QED  BY <4>1, <1>13, <1>19, <1>20, <2>15, <2>21
    <3>. QED  BY <3>1, Multiplied
  <2>23. PICK d \in Nat : d = q - p
    OBVIOUS
  <2>24. -(d * (N * c)) <= d * D /\ d * D <= d * (N * c)
    <3>1. N * c \in Int
      OBVIOUS
    <3>. QED  BY <2>19, <3>1, Multiplied
  <2>25. N * x = N * e - eYp - eYq + D * (p - q)
    BY <1>12, <1>19, <1>20, <1>21, <1>6, <2>11, <2>17, <2>12, <2>16, <2>20, <2>21
  <2>26. D * (p - q) = -(d * D)
    BY <2>23
  <2>27. PICK y \in Int : y = 400 + 100 * n + 200 + d * c
    OBVIOUS
  <2>28. N * y = N * (400 + 100 * n) + 200 * N + d * (N * c)
    BY <2>27
  <2>29. -(N * y) <= N * x /\ N * x <= N * y
    <3>1. PICK v \in Int : v = N * (400 + 100 * n)
      OBVIOUS
    <3>2. PICK w \in Int : w = d * (N * c)
      OBVIOUS
    <3>3. PICK z \in Int : z = d * D
      OBVIOUS
    <3>4. PICK f \in Int : f = N * e
      OBVIOUS
    <3>5. N * x = f - eYp - eYq - z /\ N * y = v + 200 * N + w
      BY <2>25, <2>26, <2>28, <3>1, <3>2, <3>3, <3>4
    <3>6. -v <= f /\ f <= v /\ -w <= z /\ z <= w
      BY <2>22, <2>24, <3>1, <3>2, <3>3, <3>4
    <3>. QED  BY <2>15, <3>5, <3>6
  <2>30. -y <= x /\ x <= y
    BY <2>1, <2>29, Divided
  <2>31. Bound = y
    BY <1>3, <2>23, <2>27
  <2>. QED  BY <2>18, <2>30, <2>31
<1>. QED  BY <1>23, <1>24

\* The document states what is booked up to its roundings, for any lines,
\* charges and two rates (recalculate_totals, _add_monetary_summation).
THEOREM DocumentStatesTheBooked == TotalsSpec => []StatesTheBooked
<1>1. TaxedInv => StatesTheBooked
  <2> SUFFICES ASSUME TaxedInv, Generable, Plain, totals = Aggregate, Charged = On(Header),
                      Charged = {} \/ NetOf(Present) # 0
               PROVE  /\ TaxBasisTotal = totals.basis
                      /\ \A up : -Bound <= Drift(up) /\ Drift(up) <= Bound
    BY DEF StatesTheBooked, Bound, Drift
  <2>1. Booked
    BY TypeRows DEF TaxedInv, Booked
  <2>2. TaxBasisTotal = totals.basis
    BY AggregateIs DEF TaxBasisTotal
  <2>3. Cardinality(LineRates) <= 2 /\ RowsOK
    BY <2>1 DEF Plain, Booked
  <2>. QED  BY <2>1, <2>2, <2>3, FewRates, DriftOfNone, DriftOfOne, DriftOfTwo
<1>. QED  BY <1>1, TaxedHolds, PTL

-----------------------------------------------------------------------------
(* What the schema rejects.                                                *)

\* x has place k in the type and no other.
HasPlace(x, type, k) ==
    k \in DOMAIN type /\ type[k] = x /\ \A j \in DOMAIN type : type[j] = x => j = k

\* A part of a document rises in its type from place lo to place hi if it holds
\* elements of the type only, each in a later place than those before it.
Rising(e, type, lo, hi) ==
    /\ e \in Seq(ToSet(type))
    /\ \A i \in 1 .. Len(e) : \E k \in Nat : HasPlace(e[i], type, k) /\ lo <= k /\ k <= hi
    /\ \A i, j \in 1 .. Len(e) : i < j => Place(e[i], type) < Place(e[j], type)

LEMMA PlaceIs ==
    ASSUME NEW x, NEW type, NEW k, HasPlace(x, type, k)
    PROVE  Place(x, type) = k /\ x \in ToSet(type)
BY DEF Place, ToSet, HasPlace

LEMMA RisingInSequence ==
    ASSUME NEW type, NEW e, NEW lo, NEW hi, Rising(e, type, lo, hi)
    PROVE  InSequence(e, type)
<1>1. DOMAIN e = 1 .. Len(e) /\ \A i \in 1 .. Len(e) : e[i] \in ToSet(type)
  BY DEF Rising
<1>2. ToSet(e) \subseteq ToSet(type)
  BY <1>1 DEF ToSet
<1>. QED  BY <1>1, <1>2 DEF Rising, InSequence

LEMMA RisingPlaces ==
    ASSUME NEW type, NEW e, NEW lo, NEW hi, Rising(e, type, lo, hi), NEW i \in 1 .. Len(e)
    PROVE  /\ Place(e[i], type) \in Nat /\ lo <= Place(e[i], type) /\ Place(e[i], type) <= hi
           /\ HasPlace(e[i], type, Place(e[i], type))
BY PlaceIs DEF Rising

LEMMA RisingCat ==
    ASSUME NEW type, NEW lo \in Nat, NEW m \in Nat, NEW n \in Nat, NEW hi \in Nat,
           lo <= n, m < n, m <= hi,
           NEW a, NEW b, Rising(a, type, lo, m), Rising(b, type, n, hi)
    PROVE  Rising(a \o b, type, lo, hi)
<1>1. /\ a \in Seq(ToSet(type)) /\ b \in Seq(ToSet(type)) /\ a \o b \in Seq(ToSet(type))
      /\ Len(a) \in Nat /\ Len(b) \in Nat /\ Len(a \o b) = Len(a) + Len(b)
  BY DEF Rising
<1>2. \A i \in 1 .. Len(a \o b) :
         (a \o b)[i] = IF i <= Len(a) THEN a[i] ELSE b[i - Len(a)]
  BY <1>1
<1>3. ASSUME NEW i \in 1 .. Len(a \o b), i <= Len(a)
      PROVE  /\ (a \o b)[i] = a[i] /\ i \in 1 .. Len(a)
             /\ Place(a[i], type) \in Nat /\ lo <= Place(a[i], type) /\ Place(a[i], type) <= m
             /\ HasPlace(a[i], type, Place(a[i], type))
  BY <1>1, <1>2, <1>3, RisingPlaces
<1>4. ASSUME NEW i \in 1 .. Len(a \o b), ~(i <= Len(a))
      PROVE  /\ (a \o b)[i] = b[i - Len(a)] /\ i - Len(a) \in 1 .. Len(b)
             /\ Place(b[i - Len(a)], type) \in Nat
             /\ n <= Place(b[i - Len(a)], type) /\ Place(b[i - Len(a)], type) <= hi
             /\ HasPlace(b[i - Len(a)], type, Place(b[i - Len(a)], type))
  <2>1. (a \o b)[i] = b[i - Len(a)] /\ i - Len(a) \in 1 .. Len(b)
    BY <1>1, <1>2, <1>4
  <2>. QED  BY <2>1, RisingPlaces
<1>5. \A i \in 1 .. Len(a \o b) :
         \E k \in Nat : HasPlace((a \o b)[i], type, k) /\ lo <= k /\ k <= hi
  BY <1>3, <1>4
<1>6. ASSUME NEW i \in 1 .. Len(a \o b), NEW j \in 1 .. Len(a \o b), i < j
      PROVE  Place((a \o b)[i], type) < Place((a \o b)[j], type)
  <2>1. CASE j <= Len(a)
    BY <1>3, <1>6, <2>1 DEF Rising
  <2>2. CASE i <= Len(a) /\ ~(j <= Len(a))
    BY <1>3, <1>4, <2>2
  <2>3. CASE ~(i <= Len(a))
    <3>1. ~(j <= Len(a)) /\ i - Len(a) < j - Len(a)
      BY <1>1, <1>6, <2>3
    <3>. QED  BY <1>4, <2>3, <3>1 DEF Rising
  <2>. QED  BY <2>1, <2>2, <2>3
<1>. QED  BY <1>1, <1>5, <1>6 DEF Rising

LEMMA RisingEmpty == ASSUME NEW type, NEW lo, NEW hi PROVE Rising(<<>>, type, lo, hi)
BY DEF Rising

LEMMA RisingWhen ==
    ASSUME NEW type, NEW lo, NEW hi, NEW e, Rising(e, type, lo, hi), NEW c
    PROVE  Rising(When(c, e), type, lo, hi)
BY RisingEmpty DEF When

LEMMA Rising1 ==
    ASSUME NEW type, NEW x, NEW k \in Nat, HasPlace(x, type, k)
    PROVE  Rising(<<x>>, type, k, k)
<1>1. x \in ToSet(type)
  BY PlaceIs
<1>2. <<x>> \in Seq(ToSet(type)) /\ Len(<<x>>) = 1 /\ <<x>>[1] = x
  BY <1>1
<1>3. \A i \in 1 .. Len(<<x>>) : i = 1
  BY <1>2
<1>. QED  BY <1>2, <1>3 DEF Rising

LEMMA Rising2 ==
    ASSUME NEW type, NEW x1, NEW x2, NEW k1 \in Nat, NEW k2 \in Nat, k1 < k2,
           HasPlace(x1, type, k1), HasPlace(x2, type, k2)
    PROVE  Rising(<<x1, x2>>, type, k1, k2)
<1> DEFINE e == <<x1, x2>>
<1>1. /\ x1 \in ToSet(type) /\ Place(x1, type) = k1
      /\ x2 \in ToSet(type) /\ Place(x2, type) = k2
  BY PlaceIs
<1>2. /\ e \in Seq(ToSet(type)) /\ Len(e) = 2
      /\ e[1] = x1 /\ e[2] = x2
  BY <1>1
<1>. HIDE DEF e
<1>3. \A i \in 1 .. Len(e) : i = 1 \/ i = 2
  BY <1>2
<1>4. \A i, j \in 1 .. Len(e) : i < j => Place(e[i], type) < Place(e[j], type)
  BY <1>1, <1>2, <1>3
<1>5. \A i \in 1 .. Len(e) : \E k \in Nat : HasPlace(e[i], type, k) /\ k1 <= k /\ k <= k2
  BY <1>2, <1>3
<1>6. Rising(e, type, k1, k2)
  BY <1>2, <1>4, <1>5 DEF Rising
<1>. QED  BY <1>6 DEF e

LEMMA Rising3 ==
    ASSUME NEW type, NEW x1, NEW x2, NEW x3, NEW k1 \in Nat, NEW k2 \in Nat,
           NEW k3 \in Nat, k1 < k2, k2 < k3, HasPlace(x1, type, k1),
           HasPlace(x2, type, k2), HasPlace(x3, type, k3)
    PROVE  Rising(<<x1, x2, x3>>, type, k1, k3)
<1> DEFINE e == <<x1, x2, x3>>
<1>1. /\ x1 \in ToSet(type) /\ Place(x1, type) = k1
      /\ x2 \in ToSet(type) /\ Place(x2, type) = k2
      /\ x3 \in ToSet(type) /\ Place(x3, type) = k3
  BY PlaceIs
<1>2. /\ e \in Seq(ToSet(type)) /\ Len(e) = 3
      /\ e[1] = x1 /\ e[2] = x2 /\ e[3] = x3
  BY <1>1
<1>. HIDE DEF e
<1>3. \A i \in 1 .. Len(e) : i = 1 \/ i = 2 \/ i = 3
  BY <1>2
<1>4. \A i, j \in 1 .. Len(e) : i < j => Place(e[i], type) < Place(e[j], type)
  BY <1>1, <1>2, <1>3
<1>5. \A i \in 1 .. Len(e) : \E k \in Nat : HasPlace(e[i], type, k) /\ k1 <= k /\ k <= k3
  BY <1>2, <1>3
<1>6. Rising(e, type, k1, k3)
  BY <1>2, <1>4, <1>5 DEF Rising
<1>. QED  BY <1>6 DEF e

LEMMA Rising4 ==
    ASSUME NEW type, NEW x1, NEW x2, NEW x3, NEW x4, NEW k1 \in Nat, NEW k2 \in Nat,
           NEW k3 \in Nat, NEW k4 \in Nat, k1 < k2, k2 < k3, k3 < k4,
           HasPlace(x1, type, k1), HasPlace(x2, type, k2), HasPlace(x3, type, k3),
           HasPlace(x4, type, k4)
    PROVE  Rising(<<x1, x2, x3, x4>>, type, k1, k4)
<1> DEFINE e == <<x1, x2, x3, x4>>
<1>1. /\ x1 \in ToSet(type) /\ Place(x1, type) = k1
      /\ x2 \in ToSet(type) /\ Place(x2, type) = k2
      /\ x3 \in ToSet(type) /\ Place(x3, type) = k3
      /\ x4 \in ToSet(type) /\ Place(x4, type) = k4
  BY PlaceIs
<1>2. /\ e \in Seq(ToSet(type)) /\ Len(e) = 4
      /\ e[1] = x1 /\ e[2] = x2 /\ e[3] = x3 /\ e[4] = x4
  BY <1>1
<1>. HIDE DEF e
<1>3. \A i \in 1 .. Len(e) : i = 1 \/ i = 2 \/ i = 3 \/ i = 4
  BY <1>2
<1>4. \A i, j \in 1 .. Len(e) : i < j => Place(e[i], type) < Place(e[j], type)
  BY <1>1, <1>2, <1>3
<1>5. \A i \in 1 .. Len(e) : \E k \in Nat : HasPlace(e[i], type, k) /\ k1 <= k /\ k <= k4
  BY <1>2, <1>3
<1>6. Rising(e, type, k1, k4)
  BY <1>2, <1>4, <1>5 DEF Rising
<1>. QED  BY <1>6 DEF e

LEMMA Rising5 ==
    ASSUME NEW type, NEW x1, NEW x2, NEW x3, NEW x4, NEW x5, NEW k1 \in Nat,
           NEW k2 \in Nat, NEW k3 \in Nat, NEW k4 \in Nat, NEW k5 \in Nat,
           k1 < k2, k2 < k3, k3 < k4, k4 < k5, HasPlace(x1, type, k1),
           HasPlace(x2, type, k2), HasPlace(x3, type, k3), HasPlace(x4, type, k4),
           HasPlace(x5, type, k5)
    PROVE  Rising(<<x1, x2, x3, x4, x5>>, type, k1, k5)
<1> DEFINE e == <<x1, x2, x3, x4, x5>>
<1>1. /\ x1 \in ToSet(type) /\ Place(x1, type) = k1
      /\ x2 \in ToSet(type) /\ Place(x2, type) = k2
      /\ x3 \in ToSet(type) /\ Place(x3, type) = k3
      /\ x4 \in ToSet(type) /\ Place(x4, type) = k4
      /\ x5 \in ToSet(type) /\ Place(x5, type) = k5
  BY PlaceIs
<1>2. /\ e \in Seq(ToSet(type)) /\ Len(e) = 5
      /\ e[1] = x1 /\ e[2] = x2 /\ e[3] = x3 /\ e[4] = x4
      /\ e[5] = x5
  BY <1>1
<1>. HIDE DEF e
<1>3. \A i \in 1 .. Len(e) : i = 1 \/ i = 2 \/ i = 3 \/ i = 4 \/ i = 5
  BY <1>2
<1>4. \A i, j \in 1 .. Len(e) : i < j => Place(e[i], type) < Place(e[j], type)
  BY <1>1, <1>2, <1>3
<1>5. \A i \in 1 .. Len(e) : \E k \in Nat : HasPlace(e[i], type, k) /\ k1 <= k /\ k <= k5
  BY <1>2, <1>3
<1>6. Rising(e, type, k1, k5)
  BY <1>2, <1>4, <1>5 DEF Rising
<1>. QED  BY <1>6 DEF e

LEMMA Rising6 ==
    ASSUME NEW type, NEW x1, NEW x2, NEW x3, NEW x4, NEW x5, NEW x6, NEW k1 \in Nat,
           NEW k2 \in Nat, NEW k3 \in Nat, NEW k4 \in Nat, NEW k5 \in Nat,
           NEW k6 \in Nat, k1 < k2, k2 < k3, k3 < k4, k4 < k5, k5 < k6,
           HasPlace(x1, type, k1), HasPlace(x2, type, k2), HasPlace(x3, type, k3),
           HasPlace(x4, type, k4), HasPlace(x5, type, k5), HasPlace(x6, type, k6)
    PROVE  Rising(<<x1, x2, x3, x4, x5, x6>>, type, k1, k6)
<1> DEFINE e == <<x1, x2, x3, x4, x5, x6>>
<1>1. /\ x1 \in ToSet(type) /\ Place(x1, type) = k1
      /\ x2 \in ToSet(type) /\ Place(x2, type) = k2
      /\ x3 \in ToSet(type) /\ Place(x3, type) = k3
      /\ x4 \in ToSet(type) /\ Place(x4, type) = k4
      /\ x5 \in ToSet(type) /\ Place(x5, type) = k5
      /\ x6 \in ToSet(type) /\ Place(x6, type) = k6
  BY PlaceIs
<1>2. /\ e \in Seq(ToSet(type)) /\ Len(e) = 6
      /\ e[1] = x1 /\ e[2] = x2 /\ e[3] = x3 /\ e[4] = x4
      /\ e[5] = x5 /\ e[6] = x6
  BY <1>1
<1>. HIDE DEF e
<1>3. \A i \in 1 .. Len(e) : i = 1 \/ i = 2 \/ i = 3 \/ i = 4 \/ i = 5 \/ i = 6
  BY <1>2
<1>4. \A i, j \in 1 .. Len(e) : i < j => Place(e[i], type) < Place(e[j], type)
  BY <1>1, <1>2, <1>3
<1>5. \A i \in 1 .. Len(e) : \E k \in Nat : HasPlace(e[i], type, k) /\ k1 <= k /\ k <= k6
  BY <1>2, <1>3
<1>6. Rising(e, type, k1, k6)
  BY <1>2, <1>4, <1>5 DEF Rising
<1>. QED  BY <1>6 DEF e

LEMMA Rising7 ==
    ASSUME NEW type, NEW x1, NEW x2, NEW x3, NEW x4, NEW x5, NEW x6, NEW x7,
           NEW k1 \in Nat, NEW k2 \in Nat, NEW k3 \in Nat, NEW k4 \in Nat,
           NEW k5 \in Nat, NEW k6 \in Nat, NEW k7 \in Nat, k1 < k2, k2 < k3,
           k3 < k4, k4 < k5, k5 < k6, k6 < k7, HasPlace(x1, type, k1),
           HasPlace(x2, type, k2), HasPlace(x3, type, k3), HasPlace(x4, type, k4),
           HasPlace(x5, type, k5), HasPlace(x6, type, k6), HasPlace(x7, type, k7)
    PROVE  Rising(<<x1, x2, x3, x4, x5, x6, x7>>, type, k1, k7)
<1> DEFINE e == <<x1, x2, x3, x4, x5, x6, x7>>
<1>1. /\ x1 \in ToSet(type) /\ Place(x1, type) = k1
      /\ x2 \in ToSet(type) /\ Place(x2, type) = k2
      /\ x3 \in ToSet(type) /\ Place(x3, type) = k3
      /\ x4 \in ToSet(type) /\ Place(x4, type) = k4
      /\ x5 \in ToSet(type) /\ Place(x5, type) = k5
      /\ x6 \in ToSet(type) /\ Place(x6, type) = k6
      /\ x7 \in ToSet(type) /\ Place(x7, type) = k7
  BY PlaceIs
<1>2. /\ e \in Seq(ToSet(type)) /\ Len(e) = 7
      /\ e[1] = x1 /\ e[2] = x2 /\ e[3] = x3 /\ e[4] = x4
      /\ e[5] = x5 /\ e[6] = x6 /\ e[7] = x7
  BY <1>1
<1>. HIDE DEF e
<1>3. \A i \in 1 .. Len(e) : i = 1 \/ i = 2 \/ i = 3 \/ i = 4 \/ i = 5 \/ i = 6 \/ i = 7
  BY <1>2
<1>4. \A i, j \in 1 .. Len(e) : i < j => Place(e[i], type) < Place(e[j], type)
  BY <1>1, <1>2, <1>3
<1>5. \A i \in 1 .. Len(e) : \E k \in Nat : HasPlace(e[i], type, k) /\ k1 <= k /\ k <= k7
  BY <1>2, <1>3
<1>6. Rising(e, type, k1, k7)
  BY <1>2, <1>4, <1>5 DEF Rising
<1>. QED  BY <1>6 DEF e
LEMMA CrossIndustryInvoicePlaces ==
    /\ HasPlace("ExchangedDocumentContext", Sequence.CrossIndustryInvoice, 1)
    /\ HasPlace("ExchangedDocument", Sequence.CrossIndustryInvoice, 2)
    /\ HasPlace("SupplyChainTradeTransaction", Sequence.CrossIndustryInvoice, 3)
<1> DEFINE type == <<"ExchangedDocumentContext", "ExchangedDocument",
                     "SupplyChainTradeTransaction">>
<1>1. Sequence.CrossIndustryInvoice = type
  BY DEF Sequence
<1>2. /\ type \in Seq({"ExchangedDocumentContext", "ExchangedDocument",
                         "SupplyChainTradeTransaction"}) /\ Len(type) = 3
      /\ type[1] = "ExchangedDocumentContext" /\ type[2] = "ExchangedDocument"
      /\ type[3] = "SupplyChainTradeTransaction"
  OBVIOUS
<1>. HIDE DEF type
<1>3. DOMAIN type = 1 .. 3
  BY <1>2
<1>. QED  BY <1>1, <1>2, <1>3 DEF HasPlace

LEMMA ExchangedDocumentPlaces ==
    /\ HasPlace("ID", Sequence.ExchangedDocument, 1)
    /\ HasPlace("TypeCode", Sequence.ExchangedDocument, 2)
    /\ HasPlace("IssueDateTime", Sequence.ExchangedDocument, 3)
<1> DEFINE type == <<"ID", "TypeCode", "IssueDateTime">>
<1>1. Sequence.ExchangedDocument = type
  BY DEF Sequence
<1>2. /\ type \in Seq({"ID", "TypeCode", "IssueDateTime"}) /\ Len(type) = 3
      /\ type[1] = "ID" /\ type[2] = "TypeCode"
      /\ type[3] = "IssueDateTime"
  OBVIOUS
<1>. HIDE DEF type
<1>3. DOMAIN type = 1 .. 3
  BY <1>2
<1>. QED  BY <1>1, <1>2, <1>3 DEF HasPlace

LEMMA SupplyChainTradeTransactionPlaces ==
    /\ HasPlace("IncludedSupplyChainTradeLineItem", Sequence.SupplyChainTradeTransaction, 1)
    /\ HasPlace("ApplicableHeaderTradeAgreement", Sequence.SupplyChainTradeTransaction, 2)
    /\ HasPlace("ApplicableHeaderTradeDelivery", Sequence.SupplyChainTradeTransaction, 3)
    /\ HasPlace("ApplicableHeaderTradeSettlement", Sequence.SupplyChainTradeTransaction, 4)
<1> DEFINE type == <<"IncludedSupplyChainTradeLineItem",
                     "ApplicableHeaderTradeAgreement",
                     "ApplicableHeaderTradeDelivery",
                     "ApplicableHeaderTradeSettlement">>
<1>1. Sequence.SupplyChainTradeTransaction = type
  BY DEF Sequence
<1>2. /\ type \in Seq({"IncludedSupplyChainTradeLineItem",
                         "ApplicableHeaderTradeAgreement",
                         "ApplicableHeaderTradeDelivery",
                         "ApplicableHeaderTradeSettlement"}) /\ Len(type) = 4
      /\ type[1] = "IncludedSupplyChainTradeLineItem"
      /\ type[2] = "ApplicableHeaderTradeAgreement"
      /\ type[3] = "ApplicableHeaderTradeDelivery"
      /\ type[4] = "ApplicableHeaderTradeSettlement"
  OBVIOUS
<1>. HIDE DEF type
<1>3. DOMAIN type = 1 .. 4
  BY <1>2
<1>. QED  BY <1>1, <1>2, <1>3 DEF HasPlace

LEMMA SupplyChainTradeLineItemPlaces ==
    /\ HasPlace("AssociatedDocumentLineDocument", Sequence.SupplyChainTradeLineItem, 1)
    /\ HasPlace("SpecifiedTradeProduct", Sequence.SupplyChainTradeLineItem, 2)
    /\ HasPlace("SpecifiedLineTradeAgreement", Sequence.SupplyChainTradeLineItem, 3)
    /\ HasPlace("SpecifiedLineTradeDelivery", Sequence.SupplyChainTradeLineItem, 4)
    /\ HasPlace("SpecifiedLineTradeSettlement", Sequence.SupplyChainTradeLineItem, 5)
<1> DEFINE type == <<"AssociatedDocumentLineDocument", "SpecifiedTradeProduct",
                     "SpecifiedLineTradeAgreement", "SpecifiedLineTradeDelivery",
                     "SpecifiedLineTradeSettlement">>
<1>1. Sequence.SupplyChainTradeLineItem = type
  BY DEF Sequence
<1>2. /\ type \in Seq({"AssociatedDocumentLineDocument", "SpecifiedTradeProduct",
                         "SpecifiedLineTradeAgreement",
                         "SpecifiedLineTradeDelivery",
                         "SpecifiedLineTradeSettlement"}) /\ Len(type) = 5
      /\ type[1] = "AssociatedDocumentLineDocument" /\ type[2] = "SpecifiedTradeProduct"
      /\ type[3] = "SpecifiedLineTradeAgreement" /\ type[4] = "SpecifiedLineTradeDelivery"
      /\ type[5] = "SpecifiedLineTradeSettlement"
  OBVIOUS
<1>. HIDE DEF type
<1>3. DOMAIN type = 1 .. 5
  BY <1>2
<1>. QED  BY <1>1, <1>2, <1>3 DEF HasPlace

LEMMA HeaderTradeAgreementPlaces ==
    /\ HasPlace("SellerTradeParty", Sequence.HeaderTradeAgreement, 1)
    /\ HasPlace("BuyerTradeParty", Sequence.HeaderTradeAgreement, 2)
    /\ HasPlace("SellerTaxRepresentativeTradeParty", Sequence.HeaderTradeAgreement, 3)
    /\ HasPlace("SellerOrderReferencedDocument", Sequence.HeaderTradeAgreement, 4)
    /\ HasPlace("BuyerOrderReferencedDocument", Sequence.HeaderTradeAgreement, 5)
    /\ HasPlace("ContractReferencedDocument", Sequence.HeaderTradeAgreement, 6)
    /\ HasPlace("AdditionalReferencedDocument", Sequence.HeaderTradeAgreement, 7)
<1> DEFINE type == <<"SellerTradeParty", "BuyerTradeParty",
                     "SellerTaxRepresentativeTradeParty",
                     "SellerOrderReferencedDocument",
                     "BuyerOrderReferencedDocument", "ContractReferencedDocument",
                     "AdditionalReferencedDocument">>
<1>1. Sequence.HeaderTradeAgreement = type
  BY DEF Sequence
<1>2. /\ type \in Seq({"SellerTradeParty", "BuyerTradeParty",
                         "SellerTaxRepresentativeTradeParty",
                         "SellerOrderReferencedDocument",
                         "BuyerOrderReferencedDocument",
                         "ContractReferencedDocument",
                         "AdditionalReferencedDocument"}) /\ Len(type) = 7
      /\ type[1] = "SellerTradeParty" /\ type[2] = "BuyerTradeParty"
      /\ type[3] = "SellerTaxRepresentativeTradeParty"
      /\ type[4] = "SellerOrderReferencedDocument"
      /\ type[5] = "BuyerOrderReferencedDocument" /\ type[6] = "ContractReferencedDocument"
      /\ type[7] = "AdditionalReferencedDocument"
  OBVIOUS
<1>. HIDE DEF type
<1>3. DOMAIN type = 1 .. 7
  BY <1>2
<1>. QED  BY <1>1, <1>2, <1>3 DEF HasPlace

LEMMA TradePartyPlaces ==
    /\ HasPlace("Name", Sequence.TradeParty, 1)
    /\ HasPlace("SpecifiedLegalOrganization", Sequence.TradeParty, 2)
    /\ HasPlace("DefinedTradeContact", Sequence.TradeParty, 3)
    /\ HasPlace("PostalTradeAddress", Sequence.TradeParty, 4)
    /\ HasPlace("SpecifiedTaxRegistration", Sequence.TradeParty, 5)
<1> DEFINE type == <<"Name", "SpecifiedLegalOrganization", "DefinedTradeContact",
                     "PostalTradeAddress", "SpecifiedTaxRegistration">>
<1>1. Sequence.TradeParty = type
  BY DEF Sequence
<1>2. /\ type \in Seq({"Name", "SpecifiedLegalOrganization",
                         "DefinedTradeContact", "PostalTradeAddress",
                         "SpecifiedTaxRegistration"}) /\ Len(type) = 5
      /\ type[1] = "Name" /\ type[2] = "SpecifiedLegalOrganization"
      /\ type[3] = "DefinedTradeContact" /\ type[4] = "PostalTradeAddress"
      /\ type[5] = "SpecifiedTaxRegistration"
  OBVIOUS
<1>. HIDE DEF type
<1>3. DOMAIN type = 1 .. 5
  BY <1>2
<1>. QED  BY <1>1, <1>2, <1>3 DEF HasPlace

LEMMA HeaderTradeDeliveryPlaces ==
    /\ HasPlace("ShipToTradeParty", Sequence.HeaderTradeDelivery, 1)
    /\ HasPlace("ActualDeliverySupplyChainEvent", Sequence.HeaderTradeDelivery, 2)
<1> DEFINE type == <<"ShipToTradeParty", "ActualDeliverySupplyChainEvent">>
<1>1. Sequence.HeaderTradeDelivery = type
  BY DEF Sequence
<1>2. /\ type \in Seq({"ShipToTradeParty", "ActualDeliverySupplyChainEvent"}) /\ Len(type) = 2
      /\ type[1] = "ShipToTradeParty" /\ type[2] = "ActualDeliverySupplyChainEvent"
  OBVIOUS
<1>. HIDE DEF type
<1>3. DOMAIN type = 1 .. 2
  BY <1>2
<1>. QED  BY <1>1, <1>2, <1>3 DEF HasPlace

LEMMA TradeAllowanceChargePlaces ==
    /\ HasPlace("ChargeIndicator", Sequence.TradeAllowanceCharge, 1)
    /\ HasPlace("CalculationPercent", Sequence.TradeAllowanceCharge, 2)
    /\ HasPlace("BasisAmount", Sequence.TradeAllowanceCharge, 3)
    /\ HasPlace("ActualAmount", Sequence.TradeAllowanceCharge, 4)
    /\ HasPlace("ReasonCode", Sequence.TradeAllowanceCharge, 5)
    /\ HasPlace("Reason", Sequence.TradeAllowanceCharge, 6)
    /\ HasPlace("CategoryTradeTax", Sequence.TradeAllowanceCharge, 7)
<1> DEFINE type == <<"ChargeIndicator", "CalculationPercent", "BasisAmount",
                     "ActualAmount", "ReasonCode", "Reason", "CategoryTradeTax">>
<1>1. Sequence.TradeAllowanceCharge = type
  BY DEF Sequence
<1>2. /\ type \in Seq({"ChargeIndicator", "CalculationPercent", "BasisAmount",
                         "ActualAmount", "ReasonCode", "Reason",
                         "CategoryTradeTax"}) /\ Len(type) = 7
      /\ type[1] = "ChargeIndicator" /\ type[2] = "CalculationPercent"
      /\ type[3] = "BasisAmount" /\ type[4] = "ActualAmount"
      /\ type[5] = "ReasonCode" /\ type[6] = "Reason"
      /\ type[7] = "CategoryTradeTax"
  OBVIOUS
<1>. HIDE DEF type
<1>3. DOMAIN type = 1 .. 7
  BY <1>2
<1>. QED  BY <1>1, <1>2, <1>3 DEF HasPlace

LEMMA SummationPlaces ==
    /\ HasPlace("LineTotalAmount", Sequence.Summation, 1)
    /\ HasPlace("ChargeTotalAmount", Sequence.Summation, 2)
    /\ HasPlace("AllowanceTotalAmount", Sequence.Summation, 3)
    /\ HasPlace("TaxBasisTotalAmount", Sequence.Summation, 4)
    /\ HasPlace("TaxTotalAmount", Sequence.Summation, 5)
    /\ HasPlace("RoundingAmount", Sequence.Summation, 6)
    /\ HasPlace("GrandTotalAmount", Sequence.Summation, 7)
    /\ HasPlace("TotalPrepaidAmount", Sequence.Summation, 8)
    /\ HasPlace("DuePayableAmount", Sequence.Summation, 9)
<1> DEFINE type == <<"LineTotalAmount", "ChargeTotalAmount", "AllowanceTotalAmount",
                     "TaxBasisTotalAmount", "TaxTotalAmount", "RoundingAmount",
                     "GrandTotalAmount", "TotalPrepaidAmount", "DuePayableAmount">>
<1>1. Sequence.Summation = type
  BY DEF Sequence
<1>2. /\ type \in Seq({"LineTotalAmount", "ChargeTotalAmount",
                         "AllowanceTotalAmount", "TaxBasisTotalAmount",
                         "TaxTotalAmount", "RoundingAmount", "GrandTotalAmount",
                         "TotalPrepaidAmount", "DuePayableAmount"}) /\ Len(type) = 9
      /\ type[1] = "LineTotalAmount" /\ type[2] = "ChargeTotalAmount"
      /\ type[3] = "AllowanceTotalAmount" /\ type[4] = "TaxBasisTotalAmount"
      /\ type[5] = "TaxTotalAmount" /\ type[6] = "RoundingAmount"
      /\ type[7] = "GrandTotalAmount" /\ type[8] = "TotalPrepaidAmount"
      /\ type[9] = "DuePayableAmount"
  OBVIOUS
<1>. HIDE DEF type
<1>3. DOMAIN type = 1 .. 9
  BY <1>2
<1>. QED  BY <1>1, <1>2, <1>3 DEF HasPlace

LEMMA HeaderTradeSettlementPlaces ==
    /\ HasPlace("InvoiceCurrencyCode", Sequence.HeaderTradeSettlement, 1)
    /\ HasPlace("PayeeTradeParty", Sequence.HeaderTradeSettlement, 2)
    /\ HasPlace("SpecifiedTradeSettlementPaymentMeans", Sequence.HeaderTradeSettlement, 3)
    /\ HasPlace("ApplicableTradeTax", Sequence.HeaderTradeSettlement, 4)
    /\ HasPlace("BillingSpecifiedPeriod", Sequence.HeaderTradeSettlement, 5)
    /\ HasPlace("SpecifiedTradeAllowanceCharge", Sequence.HeaderTradeSettlement, 6)
    /\ HasPlace("SpecifiedTradePaymentTerms", Sequence.HeaderTradeSettlement, 7)
    /\ HasPlace("SpecifiedTradeSettlementHeaderMonetarySummation",
                Sequence.HeaderTradeSettlement, 8)
    /\ HasPlace("InvoiceReferencedDocument", Sequence.HeaderTradeSettlement, 9)
<1> DEFINE type == <<"InvoiceCurrencyCode", "PayeeTradeParty",
                     "SpecifiedTradeSettlementPaymentMeans", "ApplicableTradeTax",
                     "BillingSpecifiedPeriod", "SpecifiedTradeAllowanceCharge",
                     "SpecifiedTradePaymentTerms",
                     "SpecifiedTradeSettlementHeaderMonetarySummation",
                     "InvoiceReferencedDocument">>
<1>1. Sequence.HeaderTradeSettlement = type
  BY DEF Sequence
<1>2. /\ type \in Seq({"InvoiceCurrencyCode", "PayeeTradeParty",
                         "SpecifiedTradeSettlementPaymentMeans",
                         "ApplicableTradeTax", "BillingSpecifiedPeriod",
                         "SpecifiedTradeAllowanceCharge",
                         "SpecifiedTradePaymentTerms",
                         "SpecifiedTradeSettlementHeaderMonetarySummation",
                         "InvoiceReferencedDocument"}) /\ Len(type) = 9
      /\ type[1] = "InvoiceCurrencyCode" /\ type[2] = "PayeeTradeParty"
      /\ type[3] = "SpecifiedTradeSettlementPaymentMeans" /\ type[4] = "ApplicableTradeTax"
      /\ type[5] = "BillingSpecifiedPeriod" /\ type[6] = "SpecifiedTradeAllowanceCharge"
      /\ type[7] = "SpecifiedTradePaymentTerms"
      /\ type[8] = "SpecifiedTradeSettlementHeaderMonetarySummation"
      /\ type[9] = "InvoiceReferencedDocument"
  OBVIOUS
<1>. HIDE DEF type
<1>3. DOMAIN type = 1 .. 9
  BY <1>2
<1>. QED  BY <1>1, <1>2, <1>3 DEF HasPlace

LEMMA TradeProductPlaces ==
    /\ HasPlace("GlobalID", Sequence.TradeProduct, 1)
    /\ HasPlace("SellerAssignedID", Sequence.TradeProduct, 2)
    /\ HasPlace("Name", Sequence.TradeProduct, 3)
    /\ HasPlace("ApplicableProductCharacteristic", Sequence.TradeProduct, 4)
<1> DEFINE type == <<"GlobalID", "SellerAssignedID", "Name",
                     "ApplicableProductCharacteristic">>
<1>1. Sequence.TradeProduct = type
  BY DEF Sequence
<1>2. /\ type \in Seq({"GlobalID", "SellerAssignedID", "Name",
                         "ApplicableProductCharacteristic"}) /\ Len(type) = 4
      /\ type[1] = "GlobalID" /\ type[2] = "SellerAssignedID"
      /\ type[3] = "Name" /\ type[4] = "ApplicableProductCharacteristic"
  OBVIOUS
<1>. HIDE DEF type
<1>3. DOMAIN type = 1 .. 4
  BY <1>2
<1>. QED  BY <1>1, <1>2, <1>3 DEF HasPlace

LEMMA LineTradeAgreementPlaces ==
    /\ HasPlace("GrossPriceProductTradePrice", Sequence.LineTradeAgreement, 1)
    /\ HasPlace("NetPriceProductTradePrice", Sequence.LineTradeAgreement, 2)
<1> DEFINE type == <<"GrossPriceProductTradePrice", "NetPriceProductTradePrice">>
<1>1. Sequence.LineTradeAgreement = type
  BY DEF Sequence
<1>2. /\ type \in Seq({"GrossPriceProductTradePrice",
                         "NetPriceProductTradePrice"}) /\ Len(type) = 2
      /\ type[1] = "GrossPriceProductTradePrice" /\ type[2] = "NetPriceProductTradePrice"
  OBVIOUS
<1>. HIDE DEF type
<1>3. DOMAIN type = 1 .. 2
  BY <1>2
<1>. QED  BY <1>1, <1>2, <1>3 DEF HasPlace

LEMMA LineTradeDeliveryPlaces ==
    /\ HasPlace("BilledQuantity", Sequence.LineTradeDelivery, 1)
<1> DEFINE type == <<"BilledQuantity">>
<1>1. Sequence.LineTradeDelivery = type
  BY DEF Sequence
<1>2. /\ type \in Seq({"BilledQuantity"}) /\ Len(type) = 1
      /\ type[1] = "BilledQuantity"
  OBVIOUS
<1>. HIDE DEF type
<1>3. DOMAIN type = 1 .. 1
  BY <1>2
<1>. QED  BY <1>1, <1>2, <1>3 DEF HasPlace

LEMMA LineTradeSettlementPlaces ==
    /\ HasPlace("ApplicableTradeTax", Sequence.LineTradeSettlement, 1)
    /\ HasPlace("BillingSpecifiedPeriod", Sequence.LineTradeSettlement, 2)
    /\ HasPlace("SpecifiedTradeAllowanceCharge", Sequence.LineTradeSettlement, 3)
    /\ HasPlace("SpecifiedTradeSettlementLineMonetarySummation",
                Sequence.LineTradeSettlement, 4)
<1> DEFINE type == <<"ApplicableTradeTax", "BillingSpecifiedPeriod",
                     "SpecifiedTradeAllowanceCharge",
                     "SpecifiedTradeSettlementLineMonetarySummation">>
<1>1. Sequence.LineTradeSettlement = type
  BY DEF Sequence
<1>2. /\ type \in Seq({"ApplicableTradeTax", "BillingSpecifiedPeriod",
                         "SpecifiedTradeAllowanceCharge",
                         "SpecifiedTradeSettlementLineMonetarySummation"}) /\ Len(type) = 4
      /\ type[1] = "ApplicableTradeTax" /\ type[2] = "BillingSpecifiedPeriod"
      /\ type[3] = "SpecifiedTradeAllowanceCharge"
      /\ type[4] = "SpecifiedTradeSettlementLineMonetarySummation"
  OBVIOUS
<1>. HIDE DEF type
<1>3. DOMAIN type = 1 .. 4
  BY <1>2
<1>. QED  BY <1>1, <1>2, <1>3 DEF HasPlace

LEMMA TradeTaxPlaces ==
    /\ HasPlace("CalculatedAmount", TradeTaxType, 1)
    /\ HasPlace("TypeCode", TradeTaxType, 2)
    /\ HasPlace("ExemptionReason", TradeTaxType, 3)
    /\ HasPlace("BasisAmount", TradeTaxType, 4)
    /\ HasPlace("CategoryCode", TradeTaxType, 5)
    /\ HasPlace("ExemptionReasonCode", TradeTaxType, 6)
    /\ HasPlace("RateApplicablePercent", TradeTaxType, 7)
<1> DEFINE type == <<"CalculatedAmount", "TypeCode", "ExemptionReason",
                     "BasisAmount", "CategoryCode", "ExemptionReasonCode",
                     "RateApplicablePercent">>
<1>1. TradeTaxType = type
  BY DEF TradeTaxType
<1>2. /\ type \in Seq({"CalculatedAmount", "TypeCode", "ExemptionReason",
                         "BasisAmount", "CategoryCode", "ExemptionReasonCode",
                         "RateApplicablePercent"}) /\ Len(type) = 7
      /\ type[1] = "CalculatedAmount" /\ type[2] = "TypeCode"
      /\ type[3] = "ExemptionReason" /\ type[4] = "BasisAmount"
      /\ type[5] = "CategoryCode" /\ type[6] = "ExemptionReasonCode"
      /\ type[7] = "RateApplicablePercent"
  OBVIOUS
<1>. HIDE DEF type
<1>3. DOMAIN type = 1 .. 7
  BY <1>2
<1>. QED  BY <1>1, <1>2, <1>3 DEF HasPlace

LEMMA DocumentInSequence ==
    InSequence(Document, Sequence.CrossIndustryInvoice)
<1> DEFINE type == Sequence.CrossIndustryInvoice
           a == <<"ExchangedDocumentContext", "ExchangedDocument",
                  "SupplyChainTradeTransaction">>
<1>1. Rising(a, type, 1, 3)
  BY CrossIndustryInvoicePlaces, Rising3
<1>2. Document = a
  BY DEF Document
<1>. QED  BY <1>2, <1>1, RisingInSequence

LEMMA ExchangedDocumentInSequence ==
    InSequence(ExchangedDocument, Sequence.ExchangedDocument)
<1> DEFINE type == Sequence.ExchangedDocument
           a == <<"ID", "TypeCode", "IssueDateTime">>
<1>1. Rising(a, type, 1, 3)
  BY ExchangedDocumentPlaces, Rising3
<1>2. ExchangedDocument = a
  BY DEF ExchangedDocument
<1>. QED  BY <1>2, <1>1, RisingInSequence

LEMMA TransactionInSequence ==
    ASSUME NEW codes
    PROVE  InSequence(Transaction(codes), Sequence.SupplyChainTradeTransaction)
<1> DEFINE type == Sequence.SupplyChainTradeTransaction
           a == When(codes # {}, <<"IncludedSupplyChainTradeLineItem">>)
           b == <<"ApplicableHeaderTradeAgreement", "ApplicableHeaderTradeDelivery",
                  "ApplicableHeaderTradeSettlement">>
<1>1. Rising(a, type, 1, 1)
  BY SupplyChainTradeTransactionPlaces, Rising1, RisingWhen
<1>2. Rising(b, type, 2, 4)
  BY SupplyChainTradeTransactionPlaces, Rising3
<1>3. Transaction(codes) = a \o b
  BY DEF Transaction
<1>. HIDE DEF type, a, b
<1>4. Rising(a \o b, type, 1, 4)
  BY <1>1, <1>2, RisingCat
<1>. QED  BY <1>3, <1>4, RisingInSequence DEF type

LEMMA LineItemInSequence ==
    InSequence(LineItem, Sequence.SupplyChainTradeLineItem)
<1> DEFINE type == Sequence.SupplyChainTradeLineItem
           a == <<"AssociatedDocumentLineDocument", "SpecifiedTradeProduct",
                  "SpecifiedLineTradeAgreement", "SpecifiedLineTradeDelivery",
                  "SpecifiedLineTradeSettlement">>
<1>1. Rising(a, type, 1, 5)
  BY SupplyChainTradeLineItemPlaces, Rising5
<1>2. LineItem = a
  BY DEF LineItem
<1>. QED  BY <1>2, <1>1, RisingInSequence

LEMMA AgreementInSequence ==
    ASSUME NEW s
    PROVE  InSequence(Agreement(s), Sequence.HeaderTradeAgreement)
<1> DEFINE type == Sequence.HeaderTradeAgreement
           a == <<"SellerTradeParty", "BuyerTradeParty">>
           b == When("tax_representative" \in s, <<
                                                   "SellerTaxRepresentativeTradeParty">>)
           c == When("references" \in s, <<"SellerOrderReferencedDocument",
                                           "BuyerOrderReferencedDocument",
                                           "ContractReferencedDocument">>)
           d == When("attachments" \in s, <<"AdditionalReferencedDocument">>)
<1>1. Rising(a, type, 1, 2)
  BY HeaderTradeAgreementPlaces, Rising2
<1>2. Rising(b, type, 3, 3)
  BY HeaderTradeAgreementPlaces, Rising1, RisingWhen
<1>3. Rising(c, type, 4, 6)
  BY HeaderTradeAgreementPlaces, Rising3, RisingWhen
<1>4. Rising(d, type, 7, 7)
  BY HeaderTradeAgreementPlaces, Rising1, RisingWhen
<1>5. Agreement(s) = a \o b \o c \o d
  BY DEF Agreement
<1>. HIDE DEF type, a, b, c, d
<1>6. Rising(a \o b, type, 1, 3)
  BY <1>1, <1>2, RisingCat
<1>7. Rising(a \o b \o c, type, 1, 6)
  BY <1>6, <1>3, RisingCat
<1>8. Rising(a \o b \o c \o d, type, 1, 7)
  BY <1>7, <1>4, RisingCat
<1>. QED  BY <1>5, <1>8, RisingInSequence DEF type

LEMMA PartyInSequence ==
    ASSUME NEW s
    PROVE  InSequence(Party(s), Sequence.TradeParty)
<1> DEFINE type == Sequence.TradeParty
           a == <<"Name">>
           b == When("register" \in s, <<"SpecifiedLegalOrganization">>)
           c == When("contact" \in s, <<"DefinedTradeContact">>)
           d == <<"PostalTradeAddress", "SpecifiedTaxRegistration">>
<1>1. Rising(a, type, 1, 1)
  BY TradePartyPlaces, Rising1
<1>2. Rising(b, type, 2, 2)
  BY TradePartyPlaces, Rising1, RisingWhen
<1>3. Rising(c, type, 3, 3)
  BY TradePartyPlaces, Rising1, RisingWhen
<1>4. Rising(d, type, 4, 5)
  BY TradePartyPlaces, Rising2
<1>5. Party(s) = a \o b \o c \o d
  BY DEF Party
<1>. HIDE DEF type, a, b, c, d
<1>6. Rising(a \o b, type, 1, 2)
  BY <1>1, <1>2, RisingCat
<1>7. Rising(a \o b \o c, type, 1, 3)
  BY <1>6, <1>3, RisingCat
<1>8. Rising(a \o b \o c \o d, type, 1, 5)
  BY <1>7, <1>4, RisingCat
<1>. QED  BY <1>5, <1>8, RisingInSequence DEF type

LEMMA DeliveryInSequence ==
    ASSUME NEW s
    PROVE  InSequence(Delivery(s), Sequence.HeaderTradeDelivery)
<1> DEFINE type == Sequence.HeaderTradeDelivery
           a == When("delivery_address" \in s, <<"ShipToTradeParty">>)
           b == <<"ActualDeliverySupplyChainEvent">>
<1>1. Rising(a, type, 1, 1)
  BY HeaderTradeDeliveryPlaces, Rising1, RisingWhen
<1>2. Rising(b, type, 2, 2)
  BY HeaderTradeDeliveryPlaces, Rising1
<1>3. Delivery(s) = a \o b
  BY DEF Delivery
<1>. HIDE DEF type, a, b
<1>4. Rising(a \o b, type, 1, 2)
  BY <1>1, <1>2, RisingCat
<1>. QED  BY <1>3, <1>4, RisingInSequence DEF type

LEMMA HeaderChargeInSequence ==
    InSequence(HeaderCharge, Sequence.TradeAllowanceCharge)
<1> DEFINE type == Sequence.TradeAllowanceCharge
           a == <<"ChargeIndicator", "CalculationPercent", "BasisAmount",
                  "ActualAmount", "ReasonCode", "Reason", "CategoryTradeTax">>
<1>1. Rising(a, type, 1, 7)
  BY TradeAllowanceChargePlaces, Rising7
<1>2. HeaderCharge = a
  BY DEF HeaderCharge
<1>. QED  BY <1>2, <1>1, RisingInSequence

LEMMA LineProductInSequence ==
    ASSUME NEW s
    PROVE  InSequence(LineProduct(s), Sequence.TradeProduct)
<1> DEFINE type == Sequence.TradeProduct
           a == When("identifiers" \in s, <<"GlobalID", "SellerAssignedID">>)
           b == <<"Name">>
           c == When("attributes" \in s, <<"ApplicableProductCharacteristic">>)
<1>1. Rising(a, type, 1, 2)
  BY TradeProductPlaces, Rising2, RisingWhen
<1>2. Rising(b, type, 3, 3)
  BY TradeProductPlaces, Rising1
<1>3. Rising(c, type, 4, 4)
  BY TradeProductPlaces, Rising1, RisingWhen
<1>4. LineProduct(s) = a \o b \o c
  BY DEF LineProduct
<1>. HIDE DEF type, a, b, c
<1>5. Rising(a \o b, type, 1, 3)
  BY <1>1, <1>2, RisingCat
<1>6. Rising(a \o b \o c, type, 1, 4)
  BY <1>5, <1>3, RisingCat
<1>. QED  BY <1>4, <1>6, RisingInSequence DEF type

LEMMA LinePriceInSequence ==
    ASSUME NEW s
    PROVE  InSequence(LinePrice(s), Sequence.LineTradeAgreement)
<1> DEFINE type == Sequence.LineTradeAgreement
           a == When("gross_price" \in s, <<"GrossPriceProductTradePrice">>)
           b == <<"NetPriceProductTradePrice">>
<1>1. Rising(a, type, 1, 1)
  BY LineTradeAgreementPlaces, Rising1, RisingWhen
<1>2. Rising(b, type, 2, 2)
  BY LineTradeAgreementPlaces, Rising1
<1>3. LinePrice(s) = a \o b
  BY DEF LinePrice
<1>. HIDE DEF type, a, b
<1>4. Rising(a \o b, type, 1, 2)
  BY <1>1, <1>2, RisingCat
<1>. QED  BY <1>3, <1>4, RisingInSequence DEF type

LEMMA LineSettlementInSequence ==
    ASSUME NEW s
    PROVE  InSequence(LineSettlement(s), Sequence.LineTradeSettlement)
<1> DEFINE type == Sequence.LineTradeSettlement
           a == <<"ApplicableTradeTax">>
           b == When("discount" \in s, <<"SpecifiedTradeAllowanceCharge">>)
           c == <<"SpecifiedTradeSettlementLineMonetarySummation">>
<1>1. Rising(a, type, 1, 1)
  BY LineTradeSettlementPlaces, Rising1
<1>2. Rising(b, type, 3, 3)
  BY LineTradeSettlementPlaces, Rising1, RisingWhen
<1>3. Rising(c, type, 4, 4)
  BY LineTradeSettlementPlaces, Rising1
<1>4. LineSettlement(s) = a \o b \o c
  BY DEF LineSettlement
<1>. HIDE DEF type, a, b, c
<1>5. Rising(a \o b, type, 1, 3)
  BY <1>1, <1>2, RisingCat
<1>6. Rising(a \o b \o c, type, 1, 4)
  BY <1>5, <1>3, RisingCat
<1>. QED  BY <1>4, <1>6, RisingInSequence DEF type

LEMMA SettlementAccepted ==
    ASSUME NEW s, "credit_note" \notin s
    PROVE  InSequence(Settlement(s), Sequence.HeaderTradeSettlement)
<1> DEFINE type == Sequence.HeaderTradeSettlement
           a == <<"InvoiceCurrencyCode">>
           b == When("payee" \in s, <<"PayeeTradeParty">>)
           c == When("credit_note" \in s, <<"InvoiceReferencedDocument">>)
           d == When("bank" \in s, <<"SpecifiedTradeSettlementPaymentMeans">>)
           f == <<"ApplicableTradeTax">>
           g == When("billing_period" \in s, <<"BillingSpecifiedPeriod">>)
           h == When("charges" \in s, <<"SpecifiedTradeAllowanceCharge">>)
           l == <<"SpecifiedTradePaymentTerms",
                  "SpecifiedTradeSettlementHeaderMonetarySummation">>
<1>1. Rising(a, type, 1, 1)
  BY HeaderTradeSettlementPlaces, Rising1
<1>2. Rising(b, type, 2, 2)
  BY HeaderTradeSettlementPlaces, Rising1, RisingWhen
<1>3. Rising(c, type, 3, 2)
  BY RisingEmpty DEF When
<1>4. Rising(d, type, 3, 3)
  BY HeaderTradeSettlementPlaces, Rising1, RisingWhen
<1>5. Rising(f, type, 4, 4)
  BY HeaderTradeSettlementPlaces, Rising1
<1>6. Rising(g, type, 5, 5)
  BY HeaderTradeSettlementPlaces, Rising1, RisingWhen
<1>7. Rising(h, type, 6, 6)
  BY HeaderTradeSettlementPlaces, Rising1, RisingWhen
<1>8. Rising(l, type, 7, 8)
  BY HeaderTradeSettlementPlaces, Rising2
<1>9. Settlement(s) = a \o b \o c \o d \o f \o g \o h \o l
  BY DEF Settlement
<1>. HIDE DEF type, a, b, c, d, f, g, h, l
<1>10. Rising(a \o b, type, 1, 2)
  BY <1>1, <1>2, RisingCat
<1>11. Rising(a \o b \o c, type, 1, 2)
  BY <1>10, <1>3, RisingCat
<1>12. Rising(a \o b \o c \o d, type, 1, 3)
  BY <1>11, <1>4, RisingCat
<1>13. Rising(a \o b \o c \o d \o f, type, 1, 4)
  BY <1>12, <1>5, RisingCat
<1>14. Rising(a \o b \o c \o d \o f \o g, type, 1, 5)
  BY <1>13, <1>6, RisingCat
<1>15. Rising(a \o b \o c \o d \o f \o g \o h, type, 1, 6)
  BY <1>14, <1>7, RisingCat
<1>16. Rising(a \o b \o c \o d \o f \o g \o h \o l, type, 1, 8)
  BY <1>15, <1>8, RisingCat
<1>. QED  BY <1>9, <1>16, RisingInSequence DEF type

LEMMA SummationAccepted ==
    ASSUME NEW s, "rounding" \notin s
    PROVE  InSequence(Summation(s), Sequence.Summation)
<1> DEFINE type == Sequence.Summation
           a == <<"LineTotalAmount", "ChargeTotalAmount", "AllowanceTotalAmount",
                  "TaxBasisTotalAmount", "TaxTotalAmount", "GrandTotalAmount">>
           b == When("prepaid" \in s, <<"TotalPrepaidAmount">>)
           c == When("rounding" \in s, <<"RoundingAmount">>)
           d == <<"DuePayableAmount">>
<1>1. Rising(a, type, 1, 7)
  BY SummationPlaces, Rising6
<1>2. Rising(b, type, 8, 8)
  BY SummationPlaces, Rising1, RisingWhen
<1>3. Rising(c, type, 9, 8)
  BY RisingEmpty DEF When
<1>4. Rising(d, type, 9, 9)
  BY SummationPlaces, Rising1
<1>5. Summation(s) = a \o b \o c \o d
  BY DEF Summation
<1>. HIDE DEF type, a, b, c, d
<1>6. Rising(a \o b, type, 1, 8)
  BY <1>1, <1>2, RisingCat
<1>7. Rising(a \o b \o c, type, 1, 8)
  BY <1>6, <1>3, RisingCat
<1>8. Rising(a \o b \o c \o d, type, 1, 9)
  BY <1>7, <1>4, RisingCat
<1>. QED  BY <1>5, <1>8, RisingInSequence DEF type

LEMMA LineDeliveryAccepted ==
    ASSUME NEW s, "line_period" \notin s
    PROVE  InSequence(LineDelivery(s), Sequence.LineTradeDelivery)
<1> DEFINE type == Sequence.LineTradeDelivery
           a == <<"BilledQuantity">>
           b == When("line_period" \in s, <<"BillingSpecifiedPeriod">>)
<1>1. Rising(a, type, 1, 1)
  BY LineTradeDeliveryPlaces, Rising1
<1>2. Rising(b, type, 2, 1)
  BY RisingEmpty DEF When
<1>3. LineDelivery(s) = a \o b
  BY DEF LineDelivery
<1>. HIDE DEF type, a, b
<1>4. Rising(a \o b, type, 1, 1)
  BY <1>1, <1>2, RisingCat
<1>. QED  BY <1>3, <1>4, RisingInSequence DEF type

LEMMA HeaderTaxAccepted ==
    ASSUME NEW k, NEW s, ~("exemption_code" \in s /\ Exempt(k))
    PROVE  InSequence(HeaderTax(k, s), TradeTaxType)
<1> DEFINE type == TradeTaxType
           a == <<"CalculatedAmount", "TypeCode">>
           b == Reason(k)
           c == Code(k, s)
           d == <<"BasisAmount", "CategoryCode", "RateApplicablePercent">>
<1>1. Rising(a, type, 1, 2)
  BY TradeTaxPlaces, Rising2
<1>2. Rising(b, type, 3, 3)
  BY TradeTaxPlaces, Rising1, RisingWhen DEF Reason
<1>3. Rising(c, type, 4, 3)
  BY RisingEmpty DEF When, Code
<1>4. Rising(d, type, 4, 7)
  BY TradeTaxPlaces, Rising3
<1>5. HeaderTax(k, s) = a \o b \o c \o d
  BY DEF HeaderTax
<1>. HIDE DEF type, a, b, c, d
<1>6. Rising(a \o b, type, 1, 3)
  BY <1>1, <1>2, RisingCat
<1>7. Rising(a \o b \o c, type, 1, 3)
  BY <1>6, <1>3, RisingCat
<1>8. Rising(a \o b \o c \o d, type, 1, 7)
  BY <1>7, <1>4, RisingCat
<1>. QED  BY <1>5, <1>8, RisingInSequence DEF type

LEMMA LineTaxAccepted ==
    ASSUME NEW k, NEW s, k \notin {"AE", "G"}
    PROVE  InSequence(LineTax(k, s), TradeTaxType)
<1> DEFINE type == TradeTaxType
           a == <<"TypeCode", "CategoryCode">>
           b == Reason(k)
           c == Code(k, s)
           d == <<"RateApplicablePercent">>
<1>1. Rising(a, type, 2, 5)
  BY TradeTaxPlaces, Rising2
<1>2. Rising(b, type, 6, 5)
  BY RisingEmpty DEF When, Reason
<1>3. Rising(c, type, 6, 6)
  BY TradeTaxPlaces, Rising1, RisingWhen DEF Code
<1>4. Rising(d, type, 7, 7)
  BY TradeTaxPlaces, Rising1
<1>5. LineTax(k, s) = a \o b \o c \o d
  BY DEF LineTax
<1>. HIDE DEF type, a, b, c, d
<1>6. Rising(a \o b, type, 2, 5)
  BY <1>1, <1>2, RisingCat
<1>7. Rising(a \o b \o c, type, 2, 6)
  BY <1>6, <1>3, RisingCat
<1>8. Rising(a \o b \o c \o d, type, 2, 7)
  BY <1>7, <1>4, RisingCat
<1>. QED  BY <1>5, <1>8, RisingInSequence DEF type

\* x stands before y in the sequence e.
Before(x, y, e) == \E i, j \in DOMAIN e : i < j /\ e[i] = x /\ e[j] = y

LEMMA InCat ==
    ASSUME NEW S, NEW a \in Seq(S), NEW b \in Seq(S)
    PROVE  /\ a \o b \in Seq(S)
           /\ ToSet(a) \subseteq ToSet(a \o b) /\ ToSet(b) \subseteq ToSet(a \o b)
<1>1. /\ a \o b \in Seq(S) /\ Len(a) \in Nat /\ Len(b) \in Nat
      /\ DOMAIN a = 1 .. Len(a) /\ DOMAIN b = 1 .. Len(b)
      /\ DOMAIN (a \o b) = 1 .. (Len(a) + Len(b))
  OBVIOUS
<1>2. \A i \in DOMAIN a : i \in DOMAIN (a \o b) /\ (a \o b)[i] = a[i]
  BY <1>1
<1>3. \A j \in DOMAIN b : Len(a) + j \in DOMAIN (a \o b) /\ (a \o b)[Len(a) + j] = b[j]
  BY <1>1
<1>. QED  BY <1>1, <1>2, <1>3 DEF ToSet

LEMMA BeforeCat ==
    ASSUME NEW S, NEW a \in Seq(S), NEW b \in Seq(S), NEW x \in ToSet(a), NEW y \in ToSet(b)
    PROVE  Before(x, y, a \o b)
<1>1. /\ Len(a) \in Nat /\ Len(b) \in Nat
      /\ DOMAIN a = 1 .. Len(a) /\ DOMAIN b = 1 .. Len(b)
      /\ DOMAIN (a \o b) = 1 .. (Len(a) + Len(b))
  OBVIOUS
<1>2. PICK i \in DOMAIN a : a[i] = x
  BY DEF ToSet
<1>3. PICK j \in DOMAIN b : b[j] = y
  BY DEF ToSet
<1>4. /\ i \in DOMAIN (a \o b) /\ (a \o b)[i] = x
      /\ Len(a) + j \in DOMAIN (a \o b) /\ (a \o b)[Len(a) + j] = y /\ i < Len(a) + j
  BY <1>1, <1>2, <1>3
<1>. QED  BY <1>4 DEF Before

LEMMA BeforeMore ==
    ASSUME NEW S, NEW a \in Seq(S), NEW b \in Seq(S), NEW x, NEW y, Before(x, y, a)
    PROVE  Before(x, y, a \o b)
<1>1. /\ DOMAIN a = 1 .. Len(a) /\ Len(a) \in Nat /\ Len(b) \in Nat
      /\ DOMAIN (a \o b) = 1 .. (Len(a) + Len(b))
  OBVIOUS
<1>2. \A i \in DOMAIN a : i \in DOMAIN (a \o b) /\ (a \o b)[i] = a[i]
  BY <1>1
<1>. QED  BY <1>2 DEF Before

LEMMA OutOfOrder ==
    ASSUME NEW type, NEW e, NEW x, NEW y, NEW k \in Nat, NEW n \in Nat,
           Before(x, y, e), HasPlace(x, type, k), HasPlace(y, type, n), n <= k
    PROVE  ~InSequence(e, type)
<1>1. Place(x, type) = k /\ Place(y, type) = n
  BY PlaceIs
<1>2. ~(Place(x, type) < Place(y, type))
  BY <1>1
<1>. QED  BY <1>2 DEF Before, InSequence

LEMMA WhenIn == ASSUME NEW S, NEW e \in Seq(S), NEW c PROVE When(c, e) \in Seq(S)
BY DEF When

LEMMA SettlementRejected ==
    ASSUME NEW s, "credit_note" \in s
    PROVE  ~InSequence(Settlement(s), Sequence.HeaderTradeSettlement)
<1> DEFINE S == {"InvoiceCurrencyCode", "PayeeTradeParty", "InvoiceReferencedDocument",
                 "SpecifiedTradeSettlementPaymentMeans", "ApplicableTradeTax",
                 "BillingSpecifiedPeriod", "SpecifiedTradeAllowanceCharge",
                 "SpecifiedTradePaymentTerms",
                 "SpecifiedTradeSettlementHeaderMonetarySummation"}
           a == <<"InvoiceCurrencyCode">>
           b == When("payee" \in s, <<"PayeeTradeParty">>)
           c == When("credit_note" \in s, <<"InvoiceReferencedDocument">>)
           d == When("bank" \in s, <<"SpecifiedTradeSettlementPaymentMeans">>)
           f == <<"ApplicableTradeTax">>
           g == When("billing_period" \in s, <<"BillingSpecifiedPeriod">>)
           h == When("charges" \in s, <<"SpecifiedTradeAllowanceCharge">>)
           l == <<"SpecifiedTradePaymentTerms",
                  "SpecifiedTradeSettlementHeaderMonetarySummation">>
<1>1. a \in Seq(S) /\ f \in Seq(S) /\ l \in Seq(S)
  OBVIOUS
<1>2. b \in Seq(S) /\ c \in Seq(S) /\ d \in Seq(S) /\ g \in Seq(S) /\ h \in Seq(S)
  BY DEF When
<1>3. "InvoiceReferencedDocument" \in ToSet(c)
  BY DEF When, ToSet
<1>4. "SpecifiedTradePaymentTerms" \in ToSet(l)
  <2>1. 1 \in DOMAIN l /\ l[1] = "SpecifiedTradePaymentTerms"
    OBVIOUS
  <2>. QED  BY <2>1 DEF ToSet
<1>. HIDE DEF S, a, b, c, d, f, g, h, l
<1>5. a \o b \in Seq(S) /\ a \o b \o c \in Seq(S) /\ a \o b \o c \o d \in Seq(S)
  BY <1>1, <1>2
<1>6. a \o b \o c \o d \o f \in Seq(S) /\ a \o b \o c \o d \o f \o g \in Seq(S)
  BY <1>1, <1>2, <1>5
<1>7. "InvoiceReferencedDocument" \in ToSet(a \o b \o c \o d)
  BY <1>2, <1>3, <1>5, InCat
<1>8. "InvoiceReferencedDocument" \in ToSet(a \o b \o c \o d \o f \o g)
  BY <1>1, <1>2, <1>5, <1>6, <1>7, InCat
<1>9. /\ a \o b \o c \o d \o f \o g \o h \in Seq(S)
      /\ "InvoiceReferencedDocument" \in ToSet(a \o b \o c \o d \o f \o g \o h)
  BY <1>2, <1>6, <1>8, InCat
<1>10. Before("InvoiceReferencedDocument", "SpecifiedTradePaymentTerms",
              a \o b \o c \o d \o f \o g \o h \o l)
  BY <1>1, <1>4, <1>9, BeforeCat
<1>11. Settlement(s) = a \o b \o c \o d \o f \o g \o h \o l
  BY DEF Settlement, a, b, c, d, f, g, h, l
<1>. QED  BY <1>10, <1>11, HeaderTradeSettlementPlaces, OutOfOrder

LEMMA SummationRejected ==
    ASSUME NEW s, "rounding" \in s
    PROVE  ~InSequence(Summation(s), Sequence.Summation)
<1> DEFINE S == {"LineTotalAmount", "ChargeTotalAmount", "AllowanceTotalAmount",
                 "TaxBasisTotalAmount", "TaxTotalAmount", "GrandTotalAmount",
                 "TotalPrepaidAmount", "RoundingAmount", "DuePayableAmount"}
           a == <<"LineTotalAmount", "ChargeTotalAmount", "AllowanceTotalAmount",
                  "TaxBasisTotalAmount", "TaxTotalAmount", "GrandTotalAmount">>
           b == When("prepaid" \in s, <<"TotalPrepaidAmount">>)
           c == When("rounding" \in s, <<"RoundingAmount">>)
           d == <<"DuePayableAmount">>
<1>1. a \in Seq(S) /\ b \in Seq(S) /\ c \in Seq(S) /\ d \in Seq(S)
  <2>1. a \in Seq(S)
    OBVIOUS
  <2>2. b \in Seq(S)
    <3>1. <<"TotalPrepaidAmount">> \in Seq(S)
      OBVIOUS
    <3>. HIDE DEF S
    <3>. QED  BY <3>1, WhenIn
  <2>3. c \in Seq(S)
    <3>1. <<"RoundingAmount">> \in Seq(S)
      OBVIOUS
    <3>. HIDE DEF S
    <3>. QED  BY <3>1, WhenIn
  <2>4. d \in Seq(S)
    OBVIOUS
  <2>. QED  BY <2>1, <2>2, <2>3, <2>4
<1>2. "GrandTotalAmount" \in ToSet(a)
  <2>1. 6 \in DOMAIN a /\ a[6] = "GrandTotalAmount"
    OBVIOUS
  <2>. QED  BY <2>1 DEF ToSet
<1>3. "RoundingAmount" \in ToSet(c)
  BY DEF When, ToSet
<1>4. Summation(s) = a \o b \o c \o d
  BY DEF Summation
<1>. HIDE DEF S, a, b, c, d
<1>5. a \o b \in Seq(S) /\ a \o b \o c \in Seq(S)
  BY <1>1
<1>6. "GrandTotalAmount" \in ToSet(a \o b)
  BY <1>1, <1>2, InCat
<1>7. Before("GrandTotalAmount", "RoundingAmount", a \o b \o c)
  BY <1>1, <1>3, <1>5, <1>6, BeforeCat
<1>8. Before("GrandTotalAmount", "RoundingAmount", a \o b \o c \o d)
  BY <1>1, <1>5, <1>7, BeforeMore
<1>. QED  BY <1>4, <1>8, SummationPlaces, OutOfOrder

LEMMA LineDeliveryRejected ==
    ASSUME NEW s, "line_period" \in s
    PROVE  ~InSequence(LineDelivery(s), Sequence.LineTradeDelivery)
<1> DEFINE S == {"BilledQuantity", "BillingSpecifiedPeriod"}
           a == <<"BilledQuantity">>
           b == <<"BillingSpecifiedPeriod">>
<1>1. a \in Seq(S) /\ b \in Seq(S) /\ "BillingSpecifiedPeriod" \in ToSet(b)
  BY DEF ToSet
<1>2. "BillingSpecifiedPeriod" \in ToSet(LineDelivery(s))
  <2>1. LineDelivery(s) = a \o b
    BY DEF LineDelivery, When
  <2>. HIDE DEF S, a, b
  <2>. QED  BY <1>1, <2>1, InCat
<1>3. Sequence.LineTradeDelivery = <<"BilledQuantity">>
  BY DEF Sequence
<1>4. "BillingSpecifiedPeriod" \notin ToSet(Sequence.LineTradeDelivery)
  BY <1>3 DEF ToSet
<1>. QED  BY <1>2, <1>4 DEF InSequence

LEMMA HeaderTaxRejected ==
    ASSUME NEW k, NEW s, "exemption_code" \in s, Exempt(k)
    PROVE  ~InSequence(HeaderTax(k, s), TradeTaxType)
<1> DEFINE S == {"CalculatedAmount", "TypeCode", "ExemptionReason", "ExemptionReasonCode",
                 "BasisAmount", "CategoryCode", "RateApplicablePercent"}
           a == <<"CalculatedAmount", "TypeCode">>
           b == Reason(k)
           c == Code(k, s)
           d == <<"BasisAmount", "CategoryCode", "RateApplicablePercent">>
<1>1. a \in Seq(S) /\ b \in Seq(S) /\ c \in Seq(S) /\ d \in Seq(S)
  <2>1. a \in Seq(S)
    OBVIOUS
  <2>2. b \in Seq(S)
    <3>1. <<"ExemptionReason">> \in Seq(S)
      OBVIOUS
    <3>. HIDE DEF S
    <3>. QED  BY <3>1, WhenIn DEF Reason
  <2>3. c \in Seq(S)
    <3>1. <<"ExemptionReasonCode">> \in Seq(S)
      OBVIOUS
    <3>. HIDE DEF S
    <3>. QED  BY <3>1, WhenIn DEF Code
  <2>4. d \in Seq(S)
    OBVIOUS
  <2>. QED  BY <2>1, <2>2, <2>3, <2>4
<1>2. "ExemptionReasonCode" \in ToSet(c)
  BY DEF Code, When, ToSet
<1>3. "BasisAmount" \in ToSet(d)
  <2>1. 1 \in DOMAIN d /\ d[1] = "BasisAmount"
    OBVIOUS
  <2>. QED  BY <2>1 DEF ToSet
<1>4. HeaderTax(k, s) = a \o b \o c \o d
  BY DEF HeaderTax
<1>. HIDE DEF S, a, b, c, d
<1>5. a \o b \in Seq(S) /\ a \o b \o c \in Seq(S)
  BY <1>1
<1>6. "ExemptionReasonCode" \in ToSet(a \o b \o c)
  BY <1>1, <1>2, <1>5, InCat
<1>7. Before("ExemptionReasonCode", "BasisAmount", a \o b \o c \o d)
  BY <1>1, <1>3, <1>5, <1>6, BeforeCat
<1>. QED  BY <1>4, <1>7, TradeTaxPlaces, OutOfOrder

LEMMA LineTaxRejected ==
    ASSUME NEW k, NEW s, k \in {"AE", "G"}
    PROVE  ~InSequence(LineTax(k, s), TradeTaxType)
<1> DEFINE S == {"TypeCode", "CategoryCode", "ExemptionReason", "ExemptionReasonCode",
                 "RateApplicablePercent"}
           a == <<"TypeCode", "CategoryCode">>
           b == Reason(k)
           c == Code(k, s)
           d == <<"RateApplicablePercent">>
<1>1. a \in Seq(S) /\ b \in Seq(S) /\ c \in Seq(S) /\ d \in Seq(S)
  <2>1. a \in Seq(S)
    OBVIOUS
  <2>2. b \in Seq(S)
    <3>1. <<"ExemptionReason">> \in Seq(S)
      OBVIOUS
    <3>. HIDE DEF S
    <3>. QED  BY <3>1, WhenIn DEF Reason
  <2>3. c \in Seq(S)
    <3>1. <<"ExemptionReasonCode">> \in Seq(S)
      OBVIOUS
    <3>. HIDE DEF S
    <3>. QED  BY <3>1, WhenIn DEF Code
  <2>4. d \in Seq(S)
    OBVIOUS
  <2>. QED  BY <2>1, <2>2, <2>3, <2>4
<1>2. "CategoryCode" \in ToSet(a)
  <2>1. 2 \in DOMAIN a /\ a[2] = "CategoryCode"
    OBVIOUS
  <2>. QED  BY <2>1 DEF ToSet
<1>3. "ExemptionReason" \in ToSet(b)
  BY DEF Reason, When, ToSet
<1>4. LineTax(k, s) = a \o b \o c \o d
  BY DEF LineTax
<1>. HIDE DEF S, a, b, c, d
<1>5. a \o b \in Seq(S) /\ a \o b \o c \in Seq(S)
  BY <1>1
<1>6. Before("CategoryCode", "ExemptionReason", a \o b)
  BY <1>1, <1>2, <1>3, BeforeCat
<1>7. Before("CategoryCode", "ExemptionReason", a \o b \o c)
  BY <1>1, <1>5, <1>6, BeforeMore
<1>8. Before("CategoryCode", "ExemptionReason", a \o b \o c \o d)
  BY <1>1, <1>5, <1>7, BeforeMore
<1>. QED  BY <1>4, <1>8, TradeTaxPlaces, OutOfOrder

\* The types a document is rejected for: what RejectsExactly states of it.
Rejections(codes, s) ==
    Only("credit_note" \in s, {"HeaderTradeSettlement"})
    \cup Only("rounding" \in s, {"Summation"})
    \cup Only("line_period" \in s, {"LineTradeDelivery"})
    \cup Only(codes \cap {"AE", "G"} # {}, {"LineTax"})
    \cup Only("exemption_code" \in s /\ \E k \in codes : Exempt(k), {"HeaderTax"})

RejectsType(codes, s, t) == \E e \in Instances(codes, s)[t] : ~InSequence(e, Sequence[t])

LEMMA WhatIsRejected ==
    ASSUME NEW codes, NEW s
    PROVE  {t \in DOMAIN Sequence : RejectsType(codes, s, t)} = Rejections(codes, s)
<1>1. DOMAIN Sequence =
        {"CrossIndustryInvoice", "ExchangedDocument", "SupplyChainTradeTransaction",
         "SupplyChainTradeLineItem", "HeaderTradeAgreement", "TradeParty",
         "HeaderTradeDelivery", "TradeAllowanceCharge", "Summation",
         "HeaderTradeSettlement", "TradeProduct", "LineTradeAgreement",
         "LineTradeDelivery", "LineTradeSettlement", "HeaderTax", "LineTax"}
  BY DEF Sequence
<1>2. /\ ~RejectsType(codes, s, "CrossIndustryInvoice")
      /\ ~RejectsType(codes, s, "ExchangedDocument")
      /\ ~RejectsType(codes, s, "SupplyChainTradeTransaction")
      /\ ~RejectsType(codes, s, "SupplyChainTradeLineItem")
  BY DocumentInSequence, ExchangedDocumentInSequence, TransactionInSequence,
     LineItemInSequence DEF RejectsType, Instances
<1>3. /\ ~RejectsType(codes, s, "HeaderTradeAgreement")
      /\ ~RejectsType(codes, s, "TradeParty")
      /\ ~RejectsType(codes, s, "HeaderTradeDelivery")
      /\ ~RejectsType(codes, s, "TradeAllowanceCharge")
  BY AgreementInSequence, PartyInSequence, DeliveryInSequence, HeaderChargeInSequence
     DEF RejectsType, Instances
<1>4. /\ ~RejectsType(codes, s, "TradeProduct")
      /\ ~RejectsType(codes, s, "LineTradeAgreement")
      /\ ~RejectsType(codes, s, "LineTradeSettlement")
  BY LineProductInSequence, LinePriceInSequence, LineSettlementInSequence
     DEF RejectsType, Instances
<1>5. RejectsType(codes, s, "HeaderTradeSettlement") <=> "credit_note" \in s
  BY SettlementAccepted, SettlementRejected DEF RejectsType, Instances
<1>6. RejectsType(codes, s, "Summation") <=> "rounding" \in s
  BY SummationAccepted, SummationRejected DEF RejectsType, Instances
<1>7. RejectsType(codes, s, "LineTradeDelivery") <=> "line_period" \in s
  BY LineDeliveryAccepted, LineDeliveryRejected DEF RejectsType, Instances
<1>8. Sequence["HeaderTax"] = TradeTaxType /\ Sequence["LineTax"] = TradeTaxType
  BY DEF Sequence
<1>9. RejectsType(codes, s, "LineTax") <=> codes \cap {"AE", "G"} # {}
  <2>1. Instances(codes, s)["LineTax"] = {LineTax(k, s) : k \in codes}
    BY DEF Instances
  <2>. QED  BY <1>8, <2>1, LineTaxAccepted, LineTaxRejected DEF RejectsType
<1>10. RejectsType(codes, s, "HeaderTax") <=>
         ("exemption_code" \in s /\ \E k \in codes : Exempt(k))
  <2>1. Instances(codes, s)["HeaderTax"] = {HeaderTax(k, s) : k \in codes}
    BY DEF Instances
  <2>. QED  BY <1>8, <2>1, HeaderTaxAccepted, HeaderTaxRejected DEF RejectsType
<1>. QED  BY <1>1, <1>2, <1>3, <1>4, <1>5, <1>6, <1>7, <1>9, <1>10 DEF Rejections, Only

LEMMA CodesKnown == ASSUME TotalsTypeOK PROVE LineCodes \in SUBSET Codes
BY DEF TotalsTypeOK, LineCodes, CategoryCode, Codes, Present, Line

LEMMA RejectedAsStated == TotalsTypeOK => RejectsExactly
<1>1. ASSUME TotalsTypeOK, NEW s \in Shapes PROVE Judged(s, Rejections(LineCodes, s))
  <2> DEFINE c == LineCodes
             shape == IF Charged = {} THEN s ELSE s \cup {"charges"}
  <2>1. c \in SUBSET Codes /\ shape \in Shapes \cup {z \cup {"charges"} : z \in Shapes}
    BY <1>1, CodesKnown
  <2>2. {t \in DOMAIN Sequence : RejectsType(c, shape, t)} = Rejections(c, shape)
    BY WhatIsRejected
  <2>3. \A x \in {"credit_note", "rounding", "line_period", "exemption_code"} :
            x \in shape <=> x \in s
    OBVIOUS
  <2>. HIDE DEF c, shape
  <2>4. Rejections(c, shape) = Rejections(c, s)
    BY <2>3 DEF Rejections
  <2>5. <<c, shape, {t \in DOMAIN Sequence : RejectsType(c, shape, t)}>> \in Verdicts
    BY <2>1 DEF Verdicts, RejectsType
  <2>. QED  BY <2>2, <2>4, <2>5 DEF Judged, c, shape
<1>. QED  BY <1>1 DEF RejectsExactly, Rejections

\* The schema rejects a document for a credit note's reference, a rounding
\* amount, a billing period of a line, the reason of an exempt line or an
\* exemption reason code, and for nothing else, whatever the invoices carry
\* (generator.py, the CII D16B schema).
THEOREM SchemaRejectsExactly == TotalsSpec => []RejectsExactly
BY TotalsTypeCorrect, RejectedAsStated, PTL

-----------------------------------------------------------------------------
(* The jobs, and what the proofs about them assume of their kinds.         *)

USE OpsAssumption, BoundAssumption, NoneAssumption, PartnersAssumption,
    DocAssumption

-----------------------------------------------------------------------------
(* The inductive invariant.                                                *)

Mailing    == {"record", "log", "record_b2g"}
Sending    == {"issue", "refresh", "switch", "attach", "deliver"} \cup Mailing
NeverSends == {"mark", "truncate", "write_fixed", "save_xml", "serve"}
Rendering  == {"convert", "write_xml", "embed", "embed_files", "save_files"}

\* Where nothing was mailed yet.
Quiet == PCs \ (Mailing \cup {"ok", "unavailable", "error", "crashed"})

\* An instance of the invoice, stale or not, records only mails there were.
Honest(m) == {m.emailed, m.xrechnung} \subseteq Mailed \cup {None}

\* What the place where job j is says of it: r is its record.
JobOK(j, r) ==
    /\ Honest(r.mem)
    /\ r.pc \in Sending => r.op \in Sends
    /\ r.pc \in NeverSends => r.op \notin Sends
    /\ r.pc = "need_pdf" => r.op \in Sends \cup {"download_pdf"}
    /\ r.pc = "need_xml" => r.op \in Sends \cup {"download_xml"}
    /\ r.pc \notin {"idle", "load"} \cup Ends =>
           (r.back \in {"switch", "need_xml", "attach"} <=> r.op \in Sends)
    /\ r.pc = "idle" => r.attempts = 0
    /\ r.pc = "load" /\ r.op = "task" => r.attempts < MaxAttempts
    /\ r.pc \in Rendering => r.second \in Seconds
    /\ r.pc \in Mailing => j \in Mailed
    /\ r.pc \in Quiet => j \notin Mailed
    /\ r.pc = "record_b2g" => j \in audit
    /\ r.pc = "ok" /\ r.op \in Sends => j \in audit

DispatchInv ==
    /\ TypeOK
    /\ Honest(row) /\ audit \subseteq Mailed
    /\ \A j \in Jobs : JobOK(j, job[j])

\* The same without the jobs.
WorldOK == /\ row \in Row /\ version \in Versions /\ attached \in BOOLEAN
           /\ clock \in Seconds
           /\ pdfs \in [Seconds -> Doc \cup {None}]
           /\ xmls \in [Names -> Doc \cup {None}]
           /\ partner \in Partner
           /\ out \subseteq Parcels /\ audit \subseteq Jobs
           /\ Honest(row) /\ audit \subseteq Mailed

-----------------------------------------------------------------------------
(* How a job moves.                                                        *)

LEMMA NoneApart == None \notin Seconds /\ None \notin Names
BY DEF Seconds, Names, Fixed

LEMMA BlankType == Draft \in Row /\ NoDoc \in Doc /\ Blank \in Job
<1>1. Draft \in Row
  BY DEF Draft, Row
<1>2. NoDoc \in Doc
  BY DEF NoDoc, Doc, Versions
<1>3. "generate_pdf" \in Operations /\ "idle" \in PCs /\ 0 \in 0 .. MaxAttempts
  BY DEF Operations, Renders, PCs
<1>. QED  BY <1>1, <1>2, <1>3 DEF Blank, Job

\* One job goes on as r; it may have mailed.
LEMMA JobMoves ==
    ASSUME DispatchInv, NEW j \in Jobs, NEW r \in Job, JobOK(j, r)', WorldOK',
           job' = [job EXCEPT ![j] = r],
           Mailed \subseteq Mailed', Mailed' \subseteq Mailed \cup {j},
           audit \subseteq audit'
    PROVE  DispatchInv'
<1>1. job' \in [Jobs -> Job]
  BY DEF DispatchInv, TypeOK
<1>2. ASSUME NEW t \in Jobs
      PROVE  JobOK(t, job[t])'
  <2>1. CASE t = j
    BY <2>1 DEF DispatchInv, TypeOK
  <2>2. CASE t # j
    <3>1. job'[t] = job[t] /\ JobOK(t, job[t]) /\ (t \in Mailed' <=> t \in Mailed)
      BY <2>2 DEF DispatchInv, TypeOK
    <3>. QED  BY <3>1 DEF JobOK, Honest
  <2>. QED  BY <2>1, <2>2
<1>. QED  BY <1>1, <1>2 DEF DispatchInv, TypeOK, WorldOK

\* The same while nothing is mailed and nothing logged.
LEMMA JobOnly ==
    ASSUME DispatchInv, NEW j \in Jobs, NEW r, r \in Job, JobOK(j, r), WorldOK',
           job' = [job EXCEPT ![j] = r], UNCHANGED Sent
    PROVE  DispatchInv'
<1>1. Mailed' = Mailed /\ audit' = audit
  BY DEF Mailed, Sent
<1>2. PICK s \in Job : s = r
  OBVIOUS
<1>3. JobOK(j, s)'
  BY <1>1, <1>2 DEF JobOK, Honest
<1>. QED  BY <1>1, <1>2, <1>3, JobMoves

GotoRow(j, pc) == IF pc \in Ends
                    THEN [Blank EXCEPT !.op = job[j].op, !.pc = pc,
                                       !.second = job[j].second]
                    ELSE [job[j] EXCEPT !.pc = pc]

LEMMA GotoIs ==
    ASSUME DispatchInv, NEW j \in Jobs, NEW pc \in PCs
    PROVE  /\ Goto(j, pc) <=> job' = [job EXCEPT ![j] = GotoRow(j, pc)]
           /\ GotoRow(j, pc) \in Job
           /\ GotoRow(j, pc).pc = pc
           /\ GotoRow(j, pc).op = job[j].op
           /\ GotoRow(j, pc).second = job[j].second
           /\ pc \notin Ends => /\ GotoRow(j, pc).back = job[j].back
                                /\ GotoRow(j, pc).attempts = job[j].attempts
           /\ GotoRow(j, pc).mem \in {job[j].mem, Draft}
<1>1. job[j] \in Job
  BY DEF DispatchInv, TypeOK
<1>2. CASE pc \in Ends
  BY <1>1, <1>2, BlankType DEF Goto, GotoRow, Job, Blank
<1>3. CASE pc \notin Ends
  BY <1>1, <1>3 DEF Goto, GotoRow, Job
<1>. QED  BY <1>2, <1>3

\* What is asked of the place a job goes to.
Fits(j, pc) ==
    /\ pc \in PCs
    /\ pc \in Sending => job[j].op \in Sends
    /\ pc \in NeverSends => job[j].op \notin Sends
    /\ pc = "need_pdf" => job[j].op \in Sends \cup {"download_pdf"}
    /\ pc = "need_xml" => job[j].op \in Sends \cup {"download_xml"}
    /\ pc \notin {"idle", "load"} \cup Ends =>
           (job[j].back \in {"switch", "need_xml", "attach"} <=> job[j].op \in Sends)
    /\ pc # "idle"
    /\ pc = "load" /\ job[j].op = "task" => job[j].attempts < MaxAttempts
    /\ pc \in Rendering => job[j].second \in Seconds
    /\ pc \in Mailing => j \in Mailed
    /\ pc \in Quiet => j \notin Mailed
    /\ pc = "record_b2g" => j \in audit
    /\ pc = "ok" /\ job[j].op \in Sends => j \in audit

LEMMA GotoOnly ==
    ASSUME DispatchInv, NEW j \in Jobs, NEW pc, Fits(j, pc), Goto(j, pc), WorldOK',
           UNCHANGED Sent
    PROVE  DispatchInv'
<1>1. pc \in PCs
  BY DEF Fits
<1>2. Honest(job[j].mem) /\ Honest(Draft)
  BY DEF DispatchInv, JobOK, Honest, Draft
<1>. DEFINE r == GotoRow(j, pc)
<1>3. /\ job' = [job EXCEPT ![j] = r] /\ r \in Job /\ r.pc = pc
      /\ r.op = job[j].op /\ r.second = job[j].second
      /\ pc \notin Ends => r.back = job[j].back /\ r.attempts = job[j].attempts
      /\ r.mem \in {job[j].mem, Draft}
  BY <1>1, GotoIs
<1>. HIDE DEF r
<1>4. Honest(r.mem)
  BY <1>2, <1>3
<1>5. JobOK(j, r)
  BY <1>3, <1>4 DEF Fits, JobOK, Ends
<1>. QED  BY <1>3, <1>5, JobOnly

LEMMA Here ==
    ASSUME DispatchInv, NEW j \in Jobs
    PROVE  job[j] \in Job /\ JobOK(j, job[j]) /\ WorldOK
BY DEF DispatchInv, TypeOK, WorldOK

\* The world stays well formed if nothing of it changes but what is named.
LEMMA WorldStays ==
    ASSUME WorldOK, UNCHANGED <<World, Sent>>,
           row' \in Row, Honest(row'),
           pdfs' \in [Seconds -> Doc \cup {None}], xmls' \in [Names -> Doc \cup {None}]
    PROVE  WorldOK'
BY DEF WorldOK, World, Sent, Honest, Mailed

LEMMA AfterErrorFits ==
    ASSUME DispatchInv, NEW j \in Jobs, job[j].pc \in Quiet
    PROVE  Fits(j, AfterError(j)) /\ Fits(j, "error")
<1>1. JobOK(j, job[j]) /\ job[j] \in Job
  BY Here
<1>2. j \notin Mailed
  BY <1>1 DEF JobOK
<1>. QED  BY <1>1, <1>2 DEF Fits, AfterError, PCs, Ends, Sending, NeverSends,
     Rendering, Mailing, Sends

LEMMA LockingType ==
    ASSUME NEW m \in Row, Honest(m)
    PROVE  Locking(m) \in Row /\ Honest(Locking(m))
BY DEF Locking, Row, Honest

\* Nothing but the row changes, or not even that.
LEMMA RowOnly ==
    ASSUME WorldOK, UNCHANGED <<World, Files, Sent>>,
           row' = row \/ (row' \in Row /\ Honest(row'))
    PROVE  WorldOK'
<1>1. /\ row' \in Row /\ Honest(row')
      /\ pdfs' \in [Seconds -> Doc \cup {None}] /\ xmls' \in [Names -> Doc \cup {None}]
  BY DEF WorldOK, Files
<1>. QED  BY <1>1, WorldStays

LEMMA SaveRowOK ==
    ASSUME DispatchInv, NEW j \in Jobs, job[j].pc \in Quiet,
           NEW m, m \in Row, Honest(m), NEW next, Fits(j, next),
           SaveRow(j, m, next), UNCHANGED <<World, Files, Sent>>
    PROVE  DispatchInv'
<1>1. job[j] \in Job /\ JobOK(j, job[j]) /\ WorldOK
  BY Here
<1>2. Locking(m) \in Row /\ Honest(Locking(m))
  BY LockingType
<1>3. WorldOK'
  <2>1. row' = row \/ (row' \in Row /\ Honest(Locking(m)) /\ row' = Locking(m))
    BY <1>2 DEF SaveRow
  <2>2. Mailed' = Mailed
    BY DEF Mailed, Sent
  <2>3. row' = row \/ (row' \in Row /\ Honest(row'))
    BY <2>1, <2>2 DEF Honest
  <2>. QED  BY <1>1, <2>3, RowOnly
<1>4. UNCHANGED Sent
  OBVIOUS
<1>5. CASE Goto(j, next)
  BY <1>3, <1>4, <1>5, GotoOnly
<1>6. CASE Goto(j, AfterError(j))
  BY <1>3, <1>4, <1>6, GotoOnly, AfterErrorFits
<1>7. CASE next \notin Ends /\ job' = [job EXCEPT ![j].pc = next, ![j].mem = Locking(m)]
  <2> DEFINE r == [job[j] EXCEPT !.pc = next, !.mem = Locking(m)]
  <2>1. job' = [job EXCEPT ![j] = r]
    BY <1>7
  <2>2. /\ r \in Job /\ r.pc = next /\ r.mem = Locking(m) /\ r.op = job[j].op
        /\ r.back = job[j].back /\ r.second = job[j].second
        /\ r.attempts = job[j].attempts
    BY <1>1, <1>2 DEF Job, Fits
  <2> HIDE DEF r
  <2>3. JobOK(j, r)
    BY <1>1, <1>2, <1>7, <2>2 DEF JobOK, Fits
  <2>. QED  BY <1>3, <1>4, <2>1, <2>2, <2>3, JobOnly
<1>. QED  BY <1>5, <1>6, <1>7 DEF SaveRow

-----------------------------------------------------------------------------
(* The endpoints.                                                          *)

LEMMA StartInv ==
    ASSUME DispatchInv, NEW j \in Jobs, NEW op \in OpsOf[j], Start(j, op)
    PROVE  DispatchInv'
<1>1. job[j] \in Job /\ JobOK(j, job[j]) /\ WorldOK /\ job[j].pc = "idle"
  BY Here DEF Start, At
<1>2. WorldOK' /\ UNCHANGED Sent
  BY <1>1, RowOnly DEF Start
<1>. DEFINE r == [job[j] EXCEPT !.op = op, !.pc = "load"]
<1>3. job' = [job EXCEPT ![j] = r]
  BY DEF Start
<1>4. /\ r \in Job /\ r.pc = "load" /\ r.mem = job[j].mem
      /\ r.attempts = job[j].attempts
  BY <1>1 DEF Job, PCs
<1>. HIDE DEF r
<1>5. JobOK(j, r)
  BY <1>1, <1>4 DEF JobOK, Quiet, PCs, Ends, Mailing, Sending, NeverSends, Rendering
<1>. QED  BY <1>2, <1>3, <1>4, <1>5, JobOnly

LEMMA LoadInv == ASSUME DispatchInv, NEW j \in Jobs, Load(j) PROVE DispatchInv'
<1>1. job[j] \in Job /\ JobOK(j, job[j]) /\ WorldOK /\ job[j].pc = "load"
  BY Here DEF Load, At
<1>2. WorldOK' /\ UNCHANGED Sent
  BY <1>1, RowOnly DEF Load
<1>3. j \notin Mailed
  BY <1>1 DEF JobOK, Quiet, PCs, Mailing
<1>. DEFINE op == job[j].op
            n  == IF op = "task" THEN job[j].attempts + 1 ELSE job[j].attempts
<1>4. n \in 0 .. MaxAttempts
  BY <1>1 DEF Job, JobOK
<1>5. op \in Operations
  BY <1>1 DEF Job
<1>6. PICK back : back = CASE op \in Sends -> "switch"
                         [] op \in {"download_pdf", "download_xml"} -> "serve"
                         [] OTHER -> "ok"
  OBVIOUS
<1>7. PICK pc : pc = CASE Rejected(op) -> "rejected"
                       [] op \in Sends /\ row.status = "DRAFT" -> "issue"
                       [] op \in Sends -> "switch"
                       [] op = "download_pdf" -> "need_pdf"
                       [] op = "download_xml" -> "need_xml"
                       [] op \in {"generate_pdf", "task"} -> "name"
                       [] op = "generate_xml" -> "truncate"
                       [] op = "mark_as_sent" /\ row.status # "DRAFT" -> "rejected"
                       [] OTHER -> "mark"
  OBVIOUS
<1>. DEFINE r == [job[j] EXCEPT !.mem = row, !.attempts = n, !.back = back, !.pc = pc]
<1>8. job' = [job EXCEPT ![j] = r]
  <2>1. job \in [Jobs -> Job]
    BY DEF DispatchInv, TypeOK
  <2>2. job' = [job EXCEPT ![j].mem = row,
                           ![j].attempts = IF op = "task" THEN @ + 1 ELSE @,
                           ![j].back = back, ![j].pc = pc]
    BY <1>6, <1>7 DEF Load
  <2>3. ([job EXCEPT ![j].mem = row,
                     ![j].attempts = IF op = "task" THEN @ + 1 ELSE @,
                     ![j].back = back, ![j].pc = pc]) = [job EXCEPT ![j] = r]
    BY <2>1
  <2>. QED  BY <2>2, <2>3
<1>9. back \in {"switch", "serve", "ok"} /\ (back = "switch" <=> op \in Sends)
  <2>1. CASE op \in Sends
    BY <1>6, <2>1 DEF Sends
  <2>2. CASE op \notin Sends
    <3>1. back \in {"serve", "ok"}
      BY <1>6, <2>2
    <3>. QED  BY <2>2, <3>1
  <2>. QED  BY <2>1, <2>2
<1>10. /\ pc \in {"rejected", "issue", "switch", "need_pdf", "need_xml", "name",
                  "truncate", "mark"}
       /\ pc \in {"issue", "switch"} => op \in Sends
       /\ pc \in {"truncate", "mark"} => op \notin Sends
       /\ pc = "need_pdf" => op = "download_pdf"
       /\ pc = "need_xml" => op = "download_xml"
  BY <1>7 DEF Sends
<1>11. pc \in PCs
  BY <1>10 DEF PCs, Ends
<1>12. r \in Job /\ r.pc = pc /\ r.mem = row /\ r.op = op /\ r.back = back
       /\ r.attempts = n
  BY <1>1, <1>4, <1>9, <1>11 DEF Job, WorldOK
<1>. HIDE DEF r, op, n
<1>13. JobOK(j, r)
  BY <1>1, <1>3, <1>9, <1>10, <1>12 DEF JobOK, WorldOK, Ends, Mailing, Sending,
     NeverSends, Rendering
<1>. QED  BY <1>2, <1>8, <1>12, <1>13, JobOnly

\* Where a job that is at pc may go without anything else to show.
LEMMA FitsQuiet ==
    ASSUME DispatchInv, NEW j \in Jobs, NEW pc \in Quiet,
           job[j].pc \in Quiet \ ({"idle", "load"} \cup Ends),
           pc \notin {"idle", "load"},
           pc \in Sending => job[j].op \in Sends,
           pc \in NeverSends => job[j].op \notin Sends,
           pc = "need_pdf" => job[j].op \in Sends \cup {"download_pdf"},
           pc = "need_xml" => job[j].op \in Sends \cup {"download_xml"},
           pc \in Rendering => job[j].second \in Seconds
    PROVE  Fits(j, pc)
<1>1. JobOK(j, job[j])
  BY Here
<1>. QED  BY <1>1 DEF JobOK, Fits, Quiet, Mailing

LEMMA EndFits ==
    ASSUME DispatchInv, NEW j \in Jobs, NEW pc \in {"unavailable", "error", "crashed"}
    PROVE  Fits(j, pc)
BY DEF Fits, PCs, Ends, Sending, NeverSends, Rendering, Mailing, Quiet

LEMMA MarkInv ==
    ASSUME DispatchInv, NEW j \in Jobs, Mark(j) \/ Issue(j)
    PROVE  DispatchInv'
<1>1. job[j] \in Job /\ JobOK(j, job[j]) /\ WorldOK /\ job[j].pc \in {"mark", "issue"}
  BY Here DEF Mark, Issue, At
<1>3. ASSUME NEW status \in {"SENT", "PAID"}
      PROVE  /\ [job[j].mem EXCEPT !.status = status] \in Row
             /\ Honest([job[j].mem EXCEPT !.status = status])
  <2>1. job[j].mem \in Row /\ Honest(job[j].mem)
    BY <1>1 DEF Job, JobOK
  <2>. QED  BY <2>1 DEF Row, Honest
<1>4. CASE Mark(j)
  <2>1. Fits(j, "ok") /\ job[j].pc \in Quiet
    BY <1>1, <1>4 DEF Fits, Mark, At, JobOK, PCs, Ends, Sending, NeverSends, Rendering,
       Mailing, Quiet
  <2>2. \E status \in {"SENT", "PAID"} :
          SaveRow(j, [job[j].mem EXCEPT !.status = status], "ok")
    BY <1>4 DEF Mark
  <2>. QED  BY <1>3, <1>4, <2>1, <2>2, SaveRowOK DEF Mark
<1>5. CASE Issue(j)
  <2>1. Fits(j, "refresh") /\ job[j].pc \in Quiet
    BY <1>1, <1>5, FitsQuiet DEF Issue, At, JobOK, PCs, Ends, Sending, NeverSends,
       Rendering, Mailing, Quiet
  <2>. QED  BY <1>3, <1>5, <2>1, SaveRowOK DEF Issue
<1>. QED  BY <1>4, <1>5

LEMMA RefreshInv == ASSUME DispatchInv, NEW j \in Jobs, Refresh(j) PROVE DispatchInv'
<1>1. job[j] \in Job /\ JobOK(j, job[j]) /\ WorldOK /\ job[j].pc = "refresh"
  BY Here DEF Refresh, At
<1>2. WorldOK' /\ UNCHANGED Sent
  BY <1>1, RowOnly DEF Refresh
<1>3. /\ job[j].op \in Sends /\ job[j].back \in {"switch", "need_xml", "attach"}
      /\ j \notin Mailed
  BY <1>1 DEF JobOK, Sending, Ends, Quiet, PCs, Mailing
<1>. DEFINE r == [job[j] EXCEPT !.mem = row, !.pc = job[j].back]
<1>4. job' = [job EXCEPT ![j] = r]
  BY DEF Refresh
<1>5. /\ r \in Job /\ r.pc = job[j].back /\ r.mem = row /\ r.op = job[j].op
      /\ r.back = job[j].back
  BY <1>1, <1>3 DEF Job, PCs, WorldOK
<1>. HIDE DEF r
<1>6. JobOK(j, r)
  BY <1>1, <1>3, <1>5 DEF JobOK, WorldOK, Ends, Mailing, Sending, NeverSends, Rendering
<1>. QED  BY <1>2, <1>4, <1>5, <1>6, JobOnly

LEMMA SwitchInv == ASSUME DispatchInv, NEW j \in Jobs, Switch(j) PROVE DispatchInv'
<1>1. job[j] \in Job /\ JobOK(j, job[j]) /\ WorldOK /\ job[j].pc = "switch"
  BY Here DEF Switch, At
<1>2. WorldOK' /\ UNCHANGED Sent
  BY <1>1, RowOnly DEF Switch
<1>3. job[j].op \in Sends
  BY <1>1 DEF JobOK, Sending
<1>4. Fits(j, "need_pdf") /\ Fits(j, "need_xml")
  BY <1>1, <1>3, FitsQuiet DEF PCs, Ends, Sending, NeverSends, Rendering, Mailing, Quiet
<1>. QED  BY <1>2, <1>4, EndFits, GotoOnly DEF Switch

LEMMA NeedInv ==
    ASSUME DispatchInv, NEW j \in Jobs, NeedPdf(j) \/ NeedXml(j)
    PROVE  DispatchInv'
<1>1. job[j] \in Job /\ JobOK(j, job[j]) /\ WorldOK /\ job[j].pc \in {"need_pdf", "need_xml"}
  BY Here DEF NeedPdf, NeedXml, At
<1>2. WorldOK' /\ UNCHANGED Sent
  BY <1>1, RowOnly DEF NeedPdf, NeedXml
<1>3. j \notin Mailed
  BY <1>1 DEF JobOK, Quiet, PCs, Mailing
<1>. DEFINE op == job[j].op
<1>4. \E next, pc :
        /\ next \in {"serve", "need_xml", "attach"} /\ pc \in {next, "name"}
        /\ job' = [job EXCEPT ![j] = [job[j] EXCEPT !.back = next, !.pc = pc]]
        /\ next = "serve" <=> op \in {"download_pdf", "download_xml"}
        /\ next # "serve" => op \in Sends
  <2>1. job \in [Jobs -> Job]
    BY DEF DispatchInv, TypeOK
  <2>2. CASE NeedPdf(j)
    <3>1. op \in Sends \cup {"download_pdf"}
      BY <1>1, <2>2 DEF NeedPdf, At, JobOK
    <3>2. PICK next : next = IF op = "download_pdf" THEN "serve" ELSE "need_xml"
      OBVIOUS
    <3>3. PICK pc : pc = IF PdfThere(job[j].mem) THEN next ELSE "name"
      OBVIOUS
    <3>4. job' = [job EXCEPT ![j] = [job[j] EXCEPT !.back = next, !.pc = pc]]
      BY <2>1, <2>2, <3>2, <3>3 DEF NeedPdf
    <3>. QED  BY <3>1, <3>2, <3>3, <3>4 DEF Sends
  <2>3. CASE NeedXml(j)
    <3>1. op \in Sends \cup {"download_xml"}
      BY <1>1, <2>3 DEF NeedXml, At, JobOK
    <3>2. PICK next : next = IF op = "download_xml" THEN "serve" ELSE "attach"
      OBVIOUS
    <3>3. PICK pc : pc = IF op = "send_email" \/ XmlThere(job[j].mem)
                           THEN next ELSE "name"
      OBVIOUS
    <3>4. job' = [job EXCEPT ![j] = [job[j] EXCEPT !.back = next, !.pc = pc]]
      BY <2>1, <2>3, <3>2, <3>3 DEF NeedXml
    <3>. QED  BY <3>1, <3>2, <3>3, <3>4 DEF Sends
  <2>. QED  BY <2>2, <2>3
<1>5. PICK next, pc :
        /\ next \in {"serve", "need_xml", "attach"} /\ pc \in {next, "name"}
        /\ job' = [job EXCEPT ![j] = [job[j] EXCEPT !.back = next, !.pc = pc]]
        /\ next = "serve" <=> op \in {"download_pdf", "download_xml"}
        /\ next # "serve" => op \in Sends
  BY <1>4
<1>. DEFINE r == [job[j] EXCEPT !.back = next, !.pc = pc]
<1>6. pc \in PCs
  BY <1>5 DEF PCs
<1>7. r \in Job /\ r.pc = pc /\ r.mem = job[j].mem /\ r.op = op /\ r.back = next
  BY <1>1, <1>5, <1>6 DEF Job
<1>. HIDE DEF r, op
<1>8. JobOK(j, r)
  BY <1>1, <1>3, <1>5, <1>7 DEF JobOK, Ends, Mailing, Sending, NeverSends, Rendering,
     Sends
<1>. QED  BY <1>2, <1>5, <1>7, <1>8, JobOnly DEF r

-----------------------------------------------------------------------------
(* Rendering.                                                              *)

LEMMA RenderedType ==
    ASSUME WorldOK, NEW profile \in Profiles
    PROVE  Rendered(profile) \in Doc
BY DEF WorldOK, Rendered, Doc, Profiles

LEMMA ProfileType ==
    ASSUME NEW op, NEW asked \in Asked(op)
    PROVE  Profile(asked) \in Profiles
BY DEF Asked, Profile, Profiles

LEMMA DocChanges ==
    ASSUME NEW d \in Doc, NEW b \in BOOLEAN
    PROVE  [d EXCEPT !.whole = b] \in Doc /\ [d EXCEPT !.carries = b] \in Doc
BY DEF Doc

LEMMA NameInv == ASSUME DispatchInv, NEW j \in Jobs, Name(j) PROVE DispatchInv'
<1>1. job[j] \in Job /\ JobOK(j, job[j]) /\ WorldOK /\ job[j].pc = "name"
  BY Here DEF Name, At
<1>2. UNCHANGED Sent
  BY DEF Name
<1>3. WorldOK'
  <2>1. clock' \in Seconds
    BY <1>1 DEF Name, WorldOK
  <2>. QED  BY <1>1, <2>1 DEF Name, WorldOK, Files, Sent, Honest, Mailed
<1>4. CASE Goto(j, "rejected")
  <2>1. Fits(j, "rejected")
    BY <1>1, FitsQuiet DEF PCs, Ends, Sending, NeverSends, Rendering, Mailing, Quiet,
       Fits, JobOK
  <2>. QED  BY <1>2, <1>3, <1>4, <2>1, GotoOnly
<1>5. CASE Goto(j, AfterError(j))
  <2>1. job[j].pc \in Quiet
    BY <1>1 DEF Quiet, PCs, Mailing
  <2>. QED  BY <1>2, <1>3, <1>5, <2>1, AfterErrorFits, GotoOnly
<1>6. ASSUME NEW asked \in Asked(job[j].op), clock' \in Seconds,
             job' = [job EXCEPT ![j].pc = "convert", ![j].second = clock',
                                ![j].doc = Rendered(Profile(asked))]
      PROVE  DispatchInv'
  <2>1. Rendered(Profile(asked)) \in Doc
    BY <1>1, ProfileType, RenderedType
  <2>2. PICK c, d : c = clock' /\ d = Rendered(Profile(asked))
    OBVIOUS
  <2> DEFINE r == [job[j] EXCEPT !.pc = "convert", !.second = c, !.doc = d]
  <2>3. job' = [job EXCEPT ![j] = r]
    BY <1>6, <2>2
  <2>4. /\ r \in Job /\ r.pc = "convert" /\ r.mem = job[j].mem /\ r.op = job[j].op
        /\ r.back = job[j].back /\ r.second \in Seconds
    BY <1>1, <1>6, <2>1, <2>2 DEF Job, PCs
  <2> HIDE DEF r
  <2>5. JobOK(j, r)
    BY <1>1, <2>4 DEF JobOK, PCs, Quiet, Ends, Mailing, Sending, NeverSends, Rendering
  <2>. QED  BY <1>2, <1>3, <2>3, <2>4, <2>5, JobOnly
<1>7. Seconds \cap {clock, clock + 1} \subseteq Seconds
  OBVIOUS
<1>. QED  BY <1>4, <1>5, <1>6, <1>7 DEF Name

\* The steps that write files.
LEMMA FilesInv ==
    ASSUME DispatchInv, NEW j \in Jobs,
           Convert(j) \/ WriteXml(j) \/ Embed(j) \/ EmbedFiles(j)
    PROVE  DispatchInv'
<1>1. /\ job[j] \in Job /\ JobOK(j, job[j]) /\ WorldOK
      /\ job[j].pc \in {"convert", "write_xml", "embed", "embed_files"}
  BY Here DEF Convert, WriteXml, Embed, EmbedFiles, At
<1>2. FileOf(j) \in Seconds /\ FileOf(j) \in Names
  BY <1>1 DEF FileOf, FileName, JobOK, Rendering, Names
<1>3. job[j].doc \in Doc
  BY <1>1 DEF Job
<1>4. pdfs[FileOf(j)] # None => pdfs[FileOf(j)] \in Doc
  BY <1>1, <1>2 DEF WorldOK
<1>5. pdfs' \in [Seconds -> Doc \cup {None}]
  <2>1. pdfs \in [Seconds -> Doc \cup {None}]
    BY <1>1 DEF WorldOK
  <2>2. CASE Convert(j)
    BY <1>2, <1>3, <2>1, <2>2, DocChanges DEF Convert
  <2>3. CASE WriteXml(j)
    BY <2>1, <2>3 DEF WriteXml
  <2>4. CASE Embed(j)
    BY <1>2, <1>4, <2>1, <2>4, DocChanges DEF Embed
  <2>5. CASE EmbedFiles(j)
    <3>1. CASE pdfs' = pdfs
      BY <2>1, <3>1
    <3>2. CASE attached /\ pdfs[FileOf(j)] # None
               /\ pdfs' = [pdfs EXCEPT ![FileOf(j)].carries = TRUE]
      BY <1>2, <1>4, <2>1, <3>2, DocChanges
    <3>. QED  BY <2>5, <3>1, <3>2 DEF EmbedFiles
  <2>. QED  BY <2>2, <2>3, <2>4, <2>5
<1>6. xmls' \in [Names -> Doc \cup {None}]
  BY <1>1, <1>2, <1>3 DEF WorldOK, Convert, WriteXml, Embed, EmbedFiles
<1>7. UNCHANGED <<World, Sent>> /\ row' = row
  BY DEF Convert, WriteXml, Embed, EmbedFiles
<1>8. Honest(row')
  BY <1>1, <1>7 DEF WorldOK, Sent, Honest, Mailed
<1>9. WorldOK' /\ UNCHANGED Sent
  BY <1>1, <1>5, <1>6, <1>7, <1>8, WorldStays DEF WorldOK
<1>10. job[j].pc \in Quiet
  BY <1>1 DEF Quiet, PCs, Mailing
<1>11. \A pc \in {"write_xml", "embed", "embed_files", "save_files"} : Fits(j, pc)
  BY <1>1, FitsQuiet DEF PCs, Ends, Sending, NeverSends, Rendering, Mailing, Quiet,
     JobOK
<1>12. \/ Goto(j, AfterError(j))
       \/ \E pc \in {"write_xml", "embed", "embed_files", "save_files"} : Goto(j, pc)
  BY DEF Convert, WriteXml, Embed, EmbedFiles
<1>. QED  BY <1>9, <1>10, <1>11, <1>12, AfterErrorFits, GotoOnly

LEMMA SaveFilesInv ==
    ASSUME DispatchInv, NEW j \in Jobs, SaveFiles(j) \/ SaveXml(j)
    PROVE  DispatchInv'
<1>1. /\ job[j] \in Job /\ JobOK(j, job[j]) /\ WorldOK
      /\ job[j].pc \in {"save_files", "save_xml"}
  BY Here DEF SaveFiles, SaveXml, At
<1>2. job[j].mem \in Row /\ Honest(job[j].mem)
  BY <1>1 DEF Job, JobOK
<1>3. job[j].pc \in Quiet /\ UNCHANGED <<World, Files, Sent>>
  BY <1>1 DEF Quiet, PCs, Mailing, SaveFiles, SaveXml
<1>4. CASE SaveFiles(j)
  <2> DEFINE m    == [job[j].mem EXCEPT !.pdf = FileOf(j), !.xml = FileOf(j)]
             next == IF job[j].op \in Sends THEN "refresh" ELSE job[j].back
  <2>1. FileOf(j) \in Seconds
    BY <1>1, <1>4 DEF SaveFiles, At, FileOf, FileName, JobOK, Rendering
  <2>2. m \in Row /\ Honest(m)
    BY <1>2, <2>1 DEF Row, Names, Honest
  <2>3. next \in {"refresh", "serve", "ok"}
    BY <1>1, <1>4 DEF SaveFiles, At, Job, JobOK, Ends
  <2>4. next = "refresh" <=> job[j].op \in Sends
    BY <1>1, <1>4 DEF SaveFiles, At, Job, JobOK, Ends
  <2>5. SaveRow(j, m, next)
    BY <1>4 DEF SaveFiles
  <2> HIDE DEF m, next
  <2>6. Fits(j, next)
    BY <1>1, <1>4, <2>3, <2>4 DEF SaveFiles, At, JobOK, Fits, PCs, Ends, Sending,
       NeverSends, Rendering, Mailing, Quiet
  <2>. QED  BY <1>3, <2>2, <2>5, <2>6, SaveRowOK
<1>5. CASE SaveXml(j)
  <2> DEFINE m == [job[j].mem EXCEPT !.xml = Fixed]
  <2>1. m \in Row /\ Honest(m)
    BY <1>2 DEF Row, Names, Honest
  <2>2. SaveRow(j, m, "ok")
    BY <1>5 DEF SaveXml
  <2> HIDE DEF m
  <2>3. Fits(j, "ok")
    BY <1>1, <1>5 DEF SaveXml, At, JobOK, Fits, PCs, Ends, Sending, NeverSends,
       Rendering, Mailing, Quiet
  <2>. QED  BY <1>3, <2>1, <2>2, <2>3, SaveRowOK
<1>. QED  BY <1>4, <1>5

LEMMA FixedInv ==
    ASSUME DispatchInv, NEW j \in Jobs, Truncate(j) \/ WriteFixed(j)
    PROVE  DispatchInv'
<1>1. /\ job[j] \in Job /\ JobOK(j, job[j]) /\ WorldOK
      /\ job[j].pc \in {"truncate", "write_fixed"}
  BY Here DEF Truncate, WriteFixed, At
<1>2. xmls' \in [Names -> Doc \cup {None}]
  <2>1. xmls \in [Names -> Doc \cup {None}] /\ job[j].doc \in Doc
    BY <1>1 DEF WorldOK, Job
  <2>. QED  BY <2>1, BlankType DEF Truncate, WriteFixed
<1>3. UNCHANGED <<World, Sent>> /\ row' = row /\ pdfs' = pdfs
  BY DEF Truncate, WriteFixed
<1>4. Honest(row')
  BY <1>1, <1>3 DEF WorldOK, Sent, Honest, Mailed
<1>5. WorldOK' /\ UNCHANGED Sent
  BY <1>1, <1>2, <1>3, <1>4, WorldStays DEF WorldOK
<1>6. Fits(j, "rejected") /\ Fits(j, "save_xml")
  BY <1>1 DEF JobOK, Fits, PCs, Ends, Sending, NeverSends, Rendering, Mailing, Quiet
<1>7. CASE Goto(j, "rejected") \/ Goto(j, "save_xml")
  BY <1>5, <1>6, <1>7, GotoOnly
<1>8. ASSUME NEW asked \in Asked(job[j].op), Truncate(j),
             job' = [job EXCEPT ![j].pc = "write_fixed",
                                ![j].doc = Rendered(Profile(asked))]
      PROVE  DispatchInv'
  <2>1. PICK d : d = Rendered(Profile(asked)) /\ d \in Doc
    BY <1>1, ProfileType, RenderedType
  <2> DEFINE r == [job[j] EXCEPT !.pc = "write_fixed", !.doc = d]
  <2>2. job' = [job EXCEPT ![j] = r]
    BY <1>8, <2>1
  <2>3. /\ r \in Job /\ r.pc = "write_fixed" /\ r.mem = job[j].mem
        /\ r.op = job[j].op /\ r.back = job[j].back
    BY <1>1, <2>1 DEF Job, PCs
  <2> HIDE DEF r
  <2>4. job[j].pc = "truncate"
    BY <1>8 DEF Truncate, At
  <2>5. JobOK(j, r)
    BY <1>1, <2>3, <2>4 DEF JobOK, PCs, Quiet, Ends, Mailing, Sending, NeverSends, Rendering
  <2>. QED  BY <1>5, <2>2, <2>3, <2>5, JobOnly
<1>. QED  BY <1>7, <1>8 DEF Truncate, WriteFixed

-----------------------------------------------------------------------------
(* Mails, downloads and what is recorded.                                  *)

LEMMA AttachInv == ASSUME DispatchInv, NEW j \in Jobs, Attach(j) PROVE DispatchInv'
<1>1. job[j] \in Job /\ JobOK(j, job[j]) /\ WorldOK /\ job[j].pc = "attach"
  BY Here DEF Attach, At
<1>2. WorldOK' /\ UNCHANGED Sent
  BY <1>1, RowOnly DEF Attach
<1>3. CASE Goto(j, "error")
  BY <1>2, <1>3, EndFits, GotoOnly
<1>4. CASE ~Goto(j, "error")
  <2> DEFINE m   == job[j].mem
             p   == job[j].op # "send_xrechnung" /\ m.pdf # None
             x   == job[j].op # "send_email" /\ m.xml # None
  <2>1. PICK pdf, xml : /\ pdf = IF p THEN pdfs[m.pdf] ELSE None
                        /\ xml = IF x THEN xmls[m.xml] ELSE None
    OBVIOUS
  <2>2. pdf \in Doc \cup {None} /\ xml \in Doc \cup {None}
    <3>1. m.pdf \in Seconds \cup {None} /\ m.xml \in Names \cup {None}
      BY <1>1 DEF Job, Row
    <3>. QED  BY <1>1, <2>1, <3>1 DEF WorldOK
  <2> DEFINE r == [job[j] EXCEPT !.pc = "deliver", !.pdf = pdf, !.xml = xml]
  <2>3. job' = [job EXCEPT ![j] = r]
    BY <1>4, <2>1 DEF Attach
  <2>4. /\ r \in Job /\ r.pc = "deliver" /\ r.mem = m /\ r.op = job[j].op
        /\ r.back = job[j].back
    BY <1>1, <2>2 DEF Job, PCs
  <2> HIDE DEF r
  <2>5. JobOK(j, r)
    BY <1>1, <2>4 DEF JobOK, PCs, Quiet, Ends, Mailing, Sending, NeverSends, Rendering
  <2>. QED  BY <1>2, <2>3, <2>4, <2>5, JobOnly
<1>. QED  BY <1>3, <1>4

\* What one document more that left the house means.
LEMMA OneMore ==
    ASSUME NEW p, out' = out \cup {p}
    PROVE  /\ p.op \in Sends => Mailed' = Mailed \cup {p.by}
           /\ p.op \notin Sends => Mailed' = Mailed
BY DEF Mailed

LEMMA OutWorld ==
    ASSUME WorldOK, NEW p \in Parcels, out' = out \cup {p},
           UNCHANGED <<row, World, Files, audit>>
    PROVE  WorldOK' /\ Mailed \subseteq Mailed'
<1>1. Mailed \subseteq Mailed'
  BY DEF Mailed
<1>. QED  BY <1>1 DEF WorldOK, World, Files, Honest

LEMMA DeliverInv == ASSUME DispatchInv, NEW j \in Jobs, Deliver(j) PROVE DispatchInv'
<1>1. job[j] \in Job /\ JobOK(j, job[j]) /\ WorldOK /\ job[j].pc = "deliver"
  BY Here DEF Deliver, At
<1>2. job[j].op \in Sends /\ Honest(job[j].mem)
  BY <1>1 DEF JobOK, Sending
<1>3. CASE UNCHANGED out
  <2>1. WorldOK' /\ UNCHANGED Sent
    BY <1>1, <1>3, RowOnly DEF Deliver, Sent
  <2>2. Goto(j, "unavailable") \/ (Goto(j, "record") /\ Parcel(j) \in out)
    BY <1>3 DEF Deliver, AfterFailure
  <2>3. Parcel(j) \notin out
    BY <1>1, <1>2 DEF JobOK, Quiet, PCs, Mailing, Mailed, Parcel
  <2>. QED  BY <2>1, <2>2, <2>3, EndFits, GotoOnly
<1>4. CASE out' = out \cup {Parcel(j)}
  <2>1. Parcel(j) \in Parcels
    BY <1>1 DEF Parcel, Parcels, Job, WorldOK
  <2>2. Parcel(j).by = j /\ Parcel(j).op \in Sends
    BY <1>2 DEF Parcel
  <2>3. Mailed' = Mailed \cup {j}
    BY <1>4, <2>2, OneMore
  <2>4. WorldOK' /\ Mailed \subseteq Mailed' /\ audit' = audit
    BY <1>1, <1>4, <2>1, OutWorld DEF Deliver
  <2>5. PICK pc \in {"record", "unavailable"} : Goto(j, pc)
    BY DEF Deliver, AfterFailure
  <2>6. pc \in PCs
    BY DEF PCs, Ends
  <2>7. PICK r \in Job :
          /\ job' = [job EXCEPT ![j] = r] /\ r.pc = pc /\ r.op = job[j].op
          /\ r.mem \in {job[j].mem, Draft}
          /\ pc = "record" => r.back = job[j].back
    BY <2>5, <2>6, GotoIs DEF Ends
  <2>8. Honest(r.mem)'
    BY <1>2, <2>3, <2>7 DEF Honest, Draft
  <2>9. JobOK(j, r)'
    BY <1>1, <1>2, <2>3, <2>7, <2>8 DEF JobOK, PCs, Quiet, Ends, Mailing, Sending,
       NeverSends, Rendering
  <2>. QED  BY <2>3, <2>4, <2>7, <2>9, JobMoves
<1>. QED  BY <1>3, <1>4 DEF Deliver

LEMMA RecordInv ==
    ASSUME DispatchInv, NEW j \in Jobs, Record(j) \/ RecordB2G(j)
    PROVE  DispatchInv'
<1>1. /\ job[j] \in Job /\ JobOK(j, job[j]) /\ WorldOK
      /\ job[j].pc \in {"record", "record_b2g"}
  BY Here DEF Record, RecordB2G, At
<1>2. j \in Mailed /\ job[j].op \in Sends
  BY <1>1 DEF JobOK, Mailing, Sending
<1>3. UNCHANGED Sent
  BY DEF Record, RecordB2G
<1>4. row' = row \/ (row' \in Row /\ Honest(row'))
  <2>1. Mailed' = Mailed
    BY <1>3 DEF Sent, Mailed
  <2>2. row \in Row /\ Honest(row)
    BY <1>1 DEF WorldOK
  <2>3. CASE row' = [row EXCEPT !.emailed = j]
    BY <1>2, <2>1, <2>2, <2>3 DEF Row, Honest
  <2>4. CASE row' = [row EXCEPT !.xrechnung = j]
    BY <1>2, <2>1, <2>2, <2>4 DEF Row, Honest
  <2>. QED  BY <2>3, <2>4 DEF Record, RecordB2G, SaveColumn
<1>5. WorldOK'
  BY <1>1, <1>4, RowOnly DEF Record, RecordB2G
<1>6. /\ job[j].pc = "record" => Fits(j, "log")
      /\ job[j].pc = "record_b2g" => Fits(j, "ok")
  BY <1>1, <1>2 DEF JobOK, Fits, PCs, Ends, Sending, NeverSends, Rendering, Mailing, Quiet
<1>7. \/ Goto(j, "error")
      \/ Goto(j, "log") /\ job[j].pc = "record"
      \/ Goto(j, "ok") /\ job[j].pc = "record_b2g"
  BY DEF Record, RecordB2G, SaveColumn, At
<1>. QED  BY <1>3, <1>5, <1>6, <1>7, EndFits, GotoOnly

LEMMA LogInv == ASSUME DispatchInv, NEW j \in Jobs, Log(j) PROVE DispatchInv'
<1>1. job[j] \in Job /\ JobOK(j, job[j]) /\ WorldOK /\ job[j].pc = "log"
  BY Here DEF Log, At
<1>2. j \in Mailed /\ job[j].op \in Sends /\ Honest(job[j].mem)
  BY <1>1 DEF JobOK, Mailing, Sending
<1>3. Mailed' = Mailed /\ audit' = audit \cup {j}
  BY DEF Log, Mailed
<1>4. WorldOK'
  BY <1>1, <1>2, <1>3 DEF Log, WorldOK, World, Files, Honest
<1>5. PICK pc \in {"ok", "record_b2g"} : Goto(j, pc)
  BY DEF Log, AfterLog
<1>6. pc \in PCs
  BY DEF PCs, Ends
<1>7. PICK r \in Job :
        /\ job' = [job EXCEPT ![j] = r] /\ r.pc = pc /\ r.op = job[j].op
        /\ r.mem \in {job[j].mem, Draft}
        /\ pc = "record_b2g" => r.back = job[j].back
  BY <1>5, <1>6, GotoIs DEF Ends
<1>8. Honest(r.mem)'
  BY <1>2, <1>3, <1>7 DEF Honest, Draft
<1>9. JobOK(j, r)'
  BY <1>1, <1>2, <1>3, <1>7, <1>8 DEF JobOK, PCs, Quiet, Ends, Mailing, Sending,
     NeverSends, Rendering
<1>. QED  BY <1>3, <1>4, <1>7, <1>9, JobMoves

LEMMA ServeInv == ASSUME DispatchInv, NEW j \in Jobs, Serve(j) PROVE DispatchInv'
<1>1. job[j] \in Job /\ JobOK(j, job[j]) /\ WorldOK /\ job[j].pc = "serve"
  BY Here DEF Serve, At
<1>2. job[j].op \notin Sends /\ Honest(job[j].mem) /\ job[j].mem \in Row
  BY <1>1 DEF JobOK, NeverSends, Job
<1>3. CASE UNCHANGED out /\ Goto(j, "error")
  <2>1. WorldOK' /\ UNCHANGED Sent
    BY <1>1, <1>3, RowOnly DEF Serve, Sent
  <2>. QED  BY <1>3, <2>1, EndFits, GotoOnly
<1>4. CASE Goto(j, "ok") /\ ~(UNCHANGED out /\ Goto(j, "error"))
  <2>1. PICK got : /\ got \in Parcels /\ got.op \notin Sends
                   /\ out' = out \cup {got}
    <3> DEFINE m   == job[j].mem
               pdf == job[j].op = "download_pdf"
               got == [by |-> j, op |-> job[j].op, version |-> version,
                       pdf |-> IF pdf /\ PdfThere(m) THEN pdfs[m.pdf] ELSE None,
                       xml |-> IF ~pdf /\ XmlThere(m) THEN xmls[m.xml] ELSE None]
    <3>1. m.pdf \in Seconds \cup {None} /\ m.xml \in Names \cup {None}
      BY <1>2 DEF Row
    <3>2. /\ (IF pdf /\ PdfThere(m) THEN pdfs[m.pdf] ELSE None) \in Doc \cup {None}
          /\ (IF ~pdf /\ XmlThere(m) THEN xmls[m.xml] ELSE None) \in Doc \cup {None}
      BY <1>1, <3>1 DEF WorldOK, PdfThere, XmlThere
    <3>3. got \in Parcels /\ got.op \notin Sends
      BY <1>1, <1>2, <3>2 DEF Parcels, Job, WorldOK
    <3>4. out' = out \cup {got}
      BY <1>4 DEF Serve
    <3>. QED  BY <3>3, <3>4
  <2>2. Mailed' = Mailed /\ audit' = audit
    BY <2>1, OneMore DEF Serve
  <2>3. WorldOK'
    BY <1>1, <2>1, OutWorld DEF Serve
  <2>4. "ok" \in PCs
    BY DEF PCs, Ends
  <2>5. PICK r \in Job :
          /\ job' = [job EXCEPT ![j] = r] /\ r.pc = "ok" /\ r.op = job[j].op
          /\ r.mem \in {job[j].mem, Draft}
    BY <1>4, <2>4, GotoIs
  <2>6. Honest(r.mem)'
    BY <1>2, <2>2, <2>5 DEF Honest, Draft
  <2>7. JobOK(j, r)'
    BY <1>2, <2>5, <2>6 DEF JobOK, PCs, Quiet, Ends, Mailing, Sending, NeverSends, Rendering
  <2>. QED  BY <2>2, <2>3, <2>5, <2>7, JobMoves
<1>. QED  BY <1>3, <1>4 DEF Serve

LEMMA CrashInv == ASSUME DispatchInv, NEW j \in Jobs, Crash(j) PROVE DispatchInv'
<1>1. WorldOK' /\ UNCHANGED Sent
  BY Here, RowOnly DEF Crash
<1>. QED  BY <1>1, EndFits, GotoOnly DEF Crash

-----------------------------------------------------------------------------
(* Around the jobs, and the theorems.                                      *)

LEMMA AroundInv ==
    ASSUME DispatchInv,
           ChangeLine \/ ChangeCharge \/ ChangeAttachment \/ AcquireEditLock
    PROVE  DispatchInv'
<1>1. WorldOK
  BY DEF DispatchInv, TypeOK, WorldOK
<1>2. job' = job /\ UNCHANGED Sent /\ Mailed' = Mailed
  BY DEF ChangeLine, ChangeCharge, ChangeAttachment, AcquireEditLock, Sent, Mailed
<1>3. row' \in Row /\ Honest(row')
  <2>1. row \in Row /\ Honest(row)
    BY <1>1 DEF WorldOK
  <2>2. CASE row' = row
    BY <1>2, <2>1, <2>2 DEF Honest
  <2>3. CASE row' = [row EXCEPT !.pdf = None]
    BY <1>2, <2>1, <2>3 DEF Row, Honest
  <2>4. CASE AcquireEditLock
    <3>1. row.edit + 1 \in 0 .. MaxTouches
      BY <2>1, <2>4 DEF AcquireEditLock, Row
    <3>. QED  BY <1>2, <2>1, <2>4, <3>1 DEF AcquireEditLock, Row, Honest
  <2>. QED  BY <2>2, <2>3, <2>4 DEF ChangeLine, ChangeCharge, ChangeAttachment
<1>4. version' \in Versions
  BY <1>1 DEF WorldOK, Versions, ChangeLine, ChangeCharge, ChangeAttachment,
     AcquireEditLock, World
<1>5. pdfs' \in [Seconds -> Doc \cup {None}]
  <2>1. pdfs \in [Seconds -> Doc \cup {None}] /\ row.pdf \in Seconds \cup {None}
    BY <1>1 DEF WorldOK, Row
  <2>. QED  BY <2>1 DEF ChangeLine, ChangeCharge, ChangeAttachment, AcquireEditLock, Files
<1>6. /\ attached' \in BOOLEAN /\ clock' = clock /\ partner' = partner
      /\ xmls' = xmls
  BY <1>1 DEF WorldOK, ChangeLine, ChangeCharge, ChangeAttachment, AcquireEditLock,
     World, Files
<1>7. WorldOK'
  <2>1. /\ out' \subseteq Parcels' /\ audit' \subseteq Jobs
        /\ audit' \subseteq Mailed'
    BY <1>1, <1>2 DEF WorldOK, Sent, Parcels
  <2>2. xmls' \in [Names -> Doc \cup {None}] /\ clock' \in Seconds /\ partner' \in Partner
    BY <1>1, <1>6 DEF WorldOK
  <2>3. Honest(row)'
    BY <1>2, <1>3 DEF Honest
  <2>. QED  BY <1>3, <1>4, <1>5, <1>6, <2>1, <2>2, <2>3 DEF WorldOK, Parcels
<1>. QED  BY <1>2, <1>7 DEF DispatchInv, TypeOK, WorldOK, JobOK, Honest, Sent

LEMMA DispatchStep == DispatchInv /\ [Next]_vars => DispatchInv'
<1> SUFFICES ASSUME DispatchInv, [Next]_vars PROVE DispatchInv'
  OBVIOUS
<1>1. CASE UNCHANGED vars
  BY <1>1 DEF vars, DispatchInv, TypeOK, JobOK, Honest, Mailed
<1>2. ASSUME NEW j \in Jobs, Step(j) PROVE DispatchInv'
  BY <1>2, LoadInv, MarkInv, RefreshInv, SwitchInv, NeedInv, NameInv, FilesInv,
     SaveFilesInv, FixedInv, AttachInv, DeliverInv, RecordInv, LogInv, ServeInv DEF Step
<1>. QED  BY <1>1, <1>2, StartInv, CrashInv, AroundInv DEF Next

LEMMA DispatchInit == Init => DispatchInv
<1> SUFFICES ASSUME Init PROVE DispatchInv
  OBVIOUS
<1>1. Mailed = {} /\ audit = {} /\ out = {}
  BY DEF Init, Mailed
<1>2. \A j \in Jobs : JobOK(j, Blank)
  BY <1>1 DEF JobOK, Blank, Draft, Honest, PCs, Quiet, Ends, Mailing, Sending,
     NeverSends, Rendering
<1>3. 0 \in Seconds /\ 0 \in Versions
  BY DEF Seconds, Versions
<1>. QED  BY <1>1, <1>2, <1>3, BlankType DEF Init, DispatchInv, TypeOK, Honest, Draft

\* Rows, files, jobs and documents are well formed, whatever jobs there are.
THEOREM TypeCorrect == Spec => []TypeOK
<1>1. DispatchInv => TypeOK
  BY DEF DispatchInv
<1>. QED  BY <1>1, DispatchInit, DispatchStep, PTL DEF Spec

\* The columns and the audit entry that say an invoice was mailed are only
\* there when it was, for any number of jobs, with all faults and stale
\* instances (email_service.py:119-149).
THEOREM RecordsTellTruth == Spec => []TrackedMeansMailed
<1>1. DispatchInv => TrackedMeansMailed
  BY DEF DispatchInv, TrackedMeansMailed, Honest
<1>. QED  BY <1>1, DispatchInit, DispatchStep, PTL DEF Spec

\* 200 means mailed and logged, 400 that nothing left the house, for any
\* number of jobs and all faults (rest_views.py).
THEOREM EveryAnswerTrue == Spec => []AnswersTrue
<1>1. DispatchInv => AnswersTrue
  BY DEF DispatchInv, AnswersTrue, JobOK, At, PCs, Quiet, Ends, Mailing
<1>. QED  BY <1>1, DispatchInit, DispatchStep, PTL DEF Spec

-----------------------------------------------------------------------------
(* What one step of a job does to files, and to the names of files.        *)

\* What an instance of the invoice says of its files.
Papers(m) == <<m.pdf, m.xml>>
NoPapers  == <<None, None>>

PdfStep(j) ==
    LET r == job[j]  t == job'[j]  s == job[j].second IN
    \/ /\ pdfs' = pdfs
       /\ t.pc \notin {"write_xml", "embed_files"}
       /\ t.pc = "save_files" => r.pc = "embed_files" /\ ~attached
       /\ r.pc = "write_xml" => t.pc \in Ends \cup {"embed"}
       /\ r.pc = "embed" => t.pc \in Ends \/ pdfs[s] = None
       /\ r.pc = "embed_files" => \/ t.pc \in Ends \/ pdfs[s] = None
                                  \/ t.pc = "save_files"
    \/ /\ r.pc = "convert" /\ t.pc = "write_xml"
       /\ pdfs' = [pdfs EXCEPT ![s] = [r.doc EXCEPT !.whole = FALSE]]
    \/ /\ r.pc = "embed" /\ t.pc = "embed_files" /\ pdfs[s] # None
       /\ pdfs' = [pdfs EXCEPT ![s].whole = TRUE]
    \/ /\ r.pc = "embed_files" /\ t.pc = "save_files" /\ pdfs[s] # None
       /\ attached /\ pdfs' = [pdfs EXCEPT ![s].carries = TRUE]

\* No XML file goes away, and the XML is written before it is named.
XmlStep(j) ==
    LET r == job[j]  t == job'[j] IN
    /\ \A n \in Names : xmls[n] # None => xmls'[n] # None
    /\ t.pc = "embed" => xmls'[r.second] # None
    /\ t.pc = "embed_files" => r.pc = "embed"
    /\ t.pc = "save_files" => r.pc = "embed_files"
    /\ t.pc \in {"write_fixed", "save_xml"} => xmls'[Fixed] # None

\* The instance is loaded, dropped or written back, stale or not, or new files
\* are named.
PaperStep(j) ==
    LET r == job[j]  t == job'[j] IN
    \/ /\ Papers(row') = Papers(row)
       /\ Papers(t.mem) \in {Papers(r.mem), Papers(row), NoPapers}
    \/ /\ \/ Papers(row') = Papers(r.mem)
          \/ r.pc = "save_xml" /\ Papers(row') = <<r.mem.pdf, Fixed>>
          \/ /\ r.pc = "save_files" /\ Papers(row') = <<r.second, r.second>>
             /\ t.pc \in Ends \cup {"serve", "refresh"}
             /\ t.pc = "refresh" => t.back = r.back
       /\ Papers(t.mem) \in {Papers(row'), NoPapers}

RouteStep(j) ==
    LET r == job[j]  t == job'[j] IN
    /\ r.pc \notin Ends /\ t.pc # "idle"
    /\ t.op = r.op \/ (r.pc = "idle" /\ t.pc = "load" /\ t.op \in OpsOf[j])
    /\ r.pc = "idle" => t.op \in OpsOf[j]
    /\ t.pc \in Rendering \cup {"name"} =>
           t.back # "switch" \/ (r.pc \in Rendering \cup {"name"} /\ t.back = r.back)
    /\ t.second = r.second \/ (r.pc = "name" /\ t.pc = "convert")
    /\ t.pc = "convert" => /\ t.doc.version = version /\ t.doc.refers = attached
                           /\ t.doc.carries = FALSE
    /\ t.pc = "issue" => t.back = "switch"
    /\ t.pc = "need_pdf" => r.op # "send_xrechnung"
    /\ t.pc \notin {"load"} \cup Ends /\ t.back = "need_xml" =>
           \/ r.pc \notin {"idle", "load"} /\ r.back = "need_xml"
           \/ r.pc = "need_pdf" /\ r.op # "download_pdf"
    /\ t.pc = "refresh" => \/ r.pc = "issue" /\ t.back = r.back
                           \/ r.pc = "save_files" /\ row'.xml = r.second

Shape(j) ==
    /\ \A k \in Jobs \ {j} : job'[k] = job[k]
    /\ UNCHANGED <<version, attached>>
    /\ RouteStep(j) /\ PdfStep(j) /\ XmlStep(j) /\ PaperStep(j)

LEMMA GotoPapers ==
    ASSUME DispatchInv, NEW j \in Jobs, NEW pc \in PCs, Goto(j, pc)
    PROVE  /\ \A k \in Jobs \ {j} : job'[k] = job[k]
           /\ job'[j].pc = pc /\ job'[j].op = job[j].op
           /\ job'[j].second = job[j].second
           /\ pc \notin Ends => job'[j].back = job[j].back
           /\ Papers(job'[j].mem) \in {Papers(job[j].mem), NoPapers}
<1>1. job' = [job EXCEPT ![j] = GotoRow(j, pc)] /\ job \in [Jobs -> Job]
  BY GotoIs DEF DispatchInv, TypeOK
<1>2. job'[j] = GotoRow(j, pc)
  BY <1>1
<1>3. Papers(Draft) = NoPapers
  BY DEF Papers, NoPapers, Draft
<1>. QED  BY <1>1, <1>2, <1>3, GotoIs

\* A job that goes on, or ends, without a trace in files and names.
LEMMA GotoShape ==
    ASSUME DispatchInv, NEW j \in Jobs, NEW pc \in PCs, Goto(j, pc),
           job[j].pc \notin Ends \cup {"idle"}, pc # "idle",
           UNCHANGED <<row, version, attached, pdfs, xmls>>,
           \/ pc \in Ends
           \/ /\ job[j].pc \notin {"idle", "load", "write_xml"} \cup Ends
              /\ job[j].pc \in {"embed", "embed_files"} => pdfs[job[j].second] = None
              /\ pc \in {"load", "need_xml", "record", "log", "record_b2g"}
           \/ /\ job[j].pc \notin {"idle", "load", "write_xml", "embed", "embed_files"}
              /\ pc = "need_pdf" /\ job[j].op # "send_xrechnung"
    PROVE  Shape(j)
<1>1. /\ \A k \in Jobs \ {j} : job'[k] = job[k]
      /\ job'[j].pc = pc /\ job'[j].op = job[j].op
      /\ job'[j].second = job[j].second
      /\ pc \notin Ends => job'[j].back = job[j].back
      /\ Papers(job'[j].mem) \in {Papers(job[j].mem), NoPapers}
  BY GotoPapers
<1>2. RouteStep(j)
  BY <1>1 DEF RouteStep, Rendering, Ends
<1>3. PdfStep(j)
  BY <1>1 DEF PdfStep, Ends
<1>4. XmlStep(j)
  BY <1>1 DEF XmlStep, Ends
<1>5. PaperStep(j)
  BY <1>1 DEF PaperStep
<1>. QED  BY <1>1, <1>2, <1>3, <1>4, <1>5 DEF Shape

LEMMA AfterErrorIs ==
    ASSUME NEW j \in Jobs
    PROVE  AfterError(j) \in {"load", "error"} /\ AfterError(j) \in PCs
BY DEF AfterError, PCs, Ends

LEMMA ShapeStart ==
    ASSUME DispatchInv, NEW j \in Jobs, NEW op \in OpsOf[j], Start(j, op)
    PROVE  Shape(j)
<1>1. job[j] \in Job /\ job \in [Jobs -> Job] /\ job[j].pc = "idle"
  BY Here DEF Start, At, DispatchInv, TypeOK
<1> DEFINE r == [job[j] EXCEPT !.op = op, !.pc = "load"]
<1>2. job' = [job EXCEPT ![j] = r]
  BY DEF Start
<1>3. /\ r.op = op /\ r.pc = "load" /\ r.mem = job[j].mem
      /\ r.second = job[j].second
  BY <1>1 DEF Job
<1> HIDE DEF r
<1>4. (\A k \in Jobs \ {j} : job'[k] = job[k]) /\ job'[j] = r
  BY <1>1, <1>2
<1>5. UNCHANGED <<row, version, attached, pdfs, xmls>>
  BY DEF Start, World, Files
<1>6. RouteStep(j)
  BY <1>1, <1>3, <1>4 DEF RouteStep, Rendering, Ends
<1>7. PdfStep(j) /\ XmlStep(j)
  BY <1>1, <1>3, <1>4, <1>5 DEF PdfStep, XmlStep
<1>8. PaperStep(j)
  BY <1>3, <1>4, <1>5 DEF PaperStep, Papers
<1>. QED  BY <1>4, <1>5, <1>6, <1>7, <1>8 DEF Shape

LEMMA ShapeLoad ==
    ASSUME DispatchInv, NEW j \in Jobs, Load(j) PROVE Shape(j)
<1>1. job[j] \in Job /\ job \in [Jobs -> Job] /\ job[j].pc = "load"
  BY Here DEF Load, At, DispatchInv, TypeOK
<1> DEFINE op == job[j].op
<1>2. PICK back : back = CASE op \in Sends -> "switch"
                         [] op \in {"download_pdf", "download_xml"} -> "serve"
                         [] OTHER -> "ok"
  OBVIOUS
<1>3. PICK pc : pc = CASE Rejected(op) -> "rejected"
                       [] op \in Sends /\ row.status = "DRAFT" -> "issue"
                       [] op \in Sends -> "switch"
                       [] op = "download_pdf" -> "need_pdf"
                       [] op = "download_xml" -> "need_xml"
                       [] op \in {"generate_pdf", "task"} -> "name"
                       [] op = "generate_xml" -> "truncate"
                       [] op = "mark_as_sent" /\ row.status # "DRAFT" -> "rejected"
                       [] OTHER -> "mark"
  OBVIOUS
<1>4. /\ \A k \in Jobs \ {j} : job'[k] = job[k]
      /\ job'[j].pc = pc /\ job'[j].back = back /\ job'[j].op = op
      /\ job'[j].mem = row /\ job'[j].second = job[j].second
  <2>1. job' = [job EXCEPT ![j].mem = row,
                           ![j].attempts = IF op = "task" THEN @ + 1 ELSE @,
                           ![j].back = back, ![j].pc = pc]
    BY <1>2, <1>3 DEF Load
  <2>. QED  BY <1>1, <2>1 DEF Job
<1>5. /\ pc \in {"rejected", "issue", "switch", "need_pdf", "need_xml", "name",
                  "truncate", "mark"}
      /\ pc = "issue" => op \in Sends
      /\ pc = "need_pdf" => op = "download_pdf"
      /\ pc = "name" => op \notin Sends
  BY <1>3 DEF Sends
<1>6. back \in {"switch", "serve", "ok"} /\ (op \in Sends <=> back = "switch")
  <2>1. CASE op \in Sends
    BY <1>2, <2>1 DEF Sends
  <2>2. CASE op \notin Sends
    BY <1>2, <2>2
  <2>. QED  BY <2>1, <2>2
<1>7. UNCHANGED <<row, version, attached, pdfs, xmls>>
  BY DEF Load, World, Files
<1>8. RouteStep(j)
  BY <1>1, <1>4, <1>5, <1>6 DEF RouteStep, Rendering, Ends
<1>9. PdfStep(j) /\ XmlStep(j)
  BY <1>1, <1>4, <1>5, <1>7 DEF PdfStep, XmlStep
<1>10. PaperStep(j)
  BY <1>4, <1>7 DEF PaperStep, Papers
<1>. QED  BY <1>4, <1>7, <1>8, <1>9, <1>10 DEF Shape

\* Steps that change a few columns of the job's record and nothing else.
LEMMA ShapeNeed ==
    ASSUME DispatchInv, NEW j \in Jobs, Refresh(j) \/ NeedPdf(j) \/ NeedXml(j)
    PROVE  Shape(j)
<1>1. /\ job[j] \in Job /\ JobOK(j, job[j]) /\ job \in [Jobs -> Job]
      /\ job[j].pc \in {"refresh", "need_pdf", "need_xml"}
  BY Here DEF Refresh, NeedPdf, NeedXml, At, DispatchInv, TypeOK
<1>2. UNCHANGED <<row, version, attached, pdfs, xmls>>
  BY DEF Refresh, NeedPdf, NeedXml, World, Files
<1>3. /\ \A k \in Jobs \ {j} : job'[k] = job[k]
      /\ job'[j].op = job[j].op /\ job'[j].second = job[j].second
      /\ job'[j].mem \in {job[j].mem, row}
      /\ job'[j].pc \in {"switch", "need_xml", "attach", "serve", "name"}
      /\ job'[j].pc = "name" => job'[j].back # "switch"
      /\ job'[j].back = "need_xml" =>
           \/ job[j].back = "need_xml"
           \/ job[j].pc = "need_pdf" /\ job[j].op # "download_pdf"
  <2>1. CASE Refresh(j)
    <3>1. job[j].back \in {"switch", "need_xml", "attach"}
      BY <1>1, <2>1 DEF Refresh, At, JobOK, Sending, Ends
    <3>2. job' = [job EXCEPT ![j].mem = row, ![j].pc = job[j].back]
      BY <2>1 DEF Refresh
    <3>. QED  BY <1>1, <3>1, <3>2 DEF Job
  <2>2. CASE NeedPdf(j)
    <3>1. PICK next : next = IF job[j].op = "download_pdf" THEN "serve" ELSE "need_xml"
      OBVIOUS
    <3>2. PICK pc : pc = IF PdfThere(job[j].mem) THEN next ELSE "name"
      OBVIOUS
    <3>3. job' = [job EXCEPT ![j].back = next, ![j].pc = pc]
      BY <2>2, <3>1, <3>2 DEF NeedPdf
    <3>. QED  BY <1>1, <2>2, <3>1, <3>2, <3>3 DEF Job, NeedPdf, At
  <2>3. CASE NeedXml(j)
    <3>1. PICK next : next = IF job[j].op = "download_xml" THEN "serve" ELSE "attach"
      OBVIOUS
    <3>2. PICK pc : pc \in {next, "name"}
                    /\ job' = [job EXCEPT ![j].back = next, ![j].pc = pc]
      BY <2>3, <3>1 DEF NeedXml
    <3>. QED  BY <1>1, <3>1, <3>2 DEF Job
  <2>. QED  BY <2>1, <2>2, <2>3
<1>4. RouteStep(j)
  BY <1>1, <1>3 DEF RouteStep, Rendering, Ends
<1>5. PdfStep(j) /\ XmlStep(j)
  BY <1>1, <1>2, <1>3 DEF PdfStep, XmlStep
<1>6. PaperStep(j)
  BY <1>2, <1>3 DEF PaperStep, Papers
<1>. QED  BY <1>2, <1>3, <1>4, <1>5, <1>6 DEF Shape

LEMMA ShapeName ==
    ASSUME DispatchInv, NEW j \in Jobs, Name(j) \/ Truncate(j) PROVE Shape(j)
<1>1. /\ job[j] \in Job /\ JobOK(j, job[j]) /\ job \in [Jobs -> Job] /\ WorldOK
      /\ job[j].pc \in {"name", "truncate"}
  BY Here DEF Name, Truncate, At, DispatchInv, TypeOK
<1>2. UNCHANGED <<row, version, attached, pdfs>>
  BY DEF Name, Truncate, World, Files
<1>3. ASSUME Goto(j, "rejected") \/ Goto(j, AfterError(j)), xmls' = xmls
      PROVE  Shape(j)
  <2>1. "rejected" \in PCs /\ "rejected" \in Ends /\ "error" \in Ends
    BY DEF PCs, Ends
  <2>. QED  BY <1>1, <1>2, <1>3, <2>1, AfterErrorIs, GotoShape DEF Ends
<1>4. ASSUME NEW asked \in Asked(job[j].op), job[j].pc = "name", xmls' = xmls,
             job' = [job EXCEPT ![j].pc = "convert", ![j].second = clock',
                                ![j].doc = Rendered(Profile(asked))]
      PROVE  Shape(j)
  <2>1. PICK d, c : d = Rendered(Profile(asked)) /\ c = clock'
    OBVIOUS
  <2>2. d.version = version /\ d.refers = attached /\ d.carries = FALSE
    BY <2>1 DEF Rendered
  <2>3. /\ \A k \in Jobs \ {j} : job'[k] = job[k]
        /\ job'[j].pc = "convert" /\ job'[j].op = job[j].op /\ job'[j].doc = d
        /\ job'[j].mem = job[j].mem /\ job'[j].back = job[j].back
    <3>1. job' = [job EXCEPT ![j].pc = "convert", ![j].second = c, ![j].doc = d]
      BY <1>4, <2>1
    <3>. QED  BY <1>1, <3>1 DEF Job
  <2>4. RouteStep(j)
    BY <1>1, <1>4, <2>2, <2>3 DEF RouteStep, Rendering, Ends
  <2>5. PdfStep(j) /\ XmlStep(j)
    BY <1>2, <1>4, <2>3 DEF PdfStep, XmlStep
  <2>6. PaperStep(j)
    BY <1>2, <2>3 DEF PaperStep, Papers
  <2>. QED  BY <1>2, <2>3, <2>4, <2>5, <2>6 DEF Shape
<1>5. ASSUME NEW asked \in Asked(job[j].op), job[j].pc = "truncate",
             xmls' = [xmls EXCEPT ![Fixed] = NoDoc],
             job' = [job EXCEPT ![j].pc = "write_fixed",
                                ![j].doc = Rendered(Profile(asked))]
      PROVE  Shape(j)
  <2>1. PICK d : d = Rendered(Profile(asked))
    OBVIOUS
  <2>2. /\ \A k \in Jobs \ {j} : job'[k] = job[k]
        /\ job'[j].pc = "write_fixed" /\ job'[j].op = job[j].op
        /\ job'[j].mem = job[j].mem /\ job'[j].back = job[j].back
        /\ job'[j].second = job[j].second
    <3>1. job' = [job EXCEPT ![j].pc = "write_fixed", ![j].doc = d]
      BY <1>5, <2>1
    <3>. QED  BY <1>1, <3>1 DEF Job
  <2>3. RouteStep(j)
    BY <1>1, <1>5, <2>2 DEF RouteStep, Rendering, Ends
  <2>4. PdfStep(j)
    BY <1>2, <1>5, <2>2 DEF PdfStep
  <2>5. XmlStep(j)
    <3>1. NoDoc # None
      BY BlankType
    <3>2. xmls \in [Names -> Doc \cup {None}] /\ Fixed \in Names
      BY <1>1 DEF WorldOK, Names
    <3>. QED  BY <1>5, <2>2, <3>1, <3>2 DEF XmlStep
  <2>6. PaperStep(j)
    BY <1>2, <2>2 DEF PaperStep, Papers
  <2>. QED  BY <1>2, <2>2, <2>3, <2>4, <2>5, <2>6 DEF Shape
<1>6. CASE Name(j)
  <2>1. job[j].pc = "name" /\ xmls' = xmls
    BY <1>6 DEF Name, At, Files
  <2>. QED  BY <1>3, <1>4, <1>6, <2>1 DEF Name
<1>7. CASE Truncate(j)
  <2>1. job[j].pc = "truncate"
    BY <1>7 DEF Truncate, At
  <2>. QED  BY <1>3, <1>5, <1>7, <2>1 DEF Truncate
<1>. QED  BY <1>6, <1>7

\* The steps that write files.
LEMMA ShapeFiles ==
    ASSUME DispatchInv, NEW j \in Jobs,
           Convert(j) \/ WriteXml(j) \/ Embed(j) \/ EmbedFiles(j) \/ WriteFixed(j),
           "unreadable" \notin Faults
    PROVE  Shape(j)
<1>1. /\ job[j] \in Job /\ JobOK(j, job[j]) /\ WorldOK
      /\ job[j].pc \in {"convert", "write_xml", "embed", "embed_files", "write_fixed"}
  BY Here DEF Convert, WriteXml, Embed, EmbedFiles, WriteFixed, At
<1>2. UNCHANGED <<row, version, attached>>
  BY DEF Convert, WriteXml, Embed, EmbedFiles, WriteFixed, World
<1>3. FileOf(j) = job[j].second
  BY DEF FileOf, FileName
<1>4. {"write_xml", "embed", "embed_files", "save_files", "save_xml"} \subseteq PCs
  BY DEF PCs
<1>5. ASSUME NEW pc \in {"write_xml", "embed", "embed_files", "save_files", "save_xml"},
             Goto(j, pc), pc = "save_xml" \/ job[j].pc # "write_fixed",
             PdfStep(j) /\ XmlStep(j)
      PROVE  Shape(j)
  <2>1. /\ \A k \in Jobs \ {j} : job'[k] = job[k]
        /\ job'[j].pc = pc /\ job'[j].op = job[j].op
        /\ job'[j].second = job[j].second
        /\ job'[j].back = job[j].back
        /\ Papers(job'[j].mem) \in {Papers(job[j].mem), NoPapers}
    BY <1>4, <1>5, GotoPapers DEF Ends
  <2>2. RouteStep(j)
    BY <1>1, <1>5, <2>1 DEF RouteStep, Rendering, Ends
  <2>3. PaperStep(j)
    BY <1>2, <2>1 DEF PaperStep
  <2>. QED  BY <1>2, <1>5, <2>1, <2>2, <2>3 DEF Shape
<1>6. ASSUME Goto(j, AfterError(j)), UNCHANGED <<pdfs, xmls>>,
             job[j].pc \in {"embed", "embed_files"} => pdfs[job[j].second] = None,
             job[j].pc # "write_xml"
      PROVE  Shape(j)
  <2>1. job[j].pc \notin Ends /\ "error" \in Ends
    BY <1>1 DEF Ends
  <2>2. Goto(j, "load") \/ Goto(j, "error")
    BY <1>6, AfterErrorIs
  <2>3. {"load", "error"} \subseteq PCs
    BY DEF PCs, Ends
  <2>. QED  BY <1>1, <1>2, <1>6, <2>1, <2>2, <2>3, GotoShape
<1>7. CASE Convert(j) /\ ~Goto(j, AfterError(j))
  <2>1. /\ job[j].pc = "convert" /\ Goto(j, "write_xml") /\ xmls' = xmls
        /\ pdfs' = [pdfs EXCEPT ![job[j].second] = [job[j].doc EXCEPT !.whole = FALSE]]
    BY <1>3, <1>7 DEF Convert, At
  <2>2. job'[j].pc = "write_xml"
    BY <1>4, <2>1, GotoPapers
  <2>3. PdfStep(j) /\ XmlStep(j)
    BY <2>1, <2>2 DEF PdfStep, XmlStep
  <2>. QED  BY <1>5, <2>1, <2>3
<1>8. CASE WriteXml(j)
  <2>1. /\ job[j].pc = "write_xml" /\ Goto(j, "embed") /\ pdfs' = pdfs
        /\ xmls' = [xmls EXCEPT ![job[j].second] = job[j].doc]
    BY <1>3, <1>8 DEF WriteXml, At
  <2>2. job'[j].pc = "embed"
    BY <1>4, <2>1, GotoPapers
  <2>3. job[j].second \in Names /\ job[j].doc # None
    BY <1>1, <2>1 DEF JobOK, Rendering, Names, Job
  <2>4. XmlStep(j)
    BY <1>1, <2>1, <2>2, <2>3 DEF XmlStep, WorldOK
  <2>5. PdfStep(j)
    BY <2>1, <2>2 DEF PdfStep
  <2>. QED  BY <1>5, <2>1, <2>4, <2>5
<1>9. CASE Embed(j)
  <2>1. job[j].pc = "embed" /\ xmls' = xmls
    BY <1>9 DEF Embed, At
  <2>2. CASE pdfs[job[j].second] = None
    BY <1>3, <1>6, <1>9, <2>1, <2>2 DEF Embed
  <2>3. CASE pdfs[job[j].second] # None
    <3>1. /\ Goto(j, "embed_files")
          /\ pdfs' = [pdfs EXCEPT ![job[j].second].whole = TRUE]
      BY <1>3, <1>9, <2>3 DEF Embed
    <3>2. job'[j].pc = "embed_files"
      BY <1>4, <3>1, GotoPapers
    <3>3. PdfStep(j) /\ XmlStep(j)
      BY <2>1, <2>3, <3>1, <3>2 DEF PdfStep, XmlStep
    <3>. QED  BY <1>5, <2>1, <3>1, <3>3
  <2>. QED  BY <2>2, <2>3
<1>10. CASE EmbedFiles(j)
  <2>1. job[j].pc = "embed_files" /\ xmls' = xmls
    BY <1>10 DEF EmbedFiles, At
  <2>2. CASE attached /\ pdfs[job[j].second] = None
    BY <1>3, <1>6, <1>10, <2>1, <2>2 DEF EmbedFiles
  <2>3. CASE ~(attached /\ pdfs[job[j].second] = None)
    <3>1. /\ Goto(j, "save_files")
          /\ pdfs' = IF attached THEN [pdfs EXCEPT ![job[j].second].carries = TRUE]
                     ELSE pdfs
      BY <1>3, <1>10, <2>3 DEF EmbedFiles
    <3>2. job'[j].pc = "save_files"
      BY <1>4, <3>1, GotoPapers
    <3>3. XmlStep(j)
      BY <2>1, <3>2 DEF XmlStep
    <3>4. PdfStep(j)
      BY <2>1, <2>3, <3>1, <3>2 DEF PdfStep
    <3>. QED  BY <1>5, <2>1, <3>1, <3>3, <3>4
  <2>. QED  BY <2>2, <2>3
<1>11. CASE WriteFixed(j)
  <2>1. /\ job[j].pc = "write_fixed" /\ Goto(j, "save_xml") /\ pdfs' = pdfs
        /\ xmls' = [xmls EXCEPT ![Fixed] = job[j].doc]
    BY <1>11 DEF WriteFixed, At
  <2>2. job'[j].pc = "save_xml"
    BY <1>4, <2>1, GotoPapers
  <2>3. job[j].doc # None /\ Fixed \in Names
    BY <1>1 DEF Job, Names
  <2>4. XmlStep(j)
    BY <1>1, <2>1, <2>2, <2>3 DEF XmlStep, WorldOK
  <2>5. PdfStep(j)
    BY <2>1, <2>2 DEF PdfStep
  <2>. QED  BY <1>5, <2>1, <2>4, <2>5
<1>12. CASE Convert(j) /\ Goto(j, AfterError(j))
  <2>1. job[j].pc = "convert" /\ xmls' = xmls
    BY <1>12 DEF Convert, At
  <2>2. CASE pdfs' = pdfs
    BY <1>6, <1>12, <2>1, <2>2
  <2>3. CASE pdfs' # pdfs
    <3>1. Goto(j, "write_xml")
      BY <1>12, <2>3 DEF Convert
    <3>2. job'[j].pc = "write_xml" /\ job'[j].pc = AfterError(j)
      BY <1>4, <1>12, <3>1, AfterErrorIs, GotoPapers
    <3>. QED  BY <3>2, AfterErrorIs
  <2>. QED  BY <2>2, <2>3
<1>. QED  BY <1>7, <1>8, <1>9, <1>10, <1>11, <1>12

\* save() of the whole instance.
LEMMA SaveRowPapers ==
    ASSUME DispatchInv, NEW j \in Jobs, NEW m \in Row, NEW next \in PCs,
           SaveRow(j, m, next)
    PROVE  \/ Goto(j, AfterError(j)) /\ row' = row
           \/ /\ Papers(row') = Papers(m)
              /\ \A k \in Jobs \ {j} : job'[k] = job[k]
              /\ job'[j].pc = next /\ job'[j].op = job[j].op
              /\ job'[j].second = job[j].second
              /\ next \notin Ends => job'[j].back = job[j].back
              /\ \/ Papers(job'[j].mem) = Papers(row')
                 \/ next \in Ends /\ Papers(job'[j].mem) = NoPapers
<1>1. Papers(Locking(m)) = Papers(m)
  BY DEF Papers, Locking, Row
<1>2. CASE Refused(m)
  BY <1>2 DEF SaveRow
<1>3. CASE ~Refused(m) /\ next \in Ends
  <2>1. row' = Locking(m) /\ Goto(j, next)
    BY <1>3 DEF SaveRow
  <2>2. job' = [job EXCEPT ![j] = GotoRow(j, next)] /\ job \in [Jobs -> Job]
    BY <2>1, GotoIs DEF DispatchInv, TypeOK
  <2>3. Papers(GotoRow(j, next).mem) = NoPapers
    BY <1>3 DEF GotoRow, Blank, Papers, NoPapers, Draft
  <2>. QED  BY <1>1, <1>3, <2>1, <2>2, <2>3, GotoPapers
<1>4. CASE ~Refused(m) /\ next \notin Ends
  <2>1. /\ row' = Locking(m)
        /\ job' = [job EXCEPT ![j].pc = next, ![j].mem = Locking(m)]
    BY <1>4 DEF SaveRow
  <2>2. job \in [Jobs -> Job]
    BY DEF DispatchInv, TypeOK
  <2>. QED  BY <1>1, <1>4, <2>1, <2>2 DEF Job
<1>. QED  BY <1>2, <1>3, <1>4

LEMMA ShapeSave ==
    ASSUME DispatchInv, NEW j \in Jobs,
           Mark(j) \/ Issue(j) \/ SaveFiles(j) \/ SaveXml(j)
    PROVE  Shape(j)
<1>1. /\ job[j] \in Job /\ JobOK(j, job[j])
      /\ job[j].pc \in {"mark", "issue", "save_files", "save_xml"}
  BY Here DEF Mark, Issue, SaveFiles, SaveXml, At
<1>2. UNCHANGED <<version, attached, pdfs, xmls>>
  BY DEF Mark, Issue, SaveFiles, SaveXml, World, Files
<1>3. CASE Goto(j, AfterError(j)) /\ row' = row
  <2>1. job[j].pc \notin Ends /\ "error" \in Ends
    BY <1>1 DEF Ends
  <2>2. Goto(j, "load") \/ Goto(j, "error")
    BY <1>3, AfterErrorIs
  <2>3. {"load", "error"} \subseteq PCs
    BY DEF PCs, Ends
  <2>. QED  BY <1>1, <1>2, <1>3, <2>1, <2>2, <2>3, GotoShape
<1>4. ASSUME NEW m \in Row,
             \/ job[j].pc # "save_files" /\ Papers(m) = Papers(job[j].mem)
             \/ job[j].pc = "save_xml" /\ Papers(m) = <<job[j].mem.pdf, Fixed>>
             \/ /\ job[j].pc = "save_files"
                /\ Papers(m) = <<job[j].second, job[j].second>>,
             NEW next \in {"ok", "serve", "refresh"}, SaveRow(j, m, next),
             next = "refresh" => job[j].pc \in {"issue", "save_files"},
             next = "serve" => job[j].pc = "save_files"
      PROVE  Shape(j)
  <2>1. next \in PCs /\ "ok" \in Ends
    BY DEF PCs, Ends
  <2> SUFFICES ASSUME ~(Goto(j, AfterError(j)) /\ row' = row)
               PROVE  Shape(j)
    BY <1>3
  <2>2. /\ Papers(row') = Papers(m)
        /\ \A k \in Jobs \ {j} : job'[k] = job[k]
        /\ job'[j].pc = next /\ job'[j].op = job[j].op
        /\ job'[j].second = job[j].second
        /\ next \notin Ends => job'[j].back = job[j].back
        /\ Papers(job'[j].mem) \in {Papers(row'), NoPapers}
    BY <1>4, <2>1, SaveRowPapers
  <2>3. job[j].pc = "save_files" => row'.xml = job[j].second
    BY <1>4, <2>2 DEF Papers
  <2>4. PaperStep(j)
    BY <1>1, <1>4, <2>1, <2>2 DEF PaperStep, Ends
  <2>5. PdfStep(j) /\ XmlStep(j)
    BY <1>1, <1>2, <1>4, <2>2 DEF PdfStep, XmlStep
  <2>6. RouteStep(j)
    BY <1>1, <1>4, <2>1, <2>2, <2>3 DEF RouteStep, Rendering, Ends
  <2>. QED  BY <1>2, <2>2, <2>4, <2>5, <2>6 DEF Shape
<1>5. job[j].mem \in Row
  BY <1>1 DEF Job
<1>6. CASE Mark(j) \/ Issue(j)
  <2>0. job[j].pc # "save_files"
    BY <1>6 DEF Mark, Issue, At
  <2>1. PICK status \in {"SENT", "PAID"}, next \in {"ok", "refresh"} :
          /\ SaveRow(j, [job[j].mem EXCEPT !.status = status], next)
          /\ next = "refresh" => job[j].pc = "issue"
    BY <1>6 DEF Mark, Issue, At
  <2>2. /\ [job[j].mem EXCEPT !.status = status] \in Row
        /\ Papers([job[j].mem EXCEPT !.status = status]) = Papers(job[j].mem)
    BY <1>5 DEF Row, Papers
  <2>. QED  BY <1>4, <2>0, <2>1, <2>2
<1>7. CASE SaveXml(j)
  <2> DEFINE m == [job[j].mem EXCEPT !.xml = Fixed]
  <2>1. SaveRow(j, m, "ok") /\ job[j].pc = "save_xml"
    BY <1>7 DEF SaveXml, At
  <2>2. m \in Row /\ Papers(m) = <<job[j].mem.pdf, Fixed>>
    BY <1>5 DEF Row, Papers, Names
  <2> HIDE DEF m
  <2>. QED  BY <1>4, <2>1, <2>2
<1>8. CASE SaveFiles(j)
  <2> DEFINE m    == [job[j].mem EXCEPT !.pdf = FileOf(j), !.xml = FileOf(j)]
             next == IF job[j].op \in Sends THEN "refresh" ELSE job[j].back
  <2>1. SaveRow(j, m, next) /\ job[j].pc = "save_files"
    BY <1>8 DEF SaveFiles, At
  <2>2. FileOf(j) = job[j].second /\ job[j].second \in Seconds
    BY <1>1, <2>1 DEF FileOf, FileName, JobOK, Rendering
  <2>3. m \in Row /\ Papers(m) = <<job[j].second, job[j].second>>
    BY <1>5, <2>2 DEF Row, Papers, Names
  <2>4. next \in {"refresh", "serve", "ok"}
    BY <1>1, <2>1 DEF Job, JobOK, Ends
  <2> HIDE DEF m, next
  <2>. QED  BY <1>4, <2>1, <2>3, <2>4
<1>. QED  BY <1>6, <1>7, <1>8

LEMMA ShapeSend ==
    ASSUME DispatchInv, NEW j \in Jobs,
           \/ Switch(j) \/ Attach(j) \/ Deliver(j) \/ Record(j) \/ Log(j)
           \/ RecordB2G(j) \/ Serve(j) \/ Crash(j)
    PROVE  Shape(j)
<1>1. /\ job[j] \in Job /\ JobOK(j, job[j]) /\ job \in [Jobs -> Job] /\ row \in Row
  BY Here DEF DispatchInv, TypeOK
<1>2. UNCHANGED <<version, attached, pdfs, xmls>>
  BY DEF Switch, Attach, Deliver, Record, Log, RecordB2G, Serve, Crash, World, Files
<1>3. /\ {"ok", "rejected", "unavailable", "error", "crashed"} \subseteq Ends
      /\ {"load", "need_xml", "record", "log", "record_b2g", "need_pdf"} \cup Ends
           \subseteq PCs
  BY DEF PCs, Ends
<1>4. CASE Switch(j) \/ Deliver(j) \/ Log(j) \/ Serve(j) \/ Crash(j)
  <2>1. row' = row
    BY <1>4 DEF Switch, Deliver, Log, Serve, Crash
  <2>2. CASE Switch(j)
    <3>1. job[j].pc = "switch" /\ job[j].pc \notin Ends
      BY <2>2 DEF Switch, At, Ends
    <3>2. \/ Goto(j, "unavailable")
          \/ Goto(j, "need_xml")
          \/ Goto(j, "need_pdf") /\ job[j].op # "send_xrechnung"
      BY <2>2 DEF Switch
    <3>. QED  BY <1>2, <1>3, <2>1, <3>1, <3>2, GotoShape
  <2>3. CASE Deliver(j) \/ Log(j) \/ Serve(j)
    <3>1. job[j].pc \in {"deliver", "log", "serve"} /\ job[j].pc \notin Ends
      BY <2>3 DEF Deliver, Log, Serve, At, Ends
    <3>2. \/ \E pc \in Ends : Goto(j, pc)
          \/ Goto(j, "record") \/ Goto(j, "record_b2g")
      BY <1>3, <2>3 DEF Deliver, Log, Serve, AfterLog, AfterFailure
    <3>3. "idle" \notin Ends
      BY DEF Ends
    <3>. QED  BY <1>2, <1>3, <2>1, <3>1, <3>2, <3>3, GotoShape
  <2>4. CASE Crash(j)
    <3>1. job[j].pc \notin Ends \cup {"idle"} /\ Goto(j, "crashed")
      BY <2>4 DEF Crash
    <3>. QED  BY <1>2, <1>3, <2>1, <3>1, GotoShape
  <2>. QED  BY <1>4, <2>2, <2>3, <2>4
<1>5. CASE Record(j) \/ RecordB2G(j)
  <2>1. job[j].pc \in {"record", "record_b2g"} /\ job[j].pc \notin Ends
    BY <1>5 DEF Record, RecordB2G, At, Ends
  <2>2. PICK pc \in {"log", "ok", "error"} : Goto(j, pc)
    BY <1>5 DEF Record, RecordB2G, SaveColumn
  <2>3. Papers(row') = Papers(row)
    BY <1>1, <1>5 DEF Record, RecordB2G, SaveColumn, Papers, Row
  <2>4. /\ \A k \in Jobs \ {j} : job'[k] = job[k]
        /\ job'[j].pc = pc /\ job'[j].op = job[j].op
        /\ job'[j].second = job[j].second
        /\ pc \notin Ends => job'[j].back = job[j].back
        /\ Papers(job'[j].mem) \in {Papers(job[j].mem), NoPapers}
    BY <1>3, <2>2, GotoPapers
  <2>5. RouteStep(j)
    BY <1>3, <2>1, <2>4 DEF RouteStep, Rendering
  <2>6. PdfStep(j) /\ XmlStep(j)
    BY <1>2, <2>1, <2>4 DEF PdfStep, XmlStep
  <2>7. PaperStep(j)
    BY <2>3, <2>4 DEF PaperStep
  <2>. QED  BY <1>2, <2>4, <2>5, <2>6, <2>7 DEF Shape
<1>6. CASE Attach(j)
  <2>1. job[j].pc = "attach" /\ job[j].pc \notin Ends /\ row' = row
    BY <1>6 DEF Attach, At, Ends
  <2>2. CASE Goto(j, "error")
    BY <1>2, <1>3, <2>1, <2>2, GotoShape
  <2>3. CASE ~Goto(j, "error")
    <3>1. PICK pdf, xml :
            job' = [job EXCEPT ![j].pc = "deliver", ![j].pdf = pdf, ![j].xml = xml]
      BY <1>6, <2>3 DEF Attach
    <3>2. /\ \A k \in Jobs \ {j} : job'[k] = job[k]
          /\ job'[j].pc = "deliver" /\ job'[j].op = job[j].op
          /\ job'[j].second = job[j].second /\ job'[j].back = job[j].back
          /\ job'[j].mem = job[j].mem
      BY <1>1, <3>1 DEF Job
    <3>3. RouteStep(j)
      BY <2>1, <3>2 DEF RouteStep, Rendering
    <3>4. PdfStep(j) /\ XmlStep(j)
      BY <1>2, <2>1, <3>2 DEF PdfStep, XmlStep
    <3>5. PaperStep(j)
      BY <2>1, <3>2 DEF PaperStep
    <3>. QED  BY <1>2, <3>2, <3>3, <3>4, <3>5 DEF Shape
  <2>. QED  BY <2>2, <2>3
<1>. QED  BY <1>4, <1>5, <1>6

StepOf(j) == (\E op \in OpsOf[j] : Start(j, op)) \/ Step(j) \/ Crash(j)
Around    == ChangeLine \/ ChangeCharge \/ ChangeAttachment \/ AcquireEditLock

LEMMA ShapeOf ==
    ASSUME DispatchInv, NEW j \in Jobs, StepOf(j), "unreadable" \notin Faults
    PROVE  Shape(j)
<1>1. CASE Step(j)
  BY <1>1, ShapeLoad, ShapeNeed, ShapeName, ShapeFiles, ShapeSave, ShapeSend DEF Step
<1>. QED  BY <1>1, ShapeStart, ShapeSend DEF StepOf

-----------------------------------------------------------------------------
(* What is known of files and instances.                                   *)

\* A PDF is named together with an XML file, and no XML file goes away.
InstOK(m) == /\ m.xml = None => m.pdf = None
             /\ m.xml # None => xmls[m.xml] # None

\* A PDF of the present version refers to the attachment there is, if any, and
\* carries no other.
DocOK(d) == /\ d.version <= version
            /\ d.version = version => d.refers = attached /\ (d.carries => attached)

PathOK(j, r) ==
    /\ InstOK(r.mem)
    /\ r.pc # "idle" => r.op \in OpsOf[j]
    /\ r.pc = "issue" => r.back = "switch"
    /\ r.pc \in Rendering \cup {"name"} => r.back # "switch"
    /\ r.pc \notin {"idle", "load"} \cup Ends /\ r.back = "need_xml" =>
           r.op \in {"send_email", "send_email_xml"}
    /\ r.pc = "need_pdf" => r.op # "send_xrechnung"
    /\ r.pc \in {"write_fixed", "save_xml"} => xmls[Fixed] # None
    /\ r.pc \in {"embed", "embed_files", "save_files"} => xmls[r.second] # None
    /\ r.pc = "convert" => DocOK(r.doc) /\ r.doc.carries = FALSE

FileInv ==
    /\ DispatchInv
    /\ InstOK(row)
    /\ \A s \in Seconds : pdfs[s] # None => DocOK(pdfs[s])
    /\ \A j \in Jobs : PathOK(j, job[j])

LEMMA FileInit == Init => FileInv
<1> SUFFICES ASSUME Init PROVE FileInv
  OBVIOUS
<1>1. DispatchInv
  BY DispatchInit
<1>2. InstOK(row) /\ InstOK(Blank.mem)
  BY DEF Init, InstOK, Draft, Blank
<1>3. \A j \in Jobs : PathOK(j, Blank)
  BY <1>2 DEF PathOK, Blank, Rendering
<1>. QED  BY <1>1, <1>2, <1>3 DEF Init, FileInv

LEMMA FileStepOf ==
    ASSUME FileInv, DispatchInv', NEW j \in Jobs, Shape(j)
    PROVE  FileInv'
<1>1. /\ \A k \in Jobs \ {j} : job'[k] = job[k]
      /\ UNCHANGED <<version, attached>>
      /\ RouteStep(j) /\ PdfStep(j) /\ XmlStep(j) /\ PaperStep(j)
  BY DEF Shape
<1>2. \A x \in Names : xmls[x] # None => xmls'[x] # None
  BY <1>1 DEF XmlStep
<1>3. /\ WorldOK /\ WorldOK' /\ \A k \in Jobs : job[k] \in Job /\ job'[k] \in Job
      /\ \A k \in Jobs : job[k].mem \in Row /\ job'[k].mem \in Row
  BY DEF FileInv, DispatchInv, TypeOK, WorldOK, Job
<1> DEFINE Fine(p) == /\ p[2] = None => p[1] = None
                      /\ p[2] # None => xmls'[p[2]] # None
<1>4. /\ Fine(Papers(row)) /\ Fine(Papers(job[j].mem)) /\ Fine(NoPapers)
      /\ job[j].pc = "save_xml" => Fine(<<job[j].mem.pdf, Fixed>>)
      /\ job[j].pc = "save_files" => Fine(<<job[j].second, job[j].second>>)
  <2>1. /\ InstOK(row) /\ row.xml \in Names \cup {None}
        /\ InstOK(job[j].mem) /\ job[j].mem.xml \in Names \cup {None}
    BY <1>3 DEF FileInv, PathOK, WorldOK, Row
  <2>2. Fine(Papers(row)) /\ Fine(Papers(job[j].mem)) /\ Fine(NoPapers)
    BY <1>2, <2>1 DEF InstOK, Papers, NoPapers
  <2>3. job[j].pc = "save_xml" => xmls[Fixed] # None /\ Fixed \in Names
    BY DEF FileInv, PathOK, Names
  <2>4. job[j].pc = "save_files" =>
          xmls[job[j].second] # None /\ job[j].second \in Names
    BY DEF FileInv, PathOK, DispatchInv, JobOK, Rendering, Names
  <2>. QED  BY <1>2, <2>2, <2>3, <2>4, NoneApart
<1>5. Fine(Papers(row')) /\ Fine(Papers(job'[j].mem))
  <2> HIDE DEF Fine
  <2>. QED  BY <1>1, <1>4 DEF PaperStep
<1>6. InstOK(row)' /\ InstOK(job[j].mem)'
  BY <1>5 DEF InstOK, Papers
<1> HIDE DEF Fine
<1>7. ASSUME NEW s \in Seconds, pdfs'[s] # None PROVE DocOK(pdfs[s])'
  <2>1. pdfs[s] # None => DocOK(pdfs[s])
    BY DEF FileInv
  <2>2. pdfs[s] # None => pdfs[s] \in Doc
    BY <1>3 DEF WorldOK
  <2>3. CASE pdfs' = pdfs \/ s # job[j].second
    <3>1. pdfs'[s] = pdfs[s]
      BY <1>1, <1>3, <2>3 DEF PdfStep, WorldOK
    <3>. QED  BY <1>1, <1>7, <2>1, <3>1 DEF DocOK
  <2>4. CASE pdfs' # pdfs /\ s = job[j].second
    <3>1. CASE job[j].pc = "convert"
      <4>1. pdfs'[s] = [job[j].doc EXCEPT !.whole = FALSE]
        BY <1>1, <1>3, <2>4, <3>1 DEF PdfStep, WorldOK
      <4>2. DocOK(job[j].doc) /\ job[j].doc.carries = FALSE /\ job[j].doc \in Doc
        BY <1>3, <3>1 DEF FileInv, PathOK, Job
      <4>. QED  BY <1>1, <4>1, <4>2 DEF DocOK, Doc
    <3>2. CASE job[j].pc = "embed"
      <4>1. pdfs'[s] = [pdfs[s] EXCEPT !.whole = TRUE] /\ pdfs[s] # None
        BY <1>1, <1>3, <2>4, <3>2 DEF PdfStep, WorldOK
      <4>. QED  BY <1>1, <2>1, <2>2, <4>1 DEF DocOK, Doc
    <3>3. CASE job[j].pc = "embed_files"
      <4>1. /\ pdfs'[s] = [pdfs[s] EXCEPT !.carries = TRUE] /\ pdfs[s] # None
            /\ attached
        BY <1>1, <1>3, <2>4, <3>3 DEF PdfStep, WorldOK
      <4>. QED  BY <1>1, <2>1, <2>2, <4>1 DEF DocOK, Doc
    <3>. QED  BY <1>1, <2>4, <3>1, <3>2, <3>3 DEF PdfStep
  <2>. QED  BY <2>3, <2>4
<1>8. PathOK(j, job[j])'
  <2>1. PathOK(j, job[j]) /\ JobOK(j, job[j]) /\ JobOK(j, job[j])'
    BY DEF FileInv, DispatchInv
  <2>2. job'[j].pc # "idle" => job'[j].op \in OpsOf[j]
    BY <1>1, <2>1 DEF RouteStep, PathOK
  <2>3. job'[j].pc = "issue" => job'[j].back = "switch"
    BY <1>1 DEF RouteStep
  <2>4. job'[j].pc \in Rendering \cup {"name"} => job'[j].back # "switch"
    BY <1>1, <2>1 DEF RouteStep, PathOK
  <2>5. job'[j].pc \notin {"idle", "load"} \cup Ends /\ job'[j].back = "need_xml" =>
           job'[j].op \in {"send_email", "send_email_xml"}
    BY <1>1, <2>1 DEF RouteStep, PathOK, JobOK, Ends, Sends
  <2>6. job'[j].pc = "need_pdf" => job'[j].op # "send_xrechnung"
    BY <1>1, <2>1 DEF RouteStep
  <2>7. job'[j].pc \in {"write_fixed", "save_xml"} => xmls'[Fixed] # None
    BY <1>1 DEF XmlStep
  <2>8. job'[j].pc \in {"embed", "embed_files", "save_files"} =>
           xmls'[job'[j].second] # None
    <3> SUFFICES ASSUME job'[j].pc \in {"embed", "embed_files", "save_files"}
                 PROVE  xmls'[job'[j].second] # None
      OBVIOUS
    <3>1. job'[j].second = job[j].second
      BY <1>1 DEF RouteStep
    <3>2. CASE job'[j].pc = "embed"
      BY <1>1, <3>1, <3>2 DEF XmlStep
    <3>3. CASE job'[j].pc # "embed"
      <4>1. job[j].pc \in {"embed", "embed_files"}
        BY <1>1, <3>3 DEF XmlStep
      <4>2. xmls[job[j].second] # None /\ job[j].second \in Names
        BY <2>1, <4>1 DEF PathOK, JobOK, Rendering, Names
      <4>. QED  BY <1>2, <3>1, <4>2
    <3>. QED  BY <3>2, <3>3
  <2>9. job'[j].pc = "convert" => DocOK(job[j].doc)' /\ job'[j].doc.carries = FALSE
    BY <1>1, <1>3 DEF RouteStep, DocOK, WorldOK, Versions
  <2>. QED  BY <1>6, <2>2, <2>3, <2>4, <2>5, <2>6, <2>7, <2>8, <2>9 DEF PathOK
<1>9. ASSUME NEW k \in Jobs, k # j PROVE PathOK(k, job[k])'
  <2>1. PathOK(k, job[k]) /\ JobOK(k, job[k]) /\ job'[k] = job[k]
    BY <1>1, <1>9 DEF FileInv, DispatchInv
  <2>2. /\ job[k].mem.xml \in Names \cup {None} /\ Fixed \in Names
        /\ job[k].pc \in Rendering => job[k].second \in Names
    BY <1>3, <2>1 DEF Row, JobOK, Names
  <2>3. InstOK(job[k].mem)'
    BY <1>2, <2>1, <2>2 DEF PathOK, InstOK
  <2>4. job[k].pc = "convert" => DocOK(job[k].doc)'
    BY <1>1, <2>1 DEF PathOK, DocOK
  <2>5. /\ job[k].pc \in {"write_fixed", "save_xml"} => xmls'[Fixed] # None
        /\ job[k].pc \in {"embed", "embed_files", "save_files"} =>
             xmls'[job[k].second] # None
    BY <1>2, <2>1, <2>2 DEF PathOK, Rendering
  <2>. QED  BY <2>1, <2>3, <2>4, <2>5 DEF PathOK
<1>. QED  BY <1>6, <1>7, <1>8, <1>9 DEF FileInv

LEMMA FileAround ==
    ASSUME FileInv, DispatchInv', Around
    PROVE  FileInv'
<1>1. /\ xmls' = xmls /\ job' = job
      /\ \/ version' = version + 1 /\ attached' \in BOOLEAN
         \/ version' = version /\ attached' = attached
  BY DEF FileInv, DispatchInv, TypeOK, Around, ChangeLine, ChangeCharge,
     ChangeAttachment, AcquireEditLock, Files, World
<1>2. /\ \A s \in Seconds : pdfs'[s] \in {pdfs[s], None}
      /\ row'.xml = row.xml /\ row'.pdf \in {row.pdf, None}
  BY DEF FileInv, DispatchInv, TypeOK, Row, Around, ChangeLine, ChangeCharge,
     ChangeAttachment, AcquireEditLock, Files
<1>3. InstOK(row)'
  BY <1>1, <1>2 DEF FileInv, InstOK
<1>4. ASSUME NEW d \in Doc, DocOK(d) PROVE DocOK(d)'
  <2>1. version \in Nat /\ d.version \in Nat
    BY DEF FileInv, DispatchInv, TypeOK, Doc, Versions
  <2>. QED  BY <1>1, <1>4, <2>1 DEF DocOK
<1>5. ASSUME NEW s \in Seconds, pdfs'[s] # None PROVE DocOK(pdfs[s])'
  <2>1. pdfs'[s] = pdfs[s] /\ pdfs[s] \in Doc /\ DocOK(pdfs[s])
    BY <1>2, <1>5 DEF FileInv, DispatchInv, TypeOK
  <2>2. PICK d \in Doc : d = pdfs[s]
    BY <2>1
  <2>. QED  BY <1>4, <2>1, <2>2 DEF DocOK
<1>6. ASSUME NEW j \in Jobs PROVE PathOK(j, job[j])'
  <2>1. PathOK(j, job[j]) /\ job[j].doc \in Doc
    BY DEF FileInv, DispatchInv, TypeOK, Job
  <2>2. PICK r : r = job[j]
    OBVIOUS
  <2>3. PathOK(j, r)'
    <3>1. r.pc = "convert" => DocOK(r.doc)'
      BY <1>4, <2>1, <2>2 DEF PathOK
    <3>. QED  BY <1>1, <2>1, <2>2, <3>1 DEF PathOK, InstOK
  <2>. QED  BY <1>1, <2>2, <2>3
<1>. QED  BY <1>3, <1>5, <1>6 DEF FileInv


LEMMA FileStep ==
    ASSUME "unreadable" \notin Faults
    PROVE  FileInv /\ [Next]_vars => FileInv'
<1> SUFFICES ASSUME FileInv, [Next]_vars PROVE FileInv'
  OBVIOUS
<1>1. DispatchInv' /\ DispatchInv
  BY DispatchStep DEF FileInv
<1>2. CASE UNCHANGED vars
  BY <1>1, <1>2 DEF vars, FileInv, InstOK, DocOK, PathOK
<1>3. ASSUME NEW j \in Jobs, StepOf(j) PROVE FileInv'
  BY <1>1, <1>3, ShapeOf, FileStepOf
<1>4. CASE Around
  BY <1>1, <1>4, FileAround
<1>. QED  BY <1>2, <1>3, <1>4 DEF Next, StepOf, Around

-----------------------------------------------------------------------------
(* Who answers for a named PDF.                                            *)

\* The invoice, or an instance somebody may write back, names the PDF s.
Named(s) == row.pdf = s \/ \E j \in Jobs : job[j].mem.pdf = s

\* A job is past its rendering and renders nothing under another name.
Post(j) ==
    LET r == job[j] IN
    \/ r.pc \in Ends \cup {"attach", "deliver", "serve"} \cup Mailing
    \/ r.pc = "refresh" /\ r.back # "switch"
    \/ /\ r.pc = "need_xml" /\ r.back = "need_xml"
       /\ r.op # "send_email_xml" \/ r.mem.xml # None

Half(s) == pdfs[s] # None => pdfs[s].whole
Good(s) == pdfs[s] # None =>
             /\ pdfs[s].whole
             /\ pdfs[s].version = version => pdfs[s].carries = pdfs[s].refers

\* Job k chose the name s, too, and has or may have the PDF in its hands.
Spoils(k, s) ==
    /\ job[k].second = s
    /\ \/ job[k].pc \in Ends \cup {"write_xml", "embed"}
       \/ job[k].pc = "embed_files" /\ pdfs[s] # None /\ pdfs[s].whole

\* As far as j knows.
Clean(j, s) == Good(s) \/ \E k \in Jobs \ {j} : Spoils(k, s)

Progress(j, s) ==
    job[j].second = s =>
        /\ job[j].pc = "embed_files" => Half(s) \/ \E k \in Jobs \ {j} : Spoils(k, s)
        /\ job[j].pc = "save_files" => Clean(j, s)

Answers(i, s) == job[i].second = s /\ Post(i) /\ Clean(i, s)

\* send_email_xml is about to render a second time: somebody's stale save took
\* the names away.
Again(j) == /\ job[j].op = "send_email_xml" /\ job[j].pc = "refresh"
            /\ job[j].back = "need_xml" /\ row.xml = None

RendersOnce == \A j \in Jobs : "send_email_xml" \notin OpsOf[j]
Pair        == \A i, j, k \in Jobs : i = j \/ j = k \/ i = k

NamesInv ==
    /\ FileInv
    /\ \A j \in Jobs, s \in Seconds : Progress(j, s)
    /\ \A s \in Seconds : Named(s) => \E i \in Jobs : Answers(i, s)
    /\ Pair => \A j, k \in Jobs, s \in Seconds :
         j # k /\ Again(j) /\ job[j].second = s /\ job[k].mem.pdf = s => Answers(k, s)

\* A job has begun to render s anew.
Restarted(l, s) == job[l].pc = "convert" /\ Spoils(l, s)'

\* What happened to one PDF.
LEMMA OnePdf ==
    ASSUME FileInv, NEW l \in Jobs, Shape(l), NEW s \in Seconds
    PROVE  /\ Good(s) => Good(s)' \/ Restarted(l, s)
           /\ Half(s) => Half(s)' \/ Restarted(l, s)
           /\ job[l].pc = "embed_files" /\ job'[l].pc = "save_files" =>
                (Half(s) /\ job[l].second = s => Good(s)')
           /\ job'[l].pc = "embed_files" /\ job[l].second = s => Half(s)'
<1>1. /\ PdfStep(l) /\ RouteStep(l) /\ UNCHANGED <<version, attached>>
  BY DEF Shape
<1>2. /\ pdfs \in [Seconds -> Doc \cup {None}] /\ job[l] \in Job
      /\ version \in Versions /\ attached \in BOOLEAN
      /\ pdfs[s] # None => DocOK(pdfs[s]) /\ pdfs[s] \in Doc
  BY DEF FileInv, DispatchInv, TypeOK
<1>3. CASE /\ pdfs' = pdfs
           /\ job'[l].pc \notin {"write_xml", "embed_files"}
           /\ job'[l].pc = "save_files" => ~attached
  <2>1. (Good(s) => Good(s)') /\ (Half(s) => Half(s)')
    BY <1>1, <1>3 DEF Good, Half
  <2>2. job'[l].pc = "save_files" => (Half(s) => Good(s)')
    BY <1>1, <1>2, <1>3 DEF Half, Good, DocOK, Doc
  <2>. QED  BY <1>3, <2>1, <2>2
<1>4. CASE /\ job[l].pc = "convert" /\ job'[l].pc = "write_xml"
           /\ pdfs' = [pdfs EXCEPT ![job[l].second] = [job[l].doc EXCEPT !.whole = FALSE]]
  <2>1. CASE job[l].second = s
    <3>1. job'[l].second = s
      BY <1>1, <1>4, <2>1 DEF RouteStep
    <3>2. Restarted(l, s)
      BY <1>4, <3>1 DEF Restarted, Spoils
    <3>. QED  BY <1>4, <3>2
  <2>2. CASE job[l].second # s
    <3>1. pdfs'[s] = pdfs[s]
      BY <1>2, <1>4, <2>2
    <3>. QED  BY <1>1, <1>4, <3>1 DEF Good, Half
  <2>. QED  BY <2>1, <2>2
<1>5. CASE /\ job[l].pc = "embed" /\ job'[l].pc = "embed_files"
           /\ pdfs[job[l].second] # None
           /\ pdfs' = [pdfs EXCEPT ![job[l].second].whole = TRUE]
  <2>1. CASE job[l].second = s
    <3>1. pdfs'[s] = [pdfs[s] EXCEPT !.whole = TRUE] /\ pdfs[s] # None
      BY <1>2, <1>5, <2>1
    <3>2. PICK d \in Doc : d = pdfs[s]
      BY <1>2, <3>1
    <3>3. /\ pdfs'[s].whole /\ pdfs'[s].version = d.version
          /\ pdfs'[s].carries = d.carries /\ pdfs'[s].refers = d.refers
      BY <3>1, <3>2 DEF Doc
    <3>. QED  BY <1>1, <1>5, <3>1, <3>2, <3>3 DEF Good, Half
  <2>2. CASE job[l].second # s
    <3>1. pdfs'[s] = pdfs[s]
      BY <1>2, <1>5, <2>2
    <3>. QED  BY <1>1, <1>5, <2>2, <3>1 DEF Good, Half
  <2>. QED  BY <2>1, <2>2
<1>6. CASE /\ job[l].pc = "embed_files" /\ job'[l].pc = "save_files"
           /\ pdfs[job[l].second] # None /\ attached
           /\ pdfs' = [pdfs EXCEPT ![job[l].second].carries = TRUE]
  <2>1. CASE job[l].second = s
    <3>1. pdfs'[s] = [pdfs[s] EXCEPT !.carries = TRUE] /\ pdfs[s] # None
      BY <1>2, <1>6, <2>1
    <3>2. PICK d \in Doc : d = pdfs[s]
      BY <1>2, <3>1
    <3>3. /\ pdfs'[s].whole = d.whole /\ pdfs'[s].version = d.version
          /\ pdfs'[s].carries = TRUE /\ pdfs'[s].refers = d.refers
      BY <3>1, <3>2 DEF Doc
    <3>4. d.version = version => d.refers = TRUE
      BY <1>2, <1>6, <3>1, <3>2 DEF DocOK
    <3>. QED  BY <1>1, <1>6, <3>1, <3>2, <3>3, <3>4 DEF Good, Half
  <2>2. CASE job[l].second # s
    <3>1. pdfs'[s] = pdfs[s]
      BY <1>2, <1>6, <2>2
    <3>. QED  BY <1>1, <1>6, <2>2, <3>1 DEF Good, Half
  <2>. QED  BY <2>1, <2>2
<1>. QED  BY <1>1, <1>3, <1>4, <1>5, <1>6 DEF PdfStep

\* Whoever else has s in his hands keeps it, brings it to its end, or loses it
\* to one who begins anew.
LEMMA SpoilerStays ==
    ASSUME FileInv, NEW l \in Jobs, Shape(l), NEW s \in Seconds, NEW k \in Jobs,
           Spoils(k, s)
    PROVE  Spoils(k, s)' \/ Good(s)' \/ Restarted(l, s)
<1>1. /\ PdfStep(l) /\ RouteStep(l) /\ UNCHANGED <<version, attached>>
      /\ \A i \in Jobs \ {l} : job'[i] = job[i]
  BY DEF Shape
<1>2. /\ pdfs \in [Seconds -> Doc \cup {None}]
      /\ pdfs[s] # None => DocOK(pdfs[s]) /\ pdfs[s] \in Doc
  BY DEF FileInv, DispatchInv, TypeOK
<1>3. CASE k # l
  <2>1. job'[k] = job[k]
    BY <1>1, <1>3
  <2>2. CASE job[k].pc = "embed_files" /\ pdfs[s] # None /\ pdfs[s].whole
    <3>1. Half(s)' \/ Restarted(l, s)
      BY <2>2, OnePdf DEF Half
    <3>. QED  BY <2>1, <2>2, <3>1 DEF Spoils, Half, Good
  <2>. QED  BY <2>1, <2>2 DEF Spoils
<1>4. CASE k = l
  <2>1. job[k].pc # "convert" /\ job[k].pc # "name" /\ job[k].second = s
    BY DEF Spoils, Ends
  <2>2. job'[k].second = s /\ job[k].pc \notin Ends
    BY <1>1, <1>4, <2>1 DEF RouteStep
  <2>3. CASE job'[k].pc \in Ends
    BY <2>2, <2>3 DEF Spoils
  <2>4. CASE job'[k].pc \notin Ends /\ job[k].pc = "write_xml"
    BY <1>1, <1>4, <2>2, <2>4 DEF PdfStep, Spoils
  <2>5. CASE job'[k].pc \notin Ends /\ job[k].pc = "embed"
    <3>1. CASE pdfs' = pdfs /\ pdfs[s] = None
      BY <3>1 DEF Good
    <3>2. CASE job'[k].pc = "embed_files" /\ pdfs[s] # None
                 /\ pdfs' = [pdfs EXCEPT ![s].whole = TRUE]
      <4>1. pdfs'[s] \in Doc /\ pdfs'[s].whole
        BY <1>2, <3>2 DEF Doc
      <4>. QED  BY <2>2, <3>2, <4>1 DEF Spoils
    <3>. QED  BY <1>1, <1>4, <2>1, <2>5, <3>1, <3>2 DEF PdfStep
  <2>6. CASE job'[k].pc \notin Ends /\ job[k].pc = "embed_files"
    <3>1. Half(s) /\ pdfs[s] # None
      BY <2>2, <2>6 DEF Spoils, Half
    <3>2. job'[k].pc = "save_files"
      BY <1>1, <1>4, <2>1, <2>6, <3>1 DEF PdfStep
    <3>. QED  BY <1>4, <2>1, <2>6, <3>1, <3>2, OnePdf
  <2>. QED  BY <2>2, <2>3, <2>4, <2>5, <2>6 DEF Spoils
<1>. QED  BY <1>3, <1>4


LEMMA CleanStays ==
    ASSUME FileInv, NEW l \in Jobs, Shape(l), NEW s \in Seconds, NEW i \in Jobs,
           Clean(i, s), job[i].pc # "convert"
    PROVE  Clean(i, s)'
<1>1. ASSUME Restarted(l, s) PROVE Clean(i, s)'
  BY <1>1 DEF Restarted, Clean
<1>2. CASE Good(s)
  BY <1>1, <1>2, OnePdf DEF Clean
<1>3. ASSUME NEW k \in Jobs \ {i}, Spoils(k, s) PROVE Clean(i, s)'
  BY <1>1, <1>3, SpoilerStays DEF Clean
<1>. QED  BY <1>2, <1>3 DEF Clean

\* A job that is past its rendering stays there; but send_email_xml may need to
\* render again.
LEMMA PostStays ==
    ASSUME FileInv, NEW l \in Jobs, StepOf(l), Post(l)
    PROVE  Post(l)' \/ (Again(l) /\ row' = row /\ job'[l].mem = row)
<1>1. /\ job[l] \in Job /\ JobOK(l, job[l]) /\ PathOK(l, job[l])
      /\ job \in [Jobs -> Job]
  BY DEF FileInv, DispatchInv, TypeOK
<1>2. ASSUME NEW pc \in Ends \cup Mailing, Goto(l, pc) PROVE Post(l)'
  <2>1. pc \in PCs
    BY DEF PCs, Mailing
  <2>2. job'[l].pc = pc
    BY <1>2, <2>1, GotoPapers DEF FileInv
  <2>. QED  BY <2>2 DEF Post
<1>3. CASE job[l].pc \in Ends
  BY <1>1, <1>3 DEF StepOf, Start, Step, Crash, At, Ends, Load, Mark, Issue, Refresh,
     Switch, NeedPdf, NeedXml, Name, Convert, WriteXml, Embed, EmbedFiles, SaveFiles,
     Truncate, WriteFixed, SaveXml, Attach, Deliver, Record, Log, RecordB2G, Serve
<1>4. CASE Crash(l)
  BY <1>2, <1>4 DEF Crash, Ends
<1>5. CASE \/ Attach(l) \/ Deliver(l) \/ Record(l) \/ Log(l) \/ RecordB2G(l)
           \/ Serve(l)
  <2>1. \/ \E pc \in Ends \cup Mailing : Goto(l, pc)
        \/ \E pdf, xml : job' = [job EXCEPT ![l].pc = "deliver", ![l].pdf = pdf,
                                            ![l].xml = xml]
    BY <1>5 DEF Attach, Deliver, Record, Log, RecordB2G, Serve, SaveColumn, AfterLog,
       AfterFailure, Ends, Mailing
  <2>2. ASSUME NEW pdf, NEW xml,
               job' = [job EXCEPT ![l].pc = "deliver", ![l].pdf = pdf, ![l].xml = xml]
        PROVE  job'[l].pc = "deliver"
    BY <1>1, <2>2 DEF Job
  <2>3. CASE job'[l].pc = "deliver"
    BY <2>3 DEF Post
  <2>. QED  BY <1>2, <2>1, <2>2, <2>3
<1>6. CASE Refresh(l)
  <2>1. /\ job' = [job EXCEPT ![l].mem = row, ![l].pc = job[l].back] /\ row' = row
        /\ job[l].pc = "refresh"
    BY <1>6 DEF Refresh, At
  <2>2. /\ job'[l].mem = row /\ job'[l].pc = job[l].back
        /\ job'[l].back = job[l].back /\ job'[l].op = job[l].op
    BY <1>1, <2>1 DEF Job
  <2>3. job[l].back \in {"need_xml", "attach"}
    BY <1>1, <2>1 DEF Post, JobOK, Sending, Ends, Mailing
  <2>. QED  BY <2>1, <2>2, <2>3 DEF Post, Again
<1>7. CASE NeedXml(l)
  <2>1. /\ job[l].pc = "need_xml" /\ job[l].back = "need_xml"
        /\ job[l].op # "send_email_xml" \/ job[l].mem.xml # None
    BY <1>7 DEF NeedXml, At, Post, Ends, Mailing
  <2>2. job[l].op \in {"send_email", "send_email_xml"}
    BY <1>1, <2>1 DEF PathOK, Ends
  <2>3. job[l].op = "send_email" \/ XmlThere(job[l].mem)
    BY <1>1, <2>1, <2>2 DEF PathOK, InstOK, XmlThere
  <2>4. job' = [job EXCEPT ![l].back = "attach", ![l].pc = "attach"]
    BY <1>7, <2>2, <2>3 DEF NeedXml
  <2>. QED  BY <1>1, <2>4 DEF Post, Job
<1>8. CASE /\ job[l].pc \notin Ends
           /\ ~(Crash(l) \/ Attach(l) \/ Deliver(l) \/ Record(l) \/ Log(l)
                \/ RecordB2G(l) \/ Serve(l) \/ Refresh(l) \/ NeedXml(l))
  <2>1. job[l].pc \notin Mailing \cup {"attach", "deliver", "serve", "refresh", "need_xml"}
    BY <1>8 DEF StepOf, Start, Step, At, Load, Mark, Issue, Switch, NeedPdf, Name,
       Convert, WriteXml, Embed, EmbedFiles, SaveFiles, Truncate, WriteFixed, SaveXml,
       Mailing
  <2>. QED  BY <1>8, <2>1 DEF Post
<1>. QED  BY <1>3, <1>4, <1>5, <1>6, <1>7, <1>8

LEMMA ProgressStays ==
    ASSUME FileInv, NEW l \in Jobs, Shape(l), NEW s \in Seconds, NEW j \in Jobs,
           Progress(j, s)
    PROVE  Progress(j, s)'
<1> SUFFICES ASSUME job'[j].second = s, job'[j].pc \in {"embed_files", "save_files"}
             PROVE  /\ job'[j].pc = "embed_files" =>
                         Half(s)' \/ \E k \in Jobs \ {j} : Spoils(k, s)'
                    /\ job'[j].pc = "save_files" => Clean(j, s)'
  BY DEF Progress
<1>1. RouteStep(l) /\ PdfStep(l) /\ XmlStep(l) /\ \A k \in Jobs \ {l} : job'[k] = job[k]
  BY DEF Shape
<1>2. ASSUME Restarted(l, s), job[j].pc # "convert"
      PROVE  \E k \in Jobs \ {j} : Spoils(k, s)'
  BY <1>2 DEF Restarted
<1>3. CASE j # l
  <2>1. job'[j] = job[j]
    BY <1>1, <1>3
  <2>2. CASE job[j].pc = "embed_files"
    <3>1. Good(s)' => Half(s)'
      BY DEF Good, Half
    <3>2. CASE Half(s)
      BY <1>2, <2>1, <2>2, <3>2, OnePdf
    <3>3. ASSUME NEW k \in Jobs \ {j}, Spoils(k, s)
          PROVE  Half(s)' \/ \E i \in Jobs \ {j} : Spoils(i, s)'
      BY <1>2, <2>2, <3>1, <3>3, SpoilerStays
    <3>. QED  BY <2>1, <2>2, <3>2, <3>3 DEF Progress
  <2>3. CASE job[j].pc = "save_files"
    <3>1. Clean(j, s)
      BY <2>1, <2>3 DEF Progress
    <3>. QED  BY <2>1, <2>3, <3>1, CleanStays
  <2>. QED  BY <2>1, <2>2, <2>3
<1>4. CASE j = l
  <2>1. job[j].second = s
    BY <1>1, <1>4 DEF RouteStep
  <2>2. CASE job'[j].pc = "embed_files"
    BY <1>4, <2>1, <2>2, OnePdf
  <2>3. CASE job'[j].pc = "save_files"
    <3>1. job[j].pc = "embed_files"
      BY <1>1, <1>4, <2>3 DEF XmlStep
    <3>2. CASE Half(s)
      BY <1>4, <2>1, <2>3, <3>1, <3>2, OnePdf DEF Clean
    <3>3. ASSUME NEW k \in Jobs \ {j}, Spoils(k, s) PROVE Clean(j, s)'
      BY <1>2, <3>1, <3>3, SpoilerStays DEF Clean
    <3>. QED  BY <2>1, <2>3, <3>1, <3>2, <3>3 DEF Progress
  <2>. QED  BY <2>2, <2>3
<1>. QED  BY <1>3, <1>4

\* The names in use after a step were in use before, or were just saved.
LEMMA NamesStep ==
    ASSUME FileInv, NEW l \in Jobs, Shape(l), NEW s \in Seconds, Named(s)'
    PROVE  \/ Named(s)
           \/ /\ job[l].pc = "save_files" /\ job'[l].second = s
              /\ job[l].second = s /\ Post(l)'
<1>1. /\ PaperStep(l) /\ RouteStep(l) /\ \A k \in Jobs \ {l} : job'[k] = job[k]
      /\ PathOK(l, job[l]) /\ s # None
  BY NoneApart DEF Shape, FileInv
<1>2. \A m, n : Papers(m) = Papers(n) => m.pdf = n.pdf
  BY DEF Papers
<1>3. CASE \E k \in Jobs \ {l} : job'[k].mem.pdf = s
  BY <1>1, <1>3 DEF Named
<1>4. CASE row'.pdf = s \/ job'[l].mem.pdf = s
  <2>1. CASE /\ Papers(row') = Papers(row)
             /\ Papers(job'[l].mem) \in {Papers(job[l].mem), Papers(row), NoPapers}
    BY <1>1, <1>4, <2>1 DEF Named, Papers, NoPapers
  <2>2. CASE /\ Papers(row') = Papers(job[l].mem)
             /\ Papers(job'[l].mem) \in {Papers(row'), NoPapers}
    BY <1>1, <1>4, <2>2 DEF Named, Papers, NoPapers
  <2>3. CASE /\ Papers(row') = <<job[l].mem.pdf, Fixed>>
             /\ Papers(job'[l].mem) \in {Papers(row'), NoPapers}
    BY <1>1, <1>4, <2>3 DEF Named, Papers, NoPapers
  <2>4. CASE /\ job[l].pc = "save_files"
             /\ Papers(row') = <<job[l].second, job[l].second>>
             /\ job'[l].pc \in Ends \cup {"serve", "refresh"}
             /\ job'[l].pc = "refresh" => job'[l].back = job[l].back
             /\ Papers(job'[l].mem) \in {Papers(row'), NoPapers}
    <3>1. job[l].second = s
      BY <1>1, <1>4, <2>4 DEF Papers, NoPapers
    <3>2. job'[l].second = s
      BY <1>1, <2>4, <3>1 DEF RouteStep
    <3>3. job[l].back # "switch"
      BY <1>1, <2>4 DEF PathOK, Rendering
    <3>. QED  BY <2>4, <3>1, <3>2, <3>3 DEF Post
  <2>. QED  BY <1>1, <2>1, <2>2, <2>3, <2>4 DEF PaperStep
<1>. QED  BY <1>3, <1>4 DEF Named

\* Who answers for s goes on to do so, or renders again.
LEMMA AnswersStay ==
    ASSUME FileInv, NEW l \in Jobs, StepOf(l), Shape(l), NEW s \in Seconds,
           NEW i \in Jobs, Answers(i, s)
    PROVE  \/ Answers(i, s)'
           \/ i = l /\ Again(l) /\ row' = row /\ job'[l].mem = row
<1>1. job[i].pc \notin {"convert", "name"} /\ job[i].second = s /\ Post(i) /\ Clean(i, s)
  BY DEF Answers, Post, Ends, Mailing
<1>2. Clean(i, s)'
  BY <1>1, CleanStays
<1>3. job'[i].second = s
  BY <1>1 DEF Shape, RouteStep
<1>4. CASE i = l
  BY <1>1, <1>2, <1>3, <1>4, PostStays DEF Answers
<1>5. CASE i # l
  <2>1. job'[i] = job[i]
    BY <1>5 DEF Shape
  <2>. QED  BY <1>1, <1>2, <1>3, <2>1 DEF Answers, Post
<1>. QED  BY <1>4, <1>5

LEMMA NamesStepOf ==
    ASSUME NamesInv, FileInv', NEW l \in Jobs, StepOf(l), Shape(l),
           RendersOnce \/ Pair
    PROVE  NamesInv'
<1>1. FileInv /\ Shape(l) /\ (\A k \in Jobs \ {l} : job'[k] = job[k])
  BY DEF NamesInv, Shape
<1>2. \A j \in Jobs, s \in Seconds : Progress(j, s)'
  BY <1>1, ProgressStays DEF NamesInv
<1>3. ASSUME NEW s \in Seconds, Named(s)' PROVE \E i \in Jobs : Answers(i, s)'
  <2>1. CASE ~Named(s)
    <3>1. /\ job[l].pc = "save_files" /\ job'[l].second = s
          /\ job[l].second = s /\ Post(l)'
      BY <1>1, <1>3, <2>1, NamesStep
    <3>2. Clean(l, s)
      BY <3>1 DEF NamesInv, Progress
    <3>3. Clean(l, s)'
      BY <1>1, <3>1, <3>2, CleanStays
    <3>. QED  BY <3>1, <3>3 DEF Answers
  <2>2. CASE Named(s)
    <3>1. PICK i \in Jobs : Answers(i, s)
      BY <2>2 DEF NamesInv
    <3>2. CASE Again(l) /\ row' = row /\ job'[l].mem = row /\ i = l
      <4>1. job[l].op \in OpsOf[l] /\ row.pdf = None
        BY <3>2 DEF Again, NamesInv, FileInv, PathOK, InstOK
      <4>2. Pair
        BY <3>2, <4>1 DEF RendersOnce, Again
      <4>3. PICK k \in Jobs : k # l /\ job[k].mem.pdf = s
        BY <1>1, <1>3, <3>2, <4>1, NoneApart DEF Named
      <4>4. Answers(k, s)
        BY <3>1, <3>2, <4>2, <4>3 DEF NamesInv, Answers
      <4>. QED  BY <1>1, <4>3, <4>4, AnswersStay
    <3>. QED  BY <1>1, <3>1, <3>2, AnswersStay
  <2>. QED  BY <2>1, <2>2
<1>4. ASSUME Pair, NEW j \in Jobs, NEW k \in Jobs, NEW s \in Seconds,
             j # k, Again(j)', job'[j].second = s, job'[k].mem.pdf = s
      PROVE  Answers(k, s)'
  <2>1. /\ job'[j].op = "send_email_xml" /\ job'[j].pc = "refresh"
        /\ job'[j].back = "need_xml" /\ row'.xml = None /\ s # None
    BY <1>4, NoneApart DEF Again
  <2>2. row'.pdf = None
    BY <2>1 DEF FileInv, InstOK
  <2>3. CASE j = l
    <3>1. PathOK(l, job[l]) /\ JobOK(l, job[l])
      BY <1>1 DEF FileInv, DispatchInv
    <3>2. job[l].pc = "save_files" /\ row'.xml = job[l].second
      BY <1>1, <2>1, <2>3, <3>1 DEF Shape, RouteStep, PathOK
    <3>. QED  BY <2>1, <3>1, <3>2, NoneApart DEF JobOK, Rendering
  <2>4. CASE k = l
    <3>1. job'[j] = job[j]
      BY <1>1, <1>4, <2>4
    <3>2. Papers(row') = Papers(row) /\ Papers(job'[k].mem) = Papers(job[k].mem)
      <4>1. Papers(job'[k].mem) # Papers(row') /\ Papers(job'[k].mem) # NoPapers
        BY <1>4, <2>1, <2>2 DEF Papers, NoPapers
      <4>. QED  BY <1>1, <2>4, <4>1 DEF Shape, PaperStep
    <3>3. Again(j) /\ job[j].second = s /\ job[k].mem.pdf = s
      BY <1>4, <2>1, <3>1, <3>2 DEF Again, Papers
    <3>4. Answers(k, s)
      BY <1>4, <3>3 DEF NamesInv
    <3>5. job'[k].mem # row
      BY <1>4, <2>1, <2>2, <3>2 DEF Papers
    <3>. QED  BY <1>1, <2>4, <3>4, <3>5, AnswersStay
  <2>. QED  BY <1>4, <2>3, <2>4 DEF Pair
<1>5. Pair' <=> Pair
  BY DEF Pair
<1>. QED  BY <1>2, <1>3, <1>4, <1>5 DEF NamesInv

\* Changes of the invoice leave jobs alone; they outdate a PDF or remove it.
LEMMA NamesAround ==
    ASSUME NamesInv, FileInv', Around
    PROVE  NamesInv'
<1>1. FileInv /\ job' = job
  BY DEF NamesInv, Around, ChangeLine, ChangeCharge, ChangeAttachment, AcquireEditLock
<1>2. /\ \A s \in Seconds : pdfs'[s] \in {pdfs[s], None}
      /\ row'.xml = row.xml /\ row'.pdf \in {row.pdf, None}
  BY <1>1 DEF FileInv, DispatchInv, TypeOK, Row, Around, ChangeLine, ChangeCharge,
     ChangeAttachment, AcquireEditLock, Files
<1>3. version' = version + 1 \/ version' = version
  BY DEF Around, ChangeLine, ChangeCharge, ChangeAttachment, AcquireEditLock, World
<1>4. ASSUME NEW s \in Seconds PROVE (Good(s) => Good(s)') /\ (Half(s) => Half(s)')
  <2>1. pdfs[s] # None => pdfs[s].version \in Nat /\ pdfs[s].version <= version
    BY <1>1 DEF FileInv, DispatchInv, TypeOK, Doc, DocOK, Versions
  <2>2. version \in Nat
    BY <1>1 DEF FileInv, DispatchInv, TypeOK, Versions
  <2>. QED  BY <1>2, <1>3, <2>1, <2>2 DEF Good, Half
<1>5. ASSUME NEW s \in Seconds, NEW k \in Jobs, Spoils(k, s)
      PROVE  Spoils(k, s)' \/ Good(s)'
  BY <1>1, <1>2, <1>5 DEF Spoils, Good
<1>6. ASSUME NEW s \in Seconds, NEW i \in Jobs, Clean(i, s) PROVE Clean(i, s)'
  BY <1>4, <1>5, <1>6 DEF Clean
<1>7. ASSUME NEW s \in Seconds, NEW j \in Jobs PROVE Progress(j, s)'
  <2>1. Progress(j, s)
    BY DEF NamesInv
  <2>2. Good(s)' => Half(s)'
    BY DEF Good, Half
  <2>3. (\E k \in Jobs \ {j} : Spoils(k, s)) =>
          Half(s)' \/ \E k \in Jobs \ {j} : Spoils(k, s)'
    BY <1>5, <2>2
  <2>. QED  BY <1>1, <1>4, <1>6, <2>1, <2>3 DEF Progress
<1>8. ASSUME NEW s \in Seconds, NEW i \in Jobs, Answers(i, s) PROVE Answers(i, s)'
  BY <1>1, <1>6, <1>8 DEF Answers, Post
<1>9. ASSUME NEW s \in Seconds, Named(s)' PROVE \E i \in Jobs : Answers(i, s)'
  <2>1. Named(s)
    BY <1>1, <1>2, <1>9, NoneApart DEF Named
  <2>. QED  BY <1>8, <2>1 DEF NamesInv
<1>10. \A j \in Jobs : Again(j)' => Again(j)
  BY <1>1, <1>2 DEF Again
<1>11. Pair => \A j, k \in Jobs, s \in Seconds :
         j # k /\ Again(j)' /\ job'[j].second = s /\ job'[k].mem.pdf = s => Answers(k, s)'
  BY <1>1, <1>8, <1>10 DEF NamesInv
<1>. QED  BY <1>7, <1>9, <1>11 DEF NamesInv, Pair

LEMMA NamesInit == Init => NamesInv
<1> SUFFICES ASSUME Init PROVE NamesInv
  OBVIOUS
<1>1. FileInv
  BY FileInit
<1>2. \A j \in Jobs : job[j] = Blank
  BY DEF Init
<1>3. \A s \in Seconds : ~Named(s)
  BY <1>2, NoneApart DEF Init, Named, Draft, Blank
<1>4. \A j \in Jobs : ~Again(j)
  BY <1>2 DEF Again, Blank
<1>5. \A j \in Jobs, s \in Seconds : Progress(j, s)
  BY <1>2 DEF Progress, Blank
<1>. QED  BY <1>1, <1>3, <1>4, <1>5 DEF NamesInv

LEMMA NamesSame == NamesInv /\ UNCHANGED vars => NamesInv'
<1> SUFFICES ASSUME NamesInv, UNCHANGED vars PROVE NamesInv'
  OBVIOUS
<1>1. FileInv'
  <2>1. DispatchInv'
    BY DispatchStep DEF NamesInv, FileInv
  <2>. QED  BY <2>1 DEF NamesInv, vars, FileInv, InstOK, DocOK, PathOK
<1>2. \A i \in Jobs, s \in Seconds : Clean(i, s)' <=> Clean(i, s)
  BY DEF vars, Clean, Good, Spoils
<1>3. \A i \in Jobs, s \in Seconds : Answers(i, s)' <=> Answers(i, s)
  BY <1>2 DEF vars, Answers, Post
<1>4. \A i \in Jobs, s \in Seconds : Progress(i, s)' <=> Progress(i, s)
  BY <1>2 DEF vars, Progress, Half, Spoils
<1>5. \A s \in Seconds : Named(s)' <=> Named(s)
  BY DEF vars, Named
<1>6. \A j \in Jobs : Again(j)' <=> Again(j)
  BY DEF vars, Again
<1>. QED  BY <1>1, <1>3, <1>4, <1>5, <1>6 DEF NamesInv, vars, Pair

\* A PDF the invoice names has its XML embedded and, as long as nothing
\* changes, carries the attachments its XML refers to, or is gone, however
\* many jobs render, mark and send at the same time, unless two of them began
\* to render in the same second.  The files of attachments can be read
\* (embed_attachments() passes over one that cannot), and there are two jobs
\* or none that renders twice: of three, one can write back the name
\* send_email_xml has just begun to fill again (pdf.py:581-587).
THEOREM NamedPdfIsWhole ==
    ASSUME "unreadable" \notin Faults, RendersOnce \/ Pair
    PROVE  Spec => []NamedPdfWhole
<1>1. NamesInv /\ [Next]_vars => NamesInv'
  <2> SUFFICES ASSUME NamesInv, [Next]_vars PROVE NamesInv'
    OBVIOUS
  <2>1. FileInv' /\ DispatchInv
    BY FileStep DEF NamesInv, FileInv
  <2>2. ASSUME NEW l \in Jobs, StepOf(l) PROVE NamesInv'
    BY <2>1, <2>2, ShapeOf, NamesStepOf
  <2>3. CASE Around
    BY <2>1, <2>3, NamesAround
  <2>. QED  BY <2>2, <2>3, NamesSame DEF Next, StepOf, Around
<1>2. NamesInv => NamedPdfWhole
  <2> SUFFICES ASSUME NamesInv, row.pdf # None, ~Shared(row.pdf),
                      pdfs[row.pdf] # None
               PROVE  /\ pdfs[row.pdf].whole
                      /\ pdfs[row.pdf].version = version =>
                           pdfs[row.pdf].carries = pdfs[row.pdf].refers
    BY DEF NamedPdfWhole
  <2>1. PICK s \in Seconds : s = row.pdf
    BY DEF NamesInv, FileInv, DispatchInv, TypeOK, Row
  <2>2. PICK i \in Jobs : job[i].second = s /\ Clean(i, s)
    BY <2>1 DEF NamesInv, Named, Answers
  <2>3. Good(s)
    BY <2>1, <2>2 DEF Clean, Spoils, Shared
  <2>. QED  BY <2>1, <2>3 DEF Good
<1>. QED  BY <1>1, <1>2, NamesInit, PTL DEF Spec

-----------------------------------------------------------------------------
(* What an authority gets.                                                 *)

\* An XRechnung with a buyer reference.
ForAuthority(d) == d.profile = "XRECHNUNG" /\ partner.reference

\* No document, one that is empty or without its XML, or an XRechnung.
AtWorst(d) == d # None /\ d.whole => ForAuthority(d)

\* What a job holds; Convert writes the document it rendered.
HoldsForms(r) == /\ AtWorst(r.doc) /\ AtWorst(r.pdf) /\ AtWorst(r.xml)
                 /\ r.pc = "convert" => ForAuthority(r.doc)

\* Embed makes whole what lies under the name, whoever wrote it: there every
\* document is an XRechnung, whole or not.
PdfForms == \A s \in Seconds : pdfs[s] # None => ForAuthority(pdfs[s])
XmlForms == \A n \in Names : AtWorst(xmls[n])
OutForms == \A p \in out : AtWorst(p.pdf) /\ AtWorst(p.xml)

FormInv ==
    /\ DispatchInv
    /\ partner.government => /\ PdfForms /\ XmlForms /\ OutForms
                             /\ \A j \in Jobs : HoldsForms(job[j])

LEMMA NoDocForms == AtWorst(None) /\ AtWorst(NoDoc)
BY DEF AtWorst, NoDoc

LEMMA FormInit == Init => FormInv
<1> SUFFICES ASSUME Init PROVE FormInv
  OBVIOUS
<1>1. HoldsForms(Blank)
  BY NoDocForms DEF HoldsForms, Blank
<1>. QED  BY <1>1, NoDocForms, DispatchInit DEF Init, FormInv, PdfForms, XmlForms, OutForms

\* A job moves on with what it holds, or forgets it.
Keeps(j) ==
    /\ \A k \in Jobs \ {j} : job'[k] = job[k]
    /\ job'[j].pc # "convert"
    /\ job'[j].doc \in {job[j].doc, NoDoc}
    /\ job'[j].pdf \in {job[j].pdf, None}
    /\ job'[j].xml \in {job[j].xml, None}

LEMMA KeepsForms ==
    ASSUME NEW j \in Jobs, Keeps(j), \A k \in Jobs : HoldsForms(job[k])
    PROVE  \A k \in Jobs : HoldsForms(job'[k])
<1>1. HoldsForms(job'[j])
  BY NoDocForms DEF Keeps, HoldsForms
<1>. QED  BY <1>1 DEF Keeps

LEMMA GotoKeeps ==
    ASSUME DispatchInv, NEW j \in Jobs, NEW pc \in PCs \ {"convert"}, Goto(j, pc)
    PROVE  Keeps(j)
<1>1. job' = [job EXCEPT ![j] = GotoRow(j, pc)] /\ job \in [Jobs -> Job]
  BY GotoIs DEF DispatchInv, TypeOK
<1>2. /\ GotoRow(j, pc).pc = pc
      /\ GotoRow(j, pc).doc \in {job[j].doc, NoDoc}
      /\ GotoRow(j, pc).pdf \in {job[j].pdf, None}
      /\ GotoRow(j, pc).xml \in {job[j].xml, None}
  <2>1. job[j] \in Job
    BY <1>1
  <2>. QED  BY <2>1 DEF GotoRow, Job, Blank
<1> HIDE DEF GotoRow
<1>. QED  BY <1>1, <1>2 DEF Keeps

LEMMA SaveRowKeeps ==
    ASSUME DispatchInv, NEW j \in Jobs, NEW m, NEW next \in PCs \ {"convert"},
           SaveRow(j, m, next)
    PROVE  Keeps(j)
<1>1. CASE Goto(j, next) \/ Goto(j, AfterError(j))
  <2>1. AfterError(j) \in PCs \ {"convert"}
    BY AfterErrorIs
  <2>. QED  BY <1>1, <2>1, GotoKeeps
<1>2. CASE job' = [job EXCEPT ![j].pc = next, ![j].mem = Locking(m)]
  <2>1. PICK l : l = Locking(m)
    OBVIOUS
  <2>2. job' = [job EXCEPT ![j].pc = next, ![j].mem = l]
    BY <1>2, <2>1
  <2>. QED  BY <2>2 DEF Keeps, DispatchInv, TypeOK, Job
<1>. QED  BY <1>1, <1>2 DEF SaveRow

\* The steps that neither render nor read a file.
Passing(j) ==
    \/ \E op \in OpsOf[j] : Start(j, op)
    \/ Load(j) \/ Mark(j) \/ Issue(j) \/ Refresh(j) \/ Switch(j)
    \/ NeedPdf(j) \/ NeedXml(j) \/ SaveFiles(j) \/ SaveXml(j)
    \/ Record(j) \/ Log(j) \/ RecordB2G(j) \/ Crash(j)

LEMMA PassingKeeps ==
    ASSUME DispatchInv, NEW j \in Jobs, Passing(j)
    PROVE  Keeps(j) /\ UNCHANGED <<partner, pdfs, xmls, out>>
<1>1. UNCHANGED <<partner, pdfs, xmls, out>>
  BY DEF Passing, Start, Load, Mark, Issue, Refresh, Switch, NeedPdf, NeedXml,
     SaveFiles, SaveXml, Record, Log, RecordB2G, Crash, World, Files, Sent
<1> SUFFICES Keeps(j)
  BY <1>1
<1>2. job[j] \in Job /\ job \in [Jobs -> Job]
  BY Here DEF DispatchInv, TypeOK
<1>3. ASSUME NEW op \in OpsOf[j], Start(j, op) PROVE Keeps(j)
  BY <1>2, <1>3 DEF Start, Keeps, Job
<1>4. CASE Load(j)
  <2>1. PICK m, n, back, pc :
          /\ job' = [job EXCEPT ![j].mem = m, ![j].attempts = n, ![j].back = back,
                                ![j].pc = pc]
          /\ pc # "convert"
    <3> DEFINE op == job[j].op
               n == IF op = "task" THEN job[j].attempts + 1 ELSE job[j].attempts
               back == CASE op \in Sends -> "switch"
                         [] op \in {"download_pdf", "download_xml"} -> "serve"
                         [] OTHER -> "ok"
               pc == CASE Rejected(op) -> "rejected"
                       [] op \in Sends /\ row.status = "DRAFT" -> "issue"
                       [] op \in Sends -> "switch"
                       [] op = "download_pdf" -> "need_pdf"
                       [] op = "download_xml" -> "need_xml"
                       [] op \in {"generate_pdf", "task"} -> "name"
                       [] op = "generate_xml" -> "truncate"
                       [] op = "mark_as_sent" /\ row.status # "DRAFT" -> "rejected"
                       [] OTHER -> "mark"
    <3>1. job' = [job EXCEPT ![j].mem = row, ![j].attempts = n, ![j].back = back,
                             ![j].pc = pc]
      BY <1>4 DEF Load
    <3>2. pc # "convert"
      OBVIOUS
    <3>. QED  BY <3>1, <3>2
  <2>. QED  BY <1>2, <2>1 DEF Keeps, Job
<1>5. CASE Refresh(j)
  <2>1. job[j].back # "convert"
    BY <1>2 DEF Job
  <2>2. job' = [job EXCEPT ![j].mem = row, ![j].pc = job[j].back]
    BY <1>5 DEF Refresh
  <2>. QED  BY <1>2, <2>1, <2>2 DEF Keeps, Job
<1>6. CASE NeedPdf(j) \/ NeedXml(j)
  <2>1. PICK back, pc \in {"serve", "need_xml", "attach", "name"} :
          job' = [job EXCEPT ![j].back = back, ![j].pc = pc]
    BY <1>6 DEF NeedPdf, NeedXml
  <2>. QED  BY <1>2, <2>1 DEF Keeps, Job
<1>7. {"ok", "rejected", "unavailable", "error", "crashed", "log", "record_b2g",
        "need_xml", "need_pdf"} \subseteq PCs \ {"convert"}
  BY DEF PCs, Ends
<1>8. CASE Switch(j) \/ Record(j) \/ Log(j) \/ RecordB2G(j) \/ Crash(j)
  <2>1. PICK pc \in PCs \ {"convert"} : Goto(j, pc)
    BY <1>7, <1>8 DEF Switch, Record, RecordB2G, SaveColumn, Log, AfterLog, Crash
  <2>. QED  BY <2>1, GotoKeeps
<1>9. CASE Mark(j) \/ Issue(j) \/ SaveFiles(j) \/ SaveXml(j)
  <2>1. {"ok", "refresh", job[j].back} \subseteq PCs \ {"convert"}
    BY <1>2 DEF PCs, Ends, Job
  <2>2. \E m, next : next \in PCs \ {"convert"} /\ SaveRow(j, m, next)
    BY <1>9, <2>1 DEF Mark, Issue, SaveFiles, SaveXml
  <2>. QED  BY <2>2, SaveRowKeeps
<1>. QED  BY <1>3, <1>4, <1>5, <1>6, <1>8, <1>9 DEF Passing

\* What is rendered for an authority, whatever was asked for.
LEMMA RenderedForms ==
    ASSUME partner.government, NEW asked, ~Incomplete(Profile(asked))
    PROVE  LET d == Rendered(Profile(asked)) IN AtWorst(d) /\ ForAuthority(d)
BY DEF Profile, Incomplete, Rendered, AtWorst, ForAuthority

LEMMA RenderForms ==
    ASSUME FormInv, partner.government, NEW j \in Jobs, Name(j) \/ Truncate(j)
    PROVE  /\ \A k \in Jobs : HoldsForms(job'[k])
           /\ \A n \in Names : AtWorst(xmls'[n])
           /\ UNCHANGED <<partner, pdfs, out>>
<1>1. job[j] \in Job /\ job \in [Jobs -> Job] /\ xmls \in [Names -> Doc \cup {None}]
  BY Here DEF FormInv, DispatchInv, TypeOK
<1>2. /\ \A k \in Jobs : HoldsForms(job[k])
      /\ \A n \in Names : AtWorst(xmls[n])
  BY DEF FormInv, XmlForms
<1>3. UNCHANGED <<partner, pdfs, out>>
  BY DEF Name, Truncate, World, Files, Sent
<1>4. ASSUME Goto(j, "rejected") \/ Goto(j, AfterError(j))
      PROVE  \A k \in Jobs : HoldsForms(job'[k])
  <2>1. "rejected" \in PCs \ {"convert"} /\ AfterError(j) \in PCs \ {"convert"}
    BY AfterErrorIs DEF PCs, Ends
  <2>. QED  BY <1>2, <1>4, <2>1, GotoKeeps, KeepsForms DEF FormInv
<1>5. ASSUME NEW d, AtWorst(d), ForAuthority(d), NEW pc, NEW c,
             job' = [job EXCEPT ![j].pc = pc, ![j].second = c, ![j].doc = d]
      PROVE  \A k \in Jobs : HoldsForms(job'[k])
  <2>1. /\ \A k \in Jobs \ {j} : job'[k] = job[k]
        /\ job'[j].doc = d /\ job'[j].pdf = job[j].pdf /\ job'[j].xml = job[j].xml
    BY <1>1, <1>5 DEF Job
  <2>2. HoldsForms(job'[j])
    BY <1>2, <1>5, <2>1 DEF HoldsForms
  <2>. QED  BY <1>2, <2>1, <2>2
<1>6. CASE Name(j)
  <2>1. xmls' = xmls
    BY <1>6 DEF Name, Files
  <2>2. CASE ~(Goto(j, "rejected") \/ Goto(j, AfterError(j)))
    <3>1. PICK asked \in Asked(job[j].op) :
            /\ ~Incomplete(Profile(asked))
            /\ job' = [job EXCEPT ![j].pc = "convert", ![j].second = clock',
                                  ![j].doc = Rendered(Profile(asked))]
      BY <1>6, <2>2 DEF Name
    <3>2. PICK d : d = Rendered(Profile(asked)) /\ AtWorst(d) /\ ForAuthority(d)
      BY <3>1, RenderedForms
    <3>3. \A k \in Jobs : HoldsForms(job'[k])
      BY <1>5, <3>1, <3>2
    <3>. QED  BY <1>2, <1>3, <2>1, <3>3
  <2>. QED  BY <1>2, <1>3, <1>4, <2>1, <2>2
<1>7. CASE Truncate(j)
  <2>1. CASE Goto(j, "rejected") /\ xmls' = xmls
    BY <1>2, <1>3, <1>4, <2>1
  <2>2. CASE ~(Goto(j, "rejected") /\ xmls' = xmls)
    <3>1. PICK asked \in Asked(job[j].op) :
            /\ ~Incomplete(Profile(asked))
            /\ xmls' = [xmls EXCEPT ![Fixed] = NoDoc]
            /\ job' = [job EXCEPT ![j].pc = "write_fixed",
                                  ![j].doc = Rendered(Profile(asked))]
      BY <1>7, <2>2 DEF Truncate
    <3>2. PICK d : d = Rendered(Profile(asked)) /\ AtWorst(d) /\ ForAuthority(d)
      BY <3>1, RenderedForms
    <3>3. /\ \A k \in Jobs \ {j} : job'[k] = job[k]
          /\ job'[j].doc = d /\ job'[j].pdf = job[j].pdf /\ job'[j].xml = job[j].xml
      <4>1. job' = [job EXCEPT ![j].pc = "write_fixed", ![j].doc = d]
        BY <3>1, <3>2
      <4>. QED  BY <1>1, <4>1 DEF Job
    <3>4. HoldsForms(job'[j])
      BY <1>2, <3>2, <3>3 DEF HoldsForms
    <3>5. \A n \in Names : AtWorst(xmls'[n])
      <4>1. \A n \in Names : xmls'[n] \in {xmls[n], NoDoc}
        BY <1>1, <3>1
      <4>. QED  BY <1>2, <4>1, NoDocForms
    <3>. QED  BY <1>2, <1>3, <3>3, <3>4, <3>5
  <2>. QED  BY <2>1, <2>2
<1>. QED  BY <1>6, <1>7

LEMMA WriteForms ==
    ASSUME FormInv, partner.government, NEW j \in Jobs,
           Convert(j) \/ WriteXml(j) \/ Embed(j) \/ EmbedFiles(j) \/ WriteFixed(j)
    PROVE  /\ Keeps(j)
           /\ \A s \in Seconds : pdfs'[s] # None => ForAuthority(pdfs'[s])
           /\ \A n \in Names : AtWorst(xmls'[n])
           /\ UNCHANGED <<partner, out>>
<1>1. /\ job[j] \in Job /\ HoldsForms(job[j]) /\ XmlForms
      /\ pdfs \in [Seconds -> Doc \cup {None}] /\ xmls \in [Names -> Doc \cup {None}]
  BY Here DEF FormInv, DispatchInv, TypeOK
<1>2. UNCHANGED <<partner, out>>
  BY DEF Convert, WriteXml, Embed, EmbedFiles, WriteFixed, World, Sent
<1>3. Keeps(j)
  <2>1. {"write_xml", "embed", "embed_files", "save_files", "save_xml", AfterError(j)}
          \subseteq PCs \ {"convert"}
    BY AfterErrorIs DEF PCs
  <2>2. PICK pc \in PCs \ {"convert"} : Goto(j, pc)
    BY <2>1 DEF Convert, WriteXml, Embed, EmbedFiles, WriteFixed
  <2>. QED  BY <2>2, GotoKeeps DEF FormInv
<1>4. ASSUME NEW n \in Names PROVE AtWorst(xmls'[n])
  <2>1. xmls'[n] \in {xmls[n], job[j].doc}
    BY <1>1 DEF Convert, WriteXml, Embed, EmbedFiles, WriteFixed
  <2>. QED  BY <1>1, <2>1 DEF HoldsForms, XmlForms
<1>5. ASSUME NEW s \in Seconds, pdfs'[s] # None PROVE ForAuthority(pdfs'[s])
  <2>1. pdfs[s] # None => pdfs[s] \in Doc /\ ForAuthority(pdfs[s])
    BY <1>1 DEF FormInv, PdfForms
  <2>2. CASE pdfs'[s] = pdfs[s]
    BY <1>5, <2>1, <2>2
  <2>3. CASE pdfs'[s] # pdfs[s] /\ Convert(j)
    <3>1. pdfs'[s] = [job[j].doc EXCEPT !.whole = FALSE] /\ job[j].pc = "convert"
      BY <1>1, <2>3 DEF Convert, At
    <3>. QED  BY <1>1, <3>1 DEF HoldsForms, ForAuthority, Job, Doc
  <2>4. CASE pdfs'[s] # pdfs[s] /\ ~Convert(j)
    <3>1. /\ pdfs'[s] \in {[pdfs[s] EXCEPT !.whole = TRUE],
                           [pdfs[s] EXCEPT !.carries = TRUE]}
          /\ pdfs[s] # None
      <4>1. CASE Embed(j)
        BY <1>1, <2>4, <4>1 DEF Embed
      <4>2. CASE EmbedFiles(j)
        BY <1>1, <2>4, <4>2 DEF EmbedFiles
      <4>. QED  BY <2>4, <4>1, <4>2 DEF WriteXml, WriteFixed
    <3>. QED  BY <2>1, <3>1 DEF ForAuthority, Doc
  <2>. QED  BY <2>2, <2>3, <2>4
<1>. QED  BY <1>2, <1>3, <1>4, <1>5

LEMMA SendForms ==
    ASSUME FormInv, partner.government, NEW j \in Jobs,
           Attach(j) \/ Deliver(j) \/ Serve(j)
    PROVE  /\ \A k \in Jobs : HoldsForms(job'[k])
           /\ \A p \in out' : AtWorst(p.pdf) /\ AtWorst(p.xml)
           /\ UNCHANGED <<partner, pdfs, xmls>>
<1>1. /\ job[j] \in Job /\ job \in [Jobs -> Job] /\ job[j].mem \in Row
      /\ \A k \in Jobs : HoldsForms(job[k])
      /\ OutForms
  BY Here DEF FormInv, DispatchInv, TypeOK, Job
<1>2. UNCHANGED <<partner, pdfs, xmls>>
  BY DEF Attach, Deliver, Serve, World, Files
<1>3. /\ \A s \in Seconds : AtWorst(pdfs[s])
      /\ \A n \in Names : AtWorst(xmls[n])
  BY DEF FormInv, PdfForms, XmlForms, AtWorst
<1>4. {"ok", "error", "record", "unavailable"} \subseteq PCs \ {"convert"}
  BY DEF PCs, Ends
<1>5. ASSUME \E pc \in {"ok", "error", "record", "unavailable"} : Goto(j, pc)
      PROVE  \A k \in Jobs : HoldsForms(job'[k])
  BY <1>1, <1>4, <1>5, GotoKeeps, KeepsForms DEF FormInv
<1>6. CASE Attach(j)
  <2>1. out' = out
    BY <1>6 DEF Attach, Sent
  <2>2. CASE ~Goto(j, "error")
    <3>1. PICK pdf, xml :
            /\ job' = [job EXCEPT ![j].pc = "deliver", ![j].pdf = pdf, ![j].xml = xml]
            /\ pdf # None => pdf = pdfs[job[j].mem.pdf] /\ job[j].mem.pdf # None
            /\ xml # None => xml = xmls[job[j].mem.xml] /\ job[j].mem.xml # None
      BY <1>6, <2>2 DEF Attach
    <3>2. AtWorst(pdf) /\ AtWorst(xml)
      BY <1>1, <1>3, <3>1, NoDocForms DEF Row
    <3>3. /\ \A k \in Jobs \ {j} : job'[k] = job[k]
          /\ job'[j].pc = "deliver" /\ job'[j].doc = job[j].doc
          /\ job'[j].pdf = pdf /\ job'[j].xml = xml
      BY <1>1, <3>1 DEF Job
    <3>4. HoldsForms(job'[j])
      BY <1>1, <3>2, <3>3 DEF HoldsForms
    <3>. QED  BY <1>1, <1>2, <2>1, <3>3, <3>4 DEF OutForms
  <2>. QED  BY <1>1, <1>2, <1>5, <2>1, <2>2 DEF OutForms
<1>7. CASE Deliver(j)
  <2>1. \A k \in Jobs : HoldsForms(job'[k])
    BY <1>5, <1>7 DEF Deliver, AfterFailure
  <2>2. out' \subseteq out \cup {Parcel(j)}
    BY <1>7 DEF Deliver
  <2>3. Parcel(j).pdf = job[j].pdf /\ Parcel(j).xml = job[j].xml
    BY DEF Parcel
  <2>. QED  BY <1>1, <1>2, <2>1, <2>2, <2>3 DEF OutForms, HoldsForms
<1>8. CASE Serve(j)
  <2>1. \A k \in Jobs : HoldsForms(job'[k])
    BY <1>5, <1>8 DEF Serve
  <2>2. PICK got :
          /\ out' \subseteq out \cup {got}
          /\ got.pdf # None => got.pdf = pdfs[job[j].mem.pdf] /\ job[j].mem.pdf # None
          /\ got.xml # None => got.xml = xmls[job[j].mem.xml] /\ job[j].mem.xml # None
    <3> DEFINE m == job[j].mem
               pdf == job[j].op = "download_pdf"
               got == [by |-> j, op |-> job[j].op, version |-> version,
                       pdf |-> IF pdf /\ PdfThere(m) THEN pdfs[m.pdf] ELSE None,
                       xml |-> IF ~pdf /\ XmlThere(m) THEN xmls[m.xml] ELSE None]
    <3>1. out' \subseteq out \cup {got}
      BY <1>8 DEF Serve
    <3>2. /\ got.pdf # None => got.pdf = pdfs[m.pdf] /\ m.pdf # None
          /\ got.xml # None => got.xml = xmls[m.xml] /\ m.xml # None
      BY DEF PdfThere, XmlThere
    <3>. QED  BY <3>1, <3>2
  <2>3. AtWorst(got.pdf) /\ AtWorst(got.xml)
    BY <1>1, <1>3, <2>2, NoDocForms DEF Row
  <2>. QED  BY <1>1, <1>2, <2>1, <2>2, <2>3 DEF OutForms
<1>. QED  BY <1>6, <1>7, <1>8

\* The partner is that of the invoice, and stays.
LEMMA FormStep == FormInv /\ [Next]_vars => FormInv'
<1> SUFFICES ASSUME FormInv, [Next]_vars PROVE FormInv'
  OBVIOUS
<1>1. DispatchInv /\ DispatchInv'
  BY DispatchStep DEF FormInv
<1> DEFINE Stays == /\ partner' = partner
                    /\ partner.government =>
                         /\ \A s \in Seconds : pdfs'[s] # None => ForAuthority(pdfs'[s])
                         /\ \A n \in Names : AtWorst(xmls'[n])
                         /\ \A p \in out' : AtWorst(p.pdf) /\ AtWorst(p.xml)
                         /\ \A j \in Jobs : HoldsForms(job'[j])
<1>2. Stays => FormInv'
  BY <1>1 DEF FormInv, PdfForms, XmlForms, OutForms, HoldsForms, AtWorst, ForAuthority
<1>3. partner.government => /\ PdfForms /\ XmlForms /\ OutForms
                            /\ \A j \in Jobs : HoldsForms(job[j])
  BY DEF FormInv
<1>4. ASSUME NEW j \in Jobs, Passing(j) PROVE Stays
  BY <1>1, <1>3, <1>4, PassingKeeps, KeepsForms DEF PdfForms, XmlForms, OutForms
<1>5. ASSUME NEW j \in Jobs, Name(j) \/ Truncate(j) PROVE Stays
  <2>1. partner' = partner
    BY <1>5 DEF Name, Truncate, World
  <2>. QED  BY <1>3, <1>5, <2>1, RenderForms DEF PdfForms, OutForms
<1>6. ASSUME NEW j \in Jobs, Convert(j) \/ WriteXml(j) \/ Embed(j) \/ EmbedFiles(j)
                             \/ WriteFixed(j)
      PROVE  Stays
  <2>1. partner' = partner
    BY <1>6 DEF Convert, WriteXml, Embed, EmbedFiles, WriteFixed, World
  <2>. QED  BY <1>3, <1>6, <2>1, WriteForms, KeepsForms DEF OutForms
<1>7. ASSUME NEW j \in Jobs, Attach(j) \/ Deliver(j) \/ Serve(j) PROVE Stays
  <2>1. partner' = partner
    BY <1>7 DEF Attach, Deliver, Serve, World
  <2>. QED  BY <1>3, <1>7, <2>1, SendForms DEF PdfForms, XmlForms
<1>8. ASSUME Around \/ UNCHANGED vars PROVE Stays
  <2>1. /\ UNCHANGED <<partner, xmls, out, job>>
        /\ \A s \in Seconds : pdfs'[s] \in {pdfs[s], None}
    BY <1>1, <1>8 DEF DispatchInv, TypeOK, Row, vars, Around, ChangeLine,
       ChangeCharge, ChangeAttachment, AcquireEditLock, World, Files, Sent
  <2>2. partner.government =>
          \A s \in Seconds : pdfs'[s] # None => ForAuthority(pdfs'[s])
    <3>1. \A s \in Seconds : pdfs'[s] # None => pdfs'[s] = pdfs[s]
      BY <2>1
    <3>. QED  BY <1>3, <3>1 DEF PdfForms
  <2>3. partner.government => \A j \in Jobs : HoldsForms(job'[j])
    BY <1>3, <2>1
  <2>4. partner.government => /\ \A n \in Names : AtWorst(xmls'[n])
                              /\ \A p \in out' : AtWorst(p.pdf) /\ AtWorst(p.xml)
    BY <1>3, <2>1 DEF XmlForms, OutForms
  <2>. QED  BY <2>1, <2>2, <2>3, <2>4
<1> HIDE DEF Stays
<1>9. ASSUME NEW j \in Jobs, StepOf(j) PROVE Stays
  BY <1>4, <1>5, <1>6, <1>7, <1>9 DEF StepOf, Step, Passing
<1>. QED  BY <1>2, <1>8, <1>9 DEF Next, StepOf, Around

\* Every document that reaches an authority whole, by mail or download, is an
\* XRechnung with a buyer reference, whatever profile was asked for, however
\* many jobs write under the same names, and with all faults
\* (invoice_service.py:266-284, 385-396).
THEOREM AuthoritiesGetXRechnung == Spec => []AuthorityGetsXRechnung
<1>1. FormInv => AuthorityGetsXRechnung
  BY DEF FormInv, OutForms, AtWorst, ForAuthority, AuthorityGetsXRechnung
<1>. QED  BY <1>1, FormInit, FormStep, PTL DEF Spec
=============================================================================
