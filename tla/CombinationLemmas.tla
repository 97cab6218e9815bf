--------------------------- MODULE CombinationLemmas ---------------------------
(***************************************************************************)
(* Lemmas about the arithmetic of CircuitReader, for any order of the      *)
(* field: the sums of the library are finite sums (induction over finite   *)
(* sets comes from the well-foundedness of their inclusion), remainders    *)
(* modulo P respect sums and products, and so the value of a linear        *)
(* combination is additive, and homogeneous, in the combination.           *)
(***************************************************************************)
EXTENDS CircuitReader, FiniteSetTheorems, WellFoundedInduction, TLAPS

-----------------------------------------------------------------------------
(* Induction over finite sets *)

\* A set of subsets that has with each of its members one with an element less, and
\* lacks the empty set, has no member.
LEMMA SubsetInduction ==
  ASSUME NEW S, IsFiniteSet(S), NEW Bad \in SUBSET (SUBSET S),
         \A T \in Bad : T # {} /\ \E x \in T : T \ {x} \in Bad
  PROVE  Bad = {}
<1> SUFFICES ASSUME Bad # {} PROVE FALSE
  OBVIOUS
<1>1. Bad \subseteq FiniteSubsetsOf(S)
  BY FS_Subset DEF FiniteSubsetsOf
<1>2. IsWellFoundedOn(StrictSubsetOrdering(S), FiniteSubsetsOf(S))
  BY FS_StrictSubsetOrderingWellFounded
<1>3. \E T \in Bad : \A U \in Bad : <<U, T>> \notin StrictSubsetOrdering(S)
  BY <1>1, <1>2, WFMin
<1> QED
  BY <1>3 DEF StrictSubsetOrdering

-----------------------------------------------------------------------------
(* Sums of functions over finite sets *)

Chosen(s) == CHOOSE x \in s : TRUE

\* h is the table by which the library computes a sum of f.
IsTable(h, f, S) ==
    h = [s \in SUBSET S |-> IF s = {} THEN 0 ELSE f[Chosen(s)] + h[s \ {Chosen(s)}]]

LEMMA SumIsChosen ==
  ASSUME NEW f, NEW S
  PROVE  SumFunctionOnSet(f, S) = (CHOOSE h : IsTable(h, f, S))[S]
BY DEF SumFunctionOnSet, FoldFunctionOnSet, MapThenFoldSet, IsTable, Chosen

LEMMA ChosenIn == \A s : s # {} => Chosen(s) \in s
BY DEF Chosen

LEMMA TableOfSubset ==
  ASSUME NEW f, NEW S, NEW h, IsTable(h, f, S), NEW U \in SUBSET S
  PROVE  IsTable([s \in SUBSET U |-> h[s]], f, U)
<1> DEFINE k == [s \in SUBSET U |-> h[s]]
<1>1. ASSUME NEW s \in SUBSET U
      PROVE  k[s] = IF s = {} THEN 0 ELSE f[Chosen(s)] + k[s \ {Chosen(s)}]
  <2>1. s \in SUBSET S /\ s \ {Chosen(s)} \in SUBSET U
    OBVIOUS
  <2>2. h[s] = IF s = {} THEN 0 ELSE f[Chosen(s)] + h[s \ {Chosen(s)}]
    BY <2>1 DEF IsTable
  <2> QED
    BY <2>1, <2>2
<1> QED
  BY <1>1 DEF IsTable

LEMMA TableUnique ==
  ASSUME NEW f, NEW S, IsFiniteSet(S), NEW h, NEW k, IsTable(h, f, S), IsTable(k, f, S)
  PROVE  h = k
<1> DEFINE Bad == {s \in SUBSET S : h[s] # k[s]}
<1>1. ASSUME NEW T \in Bad PROVE T # {} /\ \E x \in T : T \ {x} \in Bad
  <2>1. /\ h[T] = IF T = {} THEN 0 ELSE f[Chosen(T)] + h[T \ {Chosen(T)}]
        /\ k[T] = IF T = {} THEN 0 ELSE f[Chosen(T)] + k[T \ {Chosen(T)}]
    BY <1>1 DEF IsTable
  <2>2. T # {} /\ h[T \ {Chosen(T)}] # k[T \ {Chosen(T)}]
    BY <1>1, <2>1
  <2> QED
    BY <2>2, ChosenIn
<1>2. Bad = {}
  <2> HIDE DEF Bad
  <2>1. Bad \in SUBSET (SUBSET S)
    BY DEF Bad
  <2> QED
    BY <1>1, <2>1, SubsetInduction
<1>3. h = [s \in SUBSET S |-> h[s]] /\ k = [s \in SUBSET S |-> k[s]]
  BY DEF IsTable
<1> QED
  BY <1>2, <1>3

LEMMA SumInTable ==
  ASSUME NEW f, NEW S, IsFiniteSet(S), NEW h, IsTable(h, f, S), NEW U \in SUBSET S
  PROVE  SumFunctionOnSet(f, U) = h[U]
<1> DEFINE k == [s \in SUBSET U |-> h[s]]
           c == CHOOSE g : IsTable(g, f, U)
<1>1. IsTable(k, f, U) /\ k[U] = h[U]
  BY TableOfSubset
<1>2. IsTable(c, f, U)
  BY <1>1
<1>3. IsFiniteSet(U)
  BY FS_Subset
<1> HIDE DEF k, c
<1>4. c = k
  BY <1>1, <1>2, <1>3, TableUnique
<1>5. SumFunctionOnSet(f, U) = c[U]
  BY SumIsChosen DEF c
<1> QED
  BY <1>1, <1>4, <1>5

LEMMA TableExists ==
  ASSUME NEW f, NEW S, IsFiniteSet(S)
  PROVE  \E h : IsTable(h, f, S)
<1> DEFINE Bad == {T \in SUBSET S : ~ \E h : IsTable(h, f, T)}
           Sum(T) == SumFunctionOnSet(f, T)
<1>1. ASSUME NEW T \in Bad PROVE T # {} /\ \E x \in T : T \ {x} \in Bad
  <2> SUFFICES ASSUME \A x \in T : \E h : IsTable(h, f, T \ {x})
               PROVE  \E h : IsTable(h, f, T)
    <3>1. CASE T = {}
      <4>1. IsTable([s \in SUBSET {} |-> 0], f, {})
        BY DEF IsTable
      <4> QED
        BY <3>1, <4>1
    <3> QED
      BY <3>1
  <2> DEFINE k == [s \in SUBSET T |-> IF s = {} THEN 0 ELSE f[Chosen(s)] + Sum(s \ {Chosen(s)})]
  <2>1. ASSUME NEW u \in SUBSET T, u # T PROVE k[u] = Sum(u)
    <3>1. PICK x \in T : u \in SUBSET (T \ {x})
      BY <2>1
    <3>2. PICK h : IsTable(h, f, T \ {x})
      OBVIOUS
    <3>3. IsFiniteSet(T \ {x}) /\ u \ {Chosen(u)} \in SUBSET (T \ {x})
      BY <3>1, FS_Subset
    <3>4. Sum(u) = h[u] /\ Sum(u \ {Chosen(u)}) = h[u \ {Chosen(u)}]
      BY <3>1, <3>2, <3>3, SumInTable
    <3>5. h[u] = IF u = {} THEN 0 ELSE f[Chosen(u)] + h[u \ {Chosen(u)}]
      BY <3>1, <3>2 DEF IsTable
    <3> QED
      BY <3>4, <3>5
  <2>2. ASSUME NEW s \in SUBSET T, s # {} PROVE k[s] = f[Chosen(s)] + k[s \ {Chosen(s)}]
    <3>1. Chosen(s) \in s
      BY <2>2, ChosenIn
    <3>2. s \ {Chosen(s)} \in SUBSET T /\ s \ {Chosen(s)} # T
      BY <3>1
    <3>3. k[s \ {Chosen(s)}] = Sum(s \ {Chosen(s)})
      BY <2>1, <3>2
    <3> QED
      BY <2>2, <3>3
  <2>3. k = [s \in SUBSET T |-> IF s = {} THEN 0 ELSE f[Chosen(s)] + k[s \ {Chosen(s)}]]
    BY <2>2
  <2> QED
    BY <2>3 DEF IsTable
<1>2. Bad = {}
  <2> HIDE DEF Bad
  <2>1. Bad \in SUBSET (SUBSET S)
    BY DEF Bad
  <2> QED
    BY <1>1, <2>1, SubsetInduction
<1> QED
  BY <1>2

LEMMA SumSteps ==
  ASSUME NEW f, NEW S, IsFiniteSet(S)
  PROVE  /\ SumFunctionOnSet(f, {}) = 0
         /\ S # {} => SumFunctionOnSet(f, S) = f[Chosen(S)] + SumFunctionOnSet(f, S \ {Chosen(S)})
<1>1. PICK h : IsTable(h, f, S)
  BY TableExists
<1>2. \A U \in SUBSET S : SumFunctionOnSet(f, U) = h[U]
  BY <1>1, SumInTable
<1>3. \A s \in SUBSET S : h[s] = IF s = {} THEN 0 ELSE f[Chosen(s)] + h[s \ {Chosen(s)}]
  BY <1>1 DEF IsTable
<1> QED
  BY <1>2, <1>3

\* Chosen element may be taken out of a sum first.
LEMMA SumRemove ==
  ASSUME NEW S, IsFiniteSet(S), NEW f, \A x \in S : f[x] \in Int
  PROVE  /\ SumFunctionOnSet(f, S) \in Int
         /\ \A x \in S : SumFunctionOnSet(f, S) = f[x] + SumFunctionOnSet(f, S \ {x})
<1> DEFINE Sum(T) == SumFunctionOnSet(f, T)
           Good(T) == Sum(T) \in Int /\ \A x \in T : Sum(T \ {x}) \in Int /\ Sum(T) = f[x] + Sum(T \ {x})
           Bad == {T \in SUBSET S : ~Good(T)}
<1>1. ASSUME NEW T \in Bad PROVE T # {} /\ \E x \in T : T \ {x} \in Bad
  <2> SUFFICES ASSUME \A x \in T : Good(T \ {x}) PROVE Good(T)
    <3>1. CASE T = {}
      BY <3>1, SumSteps, FS_EmptySet
    <3> QED
      BY <3>1
  <2>1. CASE T = {}
    <3>1. Sum({}) = 0
      BY SumSteps, FS_EmptySet
    <3> QED
      BY <2>1, <3>1
  <2>2. CASE T # {}
    <3> DEFINE y == Chosen(T)
    <3>1. y \in T /\ f[y] \in Int /\ IsFiniteSet(T)
      BY <2>2, ChosenIn, FS_Subset
    <3>2. Sum(T) = f[y] + Sum(T \ {y})
      BY <2>2, <3>1, SumSteps
    <3> HIDE DEF y, Sum
    <3>3. Sum(T \ {y}) \in Int /\ Sum(T) \in Int
      BY <3>1, <3>2
    <3>4. ASSUME NEW x \in T, x # y PROVE Sum(T) = f[x] + Sum(T \ {x})
      <4>1. Sum(T \ {y}) = f[x] + Sum((T \ {y}) \ {x})
        BY <3>1, <3>4
      <4>2. Sum(T \ {x}) = f[y] + Sum((T \ {x}) \ {y}) /\ Sum((T \ {x}) \ {y}) \in Int
        BY <3>1, <3>4
      <4>3. (T \ {y}) \ {x} = (T \ {x}) \ {y}
        OBVIOUS
      <4> QED
        <5> DEFINE m == Sum((T \ {x}) \ {y})
        <5>1. m \in Int /\ f[x] \in Int /\ f[y] \in Int
          BY <3>1, <4>2
        <5>2. Sum(T) = f[y] + (f[x] + m) /\ Sum(T \ {x}) = f[y] + m
          BY <3>2, <4>1, <4>2, <4>3
        <5> HIDE DEF m
        <5> QED
          BY <5>1, <5>2
    <3>5. \A x \in T : Sum(T \ {x}) \in Int /\ Sum(T) = f[x] + Sum(T \ {x})
      BY <3>2, <3>4
    <3> QED
      BY <3>3, <3>5
  <2> QED
    BY <2>1, <2>2
<1>2. Bad = {}
  <2> HIDE DEF Bad
  <2>1. Bad \in SUBSET (SUBSET S)
    BY DEF Bad
  <2> QED
    BY <1>1, <2>1, SubsetInduction
<1> QED
  BY <1>2

\* A sum's terms may be changed one by one, as long as a relation between the sums
\* is kept that addition of related terms keeps.
LEMMA SumInt ==
  ASSUME NEW S, IsFiniteSet(S), NEW f, \A x \in S : f[x] \in Int
  PROVE  SumFunctionOnSet(f, S) \in Int
BY SumRemove

LEMMA SumSame ==
  ASSUME NEW S, IsFiniteSet(S), NEW f, NEW g, \A x \in S : f[x] = g[x]
  PROVE  SumFunctionOnSet(f, S) = SumFunctionOnSet(g, S)
<1> DEFINE Bad == {T \in SUBSET S : SumFunctionOnSet(f, T) # SumFunctionOnSet(g, T)}
<1>1. ASSUME NEW T \in Bad PROVE T # {} /\ \E x \in T : T \ {x} \in Bad
  <2>1. IsFiniteSet(T)
    BY FS_Subset
  <2>2. /\ SumFunctionOnSet(f, {}) = 0 /\ SumFunctionOnSet(g, {}) = 0
        /\ T # {} => /\ SumFunctionOnSet(f, T) = f[Chosen(T)] + SumFunctionOnSet(f, T \ {Chosen(T)})
                     /\ SumFunctionOnSet(g, T) = g[Chosen(T)] + SumFunctionOnSet(g, T \ {Chosen(T)})
    BY <2>1, SumSteps
  <2>3. T # {}
    BY <2>2
  <2>4. Chosen(T) \in T /\ f[Chosen(T)] = g[Chosen(T)]
    BY <2>3, ChosenIn
  <2> QED
    BY <2>2, <2>3, <2>4
<1>2. Bad = {}
  <2> HIDE DEF Bad
  <2>1. Bad \in SUBSET (SUBSET S)
    BY DEF Bad
  <2> QED
    BY <1>1, <2>1, SubsetInduction
<1> QED
  BY <1>2

LEMMA SumOfSums ==
  ASSUME NEW S, IsFiniteSet(S), NEW f, NEW g, NEW h,
         \A x \in S : f[x] \in Int /\ g[x] \in Int /\ h[x] = f[x] + g[x]
  PROVE  SumFunctionOnSet(h, S) = SumFunctionOnSet(f, S) + SumFunctionOnSet(g, S)
<1> DEFINE F(T) == SumFunctionOnSet(f, T)
           G(T) == SumFunctionOnSet(g, T)
           H(T) == SumFunctionOnSet(h, T)
           Bad == {T \in SUBSET S : H(T) # F(T) + G(T)}
<1>1. ASSUME NEW T \in Bad PROVE T # {} /\ \E x \in T : T \ {x} \in Bad
  <2>1. IsFiniteSet(T) /\ \A x \in T : f[x] \in Int /\ g[x] \in Int /\ h[x] \in Int
    BY FS_Subset
  <2>2. /\ F({}) = 0 /\ G({}) = 0 /\ H({}) = 0
        /\ T # {} => /\ F(T) = f[Chosen(T)] + F(T \ {Chosen(T)})
                     /\ G(T) = g[Chosen(T)] + G(T \ {Chosen(T)})
                     /\ H(T) = h[Chosen(T)] + H(T \ {Chosen(T)})
    BY <2>1, SumSteps
  <2>3. T # {}
    <3>1. H(T) # F(T) + G(T)
      OBVIOUS
    <3> HIDE DEF F, G, H, Bad
    <3>2. SUFFICES ASSUME T = {} PROVE FALSE
      OBVIOUS
    <3>3. H(T) = 0 /\ F(T) = 0 /\ G(T) = 0
      BY <2>2, <3>2
    <3> QED
      BY <3>1, <3>3
  <2> DEFINE y == Chosen(T)
  <2>4. y \in T
    BY <2>3, ChosenIn
  <2>5. IsFiniteSet(T \ {y})
    BY <2>1, FS_Subset
  <2> HIDE DEF y
  <2>6. F(T \ {y}) \in Int /\ G(T \ {y}) \in Int
    BY <2>1, <2>5, SumInt
  <2>7. F(T) = f[y] + F(T \ {y}) /\ G(T) = g[y] + G(T \ {y}) /\ H(T) = h[y] + H(T \ {y})
    BY <2>2, <2>3 DEF y
  <2>8. ASSUME H(T \ {y}) = F(T \ {y}) + G(T \ {y}) PROVE H(T) = F(T) + G(T)
    <3> HIDE DEF F, G, H
    <3>1. f[y] \in Int /\ g[y] \in Int /\ h[y] = f[y] + g[y]
      BY <2>4
    <3>2. \A a, b, c, d \in Int : (a + b) + (c + d) = (a + c) + (b + d)
      OBVIOUS
    <3> QED
      BY <2>6, <2>7, <2>8, <3>1, <3>2
  <2> QED
    BY <2>4, <2>8
<1>2. Bad = {}
  <2> HIDE DEF Bad
  <2>1. Bad \in SUBSET (SUBSET S)
    BY DEF Bad
  <2> QED
    BY <1>1, <2>1, SubsetInduction
<1> QED
  BY <1>2

LEMMA SumScaled ==
  ASSUME NEW S, IsFiniteSet(S), NEW c \in Int, NEW f, NEW h,
         \A x \in S : f[x] \in Int /\ h[x] = c * f[x]
  PROVE  SumFunctionOnSet(h, S) = c * SumFunctionOnSet(f, S)
<1> DEFINE F(T) == SumFunctionOnSet(f, T)
           H(T) == SumFunctionOnSet(h, T)
           Bad == {T \in SUBSET S : H(T) # c * F(T)}
<1>1. ASSUME NEW T \in Bad PROVE T # {} /\ \E x \in T : T \ {x} \in Bad
  <2>1. IsFiniteSet(T) /\ \A x \in T : f[x] \in Int
    BY FS_Subset
  <2>2. /\ F({}) = 0 /\ H({}) = 0
        /\ T # {} => /\ F(T) = f[Chosen(T)] + F(T \ {Chosen(T)})
                     /\ H(T) = h[Chosen(T)] + H(T \ {Chosen(T)})
    BY <2>1, SumSteps
  <2>3. T # {}
    BY <2>2
  <2> DEFINE y == Chosen(T)
  <2>4. y \in T
    BY <2>3, ChosenIn
  <2>5. IsFiniteSet(T \ {y})
    BY <2>1, FS_Subset
  <2> HIDE DEF y
  <2>6. F(T \ {y}) \in Int
    BY <2>1, <2>5, SumInt
  <2>7. F(T) = f[y] + F(T \ {y}) /\ H(T) = h[y] + H(T \ {y})
    BY <2>2, <2>3 DEF y
  <2>8. ASSUME H(T \ {y}) = c * F(T \ {y}) PROVE H(T) = c * F(T)
    <3> HIDE DEF F, H
    <3>1. f[y] \in Int /\ h[y] = c * f[y]
      BY <2>4
    <3>2. \A a, b \in Int : c * a + c * b = c * (a + b)
      OBVIOUS
    <3> QED
      BY <2>6, <2>7, <2>8, <3>1, <3>2
  <2> QED
    BY <2>4, <2>8
<1>2. Bad = {}
  <2> HIDE DEF Bad
  <2>1. Bad \in SUBSET (SUBSET S)
    BY DEF Bad
  <2> QED
    BY <1>1, <2>1, SubsetInduction
<1> QED
  BY <1>2

\* Terms that are zero may be left out.
LEMMA SumWithoutZeros ==
  ASSUME NEW S, IsFiniteSet(S), NEW U \in SUBSET S, NEW f,
         \A x \in S : f[x] \in Int, \A x \in S \ U : f[x] = 0
  PROVE  SumFunctionOnSet(f, S) = SumFunctionOnSet(f, U)
<1> DEFINE F(T) == SumFunctionOnSet(f, T)
           Bad == {T \in SUBSET S : F(T) # F(T \cap U)}
<1>1. ASSUME NEW T \in Bad PROVE T # {} /\ \E x \in T : T \ {x} \in Bad
  <2>1. /\ IsFiniteSet(T) /\ \A x \in T : f[x] \in Int
        /\ IsFiniteSet(T \cap U) /\ \A x \in T \cap U : f[x] \in Int
    BY FS_Subset
  <2>2. T # {}
    <3>1. {} \cap U = {}
      OBVIOUS
    <3> QED
      BY <3>1
  <2> DEFINE y == Chosen(T)
  <2>3. y \in T
    BY <2>2, ChosenIn
  <2>4. IsFiniteSet(T \ {y}) /\ IsFiniteSet((T \ {y}) \cap U)
    BY <2>1, FS_Subset
  <2> HIDE DEF y
  <2>5. F(T) = f[y] + F(T \ {y}) /\ F(T \ {y}) \in Int /\ F((T \ {y}) \cap U) \in Int
    BY <2>1, <2>3, <2>4, SumRemove
  <2>6. ASSUME F(T \ {y}) = F((T \ {y}) \cap U) PROVE F(T) = F(T \cap U)
    <3>1. CASE y \in U
      <4>1. y \in T \cap U /\ (T \cap U) \ {y} = (T \ {y}) \cap U
        BY <2>3, <3>1
      <4>2. F(T \cap U) = f[y] + F((T \cap U) \ {y})
        BY <2>1, <4>1, SumRemove
      <4> QED
        BY <2>5, <2>6, <4>1, <4>2
    <3>2. CASE y \notin U
      <4>1. f[y] = 0 /\ T \cap U = (T \ {y}) \cap U
        BY <2>3, <3>2
      <4> QED
        <5> HIDE DEF F
        <5>1. F(T \cap U) = F((T \ {y}) \cap U)
          BY <4>1
        <5> QED
          BY <2>5, <2>6, <4>1, <5>1
    <3> QED
      BY <3>1, <3>2
  <2> QED
    BY <2>3, <2>6
<1>2. Bad = {}
  <2> HIDE DEF Bad
  <2>1. Bad \in SUBSET (SUBSET S)
    BY DEF Bad
  <2> QED
    BY <1>1, <2>1, SubsetInduction
<1>3. S \cap U = U
  OBVIOUS
<1> QED
  BY <1>2, <1>3

-----------------------------------------------------------------------------
(* Remainders *)

USE FieldAssumption

LEMMA Remainder ==
  ASSUME NEW x \in Int
  PROVE  x = (x \div P) * P + (x % P) /\ x \div P \in Int /\ x % P \in Field
BY DEF Field

LEMMA RemainderUnique ==
  ASSUME NEW q \in Int, NEW r \in Field
  PROVE  (q * P + r) % P = r
<1> DEFINE x == q * P + r
           k == x \div P
           m == x % P
<1>1. x \in Int
  BY DEF Field
<1> HIDE DEF x
<1>2. x = k * P + m /\ k \in Int /\ m \in Field
  BY <1>1, Remainder
<1> HIDE DEF k, m
<1>3. k \in Int /\ m \in Field /\ (q - k) * P = m - r
  BY <1>2 DEF x, Field
<1>4. q = k
  <2>1. CASE q - k >= 1
    <3>1. (q - k) * P >= P
      BY <2>1, <1>3
    <3> QED
      BY <3>1, <1>3 DEF Field
  <2>2. CASE q - k <= -1
    <3>1. (q - k) * P <= -P
      BY <2>2, <1>3
    <3> QED
      BY <3>1, <1>3 DEF Field
  <2> QED
    BY <2>1, <2>2, <1>3
<1>5. m = r
  BY <1>3, <1>4 DEF Field
<1> QED
  BY <1>5 DEF m, x

\* Two numbers are congruent if they have one remainder.
Cong(a, b) == a % P = b % P

LEMMA CongApart ==
  ASSUME NEW a \in Int, NEW b \in Int
  PROVE  Cong(a, b) <=> \E k \in Int : a = b + k * P
<1>1. ASSUME Cong(a, b) PROVE \E k \in Int : a = b + k * P
  <2> DEFINE p == a \div P
             q == b \div P
             r == a % P
  <2>1. a = p * P + r /\ b = q * P + r /\ p \in Int /\ q \in Int /\ r \in Int
    BY <1>1, Remainder DEF Cong, Field
  <2> HIDE DEF p, q, r
  <2>2. a = b + (p - q) * P /\ p - q \in Int
    BY <2>1
  <2> QED
    BY <2>2
<1>2. ASSUME NEW k \in Int, a = b + k * P PROVE Cong(a, b)
  <2> DEFINE q == b \div P
             r == b % P
  <2>1. b = q * P + r /\ q \in Int /\ r \in Field
    BY Remainder
  <2> HIDE DEF q, r
  <2>2. a = (q + k) * P + r /\ q + k \in Int
    BY <1>2, <2>1 DEF Field
  <2>3. a % P = r /\ b % P = r
    BY <2>1, <2>2, RemainderUnique
  <2> QED
    BY <2>3 DEF Cong
<1> QED
  BY <1>1, <1>2

LEMMA FieldSmall ==
  ASSUME NEW r \in Field
  PROVE  r % P = r
<1>1. (0 * P + r) % P = r
  BY RemainderUnique
<1> QED
  BY <1>1 DEF Field

LEMMA CongRemainder ==
  ASSUME NEW x \in Int
  PROVE  Cong(x % P, x) /\ x % P \in Field /\ x % P \in Int
<1>1. x % P \in Field
  BY Remainder
<1> QED
  BY <1>1, FieldSmall DEF Cong, Field

LEMMA CongPlus ==
  ASSUME NEW a \in Int, NEW b \in Int, NEW c \in Int, NEW d \in Int, Cong(a, b), Cong(c, d)
  PROVE  Cong(a + c, b + d)
<1>1. PICK k \in Int : a = b + k * P
  BY CongApart
<1>2. PICK m \in Int : c = d + m * P
  BY CongApart
<1>3. a + c = (b + d) + (k + m) * P
  BY <1>1, <1>2
<1> QED
  BY <1>3, CongApart

LEMMA CongTimes ==
  ASSUME NEW a \in Int, NEW b \in Int, NEW c \in Int, Cong(a, b)
  PROVE  Cong(c * a, c * b) /\ Cong(a * c, b * c)
<1>1. PICK k \in Int : a = b + k * P
  BY CongApart
<1>2. c * a = c * b + (c * k) * P /\ a * c = b * c + (c * k) * P
  BY <1>1
<1>3. c * k \in Int /\ c * a \in Int /\ c * b \in Int /\ a * c \in Int /\ b * c \in Int
  OBVIOUS
<1> QED
  BY <1>2, <1>3, CongApart

LEMMA SumCong ==
  ASSUME NEW S, IsFiniteSet(S), NEW f, NEW g,
         \A x \in S : f[x] \in Int /\ g[x] \in Int /\ Cong(f[x], g[x])
  PROVE  Cong(SumFunctionOnSet(f, S), SumFunctionOnSet(g, S))
<1> DEFINE F(T) == SumFunctionOnSet(f, T)
           G(T) == SumFunctionOnSet(g, T)
           Bad == {T \in SUBSET S : ~Cong(F(T), G(T))}
<1>1. ASSUME NEW T \in Bad PROVE T # {} /\ \E x \in T : T \ {x} \in Bad
  <2>1. IsFiniteSet(T) /\ \A x \in T : f[x] \in Int /\ g[x] \in Int
    BY FS_Subset
  <2>2. T # {}
    <3>1. ~Cong(F(T), G(T))
      OBVIOUS
    <3>2. F({}) = 0 /\ G({}) = 0
      BY <2>1, SumSteps
    <3> HIDE DEF F, G, Bad
    <3> QED
      BY <3>1, <3>2 DEF Cong
  <2> DEFINE y == Chosen(T)
  <2>3. y \in T
    BY <2>2, ChosenIn
  <2>4. IsFiniteSet(T \ {y})
    BY <2>1, FS_Subset
  <2> HIDE DEF y
  <2>5. /\ F(T) = f[y] + F(T \ {y}) /\ F(T \ {y}) \in Int
        /\ G(T) = g[y] + G(T \ {y}) /\ G(T \ {y}) \in Int
    BY <2>1, <2>3, <2>4, SumRemove
  <2>6. ASSUME Cong(F(T \ {y}), G(T \ {y})) PROVE Cong(F(T), G(T))
    <3>1. f[y] \in Int /\ g[y] \in Int /\ Cong(f[y], g[y])
      BY <2>3
    <3> HIDE DEF F, G
    <3> QED
      BY <2>5, <2>6, <3>1, CongPlus
  <2> QED
    BY <2>3, <2>6
<1>2. Bad = {}
  <2> HIDE DEF Bad
  <2>1. Bad \in SUBSET (SUBSET S)
    BY DEF Bad
  <2> QED
    BY <1>1, <2>1, SubsetInduction
<1> QED
  BY <1>2

-----------------------------------------------------------------------------
(* Linear combinations *)

IsLC(l) == IsFiniteSet(DOMAIN l) /\ l \in [DOMAIN l -> Field]

Worth(a, v) == IF v = One THEN 1 ELSE a[v]

\* The terms of l over D, zero where l has none.
Terms(l, a, D) == [v \in D |-> Coeff(l, v) * Worth(a, v)]

LEMMA CoeffInField ==
  ASSUME NEW l, IsLC(l), NEW v
  PROVE  Coeff(l, v) \in Field /\ Coeff(l, v) \in Int
BY DEF IsLC, Coeff, Field

LEMMA EvalOver ==
  ASSUME NEW l, IsLC(l), NEW D, IsFiniteSet(D), DOMAIN l \subseteq D,
         NEW a, \A v \in D : Worth(a, v) \in Int
  PROVE  /\ Eval(l, a) = SumFunctionOnSet(Terms(l, a, D), D) % P
         /\ SumFunctionOnSet(Terms(l, a, D), D) \in Int
<1> DEFINE f == [v \in DOMAIN l |-> l[v] * (IF v = One THEN 1 ELSE a[v])]
           g == Terms(l, a, D)
<1>1. Eval(l, a) = SumFunctionOnSet(f, DOMAIN l) % P
  <2>1. DOMAIN f = DOMAIN l
    OBVIOUS
  <2>2. Eval(l, a) = SumFunctionOnSet(f, DOMAIN f) % P
    BY DEF Eval, SumFunction
  <2> QED
    BY <2>1, <2>2
<1>2. \A v \in D : g[v] = Coeff(l, v) * Worth(a, v) /\ g[v] \in Int
  <2> TAKE v \in D
  <2>1. Coeff(l, v) \in Int /\ Worth(a, v) \in Int
    BY CoeffInField
  <2> QED
    BY <2>1 DEF Terms
<1>3. \A v \in DOMAIN l : f[v] = g[v]
  BY <1>2 DEF Coeff, Worth
<1>4. \A v \in D \ DOMAIN l : g[v] = 0
  <2> TAKE v \in D \ DOMAIN l
  <2>1. Coeff(l, v) = 0 /\ Worth(a, v) \in Int
    BY DEF Coeff
  <2> QED
    BY <1>2, <2>1
<1> HIDE DEF f, g
<1>5. SumFunctionOnSet(g, D) = SumFunctionOnSet(g, DOMAIN l) /\ SumFunctionOnSet(g, D) \in Int
  BY <1>2, <1>4, SumWithoutZeros, SumInt
<1>6. SumFunctionOnSet(f, DOMAIN l) = SumFunctionOnSet(g, DOMAIN l)
  BY <1>3, SumSame DEF IsLC
<1> QED
  BY <1>1, <1>5, <1>6 DEF g

LEMMA EvalInField ==
  ASSUME NEW l, IsLC(l), NEW a, \A v \in DOMAIN l : Worth(a, v) \in Int
  PROVE  Eval(l, a) \in Field /\ Eval(l, a) \in Int
<1>1. /\ Eval(l, a) = SumFunctionOnSet(Terms(l, a, DOMAIN l), DOMAIN l) % P
      /\ SumFunctionOnSet(Terms(l, a, DOMAIN l), DOMAIN l) \in Int
  BY EvalOver DEF IsLC
<1> QED
  BY <1>1, CongRemainder

LEMMA PlusIsLC ==
  ASSUME NEW l, IsLC(l), NEW m, IsLC(m)
  PROVE  IsLC(Plus(l, m)) /\ DOMAIN Plus(l, m) = DOMAIN l \cup DOMAIN m
<1>1. \A v \in DOMAIN l \cup DOMAIN m : (Coeff(l, v) + Coeff(m, v)) % P \in Field
  <2> TAKE v \in DOMAIN l \cup DOMAIN m
  <2>1. Coeff(l, v) + Coeff(m, v) \in Int
    BY CoeffInField
  <2> QED
    BY <2>1, CongRemainder
<1>2. IsFiniteSet(DOMAIN l \cup DOMAIN m)
  BY FS_Union DEF IsLC
<1> QED
  BY <1>1, <1>2 DEF IsLC, Plus

LEMMA TimesIsLC ==
  ASSUME NEW l, IsLC(l), NEW c \in Int
  PROVE  IsLC(Times(c, l)) /\ DOMAIN Times(c, l) = DOMAIN l
<1>1. \A v \in DOMAIN l : (c * l[v]) % P \in Field
  <2> TAKE v \in DOMAIN l
  <2>1. c * l[v] \in Int
    BY DEF IsLC, Field
  <2> QED
    BY <2>1, CongRemainder
<1> QED
  BY <1>1 DEF IsLC, Times

LEMMA TermIsLC ==
  ASSUME NEW v
  PROVE  IsLC(Term(v, 1)) /\ DOMAIN Term(v, 1) = {v}
<1>1. 1 \in Field
  BY DEF Field
<1> QED
  BY <1>1, FS_Singleton DEF IsLC, Term

\* A combination depends on its own variables only.
LEMMA EvalAgree ==
  ASSUME NEW l, NEW a, NEW b, \A v \in DOMAIN l : v # One => a[v] = b[v]
  PROVE  Eval(l, a) = Eval(l, b)
<1>1. [v \in DOMAIN l |-> l[v] * (IF v = One THEN 1 ELSE a[v])]
        = [v \in DOMAIN l |-> l[v] * (IF v = One THEN 1 ELSE b[v])]
  OBVIOUS
<1> QED
  BY <1>1 DEF Eval

LEMMA EvalOfPlus ==
  ASSUME NEW l, IsLC(l), NEW m, IsLC(m),
         NEW a, \A v \in DOMAIN l \cup DOMAIN m : Worth(a, v) \in Int
  PROVE  Eval(Plus(l, m), a) = (Eval(l, a) + Eval(m, a)) % P
<1> DEFINE D == DOMAIN l \cup DOMAIN m
           f == Terms(l, a, D)
           g == Terms(m, a, D)
           h == [v \in D |-> f[v] + g[v]]
           k == Terms(Plus(l, m), a, D)
           F == SumFunctionOnSet(f, D)
           G == SumFunctionOnSet(g, D)
           H == SumFunctionOnSet(h, D)
           K == SumFunctionOnSet(k, D)
<1>1. IsFiniteSet(D) /\ DOMAIN l \subseteq D /\ DOMAIN m \subseteq D
  BY FS_Union DEF IsLC
<1>2. IsLC(Plus(l, m)) /\ DOMAIN Plus(l, m) \subseteq D
  BY PlusIsLC
<1>3. /\ Eval(l, a) = F % P /\ F \in Int
      /\ Eval(m, a) = G % P /\ G \in Int
      /\ Eval(Plus(l, m), a) = K % P /\ K \in Int
  <2> HIDE DEF D
  <2>1. \A v \in D : Worth(a, v) \in Int
    BY DEF D
  <2> QED
    BY <1>1, <1>2, <2>1, EvalOver
<1>4. \A v \in D : /\ f[v] \in Int /\ g[v] \in Int /\ h[v] = f[v] + g[v]
                   /\ k[v] \in Int /\ Cong(k[v], h[v])
  <2> TAKE v \in D
  <2> DEFINE p == Coeff(l, v)
             q == Coeff(m, v)
             w == Worth(a, v)
  <2>1. p \in Int /\ q \in Int /\ w \in Int
    BY CoeffInField
  <2>2. f[v] = p * w /\ g[v] = q * w /\ h[v] = f[v] + g[v]
    BY DEF Terms
  <2>3. k[v] = ((p + q) % P) * w
    BY DEF Terms, Coeff, Plus
  <2> HIDE DEF p, q, w, f, g, h, k, D
  <2>4. (p + q) % P \in Int /\ Cong((p + q) % P, p + q)
    BY <2>1, CongRemainder
  <2>5. Cong(((p + q) % P) * w, (p + q) * w)
    <3>1. p + q \in Int
      BY <2>1
    <3> QED
      BY <2>1, <2>4, <3>1, CongTimes
  <2>6. (p + q) * w = p * w + q * w /\ p * w \in Int /\ q * w \in Int /\ ((p + q) % P) * w \in Int
    BY <2>1, <2>4
  <2> QED
    BY <2>2, <2>3, <2>5, <2>6
<1> HIDE DEF D, f, g, h, k
<1>5. H = F + G
  BY <1>1, <1>4, SumOfSums
<1>6. Cong(K, H)
  <2>1. \A v \in D : k[v] \in Int /\ h[v] \in Int /\ Cong(k[v], h[v])
    BY <1>4
  <2> QED
    BY <1>1, <2>1, SumCong
<1> HIDE DEF F, G, H, K
<1>7. Cong(F, F % P) /\ Cong(G, G % P) /\ F % P \in Int /\ G % P \in Int
  BY <1>3, CongRemainder DEF Cong
<1>8. Cong(F + G, (F % P) + (G % P))
  BY <1>3, <1>7, CongPlus
<1> QED
  BY <1>3, <1>5, <1>6, <1>8 DEF Cong

LEMMA EvalOfTimes ==
  ASSUME NEW l, IsLC(l), NEW c \in Int, NEW a, \A v \in DOMAIN l : Worth(a, v) \in Int
  PROVE  Eval(Times(c, l), a) = (c * Eval(l, a)) % P
<1> DEFINE D == DOMAIN l
           f == Terms(l, a, D)
           h == [v \in D |-> c * f[v]]
           k == Terms(Times(c, l), a, D)
           F == SumFunctionOnSet(f, D)
           H == SumFunctionOnSet(h, D)
           K == SumFunctionOnSet(k, D)
<1>1. IsFiniteSet(D) /\ DOMAIN l \subseteq D
  BY DEF IsLC
<1>2. IsLC(Times(c, l)) /\ DOMAIN Times(c, l) \subseteq D
  BY TimesIsLC
<1>3. /\ Eval(l, a) = F % P /\ F \in Int
      /\ Eval(Times(c, l), a) = K % P /\ K \in Int
  BY <1>1, <1>2, EvalOver
<1>4. \A v \in D : /\ f[v] \in Int /\ h[v] = c * f[v] /\ h[v] \in Int
                   /\ k[v] \in Int /\ Cong(k[v], h[v])
  <2> TAKE v \in D
  <2> DEFINE p == Coeff(l, v)
             w == Worth(a, v)
  <2>1. p \in Int /\ w \in Int
    BY CoeffInField
  <2>2. f[v] = p * w /\ h[v] = c * f[v]
    BY DEF Terms
  <2>3. k[v] = ((c * p) % P) * w
    BY DEF Terms, Coeff, Times
  <2> HIDE DEF p, w, f, h, k, D
  <2>4. (c * p) % P \in Int /\ Cong((c * p) % P, c * p) /\ c * p \in Int
    BY <2>1, CongRemainder
  <2>5. Cong(((c * p) % P) * w, (c * p) * w)
    BY <2>1, <2>4, CongTimes
  <2>6. (c * p) * w = c * (p * w)
    BY <2>1
  <2>7. p * w \in Int /\ c * (p * w) \in Int /\ ((c * p) % P) * w \in Int
    BY <2>1, <2>4
  <2> QED
    BY <2>2, <2>3, <2>5, <2>6, <2>7
<1> HIDE DEF D, f, h, k
<1>5. H = c * F
  BY <1>1, <1>4, SumScaled
<1>6. Cong(K, H)
  <2>1. \A v \in D : k[v] \in Int /\ h[v] \in Int /\ Cong(k[v], h[v])
    BY <1>4
  <2> QED
    BY <1>1, <2>1, SumCong
<1> HIDE DEF F, H, K
<1>7. Cong(F, F % P) /\ F % P \in Int
  BY <1>3, CongRemainder DEF Cong
<1>8. Cong(c * F, c * (F % P))
  BY <1>3, <1>7, CongTimes
<1> QED
  BY <1>3, <1>5, <1>6, <1>8 DEF Cong

\* The sum of one term is that term.
LEMMA EvalOfTerm ==
  ASSUME NEW v, v # One, NEW a, a[v] \in Field
  PROVE  Eval(Term(v, 1), a) = a[v]
<1> DEFINE f == Terms(Term(v, 1), a, {v})
<1>1. IsLC(Term(v, 1)) /\ DOMAIN Term(v, 1) = {v} /\ IsFiniteSet({v}) /\ a[v] \in Int
  <2>1. IsLC(Term(v, 1)) /\ DOMAIN Term(v, 1) = {v}
    BY TermIsLC
  <2>2. IsFiniteSet({v}) /\ a[v] \in Int
    <3>1. IsFiniteSet({v})
      BY FS_Singleton
    <3> QED
      BY <3>1 DEF Field
  <2> QED
    BY <2>1, <2>2
<1>2. \A w \in {v} : Worth(a, w) \in Int
  BY <1>1 DEF Worth
<1>3. Eval(Term(v, 1), a) = SumFunctionOnSet(f, {v}) % P
  BY <1>1, <1>2, EvalOver
<1>4. f[v] = a[v]
  <2>1. f[v] = 1 * a[v]
    BY DEF Terms, Coeff, Term, Worth
  <2> QED
    BY <1>1, <2>1
<1> HIDE DEF f
<1>5. SumFunctionOnSet(f, {v}) = f[v] + SumFunctionOnSet(f, {v} \ {v})
  BY <1>1, <1>4, SumRemove
<1>6. SumFunctionOnSet(f, {v} \ {v}) = 0
  <2>1. {v} \ {v} = {}
    OBVIOUS
  <2>2. SumFunctionOnSet(f, {}) = 0
    BY <1>1, SumSteps
  <2> QED
    BY <2>1, <2>2
<1>7. SumFunctionOnSet(f, {v}) = a[v]
  BY <1>1, <1>4, <1>5, <1>6
<1> QED
  BY <1>3, <1>7, FieldSmall
=============================================================================
