-------------------------- MODULE CircuitReaderProofs --------------------------
(***************************************************************************)
(* Proofs about CircuitReader, for any field, inputs, kits of gates and    *)
(* sizes of circuits. The first pass leaves a circuit whose gates read     *)
(* wires defined before them and whose values are those the gates compute  *)
(* (Circuit), with a use counter per wire that counts what the second pass *)
(* still reads of it (UsesLeft). The second pass keeps every combination a *)
(* wire points to equal to the wire's value: find hands out a shared       *)
(* pointer for editing only at the last use, so an edit is seen by no      *)
(* other wire (Pointers). Each handler is a chain of finds (FoundUpTo) or  *)
(* of edits (EditFound, Accumulates) that ends with a combination of its   *)
(* output wire (Ready), which HandledKeeps stores.                         *)
(***************************************************************************)
EXTENDS CombinationLemmas, SequenceTheorems

USE FieldAssumption, SizeAssumption

-----------------------------------------------------------------------------
(* The circuit, as the first pass leaves it *)

\* Of a set of numbers with 0 and with the successor of each member below n, up to n
\* all numbers are members.
LEMMA CountingUp ==
  ASSUME NEW n \in Nat, NEW A, 0 \in A, \A k \in 1..n : k - 1 \in A => k \in A
  PROVE  0..n \subseteq A
<1> DEFINE Bad == {T \in SUBSET (0..n) : \E k \in 0..n : k \notin A /\ T = 0..k}
<1>1. ASSUME NEW T \in Bad PROVE T # {} /\ \E x \in T : T \ {x} \in Bad
  <2>1. PICK k \in 0..n : k \notin A /\ T = 0..k
    OBVIOUS
  <2>2. k \in 1..n /\ k - 1 \in 0..n /\ k - 1 \notin A
    BY <2>1
  <2>3. k \in T /\ T \ {k} = 0..k - 1
    BY <2>1, <2>2
  <2>4. T \ {k} \in Bad
    BY <2>2, <2>3
  <2> QED
    BY <2>3, <2>4
<1>2. Bad = {}
  <2> HIDE DEF Bad
  <2>1. IsFiniteSet(0..n) /\ Bad \in SUBSET (SUBSET (0..n))
    BY FS_Interval DEF Bad
  <2> QED
    BY <1>1, <2>1, SubsetInduction
<1>3. ASSUME NEW k \in 0..n, k \notin A PROVE FALSE
  <2>1. 0..k \in Bad
    BY <1>3
  <2> QED
    BY <1>2, <2>1
<1> QED
  BY <1>3

LEMMA Powers ==
  \A k \in 0..Arity : /\ two_i[k] \in Nat \ {0}
                      /\ two_i[k] = IF k = 0 THEN 1 ELSE 2 * two_i[k - 1]
<1> DEFINE Is(f, n) == f = [k \in 0..n |-> IF k = 0 THEN 1 ELSE 2 * f[k - 1]]
           A == {n \in 0..Arity : \E f : Is(f, n)}
<1>1. 0 \in A
  <2>1. Is([k \in 0..0 |-> 1], 0)
    OBVIOUS
  <2> HIDE DEF Is
  <2> QED
    BY <2>1
<1>2. ASSUME NEW n \in 1..Arity, n - 1 \in A PROVE n \in A
  <2>1. PICK f : Is(f, n - 1)
    BY <1>2
  <2> DEFINE g == [k \in 0..n |-> IF k = n THEN 2 * f[n - 1] ELSE f[k]]
  <2>2. \A k \in 0..n : g[k] = IF k = 0 THEN 1 ELSE 2 * g[k - 1]
    BY <2>1
  <2>3. Is(g, n)
    BY <2>2
  <2> HIDE DEF Is
  <2> QED
    BY <2>3
<1>3. Arity \in A
  <2> HIDE DEF A
  <2>1. 0..Arity \subseteq A
    BY <1>1, <1>2, CountingUp
  <2> QED
    BY <2>1
<1>4. Is(two_i, Arity)
  BY <1>3 DEF two_i
<1>5. \A k \in 0..Arity : two_i[k] = IF k = 0 THEN 1 ELSE 2 * two_i[k - 1]
  BY <1>4
<1> DEFINE B == {n \in 0..Arity : two_i[n] \in Nat \ {0}}
<1>6. 0 \in B
  BY <1>5
<1>7. ASSUME NEW n \in 1..Arity, n - 1 \in B PROVE n \in B
  BY <1>5, <1>7
<1>8. 0..Arity \subseteq B
  <2> HIDE DEF B
  <2> QED
    BY <1>6, <1>7, CountingUp
<1> QED
  BY <1>5, <1>8

\* How many wires a gate reads in its list of inputs, and how many it lists as outputs.
Ins(g) == IF g.op \in {"add", "pack"} THEN Arity
          ELSE IF g.op \in {"mul", "xor", "or", "assert"} THEN 2 ELSE 1
Outs(g) == IF g.op = "split" THEN Arity ELSE IF g.op = "zerop" THEN 2 ELSE 1

GateLines == [op : GateTypes, in : Seq(Nat), out : Seq(Nat), c : Field]

Before(i) == Inputs \cup UNION {Defined(gates[j]) : j \in 1..i - 1}

InputValues(g) == [i \in DOMAIN g.in |-> values[g.in[i]]]

\* A gate reads wires defined before, defines new ones, and these have the values
\* it computes.
GateOK(g, known) ==
    /\ g.in \in [1..Ins(g) -> known]
    /\ g.out \in [1..Outs(g) -> Wires]
    /\ g.op = "assert" => g.out[1] \in known
    /\ Defined(g) \cap known = {}
    /\ \A k \in 1..Outs(g) : g.op # "assert" => values[g.out[k]] = Result(g, InputValues(g))[k]

Circuit ==
    /\ Cardinality(Wires) \in Nat /\ Wires = 0..Cardinality(Wires) - 1
    /\ Inputs \subseteq Wires
    /\ values \in [Wires -> Field]
    /\ gates \in Seq(GateLines)
    /\ \A i \in 1..Len(gates) : GateOK(gates[i], Before(i))
    /\ outputs \in Seq(Wires)
    /\ \A k \in 1..Len(outputs) : outputs[k] \notin Inputs
    /\ \A k, m \in 1..Len(outputs) : outputs[k] = outputs[m] => k = m

LEMMA DefinedWires ==
  ASSUME NEW g \in GateLines, g.out \in [1..Outs(g) -> Wires]
  PROVE  Defined(g) \subseteq Wires /\ (g.op # "assert" => g.out[Outs(g)] \in Defined(g))
BY DEF Defined, Outs, Range, GateLines, GateTypes

LEMMA BeforeIsWires ==
  ASSUME Circuit, NEW i \in Nat, i <= Len(gates) + 1
  PROVE  Before(i) \subseteq Wires
<1>1. ASSUME NEW j \in 1..i - 1 PROVE Defined(gates[j]) \subseteq Wires
  <2>1. j \in 1..Len(gates) /\ gates[j] \in GateLines /\ GateOK(gates[j], Before(j))
    BY DEF Circuit
  <2> QED
    BY <2>1, DefinedWires DEF GateOK
<1> QED
  BY <1>1 DEF Before, Circuit

\* Sums of numbers and of weighted numbers, as gates compute them.
LEMMA ResultInField ==
  ASSUME NEW g \in GateLines, g.op # "assert", NEW x \in [1..Ins(g) -> Field],
         g.out \in [1..Outs(g) -> Nat]
  PROVE  Result(g, x) \in [1..Outs(g) -> Field]
<1>0. 0 \in Field /\ 1 \in Field
  BY DEF Field
<1>1. CASE g.op = "add"
  <2>1. DOMAIN x = 1..Arity /\ IsFiniteSet(1..Arity) /\ \A i \in 1..Arity : x[i] \in Int
    BY <1>1, FS_Interval DEF Ins, Field
  <2>2. SumFunction(x) \in Int
    BY <2>1, SumInt DEF SumFunction
  <2>3. Result(g, x) = <<SumFunction(x) % P>> /\ SumFunction(x) % P \in Field
    BY <1>1, <2>2, CongRemainder DEF Result
  <2> QED
    BY <1>1, <2>3 DEF Outs
<1>2. CASE g.op = "pack"
  <2> DEFINE f == [i \in DOMAIN x |-> two_i[i - 1] * x[i]]
  <2>1. DOMAIN x = 1..Arity /\ IsFiniteSet(1..Arity) /\ \A i \in 1..Arity : f[i] \in Int
    <3>1. DOMAIN x = 1..Arity /\ IsFiniteSet(1..Arity)
      BY <1>2, FS_Interval DEF Ins
    <3>2. \A i \in 1..Arity : x[i] \in Int /\ two_i[i - 1] \in Int
      BY <3>1, Powers DEF Field, Ins
    <3> QED
      BY <3>1, <3>2
  <2>2. DOMAIN f = 1..Arity
    BY <2>1
  <2> HIDE DEF f
  <2>3. SumFunction(f) \in Int
    BY <2>1, <2>2, SumInt DEF SumFunction
  <2>4. Result(g, x) = <<SumFunction(f) % P>> /\ SumFunction(f) % P \in Field
    BY <1>2, <2>3, CongRemainder DEF Result, Weighted, f
  <2> QED
    BY <1>2, <2>4 DEF Outs
<1>3. CASE g.op = "mul"
  <2>1. x[1] \in Int /\ x[2] \in Int
    BY <1>3 DEF Ins, Field
  <2>2. (x[1] * x[2]) % P \in Field
    <3>1. x[1] * x[2] \in Int
      BY <2>1
    <3> QED
      BY <3>1, CongRemainder
  <2> QED
    BY <1>3, <2>2 DEF Outs, Result
<1>4. CASE g.op \in {"xor", "or", "zerop"}
  BY <1>0, <1>4 DEF Outs, Result
<1>5. CASE g.op = "split"
  <2>1. \A i \in 1..Arity : (x[1] \div two_i[i - 1]) % 2 \in Field
    <3> TAKE i \in 1..Arity
    <3>1. two_i[i - 1] \in Nat \ {0}
      BY Powers
    <3>2. x[1] \in Int
      BY <1>5 DEF Ins, Field
    <3>3. x[1] \div two_i[i - 1] \in Int
      BY <3>1, <3>2
    <3>4. (x[1] \div two_i[i - 1]) % 2 \in {0, 1}
      BY <3>3
    <3> QED
      BY <1>0, <3>4
  <2> QED
    BY <1>5, <2>1 DEF Outs, Result
<1>6. CASE g.op \in {"const-mul", "const-mul-neg"}
  <2>1. x[1] \in Int /\ g.c \in Int
    BY <1>6 DEF Ins, Field, GateLines
  <2>2. g.c * x[1] \in Int /\ (P - g.c) * x[1] \in Int
    BY <2>1
  <2>3. (g.c * x[1]) % P \in Field /\ ((P - g.c) * x[1]) % P \in Field
    BY <2>2, CongRemainder
  <2> QED
    BY <1>6, <2>3 DEF Outs, Result
<1> QED
  BY <1>1, <1>2, <1>3, <1>4, <1>5, <1>6 DEF GateLines, GateTypes

LEMMA FunctionIsSeq ==
  ASSUME NEW S, NEW k \in Nat, NEW f \in [1..k -> S]
  PROVE  f \in Seq(S) /\ Len(f) = k
<1>1. f = [i \in 1..k |-> f[i]] /\ \A i \in 1..k : f[i] \in S
  OBVIOUS
<1>2. [i \in 1..k |-> f[i]] \in Seq(S) /\ Len([i \in 1..k |-> f[i]]) = k
  BY <1>1
<1> QED
  BY <1>1, <1>2

\* The wires a new gate may read are those defined so far.
LEMMA UsableIsBefore ==
  ASSUME Circuit
  PROVE  Usable = Before(Len(gates) + 1) /\ Usable \subseteq Wires
<1>1. Range(gates) = {gates[j] : j \in 1..Len(gates)}
  BY DEF Range, Circuit
<1>2. Usable = Before(Len(gates) + 1)
  <2>1. Len(gates) \in Nat /\ Len(gates) + 1 - 1 = Len(gates)
    BY DEF Circuit
  <2>2. \A w : (\E g \in Range(gates) : w \in Defined(g)) <=> \E j \in 1..Len(gates) : w \in Defined(gates[j])
    BY <1>1
  <2>3. Before(Len(gates) + 1) = Inputs \cup UNION {Defined(gates[j]) : j \in 1..Len(gates)}
    BY <2>1 DEF Before
  <2> QED
    BY <2>2, <2>3 DEF Usable
<1> QED
  BY <1>2, BeforeIsWires DEF Circuit

\* What the circuit generator writes next.
LEMMA NewGateShape ==
  ASSUME Circuit, NEW op \in GateTypes, NEW g \in NewGates(op)
  PROVE  /\ g.op = op /\ g \in GateLines
         /\ g.in \in [1..Ins(g) -> Usable]
         /\ IF op = "assert" THEN g.out \in [1..1 -> Usable]
            ELSE g.out = [i \in 1..Outs(g) |-> Cardinality(Wires) + i - 1]
<1> DEFINE n == Cardinality(Wires)
<1>1. n \in Nat /\ Usable \subseteq Wires /\ Usable \subseteq Nat
  BY UsableIsBefore DEF Circuit
<1>2. 0 \in Field /\ Factors \subseteq Field
  BY DEF Field
<1> DEFINE Of(in, m) == Gate(op, in, [i \in 1..m |-> n + i - 1], 0)
<1>3. ASSUME NEW k \in Nat, NEW m \in Nat, NEW in \in [1..k -> Usable], NEW c \in Field
      PROVE  [Of(in, m) EXCEPT !.c = c] \in GateLines /\ Of(in, m) \in GateLines
  <2>1. in \in Seq(Nat)
    <3>1. in \in [1..k -> Nat]
      BY <1>1
    <3> QED
      BY <3>1, FunctionIsSeq
  <2>2. [i \in 1..m |-> n + i - 1] \in Seq(Nat)
    <3>1. \A i \in 1..m : n + i - 1 \in Nat
      BY <1>1
    <3> QED
      BY <3>1
  <2> QED
    BY <1>2, <2>1, <2>2 DEF Gate, GateLines
<1> HIDE DEF n
<1>4. CASE op \in {"add", "pack"}
  <2>1. PICK in \in [1..Arity -> Usable] : g = Of(in, 1)
    BY <1>4 DEF NewGates, n
  <2>2. g \in GateLines
    BY <1>2, <1>3, <2>1
  <2> QED
    BY <1>4, <2>1, <2>2 DEF Gate, Ins, Outs, n
<1>5. CASE op \in {"mul", "xor", "or"}
  <2>1. PICK in \in [1..2 -> Usable] : g = Of(in, 1)
    BY <1>5 DEF NewGates, n
  <2>2. g \in GateLines
    BY <1>2, <1>3, <2>1
  <2> QED
    BY <1>5, <2>1, <2>2 DEF Gate, Ins, Outs, n
<1>6. CASE op = "assert"
  <2>1. PICK in \in [1..2 -> Usable], w \in Usable : g = Gate(op, in, <<w>>, 0)
    BY <1>6 DEF NewGates
  <2>2. in \in Seq(Nat) /\ <<w>> \in Seq(Nat) /\ <<w>> \in [1..1 -> Usable]
    <3>1. in \in [1..2 -> Nat] /\ w \in Nat
      BY <1>1
    <3>2. in \in Seq(Nat)
      BY <3>1, FunctionIsSeq
    <3> QED
      BY <3>1, <3>2
  <2> QED
    BY <1>2, <1>6, <2>1, <2>2 DEF Gate, GateLines, Ins
<1>7. CASE op = "zerop"
  <2>1. PICK in \in [1..1 -> Usable] : g = Of(in, 2)
    BY <1>7 DEF NewGates, n
  <2>2. g \in GateLines
    BY <1>2, <1>3, <2>1
  <2> QED
    BY <1>7, <2>1, <2>2 DEF Gate, Ins, Outs, n
<1>8. CASE op = "split"
  <2>1. PICK in \in [1..1 -> Usable] : g = Of(in, Arity)
    <3>1. g \in {Of(in, Arity) : in \in [1..1 -> Usable]}
      BY <1>8, SMTT(60) DEF NewGates, n
    <3> QED
      BY <3>1
  <2>2. g \in GateLines
    BY <1>2, <1>3, <2>1
  <2> QED
    BY <1>8, <2>1, <2>2 DEF Gate, Ins, Outs, n
<1>9. CASE op \in {"const-mul", "const-mul-neg"}
  <2>1. PICK in \in [1..1 -> Usable], c \in Factors : g = [Of(in, 1) EXCEPT !.c = c]
    BY <1>9 DEF NewGates, n
  <2>2. g \in GateLines
    BY <1>2, <1>3, <2>1
  <2> QED
    BY <1>9, <2>1, <2>2 DEF Gate, Ins, Outs, n
<1> QED
  BY <1>4, <1>5, <1>6, <1>7, <1>8, <1>9 DEF GateTypes

\* The values of a gate's wires, when it is parsed.
LEMMA NewValues ==
  ASSUME Circuit, NEW op \in GateTypes, NEW g \in NewGates(op), values' = WithResult(g)
  PROVE  /\ Wires \subseteq Wires' /\ Wires' = 0..Cardinality(Wires') - 1 /\ Cardinality(Wires') \in Nat
         /\ values' \in [Wires' -> Field]
         /\ \A w \in Wires : values'[w] = values[w]
         /\ g.out \in [1..Outs(g) -> Wires']
         /\ op # "assert" =>
               \A k \in 1..Outs(g) : g.out[k] \notin Wires /\ values'[g.out[k]] = Result(g, InputValues(g))[k]
<1> DEFINE n == Cardinality(Wires)
           r == Result(g, InputValues(g))
           new == {g.out[i] : i \in DOMAIN r}
<1>1. /\ g.op = op /\ g \in GateLines
      /\ g.in \in [1..Ins(g) -> Usable]
      /\ IF op = "assert" THEN g.out \in [1..1 -> Usable]
         ELSE g.out = [i \in 1..Outs(g) |-> n + i - 1]
  BY NewGateShape
<1>2. n \in Nat /\ Wires = 0..n - 1 /\ values \in [Wires -> Field] /\ Usable \subseteq Wires
  BY UsableIsBefore DEF Circuit
<1>3. values' = [w \in Wires \cup new |->
                   IF w \in Wires THEN values[w] ELSE r[CHOOSE i \in DOMAIN r : g.out[i] = w]]
  BY DEF WithResult, InputValues
<1>4. Wires' = Wires \cup new
  BY <1>3 DEF Wires
<1>5. CASE op = "assert"
  <2>1. r = <<>> /\ new = {}
    BY <1>1, <1>5 DEF Result
  <2>2. Wires' = Wires
    BY <1>4, <2>1
  <2>3. \A w \in Wires : values'[w] = values[w]
    BY <1>3
  <2>4. values' \in [Wires' -> Field]
    BY <1>2, <1>3, <2>1, <2>2, <2>3
  <2>5. g.out \in [1..Outs(g) -> Wires']
    BY <1>1, <1>2, <1>5, <2>2 DEF Outs
  <2> QED
    BY <1>2, <1>5, <2>2, <2>3, <2>4, <2>5 DEF Circuit
<1>6. CASE op # "assert"
  <2>1. InputValues(g) \in [1..Ins(g) -> Field]
    BY <1>1, <1>2 DEF InputValues
  <2>2. Outs(g) \in Nat \ {0} /\ g.out \in [1..Outs(g) -> Nat]
    <3>1. Outs(g) \in Nat \ {0}
      BY DEF Outs
    <3>2. \A i \in 1..Outs(g) : n + i - 1 \in Nat
      BY <1>2, <3>1
    <3> QED
      BY <1>1, <1>6, <3>1, <3>2
  <2>3. r \in [1..Outs(g) -> Field]
    BY <1>1, <1>6, <2>1, <2>2, ResultInField
  <2> HIDE DEF r, n
  <2>4. new = n..n + Outs(g) - 1
    <3>1. \A i \in DOMAIN r : g.out[i] = n + i - 1
      BY <1>1, <1>6, <2>3
    <3>2. new = {n + i - 1 : i \in 1..Outs(g)}
      BY <2>3, <3>1
    <3>3. \A w \in n..n + Outs(g) - 1 : w - n + 1 \in 1..Outs(g) /\ w = n + (w - n + 1) - 1
      BY <1>2, <2>2
    <3>4. \A i \in 1..Outs(g) : n + i - 1 \in n..n + Outs(g) - 1
      BY <1>2, <2>2
    <3> HIDE DEF new
    <3> QED
      BY <3>2, <3>3, <3>4
  <2>5. Wires' = 0..n + Outs(g) - 1
    BY <1>2, <1>4, <2>2, <2>4
  <2>6. Cardinality(Wires') = n + Outs(g)
    <3> DEFINE m == n + Outs(g)
    <3>1. m \in Nat /\ m > 0 /\ Wires' = 0..m - 1
      BY <1>2, <2>2, <2>5
    <3> HIDE DEF m
    <3>2. Cardinality(0..m - 1) = m
      BY <3>1, FS_Interval
    <3>3. Cardinality(Wires') = m
      BY <3>1, <3>2
    <3> QED
      BY <3>3 DEF m
  <2>7. ASSUME NEW k \in 1..Outs(g)
        PROVE  g.out[k] \in new /\ g.out[k] \notin Wires /\ values'[g.out[k]] = r[k]
    <3>1. g.out[k] = n + k - 1 /\ g.out[k] \in new
      BY <1>1, <1>6, <2>3
    <3>2. g.out[k] \notin Wires
      BY <1>2, <2>2, <3>1
    <3>3. \A i \in 1..Outs(g) : g.out[i] = g.out[k] => i = k
      BY <1>1, <1>2, <1>6, <2>2, <3>1
    <3>4. (CHOOSE i \in DOMAIN r : g.out[i] = g.out[k]) = k
      BY <2>3, <3>3
    <3> QED
      BY <1>3, <3>1, <3>2, <3>4
  <2>8. \A w \in Wires : values'[w] = values[w]
    BY <1>3
  <2>9. \A w \in Wires' : values'[w] \in Field
    <3> TAKE w \in Wires'
    <3>1. CASE w \in Wires
      BY <1>2, <2>8, <3>1
    <3>2. CASE w \notin Wires
      <4>1. PICK k \in 1..Outs(g) : w = g.out[k]
        BY <1>4, <2>3, <3>2
      <4> QED
        BY <2>3, <2>7, <4>1
    <3> QED
      BY <3>1, <3>2
  <2>10. values' \in [Wires' -> Field]
    BY <1>3, <1>4, <2>9
  <2>11. g.out \in [1..Outs(g) -> Wires']
    BY <1>4, <2>2, <2>7
  <2>12. Wires \subseteq Wires' /\ Wires' = 0..Cardinality(Wires') - 1 /\ Cardinality(Wires') \in Nat
    <3>1. Wires \subseteq Wires'
      BY <1>4
    <3> DEFINE m == n + Outs(g)
    <3>2. m \in Nat /\ Cardinality(Wires') = m /\ Wires' = 0..m - 1
      BY <1>2, <2>2, <2>5, <2>6
    <3> HIDE DEF m
    <3>3. Wires' = 0..Cardinality(Wires') - 1
      BY <3>2
    <3> QED
      BY <3>1, <3>2, <3>3
  <2> QED
    BY <2>7, <2>8, <2>10, <2>11, <2>12 DEF r
<1> QED
  BY <1>5, <1>6

LEMMA CircuitInit == Init => Circuit
<1> SUFFICES ASSUME Init PROVE Circuit
  OBVIOUS
<1>1. Wires = Inputs /\ \A w \in Wires : values[w] \in Field /\ gates = <<>> /\ outputs = <<>>
  <2>1. Data \cup {1} \subseteq Field
    BY DEF Field
  <2> QED
    BY <2>1 DEF Init, Wires
<1>2. values \in [Wires -> Field]
  BY <1>1 DEF Init, Wires
<1>3. Cardinality(Wires) \in Nat /\ Wires = 0..Cardinality(Wires) - 1
  <2> DEFINE m == NumInputs + NumNizk
  <2>1. m \in Nat /\ m > 0 /\ Wires = 0..m - 1
    BY <1>1 DEF Inputs
  <2> HIDE DEF m
  <2>2. Cardinality(0..m - 1) = m
    BY <2>1, FS_Interval
  <2>3. Cardinality(Wires) = m
    BY <2>1, <2>2
  <2> QED
    BY <2>1, <2>3
<1>4. gates \in Seq(GateLines) /\ Len(gates) = 0 /\ outputs \in Seq(Wires) /\ Len(outputs) = 0
  BY DEF Init
<1> QED
  BY <1>1, <1>2, <1>3, <1>4 DEF Circuit

\* A gate is as it was when lines are added behind it.
LEMMA GateKept ==
  ASSUME Circuit, NEW known, known \subseteq Wires, NEW g \in GateLines, GateOK(g, known),
         Wires \subseteq Wires', \A w \in Wires : values'[w] = values[w]
  PROVE  /\ g.in \in [1..Ins(g) -> known]
         /\ g.out \in [1..Outs(g) -> Wires']
         /\ \A k \in 1..Outs(g) : g.op # "assert" =>
              values'[g.out[k]] = Result(g, InputValues(g)')[k]
<1>1. InputValues(g)' = InputValues(g)
  BY DEF InputValues, GateOK
<1> QED
  BY <1>1 DEF GateOK

LEMMA ParseGateCircuit == Circuit /\ ParseGate => Circuit'
<1> SUFFICES ASSUME Circuit, ParseGate PROVE Circuit'
  OBVIOUS
<1>0. PICK op \in GateTypes : \E g \in NewGates(op) :
        gates' = Append(gates, g) /\ values' = WithResult(g) /\ outputs' = outputs
  BY KitsAssumption DEF ParseGate
<1>1. PICK g \in NewGates(op) :
        gates' = Append(gates, g) /\ values' = WithResult(g) /\ outputs' = outputs
  BY <1>0
<1> PICK m : m = Len(gates)
  OBVIOUS
<1>2. /\ g.op = op /\ g \in GateLines
      /\ g.in \in [1..Ins(g) -> Usable]
      /\ IF op = "assert" THEN g.out \in [1..1 -> Usable]
         ELSE g.out = [i \in 1..Outs(g) |-> Cardinality(Wires) + i - 1]
  BY NewGateShape
<1>3. /\ Wires \subseteq Wires' /\ Wires' = 0..Cardinality(Wires') - 1 /\ Cardinality(Wires') \in Nat
      /\ values' \in [Wires' -> Field]
      /\ \A w \in Wires : values'[w] = values[w]
      /\ g.out \in [1..Outs(g) -> Wires']
      /\ op # "assert" =>
            \A k \in 1..Outs(g) : g.out[k] \notin Wires /\ values'[g.out[k]] = Result(g, InputValues(g))[k]
  BY <1>1, NewValues
<1>4. /\ gates' \in Seq(GateLines) /\ m \in Nat /\ Len(gates') = m + 1 /\ gates'[m + 1] = g
      /\ \A i \in 1..m : gates'[i] = gates[i]
  <2>1. gates \in Seq(GateLines)
    BY DEF Circuit
  <2> QED
    BY <1>1, <1>2, <2>1, AppendProperties
<1>5. ASSUME NEW i \in 1..m + 1 PROVE Before(i)' = Before(i)
  <2>1. \A j \in 1..i - 1 : gates'[j] = gates[j]
    BY <1>4
  <2>2. \A j \in 1..i - 1 : Defined(gates'[j]) = Defined(gates[j])
    BY <2>1
  <2> QED
    BY <2>2 DEF Before, Inputs
<1>6. Usable = Before(m + 1) /\ Usable \subseteq Wires
  BY UsableIsBefore
<1>7. ASSUME NEW i \in 1..m PROVE GateOK(gates[i], Before(i))'
  <2>0. i \in 1..Len(gates) /\ i \in Nat /\ i \in 1..m + 1 /\ i <= Len(gates) + 1
    BY <1>4
  <2>1. gates'[i] = gates[i] /\ Before(i)' = Before(i) /\ gates[i] \in GateLines
    <3>1. gates'[i] = gates[i]
      BY <1>4
    <3>2. Before(i)' = Before(i)
      BY <1>5, <2>0
    <3>3. gates[i] \in GateLines
      BY <2>0, ElementOfSeq DEF Circuit
    <3> QED
      BY <3>1, <3>2, <3>3
  <2>2. GateOK(gates[i], Before(i)) /\ Before(i) \subseteq Wires
    <3>1. GateOK(gates[i], Before(i))
      BY <2>0 DEF Circuit
    <3> QED
      BY <2>0, <3>1, BeforeIsWires
  <2> PICK h : h = gates[i]
    OBVIOUS
  <2> PICK known : known = Before(i)
    OBVIOUS
  <2>3. /\ h.in \in [1..Ins(h) -> known]
        /\ h.out \in [1..Outs(h) -> Wires']
        /\ \A k \in 1..Outs(h) : h.op # "assert" =>
             values'[h.out[k]] = Result(h, InputValues(h)')[k]
    <3>1. h \in GateLines /\ GateOK(h, known) /\ known \subseteq Wires
      BY <2>1, <2>2
    <3> QED
      BY <1>3, <3>1, GateKept
  <2>4. Defined(h) \cap known = {} /\ (h.op = "assert" => h.out[1] \in known)
    BY <2>2 DEF GateOK
  <2>5. gates'[i] = h /\ Before(i)' = known
    BY <2>1
  <2> QED
    BY <2>3, <2>4, <2>5 DEF GateOK
<1>8. GateOK(gates[m + 1], Before(m + 1))'
  <2>1. gates'[m + 1] = g /\ Before(m + 1)' = Usable
    <3>1. m + 1 \in 1..m + 1
      BY <1>4
    <3>2. Before(m + 1)' = Before(m + 1)
      BY <1>5, <3>1
    <3> QED
      BY <1>4, <1>6, <3>2
  <2>2. InputValues(g)' = InputValues(g)
    BY <1>2, <1>3, <1>6 DEF InputValues
  <2>3. /\ g.in \in [1..Ins(g) -> Usable]
        /\ g.out \in [1..Outs(g) -> Wires']
        /\ \A k \in 1..Outs(g) : g.op # "assert" =>
             values'[g.out[k]] = Result(g, InputValues(g)')[k]
    BY <1>2, <1>3, <2>2
  <2>4. Defined(g) \cap Usable = {} /\ (op = "assert" => g.out[1] \in Usable)
    BY <1>2, <1>3, <1>6 DEF Defined, Range, Outs
  <2> QED
    BY <1>2, <2>1, <2>3, <2>4 DEF GateOK
<1>9. \A i \in 1..Len(gates') : GateOK(gates[i], Before(i))'
  <2> TAKE i \in 1..Len(gates')
  <2>1. i \in 1..m \/ i = m + 1
    BY <1>4
  <2> QED
    BY <1>7, <1>8, <2>1
<1>10. /\ outputs' \in Seq(Wires')
       /\ \A k \in 1..Len(outputs') : outputs'[k] \notin Inputs
       /\ \A k, l \in 1..Len(outputs') : outputs'[k] = outputs'[l] => k = l
  <2>1. outputs' \in Seq(Wires')
    BY <1>1, <1>3, SeqMonotonic DEF Circuit
  <2> QED
    BY <1>1, <2>1 DEF Circuit
<1> QED
  BY <1>3, <1>4, <1>9, <1>10 DEF Circuit, Inputs

LEMMA GatesKept ==
  ASSUME UNCHANGED <<gates, values>>, \A i \in 1..Len(gates) : GateOK(gates[i], Before(i))
  PROVE  \A i \in 1..Len(gates') : GateOK(gates[i], Before(i))'
<1> SUFFICES ASSUME NEW i \in 1..Len(gates) PROVE GateOK(gates[i], Before(i))'
  OBVIOUS
<1>1. GateOK(gates[i], Before(i)) /\ gates' = gates /\ values' = values
  OBVIOUS
<1>2. Before(i)' = Before(i)
  BY <1>1 DEF Before, Inputs
<1>3. InputValues(gates[i])' = InputValues(gates[i]) /\ Wires' = Wires
  BY <1>1 DEF InputValues, Wires
<1> QED
  BY <1>1, <1>2, <1>3 DEF GateOK

LEMMA CircuitKept == Circuit /\ UNCHANGED <<gates, values>> /\ UNCHANGED outputs => Circuit'
<1> SUFFICES ASSUME Circuit, UNCHANGED <<gates, values>>, UNCHANGED outputs PROVE Circuit'
  OBVIOUS
<1>1. Wires' = Wires
  BY DEF Wires
<1>2. \A i \in 1..Len(gates') : GateOK(gates[i], Before(i))'
  BY GatesKept DEF Circuit
<1> QED
  BY <1>1, <1>2 DEF Circuit, Inputs

LEMMA ParseOutputCircuit == Circuit /\ ParseOutput => Circuit'
<1> SUFFICES ASSUME Circuit, ParseOutput PROVE Circuit'
  OBVIOUS
<1>1. PICK w \in Usable \ (Inputs \cup Range(outputs)) : outputs' = Append(outputs, w)
  BY DEF ParseOutput, NewOutputs
<1>2. UNCHANGED <<gates, values>> /\ Wires' = Wires
  BY DEF ParseOutput, Wires
<1>3. /\ Cardinality(Wires) \in Nat /\ Wires = 0..Cardinality(Wires) - 1
      /\ Inputs \subseteq Wires
      /\ values \in [Wires -> Field]
      /\ gates \in Seq(GateLines)
      /\ \A i \in 1..Len(gates) : GateOK(gates[i], Before(i))
  BY DEF Circuit
<1>4. \A i \in 1..Len(gates') : GateOK(gates[i], Before(i))'
  BY <1>2, <1>3, GatesKept
<1>5. /\ outputs' \in Seq(Wires) /\ Len(outputs') = Len(outputs) + 1
      /\ \A k \in 1..Len(outputs) : outputs'[k] = outputs[k]
      /\ outputs'[Len(outputs) + 1] = w /\ Len(outputs) \in Nat /\ outputs \in Seq(Wires)
  <2>1. w \in Wires /\ outputs \in Seq(Wires)
    BY UsableIsBefore DEF Circuit
  <2> QED
    BY <1>1, <2>1, AppendProperties
<1>6. \A k \in 1..Len(outputs) : outputs[k] # w
  BY <1>5 DEF Range
<1>7. /\ \A k \in 1..Len(outputs') : outputs'[k] \notin Inputs
      /\ \A k, l \in 1..Len(outputs') : outputs'[k] = outputs'[l] => k = l
  <2>1. \A k \in 1..Len(outputs') : k \in 1..Len(outputs) \/ k = Len(outputs) + 1
    BY <1>5
  <2> QED
    BY <1>5, <1>6, <2>1 DEF Circuit
<1> QED
  BY <1>2, <1>3, <1>4, <1>5, <1>7 DEF Circuit, Inputs

-----------------------------------------------------------------------------
(* The inductive invariant *)

Seqs == /\ cons \in Seq(Range(cons)) /\ next \in 1..Len(gates) + 1 /\ Len(cons) = next - 1
        /\ phase \in {"parse", "construct", "map", "done", "exit", "fatal"}

\* What the second and the third pass have built before they start.
Unbuilt ==
    /\ phase = "parse" => /\ next = 1 /\ heap = <<>> /\ lcOf = <<>> /\ zeroPs = <<>>
                          /\ zeroOf = <<>> /\ vs = [of |-> <<>>, n |-> 0]
    /\ phase \in {"parse", "construct"} => zeropIdx = 1

\* The uses of wire w that the second pass, at gate i, still has before it.
LeftFrom(i, w) ==
    SumFunctionOnSet([j \in 1..Len(gates) |-> Count(Reads(gates[j]), w)], i..Len(gates))
      + (IF w \in Range(outputs) THEN 1 ELSE 0)

UsesLeft == uses = [w \in Wires |-> LeftFrom(next, w)]

\* Every wire has a variable of its own.
IsVarMap(v) ==
    /\ v = [of |-> v.of, n |-> v.n] /\ v.n \in Nat
    /\ DOMAIN v.of \subseteq Wires /\ v.of \in [DOMAIN v.of -> 0..v.n - 1]
    /\ \A w, u \in DOMAIN v.of : v.of[w] = v.of[u] => w = u

LCs(V) == UNION {[D -> Field] : D \in SUBSET V}

\* The variables of the wires that the gates before the next one read or define.
Known == {vs.of[w] : w \in DOMAIN vs.of \cap Before(next)}

\* No two wires share a combination.
Pointers ==
    /\ heap \in Seq(LCs(Known))
    /\ DOMAIN lcOf \subseteq Wires /\ lcOf \in [DOMAIN lcOf -> 1..Len(heap)]
    /\ \A w, u \in DOMAIN lcOf : lcOf[w] = lcOf[u] => w = u

Zerops ==
    /\ zeroPs \in Seq(1..Len(heap))
    /\ DOMAIN zeroOf \subseteq DOMAIN vs.of \cap Before(next)
    /\ zeroOf \in [DOMAIN zeroOf -> 0..vs.n - 1]
    /\ Len(zeroPs) = Cardinality(DOMAIN zeroOf)

Mapping ==
    /\ DOMAIN val \subseteq 0..vs.n - 1 /\ val \in [DOMAIN val -> Field]
    /\ unmapped \subseteq DOMAIN vs.of
    /\ zeropIdx \in 1..Len(zeroPs) + 1
    /\ phase = "map" => zeropIdx + Cardinality(unmapped \cap DOMAIN zeroOf) = Len(zeroPs) + 1

IInv == /\ Circuit /\ Seqs /\ Unbuilt /\ UsesLeft /\ IsVarMap(vs) /\ Pointers
        /\ LiveLCsEvaluate /\ NoInputLost /\ Zerops /\ Mapping

-----------------------------------------------------------------------------
(* Counting uses *)

LEMMA SumIsNat ==
  ASSUME NEW S, IsFiniteSet(S), NEW f, \A x \in S : f[x] \in Nat
  PROVE  SumFunctionOnSet(f, S) \in Nat
<1> DEFINE F(T) == SumFunctionOnSet(f, T)
           Bad == {T \in SUBSET S : F(T) \notin Nat}
<1>1. ASSUME NEW T \in Bad PROVE T # {} /\ \E x \in T : T \ {x} \in Bad
  <2>1. IsFiniteSet(T) /\ \A x \in T : f[x] \in Int
    BY FS_Subset
  <2>2. T # {}
    <3>1. F({}) = 0
      BY SumSteps, FS_EmptySet
    <3> QED
      BY <3>1
  <2>3. PICK x \in T : TRUE
    BY <2>2
  <2>4. F(T) = f[x] + F(T \ {x}) /\ f[x] \in Nat
    BY <2>1, SumRemove
  <2> HIDE DEF F
  <2>5. F(T \ {x}) \notin Nat
    <3>1. F(T) \notin Nat
      BY <1>1
    <3> QED
      BY <2>4, <3>1
  <2> QED
    BY <2>3, <2>5
<1>2. Bad = {}
  <2> HIDE DEF Bad
  <2>1. Bad \in SUBSET (SUBSET S)
    BY DEF Bad
  <2> QED
    BY <1>1, <2>1, SubsetInduction
<1> QED
  BY <1>2

\* How often w is among the elements of r from place k on.
Rest(r, k, w) == Cardinality({i \in k..Len(r) : r[i] = w})

LEMMA RestSteps ==
  ASSUME NEW S, NEW r \in Seq(S), NEW w
  PROVE  /\ Rest(r, 1, w) = Count(r, w) /\ Rest(r, Len(r) + 1, w) = 0
         /\ \A k \in 1..Len(r) + 1 : Rest(r, k, w) \in Nat
         /\ \A k \in 1..Len(r) : Rest(r, k, w) = Rest(r, k + 1, w) + (IF r[k] = w THEN 1 ELSE 0)
<1> DEFINE n == Len(r)
           T(k) == {i \in k..n : r[i] = w}
<1>1. n \in Nat /\ DOMAIN r = 1..n
  OBVIOUS
<1> HIDE DEF n
<1>2. ASSUME NEW k \in 1..n + 1 PROVE IsFiniteSet(T(k)) /\ Cardinality(T(k)) \in Nat
  <2>1. IsFiniteSet(k..n) /\ T(k) \subseteq k..n
    BY <1>1, FS_Interval
  <2>2. IsFiniteSet(T(k))
    BY <2>1, FS_Subset
  <2> QED
    BY <2>2, FS_CardinalityType
<1>3. T(n + 1) = {}
  BY <1>1
<1>4. Cardinality(T(n + 1)) = 0
  BY <1>3, FS_EmptySet
<1>5. ASSUME NEW k \in 1..n
      PROVE  Cardinality(T(k)) = Cardinality(T(k + 1)) + (IF r[k] = w THEN 1 ELSE 0)
  <2>1. k + 1 \in 1..n + 1 /\ k \notin T(k + 1)
    BY <1>1
  <2>2. CASE r[k] = w
    <3>1. T(k) = T(k + 1) \cup {k}
      BY <1>1, <2>2
    <3>2. Cardinality(T(k + 1) \cup {k}) = Cardinality(T(k + 1)) + 1
      <4> HIDE DEF T
      <4> QED
        BY <1>2, <2>1, FS_AddElement
    <3> QED
      BY <2>2, <3>1, <3>2
  <2>3. CASE r[k] # w
    <3>1. T(k) = T(k + 1)
      BY <1>1, <2>3
    <3>2. Cardinality(T(k + 1)) \in Nat
      BY <1>2, <2>1
    <3>3. Cardinality(T(k)) = Cardinality(T(k + 1))
      BY <3>1
    <3> QED
      BY <2>3, <3>2, <3>3
  <2> QED
    BY <2>2, <2>3
<1>6. Rest(r, 1, w) = Count(r, w)
  <2>1. T(1) = {i \in DOMAIN r : r[i] = w}
    BY <1>1
  <2> QED
    BY <2>1 DEF Rest, Count, n
<1> QED
  BY <1>2, <1>4, <1>5, <1>6 DEF Rest, n

LEMMA CountIsNat ==
  ASSUME NEW S, NEW r \in Seq(S), NEW w
  PROVE  Count(r, w) \in Nat /\ (w \notin Range(r) => Count(r, w) = 0) /\ (w \in Range(r) => Count(r, w) > 0)
<1>1. Count(r, w) \in Nat
  <2>1. Len(r) \in Nat /\ 1 \in 1..Len(r) + 1
    OBVIOUS
  <2> QED
    BY <2>1, RestSteps
<1>2. ASSUME w \notin Range(r) PROVE Count(r, w) = 0
  <2>1. {i \in DOMAIN r : r[i] = w} = {}
    BY <1>2 DEF Range
  <2> QED
    BY <2>1, FS_EmptySet DEF Count
<1>3. ASSUME w \in Range(r) PROVE Count(r, w) > 0
  <2> DEFINE T == {i \in DOMAIN r : r[i] = w}
  <2>1. T # {}
    BY <1>3 DEF Range
  <2>2. IsFiniteSet(T)
    <3>1. IsFiniteSet(1..Len(r)) /\ T \subseteq 1..Len(r)
      BY FS_Interval
    <3> QED
      BY <3>1, FS_Subset
  <2>3. Cardinality(T) # 0 /\ Cardinality(T) \in Nat
    BY <2>1, <2>2, FS_EmptySet, FS_CardinalityType
  <2> QED
    BY <2>3 DEF Count
<1> QED
  BY <1>1, <1>2, <1>3

LEMMA ReadsShape ==
  ASSUME Circuit, NEW i \in 1..Len(gates)
  PROVE  /\ gates[i] \in GateLines /\ GateOK(gates[i], Before(i)) /\ Before(i) \subseteq Wires
         /\ Reads(gates[i]) \in Seq(Wires) /\ Range(Reads(gates[i])) \subseteq Before(i)
<1>1. gates[i] \in GateLines /\ GateOK(gates[i], Before(i))
  BY ElementOfSeq DEF Circuit
<1>2. Before(i) \subseteq Wires
  BY BeforeIsWires DEF Circuit
<1> PICK g : g = gates[i]
  OBVIOUS
<1> PICK K : K = Before(i)
  OBVIOUS
<1>3. /\ g.in \in Seq(K)
      /\ g.op = "assert" => g.out \in Seq(K)
  <2>1. g.in \in [1..Ins(g) -> K] /\ Ins(g) \in Nat
    BY <1>1 DEF GateOK, Ins
  <2>2. g.op = "assert" => g.out \in [1..1 -> K]
    BY <1>1 DEF GateOK, Outs
  <2>3. g.in \in Seq(K)
    BY <2>1, FunctionIsSeq
  <2> QED
    BY <2>2, <2>3, FunctionIsSeq
<1>4. Reads(g) \in Seq(K)
  BY <1>3 DEF Reads
<1>5. Reads(g) \in Seq(Wires)
  BY <1>2, <1>4, SeqMonotonic
<1>6. Range(Reads(g)) \subseteq K
  BY <1>4 DEF Range
<1> QED
  BY <1>1, <1>2, <1>5, <1>6

LEMMA LeftSteps ==
  ASSUME Circuit, NEW w, NEW i \in 1..Len(gates) + 1
  PROVE  /\ LeftFrom(i, w) \in Nat
         /\ i <= Len(gates) => LeftFrom(i, w) = LeftFrom(i + 1, w) + Count(Reads(gates[i]), w)
         /\ LeftFrom(i, w) = 0 =>
              /\ w \notin Range(outputs)
              /\ \A j \in i..Len(gates) : w \notin Range(Reads(gates[j]))
<1> PICK n : n = Len(gates)
  OBVIOUS
<1> DEFINE f == [j \in 1..n |-> Count(Reads(gates[j]), w)]
           o == IF w \in Range(outputs) THEN 1 ELSE 0
           Sum(k) == SumFunctionOnSet(f, k..n)
<1>1. n \in Nat
  BY DEF Circuit
<1>2. \A j \in 1..n : f[j] \in Nat /\ (w \in Range(Reads(gates[j])) => f[j] > 0)
  BY ReadsShape, CountIsNat
<1>3. \A k \in 1..n + 1 : LeftFrom(k, w) = Sum(k) + o
  BY DEF LeftFrom
<1>4. ASSUME NEW k \in 1..n + 1 PROVE IsFiniteSet(k..n) /\ k..n \subseteq 1..n
  <2>1. k \in Int /\ n \in Int
    BY <1>1
  <2>2. IsFiniteSet(k..n)
    BY <2>1, FS_Interval
  <2> QED
    BY <1>1, <2>2
<1> HIDE DEF f
<1>5. \A k \in 1..n + 1 : Sum(k) \in Nat
  BY <1>2, <1>4, SumIsNat
<1>6. ASSUME NEW k \in 1..n + 1, NEW j \in k..n PROVE Sum(k) >= f[j]
  <2>1. \A x \in k..n : f[x] \in Int
    BY <1>2
  <2>2. Sum(k) = f[j] + SumFunctionOnSet(f, (k..n) \ {j})
    BY <1>4, <2>1, SumRemove
  <2>3. SumFunctionOnSet(f, (k..n) \ {j}) \in Nat
    <3>1. IsFiniteSet((k..n) \ {j})
      BY <1>4, FS_Subset
    <3>2. \A x \in (k..n) \ {j} : f[x] \in Nat
      BY <1>2
    <3> QED
      BY <3>1, <3>2, SumIsNat
  <2> QED
    BY <1>2, <2>2, <2>3
<1>7. ASSUME i <= n PROVE Sum(i) = f[i] + Sum(i + 1)
  <2>1. i \in i..n /\ (i..n) \ {i} = i + 1..n /\ \A x \in i..n : f[x] \in Int
    BY <1>1, <1>2, <1>7
  <2>2. Sum(i) = f[i] + SumFunctionOnSet(f, (i..n) \ {i})
    BY <1>4, <2>1, SumRemove
  <2> QED
    BY <2>1, <2>2
<1>8. i <= n => f[i] = Count(Reads(gates[i]), w)
  BY <1>1 DEF f
<1> HIDE DEF Sum
<1>9. ASSUME LeftFrom(i, w) = 0
      PROVE  w \notin Range(outputs) /\ \A j \in i..n : w \notin Range(Reads(gates[j]))
  <2>1. Sum(i) = 0 /\ o = 0
    BY <1>3, <1>5, <1>9
  <2>2. ASSUME NEW j \in i..n PROVE w \notin Range(Reads(gates[j]))
    BY <1>2, <1>6, <2>1
  <2> QED
    BY <2>1, <2>2
<1>10. i <= n => LeftFrom(i, w) = LeftFrom(i + 1, w) + Count(Reads(gates[i]), w)
  <2> SUFFICES ASSUME i <= n PROVE LeftFrom(i, w) = LeftFrom(i + 1, w) + Count(Reads(gates[i]), w)
    OBVIOUS
  <2>1. i \in 1..n /\ i + 1 \in 1..n + 1
    BY <1>1
  <2>2. Sum(i) = Count(Reads(gates[i]), w) + Sum(i + 1) /\ Count(Reads(gates[i]), w) \in Nat
    BY <1>2, <1>7, <1>8, <2>1
  <2>3. Sum(i + 1) \in Nat /\ o \in Nat
    BY <1>5, <2>1
  <2> QED
    BY <1>3, <2>1, <2>2, <2>3
<1> QED
  BY <1>3, <1>5, <1>9, <1>10

-----------------------------------------------------------------------------
(* The first pass counts the uses the second one makes *)

LEMMA NoUsesOfOthers ==
  ASSUME Circuit, NEW w, w \notin Wires
  PROVE  LeftFrom(1, w) = 0
<1> PICK n : n = Len(gates)
  OBVIOUS
<1> DEFINE f == [j \in 1..n |-> Count(Reads(gates[j]), w)]
<1>1. n \in Nat /\ IsFiniteSet(1..n) /\ w \notin Range(outputs)
  <2>1. n \in Nat /\ outputs \in Seq(Wires)
    BY DEF Circuit
  <2>2. w \notin Range(outputs)
    BY <2>1 DEF Range
  <2> QED
    BY <2>1, <2>2, FS_Interval
<1>2. \A j \in 1..n : f[j] \in Int /\ f[j] = 0
  BY ReadsShape, CountIsNat
<1>3. LeftFrom(1, w) = SumFunctionOnSet(f, 1..n)
  <2>1. LeftFrom(1, w) = SumFunctionOnSet(f, 1..n) + 0
    BY <1>1 DEF LeftFrom
  <2>2. SumFunctionOnSet(f, 1..n) \in Int
    <3> HIDE DEF f
    <3> QED
      BY <1>1, <1>2, SumInt
  <2> QED
    BY <2>1, <2>2
<1> HIDE DEF f
<1>4. SumFunctionOnSet(f, 1..n) = SumFunctionOnSet(f, {})
  <2>1. \A j \in (1..n) \ {} : f[j] = 0
    BY <1>2
  <2>2. {} \in SUBSET (1..n)
    OBVIOUS
  <2> QED
    BY <1>1, <1>2, <2>1, <2>2, SumWithoutZeros
<1>5. SumFunctionOnSet(f, {}) = 0
  BY SumSteps, FS_EmptySet
<1> QED
  BY <1>3, <1>4, <1>5

LEMMA ParseGateUses ==
  ASSUME Circuit, Unbuilt, UsesLeft, ParseGate, Circuit'
  PROVE  UsesLeft'
<1>0. PICK op \in GateTypes : \E g \in NewGates(op) :
        /\ gates' = Append(gates, g) /\ values' = WithResult(g) /\ outputs' = outputs
        /\ uses' = [w \in DOMAIN values' |-> (IF w \in Wires THEN uses[w] ELSE 0) + Count(Reads(g), w)]
  BY KitsAssumption DEF ParseGate
<1>1. PICK g \in NewGates(op) :
        /\ gates' = Append(gates, g) /\ values' = WithResult(g) /\ outputs' = outputs
        /\ uses' = [w \in DOMAIN values' |-> (IF w \in Wires THEN uses[w] ELSE 0) + Count(Reads(g), w)]
  BY <1>0
<1>2. next = 1 /\ next' = 1 /\ Wires' = DOMAIN values'
  BY DEF ParseGate, Unbuilt, Wires
<1> PICK n : n = Len(gates)
  OBVIOUS
<1>3. /\ g \in GateLines /\ gates \in Seq(GateLines) /\ n \in Nat
      /\ Len(gates') = n + 1 /\ gates'[n + 1] = g /\ \A j \in 1..n : gates'[j] = gates[j]
  <2>1. g \in GateLines /\ gates \in Seq(GateLines)
    BY NewGateShape DEF Circuit
  <2> QED
    BY <1>1, <2>1, AppendProperties
<1>4. ASSUME NEW w PROVE LeftFrom(1, w)' = LeftFrom(1, w) + Count(Reads(g), w)
  <2> DEFINE f == [j \in 1..n |-> Count(Reads(gates[j]), w)]
             h == [j \in 1..n + 1 |-> Count(Reads(gates'[j]), w)]
             o == IF w \in Range(outputs) THEN 1 ELSE 0
             F == SumFunctionOnSet(f, 1..n)
             H == SumFunctionOnSet(h, 1..n)
             c == Count(Reads(g), w)
  <2>1. \A j \in 1..n : f[j] \in Int
    BY ReadsShape, CountIsNat
  <2>2. c \in Int
    <3>1. g.in \in Seq(Nat) /\ g.out \in Seq(Nat)
      BY <1>3 DEF GateLines
    <3>2. Reads(g) \in Seq(Nat)
      BY <3>1 DEF Reads
    <3> QED
      BY <3>2, CountIsNat
  <2>3. \A j \in 1..n : h[j] = f[j]
    BY <1>3
  <2>4. h[n + 1] = c
    BY <1>3
  <2>5. LeftFrom(1, w) = F + o
    BY DEF LeftFrom
  <2>6. LeftFrom(1, w)' = SumFunctionOnSet(h, 1..n + 1) + o
    BY <1>1, <1>3 DEF LeftFrom
  <2> HIDE DEF f, h, c
  <2>7. SumFunctionOnSet(h, 1..n + 1) = c + H
    <3>1. IsFiniteSet(1..n + 1) /\ n + 1 \in 1..n + 1 /\ (1..n + 1) \ {n + 1} = 1..n
      BY <1>3, FS_Interval
    <3>2. \A j \in 1..n + 1 : h[j] \in Int
      <4> TAKE j \in 1..n + 1
      <4>1. j \in 1..n \/ j = n + 1
        BY <1>3
      <4> QED
        BY <2>1, <2>2, <2>3, <2>4, <4>1
    <3>3. SumFunctionOnSet(h, 1..n + 1) = h[n + 1] + SumFunctionOnSet(h, (1..n + 1) \ {n + 1})
      BY <3>1, <3>2, SumRemove
    <3> QED
      BY <2>4, <3>1, <3>3
  <2>8. H = F /\ F \in Int
    <3>1. IsFiniteSet(1..n)
      BY <1>3, FS_Interval
    <3> QED
      BY <2>1, <2>3, <3>1, SumSame, SumInt
  <2> HIDE DEF F, H
  <2> QED
    BY <2>2, <2>5, <2>6, <2>7, <2>8 DEF c
<1>5. ASSUME NEW w \in Wires' PROVE uses'[w] = LeftFrom(1, w)'
  <2>1. uses'[w] = (IF w \in Wires THEN uses[w] ELSE 0) + Count(Reads(g), w)
    BY <1>1, <1>2
  <2>2. (IF w \in Wires THEN uses[w] ELSE 0) = LeftFrom(1, w)
    BY <1>2, NoUsesOfOthers DEF UsesLeft
  <2> QED
    BY <1>4, <2>1, <2>2
<1>6. uses' = [w \in Wires' |-> uses'[w]]
  BY <1>1, <1>2
<1>7. uses' = [w \in Wires' |-> LeftFrom(1, w)']
  BY <1>5, <1>6
<1> QED
  BY <1>2, <1>7 DEF UsesLeft

LEMMA ParseOutputUses ==
  ASSUME Circuit, Unbuilt, UsesLeft, ParseOutput
  PROVE  UsesLeft'
<1>1. PICK w \in Usable \ (Inputs \cup Range(outputs)) :
        outputs' = Append(outputs, w) /\ uses' = [uses EXCEPT ![w] = @ + 1]
  BY DEF ParseOutput, NewOutputs
<1>2. next = 1 /\ next' = 1 /\ Wires' = Wires /\ gates' = gates
  BY DEF ParseOutput, Unbuilt, Wires
<1>3. Range(outputs') = Range(outputs) \cup {w}
  <2>1. outputs \in Seq(Wires) /\ w \in Wires
    BY UsableIsBefore DEF Circuit
  <2>2. /\ DOMAIN outputs' = DOMAIN outputs \cup {Len(outputs) + 1}
        /\ outputs'[Len(outputs) + 1] = w
        /\ \A k \in DOMAIN outputs : outputs'[k] = outputs[k]
    BY <1>1, <2>1
  <2> QED
    BY <2>2 DEF Range
<1>4. ASSUME NEW u \in Wires
      PROVE  LeftFrom(1, u)' = LeftFrom(1, u) + (IF u = w THEN 1 ELSE 0)
  <2> DEFINE F == SumFunctionOnSet([j \in 1..Len(gates) |-> Count(Reads(gates[j]), u)], 1..Len(gates))
  <2>1. /\ LeftFrom(1, u) = F + (IF u \in Range(outputs) THEN 1 ELSE 0)
        /\ LeftFrom(1, u)' = F + (IF u \in Range(outputs') THEN 1 ELSE 0)
    BY <1>2 DEF LeftFrom
  <2>2. F \in Int
    <3> DEFINE f == [j \in 1..Len(gates) |-> Count(Reads(gates[j]), u)]
    <3>1. \A j \in 1..Len(gates) : f[j] \in Int
      BY ReadsShape, CountIsNat
    <3>2. IsFiniteSet(1..Len(gates))
      BY FS_Interval DEF Circuit
    <3> HIDE DEF f
    <3>3. SumFunctionOnSet(f, 1..Len(gates)) \in Int
      BY <3>1, <3>2, SumInt
    <3> QED
      BY <3>3 DEF f
  <2> HIDE DEF F
  <2>3. w \notin Range(outputs)
    OBVIOUS
  <2> QED
    BY <1>3, <2>1, <2>2, <2>3
<1>5. \A u \in Wires : uses'[u] = LeftFrom(1, u)'
  BY <1>1, <1>2, <1>4, LeftSteps DEF UsesLeft
<1>6. uses' = [u \in Wires' |-> uses'[u]]
  BY <1>1, <1>2 DEF UsesLeft
<1>7. uses' = [u \in Wires' |-> LeftFrom(1, u)']
  BY <1>2, <1>5, <1>6
<1> QED
  BY <1>2, <1>7 DEF UsesLeft

LEMMA UsesKept == UsesLeft /\ UNCHANGED <<gates, values, outputs, uses, next>> => UsesLeft'
<1> SUFFICES ASSUME UsesLeft, UNCHANGED <<gates, values, outputs, uses, next>> PROVE UsesLeft'
  OBVIOUS
<1>1. \A i, w : LeftFrom(i, w)' = LeftFrom(i, w)
  BY DEF LeftFrom
<1>2. Wires' = Wires /\ next' = next /\ uses' = uses
  BY DEF Wires
<1>3. [w \in Wires' |-> LeftFrom(next, w)'] = [w \in Wires |-> LeftFrom(next, w)]
  BY <1>1, <1>2
<1> QED
  BY <1>2, <1>3 DEF UsesLeft

-----------------------------------------------------------------------------
(* What find returns *)

LEMMA InLCs ==
  ASSUME NEW V, IsFiniteSet(V), NEW l
  PROVE  l \in LCs(V) <=> IsLC(l) /\ DOMAIN l \subseteq V
<1>1. ASSUME l \in LCs(V) PROVE IsLC(l) /\ DOMAIN l \subseteq V
  <2>1. PICK D \in SUBSET V : l \in [D -> Field]
    BY <1>1 DEF LCs
  <2>2. IsFiniteSet(D) /\ DOMAIN l = D
    BY <2>1, FS_Subset
  <2> QED
    BY <2>1, <2>2 DEF IsLC
<1>2. ASSUME IsLC(l), DOMAIN l \subseteq V PROVE l \in LCs(V)
  BY <1>2 DEF IsLC, LCs
<1> QED
  BY <1>1, <1>2

\* The intended assignment, as long as every wire has a variable of its own.
LEMMA IntendedValues ==
  ASSUME Circuit, IsVarMap(vs)
  PROVE  /\ IsFiniteSet(Range(vs.of)) /\ Range(vs.of) \subseteq Nat
         /\ IsFiniteSet(Known) /\ Known \subseteq Range(vs.of)
         /\ \A w \in DOMAIN vs.of : vs.of[w] \in Range(vs.of) /\ Intended[vs.of[w]] = values[w]
         /\ \A v \in Range(vs.of) : v # One /\ Intended[v] \in Field /\ Worth(Intended, v) \in Int
<1>1. Range(vs.of) \subseteq 0..vs.n - 1 /\ vs.n \in Nat
  BY DEF IsVarMap, Range
<1>2. IsFiniteSet(0..vs.n - 1)
  BY <1>1, FS_Interval
<1>3. IsFiniteSet(Range(vs.of)) /\ Range(vs.of) \subseteq Nat
  <2>1. IsFiniteSet(Range(vs.of))
    BY <1>1, <1>2, FS_Subset
  <2> QED
    BY <1>1, <2>1
<1>4. ASSUME NEW w \in DOMAIN vs.of
      PROVE  vs.of[w] \in Range(vs.of) /\ Intended[vs.of[w]] = values[w] /\ w \in Wires
  <2>1. vs.of[w] \in Range(vs.of) /\ w \in Wires
    BY DEF Range, IsVarMap
  <2>2. (CHOOSE u \in DOMAIN vs.of : vs.of[u] = vs.of[w]) = w
    BY DEF IsVarMap
  <2> QED
    BY <2>1, <2>2 DEF Intended
<1>5. ASSUME NEW v \in Range(vs.of)
      PROVE  v # One /\ Intended[v] \in Field /\ Worth(Intended, v) \in Int
  <2>1. PICK w \in DOMAIN vs.of : v = vs.of[w]
    BY DEF Range
  <2>2. Intended[v] \in Field
    BY <1>4, <2>1 DEF Circuit
  <2>3. v # One
    BY <1>3 DEF One
  <2> QED
    BY <2>2, <2>3 DEF Worth, Field
<1>6. Known \subseteq Range(vs.of)
  BY DEF Known, Range
<1>7. IsFiniteSet(Known)
  BY <1>3, <1>6, FS_Subset
<1> QED
  BY <1>3, <1>4, <1>5, <1>6, <1>7

LEMMA VariableStandsForWire ==
  ASSUME Circuit, IsVarMap(vs), NEW w \in DOMAIN vs.of, w \in Before(next)
  PROVE  /\ Term(vs.of[w], 1) \in LCs(Known)
         /\ Eval(Term(vs.of[w], 1), Intended) = values[w]
<1>1. /\ IsFiniteSet(Known) /\ vs.of[w] \in Known
      /\ Intended[vs.of[w]] = values[w] /\ Intended[vs.of[w]] \in Field /\ vs.of[w] # One
  BY IntendedValues DEF Known
<1>2. Term(vs.of[w], 1) \in LCs(Known)
  <2>1. IsLC(Term(vs.of[w], 1)) /\ DOMAIN Term(vs.of[w], 1) = {vs.of[w]}
    BY TermIsLC
  <2>2. DOMAIN Term(vs.of[w], 1) \subseteq Known
    BY <1>1, <2>1
  <2> QED
    BY <1>1, <2>1, <2>2, InLCs
<1> QED
  BY <1>1, <1>2, EvalOfTerm

IsStore(s) == DOMAIN s = {"uses", "lcOf", "heap", "toClean", "ptr"} /\ s.lcOf = lcOf

\* The store after the first k of the wires r were found; p is the pointer whose
\* combination was edited, 0 if none was.
FoundUpTo(s, r, k, p) ==
    /\ IsStore(s)
    /\ s.uses = [w \in Wires |-> LeftFrom(next + 1, w) + Rest(r, k + 1, w)]
    /\ s.heap \in Seq(LCs(Known)) /\ Len(s.heap) >= Len(heap)
    /\ \A q \in 1..Len(heap) : q # p => s.heap[q] = heap[q]
    /\ s.toClean \subseteq Range(r) /\ \A w \in s.toClean : s.uses[w] = 0
    /\ \A w \in DOMAIN lcOf : lcOf[w] = p => w \in s.toClean

Working == IInv /\ phase = "construct" /\ next \in 1..Len(gates)

LEMMA NothingFound ==
  ASSUME Working
  PROVE  FoundUpTo(Store, Reads(gates[next]), 0, 0)
<1>1. /\ Circuit /\ UsesLeft /\ Pointers /\ next \in 1..Len(gates) /\ next \in 1..Len(gates) + 1
      /\ next + 1 \in 1..Len(gates) + 1 /\ Len(gates) \in Nat /\ next \in Nat
  BY DEF Working, IInv, Circuit
<1> PICK r : r = Reads(gates[next])
  OBVIOUS
<1>2. r \in Seq(Wires)
  BY <1>1, ReadsShape
<1>3. ASSUME NEW w \in Wires PROVE uses[w] = LeftFrom(next + 1, w) + Rest(r, 0 + 1, w)
  <2>1. uses[w] = LeftFrom(next, w)
    BY <1>1 DEF UsesLeft
  <2>2. LeftFrom(next, w) = LeftFrom(next + 1, w) + Count(r, w)
    BY <1>1, LeftSteps
  <2>3. Rest(r, 1, w) = Count(r, w)
    BY <1>2, RestSteps
  <2> QED
    BY <2>1, <2>2, <2>3
<1>4. uses = [w \in Wires |-> LeftFrom(next + 1, w) + Rest(r, 0 + 1, w)]
  BY <1>1, <1>3 DEF UsesLeft
<1>5. heap \in Seq(LCs(Known)) /\ Len(heap) >= Len(heap) /\ lcOf \in [DOMAIN lcOf -> 1..Len(heap)]
  BY <1>1 DEF Pointers
<1>6. \A w \in DOMAIN lcOf : lcOf[w] # 0
  BY <1>5
<1> QED
  BY <1>4, <1>5, <1>6 DEF FoundUpTo, Store, IsStore

\* A wire that the gate reads has a combination or a variable.
LEMMA ReadIsAvailable ==
  ASSUME Working, NEW w \in Range(Reads(gates[next]))
  PROVE  w \in Wires /\ w \in Before(next) /\ w \in DOMAIN lcOf \cup DOMAIN vs.of
<1>1. /\ Circuit /\ NoInputLost /\ next \in 1..Len(gates) /\ phase = "construct" /\ Len(gates) \in Nat
      /\ next \in next..Len(gates)
  BY DEF Working, IInv, Circuit
<1>2. w \in Before(next) /\ w \in Wires
  BY <1>1, ReadsShape
<1>3. ASSUME NEW j \in next..Len(gates) PROVE w \notin Defined(gates[j])
  <2>1. j \in 1..Len(gates) /\ Before(next) \subseteq Before(j)
    BY <1>1 DEF Before
  <2>2. Defined(gates[j]) \cap Before(j) = {}
    BY <1>1, <2>1, ReadsShape DEF GateOK
  <2> QED
    BY <1>2, <2>1, <2>2
<1> QED
  BY <1>1, <1>2, <1>3 DEF NoInputLost

LEMMA FreshFields ==
  ASSUME NEW s, IsStore(s), NEW l, NEW t, t = Fresh(s, l)
  PROVE  /\ IsStore(t) /\ t.heap = Append(s.heap, l) /\ t.ptr = Len(s.heap) + 1
         /\ t.uses = s.uses /\ t.toClean = s.toClean
BY DEF Fresh, IsStore

LEMMA SharedFields ==
  ASSUME NEW s, IsStore(s), NEW p, NEW t, t = Shared(s, p)
  PROVE  /\ IsStore(t) /\ t.heap = s.heap /\ t.ptr = p
         /\ t.uses = s.uses /\ t.toClean = s.toClean
BY DEF Shared, IsStore

\* What find(w, edit) does to the store s.
FindSteps(s, w, edit, t) ==
    /\ IsStore(t)
    /\ t.uses = [s.uses EXCEPT ![w] = @ - 1]
    /\ t.toClean = IF s.uses[w] = 1 THEN s.toClean \cup {w} ELSE s.toClean
    /\ w \notin DOMAIN lcOf => t.heap = Append(s.heap, Term(vs.of[w], 1)) /\ t.ptr = Len(s.heap) + 1
    /\ w \in DOMAIN lcOf =>
         IF edit = TRUE /\ s.uses[w] # 1
         THEN t.heap = Append(s.heap, s.heap[lcOf[w]]) /\ t.ptr = Len(s.heap) + 1
         ELSE t.heap = s.heap /\ t.ptr = lcOf[w]

LEMMA FindFields ==
  ASSUME NEW s, IsStore(s), NEW w, NEW edit \in BOOLEAN, NEW t, t = Find(s, w, edit)
  PROVE  FindSteps(s, w, edit, t)
<1> DEFINE Facts(m) == /\ IsStore(m) /\ m.heap = s.heap
                       /\ m.uses = [s.uses EXCEPT ![w] = @ - 1]
                       /\ m.toClean = IF s.uses[w] = 1 THEN s.toClean \cup {w} ELSE s.toClean
                       /\ t = IF w \notin DOMAIN lcOf THEN Fresh(m, Term(vs.of[w], 1))
                              ELSE IF edit = TRUE /\ s.uses[w] # 1 THEN Fresh(m, s.heap[lcOf[w]])
                              ELSE Shared(m, lcOf[w])
<1>1. \E m : Facts(m)
  <2> PICK m : m = [s EXCEPT !.uses[w] = @ - 1, !.toClean = IF s.uses[w] = 1 THEN @ \cup {w} ELSE @]
    OBVIOUS
  <2>1. /\ IsStore(m) /\ m.heap = s.heap
        /\ m.uses = [s.uses EXCEPT ![w] = @ - 1]
        /\ m.toClean = IF s.uses[w] = 1 THEN s.toClean \cup {w} ELSE s.toClean
    BY DEF IsStore
  <2>2. t = IF w \notin DOMAIN lcOf THEN Fresh(m, Term(vs.of[w], 1))
            ELSE IF edit = TRUE /\ s.uses[w] # 1 THEN Fresh(m, s.heap[lcOf[w]])
            ELSE Shared(m, lcOf[w])
    BY <2>1 DEF Find, IsStore
  <2> QED
    BY <2>1, <2>2
<1> HIDE DEF Facts
<1>2. PICK m : Facts(m)
  BY <1>1
<1>3. /\ IsStore(m) /\ m.heap = s.heap
      /\ m.uses = [s.uses EXCEPT ![w] = @ - 1]
      /\ m.toClean = IF s.uses[w] = 1 THEN s.toClean \cup {w} ELSE s.toClean
  BY <1>2 DEF Facts
<1>4. ASSUME w \notin DOMAIN lcOf
      PROVE  IsStore(t) /\ t.uses = m.uses /\ t.toClean = m.toClean
             /\ t.heap = Append(s.heap, Term(vs.of[w], 1)) /\ t.ptr = Len(s.heap) + 1
  <2> PICK l : l = Term(vs.of[w], 1)
    OBVIOUS
  <2>1. t = Fresh(m, l)
    BY <1>2, <1>4 DEF Facts
  <2>2. IsStore(t) /\ t.uses = m.uses /\ t.toClean = m.toClean
    BY <1>3, <2>1, FreshFields
  <2>3. t.heap = Append(m.heap, l) /\ t.ptr = Len(m.heap) + 1
    BY <1>3, <2>1, FreshFields
  <2> QED
    BY <1>3, <2>2, <2>3
<1>5. ASSUME w \in DOMAIN lcOf, edit = TRUE, s.uses[w] # 1
      PROVE  IsStore(t) /\ t.uses = m.uses /\ t.toClean = m.toClean
             /\ t.heap = Append(s.heap, s.heap[lcOf[w]]) /\ t.ptr = Len(s.heap) + 1
  <2> PICK l : l = s.heap[lcOf[w]]
    OBVIOUS
  <2>1. t = Fresh(m, l)
    BY <1>2, <1>5 DEF Facts
  <2>2. IsStore(t) /\ t.uses = m.uses /\ t.toClean = m.toClean
    BY <1>3, <2>1, FreshFields
  <2>3. t.heap = Append(m.heap, l) /\ t.ptr = Len(m.heap) + 1
    BY <1>3, <2>1, FreshFields
  <2> QED
    BY <1>3, <2>2, <2>3
<1>6. ASSUME w \in DOMAIN lcOf, ~(edit = TRUE /\ s.uses[w] # 1)
      PROVE  IsStore(t) /\ t.uses = m.uses /\ t.toClean = m.toClean
             /\ t.heap = s.heap /\ t.ptr = lcOf[w]
  <2> PICK p : p = lcOf[w]
    OBVIOUS
  <2>1. t = Shared(m, p)
    BY <1>2, <1>6 DEF Facts
  <2>2. IsStore(t) /\ t.uses = m.uses /\ t.toClean = m.toClean /\ t.heap = m.heap
    BY <1>3, <2>1, SharedFields
  <2>3. t.ptr = p
    BY <1>3, <2>1, SharedFields
  <2> QED
    BY <1>3, <2>2, <2>3
<1> QED
  BY <1>3, <1>4, <1>5, <1>6 DEF FindSteps

\* What find returned for w: t.ptr refers to a combination of w's value, which no
\* other wire refers to if the caller is going to edit it.
Returned(s, t, w, edit) ==
    /\ t.ptr \in 1..Len(t.heap) /\ Eval(t.heap[t.ptr], Intended) = values[w]
    /\ Len(t.heap) >= Len(s.heap) /\ \A q \in 1..Len(s.heap) : t.heap[q] = s.heap[q]
    /\ t.ptr > Len(heap) \/ t.ptr \in Range(lcOf)
    /\ edit = TRUE => \A u \in DOMAIN lcOf : lcOf[u] = t.ptr => u \in t.toClean

LEMMA FindFinds ==
  ASSUME Working, NEW r, r = Reads(gates[next]), NEW k \in 0..Len(r) - 1, NEW p,
         NEW s, FoundUpTo(s, r, k, p),
         NEW edit \in BOOLEAN, NEW t, t = Find(s, r[k + 1], edit)
  PROVE  FoundUpTo(t, r, k + 1, p) /\ Returned(s, t, r[k + 1], edit)
<1> PICK w : w = r[k + 1]
  OBVIOUS
<1> PICK V : V = Known
  OBVIOUS
<1>1. /\ Circuit /\ IsVarMap(vs) /\ Pointers /\ LiveLCsEvaluate /\ next \in 1..Len(gates)
      /\ next + 1 \in 1..Len(gates) + 1 /\ Len(gates) \in Nat
  BY DEF Working, IInv, Circuit
<1>2. r \in Seq(Wires) /\ Len(r) \in Nat /\ k + 1 \in 1..Len(r) /\ k + 2 \in 1..Len(r) + 1
  BY <1>1, ReadsShape
<1>3. w \in Range(r) /\ w \in Wires /\ w \in Before(next) /\ w \in DOMAIN lcOf \cup DOMAIN vs.of
  <2>1. w \in Range(r)
    BY <1>2 DEF Range
  <2> QED
    BY <2>1, ReadIsAvailable
<1>3a. IsStore(s)
  BY DEF FoundUpTo
<1>4. /\ s.uses = [u \in Wires |-> LeftFrom(next + 1, u) + Rest(r, k + 1, u)]
      /\ s.heap \in Seq(LCs(V)) /\ Len(s.heap) >= Len(heap)
      /\ \A q \in 1..Len(heap) : q # p => s.heap[q] = heap[q]
      /\ s.toClean \subseteq Range(r) /\ \A u \in s.toClean : s.uses[u] = 0
      /\ \A u \in DOMAIN lcOf : lcOf[u] = p => u \in s.toClean
  BY DEF FoundUpTo
<1>5. /\ IsStore(t)
      /\ t.uses = [s.uses EXCEPT ![w] = @ - 1]
      /\ t.toClean = IF s.uses[w] = 1 THEN s.toClean \cup {w} ELSE s.toClean
      /\ w \notin DOMAIN lcOf => t.heap = Append(s.heap, Term(vs.of[w], 1)) /\ t.ptr = Len(s.heap) + 1
      /\ w \in DOMAIN lcOf =>
           IF edit = TRUE /\ s.uses[w] # 1
           THEN t.heap = Append(s.heap, s.heap[lcOf[w]]) /\ t.ptr = Len(s.heap) + 1
           ELSE t.heap = s.heap /\ t.ptr = lcOf[w]
  <2>1. t = Find(s, w, edit)
    OBVIOUS
  <2>2. FindSteps(s, w, edit, t)
    BY <1>3a, <2>1, FindFields
  <2> QED
    BY <2>2 DEF FindSteps
<1>6. ASSUME NEW u \in Wires
      PROVE  /\ LeftFrom(next + 1, u) \in Nat /\ Rest(r, k + 1, u) \in Nat /\ Rest(r, k + 2, u) \in Nat
             /\ Rest(r, k + 1, u) = Rest(r, k + 2, u) + (IF u = w THEN 1 ELSE 0)
  <2>1. LeftFrom(next + 1, u) \in Nat
    BY <1>1, LeftSteps
  <2>2. Rest(r, k + 1, u) \in Nat /\ Rest(r, k + 2, u) \in Nat
    <3>1. k + 1 \in 1..Len(r) + 1
      BY <1>2
    <3> QED
      BY <1>2, <3>1, RestSteps
  <2>3. Rest(r, k + 1, u) = Rest(r, (k + 1) + 1, u) + (IF r[k + 1] = u THEN 1 ELSE 0)
    BY <1>2, RestSteps
  <2>4. (k + 1) + 1 = k + 2
    BY <1>2
  <2> QED
    BY <2>1, <2>2, <2>3, <2>4
<1>7. /\ t.uses = [u \in Wires |-> LeftFrom(next + 1, u) + Rest(r, k + 2, u)]
      /\ s.uses[w] > 0
  <2>1. ASSUME NEW u \in Wires PROVE t.uses[u] = LeftFrom(next + 1, u) + Rest(r, k + 2, u)
    <3>1. s.uses[u] = LeftFrom(next + 1, u) + Rest(r, k + 1, u) /\ DOMAIN s.uses = Wires
      BY <1>4
    <3>2. t.uses[u] = IF u = w THEN s.uses[u] - 1 ELSE s.uses[u]
      BY <1>5, <3>1
    <3> QED
      BY <1>6, <3>1, <3>2
  <2>2. t.uses = [u \in Wires |-> t.uses[u]]
    BY <1>4, <1>5
  <2>3. s.uses[w] > 0
    BY <1>3, <1>4, <1>6
  <2> QED
    BY <2>1, <2>2, <2>3
<1>8. t.toClean \subseteq Range(r) /\ \A u \in t.toClean : t.uses[u] = 0
  <2>1. ASSUME NEW u \in s.toClean PROVE u \in Wires /\ u # w /\ t.uses[u] = 0
    <3>1. u \in Wires
      BY <1>2, <1>4 DEF Range
    <3>2. s.uses[u] = 0 /\ u # w
      <4>1. s.uses[u] = 0
        BY <1>4
      <4> QED
        BY <1>7, <4>1
    <3>3. t.uses[u] = s.uses[u]
      BY <1>4, <1>5, <3>1, <3>2
    <3> QED
      BY <3>1, <3>2, <3>3
  <2>2. s.uses[w] = 1 => t.uses[w] = 0
    BY <1>3, <1>4, <1>5
  <2> QED
    BY <1>3, <1>4, <1>5, <2>1, <2>2
<1>10. ASSUME w \in DOMAIN lcOf
       PROVE  /\ lcOf[w] \in 1..Len(heap) /\ lcOf[w] \in 1..Len(s.heap) /\ s.heap[lcOf[w]] = heap[lcOf[w]]
              /\ s.heap[lcOf[w]] \in LCs(V) /\ Eval(s.heap[lcOf[w]], Intended) = values[w]
  <2>1. lcOf[w] \in 1..Len(heap) /\ Len(heap) \in Nat
    BY <1>1, <1>10 DEF Pointers
  <2>2. lcOf[w] # p
    <3>1. w \notin s.toClean
      <4>1. w \in s.toClean => s.uses[w] = 0
        BY <1>4
      <4> QED
        BY <1>7, <4>1
    <3> QED
      BY <1>4, <1>10, <3>1
  <2>3. lcOf[w] \in 1..Len(s.heap) /\ s.heap[lcOf[w]] = heap[lcOf[w]]
    BY <1>4, <2>1, <2>2
  <2>4. s.heap[lcOf[w]] \in LCs(V)
    BY <1>4, <2>3, ElementOfSeq
  <2>5. Eval(heap[lcOf[w]], Intended) = values[w]
    BY <1>1, <1>10 DEF LiveLCsEvaluate
  <2> QED
    BY <2>1, <2>3, <2>4, <2>5
<1>11. ASSUME NEW l \in LCs(V), t.heap = Append(s.heap, l), t.ptr = Len(s.heap) + 1
       PROVE  /\ t.heap \in Seq(LCs(V)) /\ Len(t.heap) = Len(s.heap) + 1
              /\ t.heap[t.ptr] = l /\ t.ptr \in 1..Len(t.heap)
              /\ \A q \in 1..Len(s.heap) : t.heap[q] = s.heap[q]
  BY <1>4, <1>11, AppendProperties
<1>12. /\ t.heap \in Seq(LCs(V)) /\ Len(t.heap) >= Len(s.heap)
       /\ t.ptr \in 1..Len(t.heap)
       /\ \A q \in 1..Len(s.heap) : t.heap[q] = s.heap[q]
       /\ Eval(t.heap[t.ptr], Intended) = values[w]
       /\ t.ptr > Len(heap) \/ t.ptr \in Range(lcOf)
       /\ edit = TRUE => \A u \in DOMAIN lcOf : lcOf[u] = t.ptr => u \in t.toClean
  <2>0. /\ Len(heap) \in Nat /\ Len(s.heap) \in Nat /\ Len(s.heap) >= Len(heap)
        /\ \A u \in DOMAIN lcOf : lcOf[u] \in 1..Len(heap)
        /\ \A u \in DOMAIN lcOf : lcOf[u] = lcOf[w] /\ w \in DOMAIN lcOf => u = w
    BY <1>1, <1>4 DEF Pointers
  <2>1. CASE w \notin DOMAIN lcOf
    <3>1. w \in DOMAIN vs.of /\ Term(vs.of[w], 1) \in LCs(V) /\ Eval(Term(vs.of[w], 1), Intended) = values[w]
      BY <1>1, <1>3, <2>1, VariableStandsForWire
    <3>2. t.heap = Append(s.heap, Term(vs.of[w], 1)) /\ t.ptr = Len(s.heap) + 1
      BY <1>5, <2>1
    <3> QED
      BY <1>11, <2>0, <3>1, <3>2
  <2>2. CASE w \in DOMAIN lcOf /\ edit = TRUE /\ s.uses[w] # 1
    <3>1. t.heap = Append(s.heap, s.heap[lcOf[w]]) /\ t.ptr = Len(s.heap) + 1
      BY <1>5, <2>2
    <3>2. s.heap[lcOf[w]] \in LCs(V) /\ Eval(s.heap[lcOf[w]], Intended) = values[w]
      BY <1>10, <2>2
    <3> QED
      BY <1>11, <2>0, <3>1, <3>2
  <2>3. CASE w \in DOMAIN lcOf /\ ~(edit = TRUE /\ s.uses[w] # 1)
    <3>1. t.heap = s.heap /\ t.ptr = lcOf[w]
      BY <1>5, <2>3
    <3>2. t.ptr \in 1..Len(t.heap) /\ Eval(t.heap[t.ptr], Intended) = values[w] /\ t.ptr \in Range(lcOf)
      BY <1>10, <2>3, <3>1 DEF Range
    <3>3. edit = TRUE => w \in t.toClean
      BY <1>5, <2>3
    <3>4. edit = TRUE => \A u \in DOMAIN lcOf : lcOf[u] = t.ptr => u \in t.toClean
      BY <2>0, <2>3, <3>1, <3>3
    <3> QED
      BY <1>4, <2>0, <3>1, <3>2, <3>4
  <2> QED
    BY <2>1, <2>2, <2>3
<1>13. FoundUpTo(t, r, k + 1, p)
  <2>1. Len(t.heap) >= Len(heap) /\ \A q \in 1..Len(heap) : q # p => t.heap[q] = heap[q]
    <3>1. Len(heap) \in Nat /\ Len(s.heap) \in Nat /\ Len(t.heap) \in Nat
      BY <1>1, <1>4, <1>12 DEF Pointers
    <3> QED
      BY <1>4, <1>12, <3>1
  <2>2. (k + 1) + 1 = k + 2
    BY <1>2
  <2>3. \A u \in DOMAIN lcOf : lcOf[u] = p => u \in t.toClean
    BY <1>4, <1>5
  <2> QED
    BY <1>5, <1>7, <1>8, <1>12, <2>1, <2>2, <2>3 DEF FoundUpTo
<1>14. Returned(s, t, w, edit)
  BY <1>12 DEF Returned
<1> QED
  BY <1>13, <1>14

-----------------------------------------------------------------------------
(* The end of a handler *)

\* The store as a handler leaves it.
Ready(t) ==
    /\ t.uses = [w \in Wires |-> LeftFrom(next + 1, w)]
    /\ t.heap \in Seq(LCs(Known)) /\ Len(t.heap) >= Len(heap)
    /\ \A w \in t.toClean : LeftFrom(next + 1, w) = 0
    /\ DOMAIN lcOf \subseteq DOMAIN t.lcOf /\ DOMAIN t.lcOf \subseteq Wires
    /\ \A w \in DOMAIN t.lcOf \ t.toClean :
         t.lcOf[w] \in 1..Len(t.heap) /\ Eval(t.heap[t.lcOf[w]], Intended) = values[w]
    /\ \A w, u \in DOMAIN t.lcOf \ t.toClean : t.lcOf[w] = t.lcOf[u] => w = u

VarsGrow ==
    /\ IsVarMap(vs)' /\ vs'.n >= vs.n /\ DOMAIN vs.of \subseteq DOMAIN vs'.of
    /\ \A w \in DOMAIN vs.of : vs'.of[w] = vs.of[w]
    /\ \A w \in DOMAIN vs'.of \ DOMAIN vs.of : vs'.of[w] >= vs.n

Kept == Circuit /\ Seqs /\ Unbuilt /\ UsesLeft /\ IsVarMap(vs) /\ Pointers /\ LiveLCsEvaluate /\ NoInputLost

LEMMA FoundIsReady ==
  ASSUME Working, NEW r, r = Reads(gates[next]), NEW s, FoundUpTo(s, r, Len(r), 0)
  PROVE  Ready(s)
<1>1. /\ Circuit /\ Pointers /\ LiveLCsEvaluate /\ next \in 1..Len(gates)
      /\ next + 1 \in 1..Len(gates) + 1 /\ Len(gates) \in Nat
  BY DEF Working, IInv, Circuit
<1>2. r \in Seq(Wires)
  BY <1>1, ReadsShape
<1>3. /\ IsStore(s)
      /\ s.uses = [w \in Wires |-> LeftFrom(next + 1, w) + Rest(r, Len(r) + 1, w)]
      /\ s.heap \in Seq(LCs(Known)) /\ Len(s.heap) >= Len(heap)
      /\ \A q \in 1..Len(heap) : s.heap[q] = heap[q]
      /\ s.toClean \subseteq Range(r) /\ \A w \in s.toClean : s.uses[w] = 0
  BY DEF FoundUpTo
<1>4. \A w \in Wires : LeftFrom(next + 1, w) + Rest(r, Len(r) + 1, w) = LeftFrom(next + 1, w)
  BY <1>1, <1>2, LeftSteps, RestSteps
<1>5. s.uses = [w \in Wires |-> LeftFrom(next + 1, w)]
  BY <1>3, <1>4
<1>6. ASSUME NEW w \in s.toClean PROVE LeftFrom(next + 1, w) = 0
  <2>1. w \in Wires
    BY <1>2, <1>3 DEF Range
  <2>2. s.uses[w] = 0
    BY <1>3
  <2> QED
    BY <1>5, <2>1, <2>2
<1>7. s.lcOf = lcOf
  BY <1>3 DEF IsStore
<1>8. /\ DOMAIN lcOf \subseteq Wires
      /\ \A w \in DOMAIN lcOf : lcOf[w] \in 1..Len(heap)
      /\ \A w, u \in DOMAIN lcOf : lcOf[w] = lcOf[u] => w = u
      /\ Len(heap) \in Nat
  BY <1>1 DEF Pointers
<1>9. ASSUME NEW w \in DOMAIN lcOf
      PROVE  lcOf[w] \in 1..Len(s.heap) /\ Eval(s.heap[lcOf[w]], Intended) = values[w]
  <2>1. s.heap[lcOf[w]] = heap[lcOf[w]] /\ Eval(heap[lcOf[w]], Intended) = values[w]
    BY <1>1, <1>3, <1>8 DEF LiveLCsEvaluate
  <2>2. lcOf[w] \in 1..Len(s.heap)
    BY <1>3, <1>8
  <2> QED
    BY <2>1, <2>2
<1> QED
  BY <1>3, <1>5, <1>6, <1>7, <1>8, <1>9 DEF Ready

\* New variables leave the assignment of the others alone.
LEMMA IntendedKept ==
  ASSUME Circuit, IsVarMap(vs), VarsGrow, values' = values, NEW b, b = Intended',
         NEW v \in Range(vs.of)
  PROVE  v \in Range(vs'.of) /\ b[v] = Intended[v]
<1> PICK f : f = vs'.of
  OBVIOUS
<1> PICK g : g = values
  OBVIOUS
<1>1. PICK w \in DOMAIN vs.of : v = vs.of[w]
  BY DEF Range
<1>2. Intended[v] = values[w]
  BY <1>1, IntendedValues
<1>3. w \in DOMAIN f /\ f[w] = v
  BY <1>1 DEF VarsGrow
<1>4. \A x, u \in DOMAIN f : f[x] = f[u] => x = u
  BY DEF VarsGrow, IsVarMap
<1>5. b = [y \in Range(f) |-> g[CHOOSE x \in DOMAIN f : f[x] = y]]
  BY DEF Intended
<1>6. f[w] \in Range(f)
  BY <1>3 DEF Range
<1>7. b[f[w]] = g[w]
  <2>1. b[f[w]] = g[CHOOSE x \in DOMAIN f : f[x] = f[w]]
    BY <1>5, <1>6
  <2>2. (CHOOSE x \in DOMAIN f : f[x] = f[w]) = w
    BY <1>3, <1>4
  <2> QED
    BY <2>1, <2>2
<1> QED
  BY <1>2, <1>3, <1>6, <1>7

LEMMA HandledKeeps ==
  ASSUME Working, NEW t, Ready(t), NEW cs, Handled(t, cs), VarsGrow,
         Defined(gates[next]) \subseteq DOMAIN vs'.of \cup (DOMAIN t.lcOf \ t.toClean)
  PROVE  Kept'
<1> PICK n : n = next
  OBVIOUS
<1>1. /\ Circuit /\ Seqs /\ IsVarMap(vs) /\ Pointers /\ LiveLCsEvaluate /\ NoInputLost /\ n \in 1..Len(gates)
      /\ phase = "construct" /\ Unbuilt /\ n + 1 \in 1..Len(gates) + 1 /\ Len(gates) \in Nat
  BY DEF Working, IInv, Circuit
<1>2. /\ uses' = t.uses /\ heap' = t.heap /\ lcOf' = Cleaned(t)
      /\ cons' = Append(cons, cs) /\ next' = n + 1 /\ phase' = phase
      /\ gates' = gates /\ outputs' = outputs /\ values' = values
      /\ val' = val /\ unmapped' = unmapped /\ zeropIdx' = zeropIdx
  BY DEF Handled, parsed, mapping
<1>3. Circuit' /\ Wires' = Wires
  <2>1. Wires' = Wires
    BY <1>2 DEF Wires
  <2> QED
    BY <1>1, <1>2, <2>1, CircuitKept
<1>4. Seqs'
  <2> PICK S : S = Range(cons) \cup {cs}
    OBVIOUS
  <2>1. cons \in Seq(S) /\ cs \in S
    BY <1>1, SeqMonotonic DEF Seqs
  <2>2. Append(cons, cs) \in Seq(S) /\ Len(Append(cons, cs)) = Len(cons) + 1
    BY <2>1, AppendProperties
  <2>3. cons' \in Seq(S) /\ Len(cons') = n
    BY <1>1, <1>2, <2>2 DEF Seqs
  <2>4. cons' \in Seq(Range(cons'))
    <3>1. cons' \in [1..Len(cons') -> S] /\ Len(cons') \in Nat
      BY <2>3
    <3>2. cons' \in [1..Len(cons') -> Range(cons')]
      BY <3>1 DEF Range
    <3> QED
      BY <3>1, <3>2, FunctionIsSeq
  <2> QED
    BY <1>1, <1>2, <2>3, <2>4 DEF Seqs
<1>5. Unbuilt'
  BY <1>1, <1>2 DEF Unbuilt
<1>6. UsesLeft'
  <2>1. \A w : LeftFrom(n + 1, w)' = LeftFrom(n + 1, w)
    BY <1>2 DEF LeftFrom
  <2>2. uses' = [w \in Wires |-> LeftFrom(n + 1, w)]
    BY <1>2 DEF Ready
  <2>3. uses' = [w \in Wires' |-> LeftFrom(n + 1, w)']
    BY <1>3, <2>1, <2>2
  <2> QED
    BY <1>2, <2>3 DEF UsesLeft
<1>7. IsVarMap(vs)'
  BY DEF VarsGrow
<1> PICK K : K = DOMAIN t.lcOf \ t.toClean
  OBVIOUS
<1>8. lcOf' = [w \in K |-> t.lcOf[w]] /\ DOMAIN lcOf' = K
  BY <1>2 DEF Cleaned, Restrict
<1>9. /\ \A w \in K : w \in Wires /\ lcOf'[w] \in 1..Len(heap') /\ Eval(heap'[lcOf'[w]], Intended) = values[w]
      /\ \A w, u \in K : lcOf'[w] = lcOf'[u] => w = u
  BY <1>2, <1>8 DEF Ready
<1>10. Known \subseteq Known' /\ heap' \in Seq(LCs(Known))
  <2>1. Before(next) \subseteq Before(n + 1)
    BY <1>1 DEF Before
  <2>2. Before(n + 1) = Before(next)'
    BY <1>2 DEF Before, Inputs
  <2> QED
    BY <1>2, <2>1, <2>2 DEF Ready, VarsGrow, Known
<1>11. Pointers'
  <2>1. LCs(Known) \subseteq LCs(Known')
    BY <1>10 DEF LCs
  <2>2. heap' \in Seq(LCs(Known'))
    BY <1>10, <2>1, SeqMonotonic
  <2>3. lcOf' \in [DOMAIN lcOf' -> 1..Len(heap')]
    BY <1>8, <1>9
  <2> QED
    BY <1>3, <1>8, <1>9, <2>2, <2>3 DEF Pointers
<1>12. LiveLCsEvaluate'
  <2> SUFFICES ASSUME NEW w \in DOMAIN lcOf'
               PROVE  Eval(heap'[lcOf'[w]], Intended') = values'[w]
    BY DEF LiveLCsEvaluate
  <2> PICK b : b = Intended'
    OBVIOUS
  <2> PICK l : l = heap'[lcOf'[w]]
    OBVIOUS
  <2>1. l \in LCs(Known) /\ Eval(l, Intended) = values[w]
    BY <1>8, <1>9, <1>10, ElementOfSeq
  <2>2. DOMAIN l \subseteq Range(vs.of)
    BY <1>1, <2>1, IntendedValues DEF LCs
  <2>3. \A v \in DOMAIN l : b[v] = Intended[v]
    BY <1>1, <1>2, <2>2, IntendedKept
  <2> PICK a : a = Intended
    OBVIOUS
  <2>4. Eval(l, a) = Eval(l, b)
    BY <2>3, EvalAgree
  <2> QED
    BY <1>2, <2>1, <2>4
<1>13. NoInputLost'
  <2> SUFFICES ASSUME NEW i \in n + 1..Len(gates), NEW w \in Range(Reads(gates[i]))
               PROVE  w \in DOMAIN lcOf' \cup DOMAIN vs'.of \cup UNION {Defined(gates[j]) : j \in n + 1..Len(gates)}
    BY <1>2 DEF NoInputLost
  <2>1. i \in n..Len(gates)
    BY <1>1
  <2>2. w \in DOMAIN lcOf \cup DOMAIN vs.of \cup UNION {Defined(gates[j]) : j \in n..Len(gates)}
    BY <1>1, <2>1 DEF NoInputLost
  <2>3. w \notin t.toClean
    <3>1. LeftFrom(n + 1, w) # 0
      BY <1>1, LeftSteps
    <3> QED
      BY <3>1 DEF Ready
  <2>4. CASE w \in DOMAIN lcOf
    BY <1>8, <2>3, <2>4 DEF Ready
  <2>5. CASE w \in DOMAIN vs.of
    BY <2>5 DEF VarsGrow
  <2>6. CASE w \in UNION {Defined(gates[j]) : j \in n..Len(gates)}
    <3>1. PICK j \in n..Len(gates) : w \in Defined(gates[j])
      BY <2>6
    <3>2. j = n \/ j \in n + 1..Len(gates)
      BY <1>1
    <3>3. CASE j = n
      BY <1>8, <3>1, <3>3
    <3> QED
      BY <3>1, <3>2, <3>3
  <2> QED
    BY <2>2, <2>4, <2>5, <2>6
<1> QED
  BY <1>3, <1>4, <1>5, <1>6, <1>7, <1>11, <1>12, <1>13 DEF Kept

-----------------------------------------------------------------------------
(* The gates that add constraints *)

\* u has the variables of v, and one for each wire of W.
Grows(v, u, W) ==
    /\ IsVarMap(u) /\ u.n >= v.n /\ DOMAIN u.of = DOMAIN v.of \cup W
    /\ \A w \in DOMAIN v.of : u.of[w] = v.of[w]
    /\ \A w \in DOMAIN u.of \ DOMAIN v.of : u.of[w] >= v.n

LEMMA DeclareGrows ==
  ASSUME NEW v, IsVarMap(v), NEW w \in Wires, NEW u, u = Declare(v, w)
  PROVE  Grows(v, u, {w})
<1>1. CASE w \in DOMAIN v.of
  <2>1. u = v
    BY <1>1 DEF Declare
  <2>2. DOMAIN u.of = DOMAIN v.of \cup {w} /\ v.n \in Nat
    BY <1>1, <2>1 DEF IsVarMap
  <2> QED
    BY <2>1, <2>2 DEF Grows, IsVarMap
<1>2. CASE w \notin DOMAIN v.of
  <2> PICK f : f = [z \in DOMAIN v.of \cup {w} |-> IF z = w THEN v.n ELSE v.of[z]]
    OBVIOUS
  <2>1. u = [of |-> f, n |-> v.n + 1] /\ u.of = f /\ u.n = v.n + 1
    BY <1>2 DEF Declare, With
  <2>2. /\ v.n \in Nat /\ DOMAIN v.of \subseteq Wires
        /\ \A z \in DOMAIN v.of : v.of[z] \in 0..v.n - 1
        /\ \A x, y \in DOMAIN v.of : v.of[x] = v.of[y] => x = y
    BY DEF IsVarMap
  <2>3. DOMAIN f = DOMAIN v.of \cup {w} /\ f[w] = v.n /\ \A z \in DOMAIN v.of : f[z] = v.of[z]
    BY <1>2
  <2>4. f \in [DOMAIN f -> 0..v.n + 1 - 1]
    <3>1. \A z \in DOMAIN f : f[z] \in 0..v.n + 1 - 1
      BY <2>2, <2>3
    <3> QED
      BY <3>1
  <2>5. \A x, y \in DOMAIN f : f[x] = f[y] => x = y
    BY <2>2, <2>3
  <2>6. IsVarMap(u)
    BY <2>1, <2>2, <2>3, <2>4, <2>5 DEF IsVarMap
  <2>7. \A z \in DOMAIN u.of \ DOMAIN v.of : z = w
    BY <2>1, <2>3
  <2>8. \A z \in DOMAIN u.of \ DOMAIN v.of : u.of[z] >= v.n
    <3>1. u.of[w] = v.n /\ v.n >= v.n
      BY <2>1, <2>2, <2>3
    <3> QED
      BY <2>7, <3>1
  <2>9. u.n >= v.n
    BY <2>1, <2>2
  <2>10. DOMAIN u.of = DOMAIN v.of \cup {w} /\ \A z \in DOMAIN v.of : u.of[z] = v.of[z]
    BY <2>1, <2>3
  <2> QED
    BY <2>6, <2>8, <2>9, <2>10 DEF Grows
<1> QED
  BY <1>1, <1>2

LEMMA GrowsTwice ==
  ASSUME NEW v, NEW u, NEW x, NEW W, NEW Z, IsVarMap(v), Grows(v, u, W), Grows(u, x, Z)
  PROVE  Grows(v, x, W \cup Z)
<1>1. v.n \in Nat /\ u.n \in Nat /\ x.n \in Nat /\ x.n >= v.n
  BY DEF Grows, IsVarMap
<1>2. DOMAIN x.of = DOMAIN v.of \cup (W \cup Z)
  BY DEF Grows
<1>3. \A w \in DOMAIN v.of : x.of[w] = v.of[w]
  BY DEF Grows
<1>4. ASSUME NEW w \in DOMAIN x.of \ DOMAIN v.of PROVE x.of[w] >= v.n
  <2>1. CASE w \in DOMAIN u.of
    BY <1>4, <2>1 DEF Grows
  <2>2. CASE w \notin DOMAIN u.of
    <3>1. x.of[w] >= u.n /\ u.n >= v.n
      BY <1>4, <2>2 DEF Grows
    <3>2. x.of[w] \in Int
      BY DEF Grows, IsVarMap
    <3> QED
      BY <1>1, <3>1, <3>2
  <2> QED
    BY <2>1, <2>2
<1>5. IsVarMap(x)
  BY DEF Grows
<1> QED
  BY <1>1, <1>2, <1>3, <1>4, <1>5 DEF Grows

LEMMA DeclareAllGrows ==
  ASSUME NEW v, IsVarMap(v), NEW ws \in Seq(Wires), NEW u, u = DeclareAll(v, ws)
  PROVE  Grows(v, u, Range(ws))
<1> PICK n : n = Len(ws)
  OBVIOUS
<1> DEFINE Is(f, k) == f = [i \in 0..k |-> IF i = 0 THEN v ELSE Declare(f[i - 1], ws[i])]
           A == {k \in 0..n : \E f : Is(f, k)}
           after == CHOOSE f : Is(f, n)
<1>0. n \in Nat
  OBVIOUS
<1>1. 0 \in A
  <2>1. Is([i \in 0..0 |-> v], 0)
    OBVIOUS
  <2> HIDE DEF Is
  <2> QED
    BY <1>0, <2>1
<1>2. ASSUME NEW k \in 1..n, k - 1 \in A PROVE k \in A
  <2>1. PICK f : Is(f, k - 1)
    BY <1>2
  <2> DEFINE g == [i \in 0..k |-> IF i = k THEN Declare(f[k - 1], ws[k]) ELSE f[i]]
  <2>2. \A i \in 0..k : g[i] = IF i = 0 THEN v ELSE Declare(g[i - 1], ws[i])
    BY <1>0, <2>1
  <2>3. Is(g, k)
    BY <2>2
  <2> HIDE DEF Is
  <2> QED
    BY <1>0, <2>3
<1>3. Is(after, n)
  <2> HIDE DEF A, Is
  <2>1. 0..n \subseteq A
    BY <1>0, <1>1, <1>2, CountingUp
  <2>2. \E f : Is(f, n)
    BY <1>0, <2>1 DEF A
  <2> QED
    BY <2>2
<1>4. u = after[n]
  BY DEF DeclareAll
<1> HIDE DEF after
<1>5. \A i \in 0..n : after[i] = IF i = 0 THEN v ELSE Declare(after[i - 1], ws[i])
  BY <1>3
<1> HIDE DEF Is, A
<1> DEFINE Upto(i) == {ws[j] : j \in 1..i}
           B == {i \in 0..n : Grows(v, after[i], Upto(i))}
<1>6. 0 \in B
  <2>1. Grows(v, v, {})
    BY DEF Grows, IsVarMap
  <2>2. Upto(0) = {}
    OBVIOUS
  <2>3. after[0] = v
    BY <1>0, <1>5
  <2> HIDE DEF Upto
  <2>4. Grows(v, after[0], Upto(0))
    BY <2>1, <2>2, <2>3, Zenon
  <2> QED
    BY <1>0, <2>4
<1>7. ASSUME NEW i \in 1..n, i - 1 \in B PROVE i \in B
  <2> PICK x : x = after[i - 1]
    OBVIOUS
  <2> PICK y : y = after[i]
    OBVIOUS
  <2> PICK w : w = ws[i]
    OBVIOUS
  <2>1. y = Declare(x, w) /\ w \in Wires
    BY <1>0, <1>5, <1>7, ElementOfSeq
  <2>2. Upto(i) = Upto(i - 1) \cup {w}
    BY <1>0
  <2> HIDE DEF Upto
  <2>3. Grows(v, x, Upto(i - 1))
    BY <1>7
  <2>4. Grows(x, y, {w})
    <3>1. IsVarMap(x)
      BY <2>3 DEF Grows
    <3> QED
      BY <2>1, <3>1, DeclareGrows
  <2>5. Grows(v, y, Upto(i - 1) \cup {w})
    BY <2>3, <2>4, GrowsTwice
  <2>6. Grows(v, y, Upto(i))
    BY <2>2, <2>5, Zenon
  <2> QED
    BY <2>6
<1>8. n \in B
  <2> HIDE DEF B
  <2>1. 0..n \subseteq B
    BY <1>0, <1>6, <1>7, CountingUp
  <2> QED
    BY <1>0, <2>1
<1>9. Upto(n) = Range(ws)
  BY DEF Range
<1>10. Grows(v, u, Upto(n))
  BY <1>4, <1>8
<1> HIDE DEF Upto
<1> QED
  BY <1>9, <1>10, Zenon

LEMMA GrowsIsVarsGrow ==
  ASSUME NEW W, NEW u, u = vs', Grows(vs, u, W), Wires' = Wires
  PROVE  VarsGrow /\ DOMAIN vs'.of = DOMAIN vs.of \cup W
BY DEF Grows, VarsGrow, IsVarMap

\* The zerop table and the third pass's state, when the gate is not a zerop gate.
LEMMA OthersKept ==
  ASSUME Working, NEW t, Ready(t), NEW cs, Handled(t, cs), VarsGrow, UNCHANGED <<zeroPs, zeroOf>>
  PROVE  Zerops' /\ Mapping'
<1> PICK n : n = next
  OBVIOUS
<1>1. /\ Zerops /\ Mapping /\ Pointers /\ IsVarMap(vs) /\ phase = "construct" /\ n \in Nat
  BY DEF Working, IInv, Circuit
<1>2. /\ heap' = t.heap /\ next' = n + 1 /\ phase' = phase /\ gates' = gates
      /\ val' = val /\ unmapped' = unmapped /\ zeropIdx' = zeropIdx
      /\ zeroPs' = zeroPs /\ zeroOf' = zeroOf
  BY DEF Handled, parsed, mapping
<1>3. 1..Len(heap) \subseteq 1..Len(heap')
  <2>1. Len(heap') >= Len(heap) /\ Len(heap) \in Nat /\ Len(heap') \in Nat
    BY <1>1, <1>2 DEF Ready, Pointers
  <2> QED
    BY <2>1
<1>4. zeroPs' \in Seq(1..Len(heap'))
  <2>1. zeroPs \in Seq(1..Len(heap))
    BY <1>1 DEF Zerops
  <2> QED
    BY <1>2, <1>3, <2>1, SeqMonotonic
<1>5. Before(n) \subseteq Before(n + 1) /\ \A i : Before(i)' = Before(i)
  <2>1. Before(n) \subseteq Before(n + 1)
    BY <1>1 DEF Before
  <2>2. \A i : Before(i)' = Before(i)
    BY <1>2 DEF Before, Inputs
  <2> QED
    BY <2>1, <2>2
<1>6. DOMAIN zeroOf' \subseteq DOMAIN vs'.of \cap Before(next)'
  <2>1. DOMAIN zeroOf \subseteq DOMAIN vs.of /\ DOMAIN zeroOf \subseteq Before(n)
    BY <1>1 DEF Zerops
  <2>2. DOMAIN zeroOf \subseteq DOMAIN vs'.of
    BY <2>1 DEF VarsGrow
  <2>3. Before(next)' = Before(n + 1)
    <3>1. Before(next)' = Before(n + 1)'
      BY <1>2
    <3> QED
      BY <1>5, <3>1
  <2> QED
    BY <1>2, <1>5, <2>1, <2>2, <2>3
<1>7. 0..vs.n - 1 \subseteq 0..vs'.n - 1
  BY <1>1 DEF VarsGrow, IsVarMap
<1>8. Zerops'
  <2>1. zeroOf' \in [DOMAIN zeroOf' -> 0..vs'.n - 1]
    BY <1>1, <1>2, <1>7 DEF Zerops
  <2>2. Len(zeroPs') = Cardinality(DOMAIN zeroOf')
    BY <1>1, <1>2 DEF Zerops
  <2> QED
    BY <1>4, <1>6, <2>1, <2>2 DEF Zerops
<1>9. Mapping'
  BY <1>1, <1>2, <1>7 DEF Mapping, VarsGrow
<1> QED
  BY <1>8, <1>9

LEMMA KeptIsIInv == Kept' /\ Zerops' /\ Mapping' => IInv'
BY DEF Kept, IInv

\* The stores after the first and after the second input.
LEMMA FoundInputs ==
  ASSUME Working, NEW r, r = Reads(Line), Len(r) >= 1, r[1] = Line.in[1]
  PROVE  /\ FoundUpTo(Found1, r, 1, 0) /\ Found1.ptr \in 1..Len(Found1.heap)
         /\ Len(r) >= 2 /\ r[2] = Line.in[2] => FoundUpTo(Found2, r, 2, 0)
<1>1. r \in Seq(Wires) /\ Len(r) \in Nat /\ r = Reads(gates[next])
  <2>1. Circuit /\ next \in 1..Len(gates)
    BY DEF Working, IInv
  <2>2. r = Reads(gates[next])
    BY DEF Line
  <2> QED
    BY <2>1, <2>2, ReadsShape
<1> PICK s : s = Store
  OBVIOUS
<1> PICK t : t = Found1
  OBVIOUS
<1> PICK u : u = Found2
  OBVIOUS
<1> PICK e \in BOOLEAN : e = FALSE
  OBVIOUS
<1> PICK k : k = 0
  OBVIOUS
<1> PICK m : m = 1
  OBVIOUS
<1> PICK p : p = 0
  OBVIOUS
<1>2. FoundUpTo(s, r, k, p)
  BY <1>1, NothingFound
<1>3. t = Find(s, r[k + 1], e)
  <2>1. t = Find(s, Line.in[1], e)
    BY DEF Found1
  <2>2. r[k + 1] = Line.in[1]
    OBVIOUS
  <2> QED
    BY <2>1, <2>2
<1>4. FoundUpTo(t, r, k + 1, p) /\ t.ptr \in 1..Len(t.heap)
  <2>1. k \in 0..Len(r) - 1
    BY <1>1
  <2>2. FoundUpTo(t, r, k + 1, p) /\ Returned(s, t, r[k + 1], e)
    BY <1>1, <1>2, <1>3, <2>1, FindFinds
  <2> QED
    BY <2>2 DEF Returned
<1>5. ASSUME Len(r) >= 2, r[2] = Line.in[2] PROVE FoundUpTo(u, r, 2, p)
  <2>1. m \in 0..Len(r) - 1 /\ m = k + 1
    BY <1>1, <1>5
  <2>2. u = Find(t, r[m + 1], e)
    <3>1. u = Find(t, Line.in[2], e)
      BY DEF Found2
    <3>2. r[m + 1] = Line.in[2]
      BY <1>5
    <3> QED
      BY <3>1, <3>2
  <2>3. FoundUpTo(t, r, m, p)
    BY <1>4, <2>1
  <2>4. FoundUpTo(u, r, m + 1, p)
    BY <1>1, <2>1, <2>2, <2>3, FindFinds
  <2>5. m + 1 = 2
    OBVIOUS
  <2> QED
    BY <2>4, <2>5
<1>6. k + 1 = 1
  OBVIOUS
<1> QED
  BY <1>4, <1>5, <1>6

LEMMA AtIsWorking ==
  ASSUME IInv, NEW op, At(op)
  PROVE  Working /\ Line.op = op
BY DEF At, Working, IInv, Seqs, Circuit

LEMMA LineShape ==
  ASSUME Working, NEW g, g = Line
  PROVE  /\ g = gates[next] /\ g \in GateLines /\ GateOK(g, Before(next))
         /\ Len(g.in) = Ins(g) /\ Len(g.out) = Outs(g) /\ g.out \in Seq(Wires)
         /\ Reads(g) \in Seq(Wires) /\ Range(Reads(g)) \subseteq Before(next)
         /\ Out = g.out[Outs(g)] /\ Out \in Wires
         /\ g.op # "assert" => Reads(g) = g.in /\ Out \in Defined(g) /\ Out \notin Before(next)
         /\ g.op \notin {"assert", "split"} => Defined(g) = {Out}
<1>1. Circuit /\ next \in 1..Len(gates)
  BY DEF Working, IInv
<1>2. g = gates[next]
  BY DEF Line
<1>3. /\ g \in GateLines /\ GateOK(g, Before(next))
      /\ Reads(g) \in Seq(Wires) /\ Range(Reads(g)) \subseteq Before(next)
  BY <1>1, <1>2, ReadsShape
<1>4. g.in \in [1..Ins(g) -> Before(next)] /\ g.out \in [1..Outs(g) -> Wires]
  BY <1>3 DEF GateOK
<1>5. Ins(g) \in Nat /\ Outs(g) \in Nat \ {0}
  BY DEF Ins, Outs
<1>6. Len(g.in) = Ins(g) /\ Len(g.out) = Outs(g) /\ g.out \in Seq(Wires)
  BY <1>4, <1>5, FunctionIsSeq
<1>7. Out = g.out[Outs(g)] /\ Out \in Wires
  BY <1>4, <1>5, <1>6 DEF Out
<1>8. g.op # "assert" => Reads(g) = g.in /\ Out \in Defined(g)
  BY <1>3, <1>4, <1>7, DefinedWires DEF Reads
<1>9. g.op # "assert" => Out \notin Before(next)
  BY <1>3, <1>8 DEF GateOK
<1>10. g.op \notin {"assert", "split"} => Defined(g) = {Out}
  <2>1. CASE g.op = "zerop"
    BY <1>7, <2>1 DEF Defined, Outs
  <2>2. CASE g.op \notin {"assert", "split", "zerop"}
    <3>1. Outs(g) = 1 /\ DOMAIN g.out = 1..1
      BY <1>4, <2>2 DEF Outs
    <3>2. Range(g.out) = {g.out[1]}
      BY <3>1 DEF Range
    <3> QED
      BY <1>7, <2>2, <3>1, <3>2 DEF Defined
  <2> QED
    BY <2>1, <2>2
<1> QED
  BY <1>2, <1>3, <1>6, <1>7, <1>8, <1>9, <1>10

\* The gates of two inputs and one output that gets a variable.
LEMMA TwoInputGate ==
  ASSUME IInv, NEW op \in {"mul", "xor", "or"}, At(op), vs' = Declare(vs, Out),
         NEW cs, Handled(Found2, cs), UNCHANGED <<zeroPs, zeroOf>>
  PROVE  IInv'
<1>1. Working /\ Line.op = op
  BY AtIsWorking
<1> PICK g : g = Line
  OBVIOUS
<1>2. /\ g = gates[next] /\ Len(g.in) = 2 /\ Reads(g) = g.in /\ Out \in Wires /\ Defined(g) = {Out}
  BY <1>1, LineShape DEF Ins
<1> PICK r : r = g.in
  OBVIOUS
<1> PICK t : t = Found2
  OBVIOUS
<1> PICK w : w = Out
  OBVIOUS
<1> PICK u : u = vs'
  OBVIOUS
<1>3. Ready(t)
  <2>1. r = Reads(Line) /\ r = Reads(gates[next]) /\ Len(r) = 2 /\ r[1] = Line.in[1] /\ r[2] = Line.in[2]
    BY <1>2
  <2>2. r[2] = Line.in[2] /\ Len(r) >= 2 /\ Len(r) >= 1
    BY <2>1
  <2>3. FoundUpTo(Found2, r, 2, 0)
    BY <1>1, <2>1, <2>2, FoundInputs
  <2>4. FoundUpTo(t, r, Len(r), 0)
    BY <2>1, <2>3
  <2> QED
    BY <1>1, <2>1, <2>4, FoundIsReady
<1>4. Wires' = Wires
  BY DEF Handled, parsed, Wires
<1>5. VarsGrow /\ w \in DOMAIN vs'.of
  <2>1. IsVarMap(vs) /\ u = Declare(vs, w)
    BY DEF IInv
  <2>2. Grows(vs, u, {w})
    BY <1>2, <2>1, DeclareGrows
  <2> QED
    BY <1>4, <2>2, GrowsIsVarsGrow
<1>6. Handled(t, cs)
  OBVIOUS
<1>7. Kept'
  <2>1. Defined(gates[next]) \subseteq DOMAIN vs'.of \cup (DOMAIN t.lcOf \ t.toClean)
    BY <1>2, <1>5
  <2> QED
    BY <1>1, <1>3, <1>5, <1>6, <2>1, HandledKeeps
<1>8. Zerops' /\ Mapping'
  BY <1>1, <1>3, <1>5, <1>6, OthersKept
<1> QED
  BY <1>7, <1>8, KeptIsIInv

LEMMA AddMulKeeps == IInv /\ AddMulConstraint => IInv'
<1> SUFFICES ASSUME IInv, AddMulConstraint PROVE IInv'
  OBVIOUS
<1> PICK cs : cs = {R1(L1, L2, OutTerm(vs', Out))}
  OBVIOUS
<1> PICK op \in {"mul", "xor", "or"} : op = "mul"
  OBVIOUS
<1>1. At(op) /\ vs' = Declare(vs, Out) /\ Handled(Found2, cs) /\ UNCHANGED <<zeroPs, zeroOf>>
  BY DEF AddMulConstraint
<1> QED
  BY <1>1, TwoInputGate

LEMMA AddXorKeeps == IInv /\ AddXorConstraint => IInv'
<1> SUFFICES ASSUME IInv, AddXorConstraint PROVE IInv'
  OBVIOUS
<1> PICK cs : cs = {R1(Times(2, L1), L2, Minus(Plus(L1, L2), OutTerm(vs', Out)))}
  OBVIOUS
<1> PICK op \in {"mul", "xor", "or"} : op = "xor"
  OBVIOUS
<1>1. At(op) /\ vs' = Declare(vs, Out) /\ Handled(Found2, cs) /\ UNCHANGED <<zeroPs, zeroOf>>
  BY DEF AddXorConstraint
<1> QED
  BY <1>1, TwoInputGate

LEMMA AddOrKeeps == IInv /\ AddOrConstraint => IInv'
<1> SUFFICES ASSUME IInv, AddOrConstraint PROVE IInv'
  OBVIOUS
<1> PICK cs : cs = {R1(L1, L2, Minus(Plus(L1, L2), OutTerm(vs', Out)))}
  OBVIOUS
<1> PICK op \in {"mul", "xor", "or"} : op = "or"
  OBVIOUS
<1>1. At(op) /\ vs' = Declare(vs, Out) /\ Handled(Found2, cs) /\ UNCHANGED <<zeroPs, zeroOf>>
  BY DEF AddOrConstraint
<1> QED
  BY <1>1, TwoInputGate

LEMMA SameVarsGrow ==
  ASSUME IsVarMap(vs), vs' = vs, Wires' = Wires
  PROVE  VarsGrow
BY DEF VarsGrow, IsVarMap

Three(r, a, b, c) == Len(r) = 3 /\ r[1] = a /\ r[2] = b /\ r[3] = c

LEMMA ThreeWires ==
  ASSUME NEW x \in Seq(Nat), NEW y \in Seq(Nat), Len(x) = 2, Len(y) = 1
  PROVE  Three(x \o y, x[1], x[2], y[1])
<1>1. /\ Len(x \o y) = Len(x) + Len(y)
      /\ \A i \in 1..Len(x) + Len(y) : (x \o y)[i] = IF i <= Len(x) THEN x[i] ELSE y[i - Len(x)]
  BY ConcatProperties
<1>2. Len(x) + Len(y) = 3 /\ 1 \in 1..3 /\ 2 \in 1..3 /\ 3 \in 1..3
  OBVIOUS
<1>3. \A i \in 1..3 : (x \o y)[i] = IF i <= 2 THEN x[i] ELSE y[i - 2]
  BY <1>1, <1>2
<1> QED
  BY <1>1, <1>2, <1>3 DEF Three

LEMMA AddAssertionKeeps == IInv /\ AddAssertionConstraint => IInv'
<1> SUFFICES ASSUME IInv, AddAssertionConstraint PROVE IInv'
  OBVIOUS
<1> PICK op : op = "assert"
  OBVIOUS
<1>1. At(op) /\ UNCHANGED <<vs, zeroPs, zeroOf>>
  BY DEF AddAssertionConstraint
<1>2. Working /\ Line.op = op
  BY <1>1, AtIsWorking
<1> PICK g : g = Line
  OBVIOUS
<1>3. /\ g = gates[next] /\ Len(g.in) = 2 /\ Len(g.out) = 1 /\ Out = g.out[1]
      /\ g.in \in Seq(Nat) /\ g.out \in Seq(Nat) /\ Reads(g) \in Seq(Wires)
  <2>1. /\ g = gates[next] /\ g \in GateLines /\ Len(g.in) = Ins(g) /\ Len(g.out) = Outs(g)
        /\ Out = g.out[Outs(g)] /\ Reads(g) \in Seq(Wires)
    BY <1>2, LineShape
  <2>2. g.in \in Seq(Nat) /\ g.out \in Seq(Nat)
    BY <2>1 DEF GateLines
  <2> QED
    BY <1>2, <2>1, <2>2 DEF Ins, Outs
<1> PICK r : r = Reads(g)
  OBVIOUS
<1>4. r \in Seq(Wires) /\ Len(r) = 3 /\ r[1] = Line.in[1] /\ r[2] = Line.in[2] /\ r[3] = Out
  <2>1. r = g.in \o g.out
    BY <1>2 DEF Reads
  <2>2. Three(g.in \o g.out, g.in[1], g.in[2], g.out[1])
    BY <1>3, ThreeWires
  <2>3. Three(r, g.in[1], g.in[2], g.out[1])
    BY <2>1, <2>2
  <2> QED
    BY <1>3, <2>3 DEF Three
<1> PICK e \in BOOLEAN : e = FALSE
  OBVIOUS
<1> PICK s : s = Found2
  OBVIOUS
<1> PICK t : t = Find(s, Out, FALSE)
  OBVIOUS
<1> PICK cs : cs = {R1(L1, L2, t.heap[t.ptr])}
  OBVIOUS
<1>5. Handled(t, cs)
  BY DEF AddAssertionConstraint
<1>6. FoundUpTo(t, r, Len(r), 0)
  <2>1. r = Reads(Line) /\ Len(r) >= 2 /\ Len(r) >= 1
    BY <1>4
  <2>2. FoundUpTo(s, r, 2, 0)
    BY <1>2, <1>4, <2>1, FoundInputs
  <2> PICK k : k = 2
    OBVIOUS
  <2> PICK p : p = 0
    OBVIOUS
  <2>3. k \in 0..Len(r) - 1 /\ t = Find(s, r[k + 1], e)
    <3>1. k \in 0..Len(r) - 1 /\ r[k + 1] = Out
      BY <1>4
    <3>2. t = Find(s, Out, e)
      OBVIOUS
    <3> QED
      BY <3>1, <3>2
  <2>4. FoundUpTo(s, r, k, p) /\ r = Reads(gates[next])
    BY <1>3, <2>2
  <2>5. FoundUpTo(t, r, k + 1, p)
    BY <1>2, <2>3, <2>4, FindFinds
  <2>6. k + 1 = Len(r)
    BY <1>4
  <2> QED
    BY <2>5, <2>6
<1>7. Ready(t)
  BY <1>2, <1>3, <1>6, FoundIsReady
<1>8. Wires' = Wires
  BY <1>5 DEF Handled, parsed, Wires
<1>9. VarsGrow
  BY <1>1, <1>8, SameVarsGrow DEF IInv
<1>10. Kept'
  <2>1. Defined(gates[next]) \subseteq DOMAIN vs'.of \cup (DOMAIN t.lcOf \ t.toClean)
    BY <1>2, <1>3 DEF Defined
  <2> QED
    BY <1>2, <1>5, <1>7, <1>9, <2>1, HandledKeeps
<1>11. Zerops' /\ Mapping'
  BY <1>1, <1>2, <1>5, <1>7, <1>9, OthersKept
<1> QED
  BY <1>10, <1>11, KeptIsIInv

LEMMA AddSplitKeeps == IInv /\ AddSplitConstraint => IInv'
<1> SUFFICES ASSUME IInv, AddSplitConstraint PROVE IInv'
  OBVIOUS
<1> PICK op : op = "split"
  OBVIOUS
<1>1. At(op) /\ UNCHANGED <<zeroPs, zeroOf>> /\ vs' = DeclareAll(vs, Line.out)
  BY DEF AddSplitConstraint
<1>2. Working /\ Line.op = op
  BY <1>1, AtIsWorking
<1> PICK g : g = Line
  OBVIOUS
<1>3. /\ g = gates[next] /\ Len(g.in) = 1 /\ Reads(g) = g.in /\ g.out \in Seq(Wires)
  BY <1>2, LineShape DEF Ins
<1> PICK r : r = g.in
  OBVIOUS
<1> PICK ws : ws = g.out
  OBVIOUS
<1> PICK t : t = Found1
  OBVIOUS
<1> PICK u : u = vs'
  OBVIOUS
<1>4. \E cs : Handled(t, cs)
  BY DEF AddSplitConstraint
<1>5. PICK cs : Handled(t, cs)
  BY <1>4
<1>6. Ready(t)
  <2>1. r = Reads(Line) /\ r = Reads(gates[next]) /\ Len(r) = 1 /\ r[1] = Line.in[1]
    BY <1>3
  <2>2. Len(r) >= 1
    BY <2>1
  <2>3. FoundUpTo(Found1, r, 1, 0)
    BY <1>2, <2>1, <2>2, FoundInputs
  <2>4. FoundUpTo(t, r, Len(r), 0)
    BY <2>1, <2>3
  <2> QED
    BY <1>2, <2>1, <2>4, FoundIsReady
<1>7. Wires' = Wires
  BY <1>5 DEF Handled, parsed, Wires
<1>8. VarsGrow /\ Range(ws) \subseteq DOMAIN vs'.of
  <2>1. IsVarMap(vs) /\ u = DeclareAll(vs, ws) /\ ws \in Seq(Wires)
    BY <1>1, <1>3 DEF IInv
  <2> PICK W : W = Range(ws)
    OBVIOUS
  <2>2. Grows(vs, u, W)
    BY <2>1, DeclareAllGrows
  <2> QED
    BY <1>7, <2>2, GrowsIsVarsGrow
<1>9. Kept'
  <2>1. Defined(gates[next]) \subseteq DOMAIN vs'.of \cup (DOMAIN t.lcOf \ t.toClean)
    BY <1>2, <1>3, <1>8 DEF Defined
  <2> QED
    BY <1>2, <1>5, <1>6, <1>8, <2>1, HandledKeeps
<1>10. Zerops' /\ Mapping'
  BY <1>1, <1>2, <1>5, <1>6, <1>8, OthersKept
<1> QED
  BY <1>9, <1>10, KeptIsIInv

\* h is f with y at w.
Extended(h, f, w, y) ==
    /\ DOMAIN h = DOMAIN f \cup {w} /\ h[w] = y
    /\ \A x \in DOMAIN f : x # w => h[x] = f[x]

LEMMA WithFields ==
  ASSUME NEW f, NEW w, NEW y
  PROVE  Extended(With(f, w, y), f, w, y)
BY DEF With, Extended

\* A zerop gate declares a second, auxiliary variable.
LEMMA AuxiliaryGrows ==
  ASSUME NEW v, IsVarMap(v), NEW W, NEW u, Grows(v, u, W), NEW x, x = [u EXCEPT !.n = @ + 1]
  PROVE  Grows(v, x, W) /\ x.n = u.n + 1 /\ u.n \in Nat
<1>1. u = [of |-> u.of, n |-> u.n] /\ u.n \in Nat
  BY DEF Grows, IsVarMap
<1>2. x.of = u.of /\ x.n = u.n + 1 /\ x = [of |-> x.of, n |-> x.n]
  BY <1>1
<1>3. IsVarMap(x)
  <2>1. u.of \in [DOMAIN u.of -> 0..u.n - 1] /\ DOMAIN u.of \subseteq Wires
    BY DEF Grows, IsVarMap
  <2>2. x.of \in [DOMAIN x.of -> 0..x.n - 1]
    <3>1. 0..u.n - 1 \subseteq 0..x.n - 1
      BY <1>1, <1>2
    <3> QED
      BY <1>2, <2>1, <3>1
  <2>3. \A w, z \in DOMAIN x.of : x.of[w] = x.of[z] => w = z
    BY <1>2 DEF Grows, IsVarMap
  <2> QED
    BY <1>1, <1>2, <2>1, <2>2, <2>3 DEF IsVarMap
<1>4. v.n \in Nat /\ x.n >= v.n
  BY <1>1, <1>2 DEF Grows, IsVarMap
<1> QED
  BY <1>1, <1>2, <1>3, <1>4 DEF Grows

LEMMA WiresFinite == Circuit => IsFiniteSet(Wires)
<1> SUFFICES ASSUME Circuit PROVE IsFiniteSet(Wires)
  OBVIOUS
<1> PICK m \in Nat : m = Cardinality(Wires)
  BY DEF Circuit
<1>1. IsFiniteSet(0..m - 1)
  BY FS_Interval
<1>2. Wires = 0..m - 1
  BY DEF Circuit
<1> QED
  BY <1>1, <1>2

LEMMA AddNonzeroCheckKeeps == IInv /\ AddNonzeroCheckConstraint => IInv'
<1> SUFFICES ASSUME IInv, AddNonzeroCheckConstraint PROVE IInv'
  OBVIOUS
<1> PICK op : op = "zerop"
  OBVIOUS
<1> PICK v : v = Declare(vs, Out)
  OBVIOUS
<1> PICK t : t = Found1
  OBVIOUS
<1> PICK w : w = Out
  OBVIOUS
<1> PICK x : x = [v EXCEPT !.n = @ + 1]
  OBVIOUS
<1> PICK n : n = next
  OBVIOUS
<1>1. /\ At(op) /\ vs' = x /\ zeroPs' = Append(zeroPs, t.ptr) /\ zeroOf' = With(zeroOf, w, v.n)
      /\ \E cs : Handled(t, cs)
  BY DEF AddNonzeroCheckConstraint
<1>2. Working /\ Line.op = op
  BY <1>1, AtIsWorking
<1> PICK g : g = Line
  OBVIOUS
<1>3. /\ g = gates[next] /\ Len(g.in) = 1 /\ Reads(g) = g.in /\ w \in Wires
      /\ w \notin Before(next) /\ Defined(g) = {w}
  BY <1>2, LineShape DEF Ins
<1> PICK r : r = g.in
  OBVIOUS
<1>4. PICK cs : Handled(t, cs)
  BY <1>1
<1>5. Ready(t) /\ t.ptr \in 1..Len(t.heap)
  <2>1. r = Reads(Line) /\ r = Reads(gates[next]) /\ Len(r) = 1 /\ r[1] = Line.in[1]
    BY <1>3
  <2>2. Len(r) >= 1
    BY <2>1
  <2>3. FoundUpTo(Found1, r, 1, 0) /\ Found1.ptr \in 1..Len(Found1.heap)
    BY <1>2, <2>1, <2>2, FoundInputs
  <2>4. FoundUpTo(t, r, Len(r), 0)
    BY <2>1, <2>3
  <2>5. Ready(t)
    BY <1>2, <2>1, <2>4, FoundIsReady
  <2> QED
    BY <2>3, <2>5
<1>6. Wires' = Wires
  BY <1>4 DEF Handled, parsed, Wires
<1>7. /\ Grows(vs, x, {w}) /\ x.n = v.n + 1 /\ v.n \in Nat
      /\ VarsGrow /\ DOMAIN vs'.of = DOMAIN vs.of \cup {w}
  <2> PICK W : W = {w}
    OBVIOUS
  <2>1. IsVarMap(vs) /\ v = Declare(vs, w)
    BY DEF IInv
  <2>2. Grows(vs, v, {w})
    BY <1>3, <2>1, DeclareGrows
  <2>3. Grows(vs, v, W)
    BY <2>2
  <2>4. Grows(vs, x, W) /\ x.n = v.n + 1 /\ v.n \in Nat
    BY <2>1, <2>3, AuxiliaryGrows
  <2>5. x = vs'
    BY <1>1
  <2>6. VarsGrow /\ DOMAIN vs'.of = DOMAIN vs.of \cup W
    BY <1>6, <2>4, <2>5, GrowsIsVarsGrow
  <2> QED
    BY <2>4, <2>6
<1>8. Kept'
  <2>1. Defined(gates[next]) \subseteq DOMAIN vs'.of \cup (DOMAIN t.lcOf \ t.toClean)
    BY <1>3, <1>7
  <2> QED
    BY <1>2, <1>4, <1>5, <1>7, <2>1, HandledKeeps
<1>9. /\ heap' = t.heap /\ next' = n + 1 /\ phase' = phase /\ gates' = gates
      /\ val' = val /\ unmapped' = unmapped /\ zeropIdx' = zeropIdx
  BY <1>4 DEF Handled, parsed, mapping
<1>10. /\ Zerops /\ Mapping /\ Pointers /\ IsVarMap(vs) /\ phase = "construct" /\ n \in Nat
       /\ IsFiniteSet(Wires) /\ Unbuilt
  <2>1. /\ Zerops /\ Mapping /\ Pointers /\ IsVarMap(vs) /\ phase = "construct" /\ n \in Nat
        /\ Circuit /\ Unbuilt
    BY <1>2 DEF Working, IInv, Circuit
  <2>2. IsFiniteSet(Wires)
    BY <2>1, WiresFinite
  <2> QED
    BY <2>1, <2>2
<1>11. /\ DOMAIN zeroOf' = DOMAIN zeroOf \cup {w} /\ zeroOf'[w] = v.n
       /\ \A z \in DOMAIN zeroOf : z # w => zeroOf'[z] = zeroOf[z]
  <2> PICK h : h = zeroOf'
    OBVIOUS
  <2> PICK f : f = zeroOf
    OBVIOUS
  <2> PICK y : y = v.n
    OBVIOUS
  <2>1. h = With(f, w, y)
    BY <1>1
  <2>2. Extended(h, f, w, y)
    BY <2>1, WithFields
  <2> QED
    BY <2>2 DEF Extended
<1>12. /\ zeroPs \in Seq(1..Len(heap)) /\ DOMAIN zeroOf \subseteq DOMAIN vs.of
       /\ DOMAIN zeroOf \subseteq Before(n) /\ zeroOf \in [DOMAIN zeroOf -> 0..vs.n - 1]
       /\ Len(zeroPs) = Cardinality(DOMAIN zeroOf)
  BY <1>10 DEF Zerops
<1>13. w \notin DOMAIN zeroOf /\ IsFiniteSet(DOMAIN zeroOf)
  <2>1. w \notin DOMAIN zeroOf
    BY <1>3, <1>12
  <2>2. DOMAIN zeroOf \subseteq Wires
    BY <1>10, <1>12 DEF IsVarMap
  <2> QED
    BY <1>10, <2>1, <2>2, FS_Subset
<1>14. zeroPs' \in Seq(1..Len(heap')) /\ Len(zeroPs') = Len(zeroPs) + 1
  <2>1. 1..Len(heap) \subseteq 1..Len(heap')
    <3>1. Len(heap') >= Len(heap) /\ Len(heap) \in Nat /\ Len(heap') \in Nat
      BY <1>5, <1>9, <1>10 DEF Ready, Pointers
    <3> QED
      BY <3>1
  <2>2. zeroPs \in Seq(1..Len(heap')) /\ t.ptr \in 1..Len(heap')
    BY <1>5, <1>9, <1>12, <2>1, SeqMonotonic
  <2> QED
    BY <1>1, <2>2, AppendProperties
<1>15. DOMAIN zeroOf' \subseteq DOMAIN vs'.of /\ DOMAIN zeroOf' \subseteq Before(next)'
  <2>1. DOMAIN zeroOf' \subseteq DOMAIN vs'.of
    BY <1>7, <1>11, <1>12
  <2>2. Before(n) \subseteq Before(n + 1) /\ w \in Before(n + 1)
    <3>0. n \in Nat /\ n # 0
      BY <1>2, <1>10 DEF Working
    <3>1. 1..n - 1 \subseteq 1..(n + 1) - 1 /\ n \in 1..(n + 1) - 1
      BY <3>0
    <3>2. w \in Defined(gates[n])
      BY <1>3
    <3> QED
      BY <3>1, <3>2 DEF Before
  <2>3. Before(next)' = Before(n + 1)
    <3>1. Before(next)' = Before(n + 1)'
      BY <1>9
    <3>2. Before(n + 1)' = Before(n + 1)
      BY <1>9 DEF Before, Inputs
    <3> QED
      BY <3>1, <3>2
  <2> QED
    BY <1>11, <1>12, <2>1, <2>2, <2>3
<1>16. 0..vs.n - 1 \subseteq 0..vs'.n - 1 /\ v.n \in 0..vs'.n - 1 /\ vs'.n >= vs.n
  <2>1. vs.n \in Nat /\ vs'.n \in Nat /\ vs'.n >= vs.n /\ vs'.n = v.n + 1
    BY <1>1, <1>7, <1>10 DEF VarsGrow, IsVarMap
  <2> QED
    BY <1>7, <2>1
<1>17. Zerops'
  <2>1. zeroOf' \in [DOMAIN zeroOf' -> 0..vs'.n - 1]
    <3>1. \A z \in DOMAIN zeroOf' : zeroOf'[z] \in 0..vs'.n - 1
      BY <1>11, <1>12, <1>16
    <3>2. zeroOf' = [z \in DOMAIN zeroOf' |-> zeroOf'[z]]
      BY <1>1 DEF With
    <3> QED
      BY <3>1, <3>2
  <2>2. Len(zeroPs') = Cardinality(DOMAIN zeroOf')
    BY <1>11, <1>12, <1>13, <1>14, FS_AddElement
  <2> QED
    BY <1>14, <1>15, <2>1, <2>2 DEF Zerops
<1>18. Mapping'
  <2>1. DOMAIN val' \subseteq 0..vs'.n - 1 /\ val' \in [DOMAIN val' -> Field]
    BY <1>9, <1>10, <1>16 DEF Mapping
  <2>2. unmapped' \subseteq DOMAIN vs'.of
    BY <1>7, <1>9, <1>10 DEF Mapping
  <2>3. zeropIdx' \in 1..Len(zeroPs') + 1 /\ phase' # "map"
    <3>1. Len(zeroPs) \in Nat
      BY <1>12
    <3> QED
      BY <1>9, <1>10, <1>14, <3>1 DEF Mapping
  <2> QED
    BY <2>1, <2>2, <2>3 DEF Mapping
<1> QED
  BY <1>8, <1>17, <1>18, KeptIsIInv

-----------------------------------------------------------------------------
(* The linear gates *)

\* The combination of the edited pointer becomes the output wire's.
HandsOn(s, t) ==
    /\ DOMAIN t = DOMAIN s /\ t.uses = s.uses /\ t.heap = s.heap /\ t.toClean = s.toClean
    /\ Extended(t.lcOf, s.lcOf, Out, s.ptr)

LEMMA HandedOn ==
  ASSUME NEW s, IsStore(s)
  PROVE  HandsOn(s, [s EXCEPT !.lcOf = With(@, Out, s.ptr)])
<1> PICK h : h = With(s.lcOf, Out, s.ptr)
  OBVIOUS
<1>1. Extended(h, s.lcOf, Out, s.ptr)
  BY WithFields
<1> PICK t : t = [s EXCEPT !.lcOf = h]
  OBVIOUS
<1>2. DOMAIN t = DOMAIN s /\ t.uses = s.uses /\ t.heap = s.heap /\ t.toClean = s.toClean /\ t.lcOf = h
  BY DEF IsStore
<1>3. HandsOn(s, t)
  BY <1>1, <1>2 DEF HandsOn
<1> QED
  BY <1>3

LEMMA LinearIsReady ==
  ASSUME Working, NEW g, g = Line, g.op \in Editing, NEW s, NEW p, p = s.ptr,
         FoundUpTo(s, g.in, Len(g.in), p), p \in 1..Len(s.heap),
         Eval(s.heap[p], Intended) = values[Out], NEW t, HandsOn(s, t)
  PROVE  Ready(t) /\ Defined(g) \subseteq DOMAIN t.lcOf \ t.toClean
<1> PICK r : r = g.in
  OBVIOUS
<1> PICK o : o = Out
  OBVIOUS
<1>1. /\ Circuit /\ Pointers /\ LiveLCsEvaluate /\ next \in 1..Len(gates)
      /\ next + 1 \in 1..Len(gates) + 1 /\ Len(gates) \in Nat
  BY DEF Working, IInv, Circuit
<1>2. /\ r \in Seq(Wires) /\ Range(r) \subseteq Before(next) /\ o \in Wires /\ o \notin Before(next)
      /\ Defined(g) = {o}
  BY LineShape DEF Editing
<1>3. /\ IsStore(s)
      /\ s.uses = [w \in Wires |-> LeftFrom(next + 1, w) + Rest(r, Len(r) + 1, w)]
      /\ s.heap \in Seq(LCs(Known)) /\ Len(s.heap) >= Len(heap)
      /\ \A q \in 1..Len(heap) : q # p => s.heap[q] = heap[q]
      /\ s.toClean \subseteq Range(r) /\ \A w \in s.toClean : s.uses[w] = 0
      /\ \A w \in DOMAIN lcOf : lcOf[w] = p => w \in s.toClean
  BY DEF FoundUpTo
<1>4. \A w \in Wires : LeftFrom(next + 1, w) + Rest(r, Len(r) + 1, w) = LeftFrom(next + 1, w)
  BY <1>1, <1>2, LeftSteps, RestSteps
<1>5. s.uses = [w \in Wires |-> LeftFrom(next + 1, w)]
  BY <1>3, <1>4
<1>6. ASSUME NEW w \in s.toClean PROVE LeftFrom(next + 1, w) = 0
  <2>1. w \in Wires
    BY <1>2, <1>3 DEF Range
  <2>2. s.uses[w] = 0
    BY <1>3
  <2> QED
    BY <1>5, <2>1, <2>2
<1>7. s.lcOf = lcOf
  BY <1>3 DEF IsStore
<1>8. /\ t.uses = s.uses /\ t.heap = s.heap /\ t.toClean = s.toClean
      /\ DOMAIN t.lcOf = DOMAIN lcOf \cup {o} /\ t.lcOf[o] = p
      /\ \A w \in DOMAIN lcOf : w # o => t.lcOf[w] = lcOf[w]
  BY <1>7 DEF HandsOn, Extended
<1>9. /\ DOMAIN lcOf \subseteq Wires
      /\ \A w \in DOMAIN lcOf : lcOf[w] \in 1..Len(heap)
      /\ \A w, u \in DOMAIN lcOf : lcOf[w] = lcOf[u] => w = u
      /\ Len(heap) \in Nat
  BY <1>1 DEF Pointers
<1>10. ASSUME NEW w \in DOMAIN t.lcOf \ t.toClean, w # o
       PROVE  /\ w \in DOMAIN lcOf /\ t.lcOf[w] = lcOf[w] /\ lcOf[w] # p
              /\ t.lcOf[w] \in 1..Len(t.heap) /\ Eval(t.heap[t.lcOf[w]], Intended) = values[w]
  <2>1. w \in DOMAIN lcOf /\ t.lcOf[w] = lcOf[w] /\ w \notin s.toClean
    BY <1>8, <1>10
  <2>2. lcOf[w] # p
    BY <1>3, <2>1
  <2>3. s.heap[lcOf[w]] = heap[lcOf[w]] /\ Eval(heap[lcOf[w]], Intended) = values[w]
    BY <1>1, <1>3, <1>9, <2>1, <2>2 DEF LiveLCsEvaluate
  <2>4. lcOf[w] \in 1..Len(s.heap)
    BY <1>3, <1>9, <2>1
  <2> QED
    BY <1>8, <2>1, <2>2, <2>3, <2>4
<1>11. t.lcOf[o] \in 1..Len(t.heap) /\ Eval(t.heap[t.lcOf[o]], Intended) = values[o]
  BY <1>8
<1>12. \A w, u \in DOMAIN t.lcOf \ t.toClean : t.lcOf[w] = t.lcOf[u] => w = u
  BY <1>8, <1>9, <1>10
<1>13. Ready(t)
  <2>1. \A w \in DOMAIN t.lcOf \ t.toClean :
          t.lcOf[w] \in 1..Len(t.heap) /\ Eval(t.heap[t.lcOf[w]], Intended) = values[w]
    BY <1>10, <1>11
  <2>2. DOMAIN lcOf \subseteq DOMAIN t.lcOf /\ DOMAIN t.lcOf \subseteq Wires
    BY <1>2, <1>8, <1>9
  <2> QED
    BY <1>3, <1>5, <1>6, <1>8, <1>12, <2>1, <2>2 DEF Ready
<1> QED
  BY <1>2, <1>3, <1>8, <1>13

\* A gate that hands on a combination of its output's value.
\* The handler has found the gate's inputs and left the output's combination at the
\* pointer p, which find returned for the first of them.
EditedAt(s, p) ==
    /\ Linear(s) /\ p = s.ptr /\ p \in 1..Len(s.heap) /\ p = Find(Store, Line.in[1], TRUE).ptr
    /\ FoundUpTo(s, Line.in, Len(Line.in), p) /\ Eval(s.heap[p], Intended) = values[Out]

LEMMA LinearKeeps ==
  ASSUME IInv, NEW op \in Editing, At(op), NEW s, NEW p, EditedAt(s, p)
  PROVE  IInv'
<1>0. /\ Linear(s) /\ p = s.ptr /\ p \in 1..Len(s.heap)
      /\ FoundUpTo(s, Line.in, Len(Line.in), p) /\ Eval(s.heap[p], Intended) = values[Out]
  BY DEF EditedAt
<1>1. Working /\ Line.op = op
  BY AtIsWorking
<1> PICK g : g = Line
  OBVIOUS
<1>2. g = gates[next] /\ g.op \in Editing
  BY <1>1, LineShape
<1> PICK t : t = [s EXCEPT !.lcOf = With(@, Out, s.ptr)]
  OBVIOUS
<1>3. HandsOn(s, t)
  BY <1>0, HandedOn DEF FoundUpTo
<1> PICK cs : cs = {}
  OBVIOUS
<1>4. Handled(t, cs) /\ vs' = vs /\ UNCHANGED <<zeroPs, zeroOf>>
  BY <1>0 DEF Linear
<1>5. Ready(t) /\ Defined(g) \subseteq DOMAIN t.lcOf \ t.toClean
  <2>1. FoundUpTo(s, g.in, Len(g.in), p)
    BY <1>0
  <2> QED
    BY <1>0, <1>1, <1>2, <1>3, <2>1, LinearIsReady
<1>6. VarsGrow
  <2>1. Wires' = Wires
    BY <1>4 DEF Handled, parsed, Wires
  <2> QED
    BY <1>4, <2>1, SameVarsGrow DEF IInv
<1>7. Kept'
  <2>1. Defined(gates[next]) \subseteq DOMAIN vs'.of \cup (DOMAIN t.lcOf \ t.toClean)
    BY <1>2, <1>5
  <2> QED
    BY <1>1, <1>4, <1>5, <1>6, <2>1, HandledKeeps
<1>8. Zerops' /\ Mapping'
  BY <1>1, <1>4, <1>5, <1>6, OthersKept
<1> QED
  BY <1>7, <1>8, KeptIsIInv

\* The first input is found to be edited.
LEMMA FirstIsEdited ==
  ASSUME Working, NEW r, r = Reads(gates[next]), Len(r) >= 1,
         NEW t, t = Find(Store, r[1], TRUE), NEW p, p = t.ptr
  PROVE  /\ FoundUpTo(t, r, 1, p) /\ p \in 1..Len(t.heap)
         /\ Eval(t.heap[p], Intended) = values[r[1]]
<1>1. r \in Seq(Wires) /\ Len(r) \in Nat
  <2>1. Circuit /\ next \in 1..Len(gates)
    BY DEF Working, IInv
  <2> QED
    BY <2>1, ReadsShape
<1> PICK s : s = Store
  OBVIOUS
<1> PICK e \in BOOLEAN : e = TRUE
  OBVIOUS
<1> PICK k : k = 0
  OBVIOUS
<1> PICK z : z = 0
  OBVIOUS
<1> PICK w : w = r[1]
  OBVIOUS
<1>2. FoundUpTo(s, r, k, z)
  BY NothingFound
<1>3. t = Find(s, r[k + 1], e)
  OBVIOUS
<1>4. FoundUpTo(t, r, k + 1, z) /\ Returned(s, t, r[k + 1], e)
  <2>1. k \in 0..Len(r) - 1
    BY <1>1
  <2> QED
    BY <1>1, <1>2, <1>3, <2>1, FindFinds
<1>5. k + 1 = 1
  OBVIOUS
<1>6. FoundUpTo(t, r, 1, z) /\ Returned(s, t, w, e)
  BY <1>4, <1>5
<1>7. /\ \A u \in DOMAIN lcOf : lcOf[u] = p => u \in t.toClean
      /\ p \in 1..Len(t.heap) /\ Eval(t.heap[p], Intended) = values[w]
  BY <1>6 DEF Returned
<1>8. FoundUpTo(t, r, 1, p)
  <2>1. \A q \in 1..Len(heap) : t.heap[q] = heap[q]
    <3>1. \A q \in 1..Len(heap) : q # z => t.heap[q] = heap[q]
      BY <1>6 DEF FoundUpTo
    <3>2. \A q \in 1..Len(heap) : q # z
      BY DEF Working, IInv, Pointers
    <3> QED
      BY <3>1, <3>2
  <2> QED
    BY <1>6, <1>7, <2>1 DEF FoundUpTo
<1> QED
  BY <1>7, <1>8

\* t is s with l at the pointer p, the pointer returned last.
Edits(s, t, p, l) ==
    /\ IsStore(t) /\ t.heap = [s.heap EXCEPT ![p] = l] /\ t.ptr = p
    /\ t.uses = s.uses /\ t.toClean = s.toClean

\* The state of an edit: k inputs are found, and the pointer of the first holds l.
EditFound(t, r, k, p, l) == FoundUpTo(t, r, k, p) /\ t.heap[p] = l /\ p \in 1..Len(t.heap)

LEMMA EditKeepsFound ==
  ASSUME Working, NEW r, NEW k, NEW p, NEW s, FoundUpTo(s, r, k, p), p \in 1..Len(s.heap),
         NEW l \in LCs(Known), NEW t, Edits(s, t, p, l)
  PROVE  EditFound(t, r, k, p, l)
<1> PICK V : V = Known
  OBVIOUS
<1> PICK h \in Seq(LCs(V)) : h = s.heap
  BY DEF FoundUpTo
<1>1. t.heap = [h EXCEPT ![p] = l] /\ p \in 1..Len(h) /\ l \in LCs(V)
  BY DEF Edits
<1>2. /\ t.heap \in Seq(LCs(V)) /\ Len(t.heap) = Len(h) /\ t.heap[p] = l
      /\ \A q \in 1..Len(h) : q # p => t.heap[q] = h[q]
  BY <1>1, ExceptSeq
<1>3. Len(heap) \in Nat /\ Len(h) >= Len(heap) /\ \A q \in 1..Len(heap) : q # p => h[q] = heap[q]
  BY DEF FoundUpTo, Working, IInv, Pointers
<1>4. Len(t.heap) >= Len(heap) /\ \A q \in 1..Len(heap) : q # p => t.heap[q] = heap[q]
  BY <1>1, <1>2, <1>3
<1>5. IsStore(t) /\ t.uses = s.uses /\ t.toClean = s.toClean
  BY DEF Edits
<1>6. FoundUpTo(t, r, k, p)
  <2>1. /\ s.uses = [w \in Wires |-> LeftFrom(next + 1, w) + Rest(r, k + 1, w)]
        /\ s.toClean \subseteq Range(r) /\ \A w \in s.toClean : s.uses[w] = 0
        /\ \A w \in DOMAIN lcOf : lcOf[w] = p => w \in s.toClean
    BY DEF FoundUpTo
  <2> QED
    BY <1>2, <1>4, <1>5, <2>1 DEF FoundUpTo
<1> QED
  BY <1>1, <1>2, <1>6 DEF EditFound

LEMMA CombinationsOver ==
  ASSUME Circuit, IsVarMap(vs), NEW l \in LCs(Known)
  PROVE  /\ IsLC(l) /\ DOMAIN l \subseteq Range(vs.of) /\ DOMAIN l \subseteq Known
         /\ \A v \in DOMAIN l : Worth(Intended, v) \in Int
         /\ Eval(l, Intended) \in Field /\ Eval(l, Intended) \in Int
<1> PICK V : V = Known
  OBVIOUS
<1> PICK a : a = Intended
  OBVIOUS
<1>1. IsFiniteSet(V) /\ V \subseteq Range(vs.of) /\ \A v \in V : Worth(a, v) \in Int
  BY IntendedValues
<1>2. IsLC(l) /\ DOMAIN l \subseteq V
  BY <1>1, InLCs
<1>3. \A v \in DOMAIN l : Worth(a, v) \in Int
  BY <1>1, <1>2
<1>4. Eval(l, a) \in Field /\ Eval(l, a) \in Int
  BY <1>2, <1>3, EvalInField
<1> QED
  BY <1>1, <1>2, <1>3, <1>4

LEMMA Scaling ==
  ASSUME Circuit, IsVarMap(vs), NEW l \in LCs(Known), NEW c \in Int
  PROVE  /\ Times(c, l) \in LCs(Known)
         /\ Eval(Times(c, l), Intended) = (c * Eval(l, Intended)) % P
<1> PICK V : V = Known
  OBVIOUS
<1> PICK a : a = Intended
  OBVIOUS
<1>1. IsFiniteSet(V) /\ IsLC(l) /\ DOMAIN l \subseteq V /\ \A v \in DOMAIN l : Worth(a, v) \in Int
  BY IntendedValues, CombinationsOver
<1>2. IsLC(Times(c, l)) /\ DOMAIN Times(c, l) = DOMAIN l
  BY <1>1, TimesIsLC
<1>3. Times(c, l) \in LCs(V)
  BY <1>1, <1>2, InLCs
<1>4. Eval(Times(c, l), a) = (c * Eval(l, a)) % P
  BY <1>1, EvalOfTimes
<1> QED
  BY <1>3, <1>4

LEMMA Adding ==
  ASSUME Circuit, IsVarMap(vs), NEW l \in LCs(Known), NEW m \in LCs(Known)
  PROVE  /\ Plus(l, m) \in LCs(Known)
         /\ Eval(Plus(l, m), Intended) = (Eval(l, Intended) + Eval(m, Intended)) % P
<1> PICK V : V = Known
  OBVIOUS
<1> PICK a : a = Intended
  OBVIOUS
<1>1. /\ IsFiniteSet(V) /\ IsLC(l) /\ DOMAIN l \subseteq V /\ \A v \in DOMAIN l : Worth(a, v) \in Int
      /\ IsLC(m) /\ DOMAIN m \subseteq V /\ \A v \in DOMAIN m : Worth(a, v) \in Int
  BY IntendedValues, CombinationsOver
<1>2. IsLC(Plus(l, m)) /\ DOMAIN Plus(l, m) = DOMAIN l \cup DOMAIN m
  BY <1>1, PlusIsLC
<1>3. Plus(l, m) \in LCs(V)
  <2>1. DOMAIN Plus(l, m) \subseteq V
    BY <1>1, <1>2
  <2> QED
    BY <1>1, <1>2, <2>1, InLCs
<1>4. \A v \in DOMAIN l \cup DOMAIN m : Worth(a, v) \in Int
  BY <1>1
<1>5. Eval(Plus(l, m), a) = (Eval(l, a) + Eval(m, a)) % P
  BY <1>1, <1>4, EvalOfPlus
<1> QED
  BY <1>3, <1>5

\* Multiples of P make no difference.
LEMMA ModTimes ==
  ASSUME NEW a \in Int, NEW x \in Int
  PROVE  ((a % P) * x) % P = (a * x) % P
<1>1. Cong(a % P, a) /\ a % P \in Int
  BY CongRemainder
<1> PICK b \in Int : b = a % P
  BY <1>1
<1>2. Cong(b * x, a * x)
  BY <1>1, CongTimes
<1> QED
  BY <1>2 DEF Cong

LEMMA ModPlus ==
  ASSUME NEW a \in Int, NEW b \in Int
  PROVE  ((a % P) + (b % P)) % P = (a + b) % P
<1>1. Cong(a % P, a) /\ a % P \in Int /\ Cong(b % P, b) /\ b % P \in Int
  BY CongRemainder
<1> PICK x \in Int : x = a % P
  BY <1>1
<1> PICK y \in Int : y = b % P
  BY <1>1
<1>2. Cong(x + y, a + b)
  BY <1>1, CongPlus
<1> QED
  BY <1>2 DEF Cong

\* The value that the first pass gave to the output of a linear gate.
LEMMA LinearValue ==
  ASSUME Working, NEW g, g = Line, g.op \in Editing
  PROVE  /\ values[Out] = Result(g, InputValues(g))[1]
         /\ Reads(gates[next]) = g.in /\ Len(g.in) = Ins(g) /\ Len(g.in) >= 1
         /\ g.in \in [1..Ins(g) -> Wires] /\ g.c \in Field
<1>1. /\ g = gates[next] /\ g \in GateLines /\ GateOK(g, Before(next))
      /\ Len(g.in) = Ins(g) /\ Len(g.out) = Outs(g) /\ Reads(g) = g.in /\ Out = g.out[Outs(g)]
  BY LineShape DEF Editing
<1>2. Outs(g) = 1 /\ Ins(g) \in Nat \ {0} /\ g.op # "assert"
  BY DEF Outs, Ins, Editing
<1>3. \A k \in 1..Outs(g) : values[g.out[k]] = Result(g, InputValues(g))[k]
  BY <1>1, <1>2 DEF GateOK
<1>4. g.in \in [1..Ins(g) -> Wires]
  <2>1. Circuit /\ next \in Nat /\ next <= Len(gates) + 1
    BY DEF Working, IInv, Circuit
  <2>2. Before(next) \subseteq Wires
    BY <2>1, BeforeIsWires
  <2> QED
    BY <1>1, <2>2 DEF GateOK
<1>5. g.c \in Field
  BY <1>1 DEF GateLines
<1> QED
  BY <1>1, <1>2, <1>3, <1>4, <1>5

LEMMA ScaledEdits ==
  ASSUME NEW c, NEW s, s = Find(Store, Line.in[1], TRUE), IsStore(s), NEW p, p = s.ptr
  PROVE  Edits(s, Scaled(c), p, Times(c, s.heap[p]))
<1> PICK l : l = Times(c, s.heap[p])
  OBVIOUS
<1> PICK t : t = [s EXCEPT !.heap[s.ptr] = Times(c, @)]
  OBVIOUS
<1>1. t = Scaled(c)
  BY DEF Scaled
<1>2. /\ DOMAIN t = DOMAIN s /\ t.heap = [s.heap EXCEPT ![p] = l] /\ t.ptr = p
      /\ t.uses = s.uses /\ t.toClean = s.toClean /\ t.lcOf = s.lcOf
  BY DEF IsStore
<1>3. Edits(s, t, p, l)
  BY <1>2 DEF Edits, IsStore
<1> QED
  BY <1>1, <1>3

LEMMA ScaledGate ==
  ASSUME IInv, NEW op \in {"const-mul", "const-mul-neg"}, At(op), NEW c \in Int, Linear(Scaled(c)),
         (c * values[Line.in[1]]) % P = values[Out]
  PROVE  \E t, p : EditedAt(t, p)
<1>1. Working /\ Line.op = op /\ op \in Editing
  BY AtIsWorking DEF Editing
<1> PICK g : g = Line
  OBVIOUS
<1> PICK r : r = g.in
  OBVIOUS
<1>2. r = Reads(gates[next]) /\ Len(r) = 1 /\ Len(r) >= 1
  BY <1>1, LinearValue DEF Ins
<1> PICK s : s = Find(Store, r[1], TRUE)
  OBVIOUS
<1> PICK p : p = s.ptr
  OBVIOUS
<1> PICK t : t = Scaled(c)
  OBVIOUS
<1> PICK l : l = s.heap[p]
  OBVIOUS
<1> PICK m : m = Times(c, l)
  OBVIOUS
<1>3. FoundUpTo(s, r, 1, p) /\ p \in 1..Len(s.heap) /\ Eval(l, Intended) = values[r[1]]
  BY <1>1, <1>2, FirstIsEdited
<1>4. Edits(s, t, p, m)
  <2>1. s = Find(Store, Line.in[1], TRUE)
    OBVIOUS
  <2>2. IsStore(s)
    BY <1>3 DEF FoundUpTo
  <2> QED
    BY <2>1, <2>2, ScaledEdits
<1>5. m \in LCs(Known) /\ Eval(m, Intended) = values[Out]
  <2>1. Circuit /\ IsVarMap(vs)
    BY DEF IInv
  <2>2. l \in LCs(Known)
    BY <1>3, ElementOfSeq DEF FoundUpTo
  <2>3. m \in LCs(Known) /\ Eval(m, Intended) = (c * Eval(l, Intended)) % P
    BY <2>1, <2>2, Scaling
  <2> QED
    BY <1>3, <2>3
<1>6. FoundUpTo(t, r, 1, p) /\ t.heap[p] = m /\ p \in 1..Len(t.heap)
  <2> PICK k : k = 1
    OBVIOUS
  <2>1. FoundUpTo(s, r, k, p) /\ p \in 1..Len(s.heap) /\ m \in LCs(Known) /\ Edits(s, t, p, m) /\ Working
    BY <1>1, <1>3, <1>4, <1>5
  <2>2. EditFound(t, r, k, p, m)
    BY <2>1, EditKeepsFound
  <2> QED
    BY <2>2 DEF EditFound
<1>7. FoundUpTo(t, Line.in, Len(Line.in), p)
  BY <1>2, <1>6
<1>8. p = t.ptr
  BY <1>4 DEF Edits
<1>9. Linear(t) /\ Eval(t.heap[p], Intended) = values[Out]
  BY <1>5, <1>6
<1>10. EditedAt(t, p)
  BY <1>6, <1>7, <1>8, <1>9 DEF EditedAt
<1> QED
  BY <1>10

LEMMA HandleMulConstEdits == IInv /\ HandleMulConst => \E t, p : EditedAt(t, p)
<1> SUFFICES ASSUME IInv, HandleMulConst PROVE \E t, p : EditedAt(t, p)
  OBVIOUS
<1> PICK op \in {"const-mul", "const-mul-neg"} : op = "const-mul"
  OBVIOUS
<1> PICK g : g = Line
  OBVIOUS
<1>1. At(op) /\ Linear(Scaled(g.c))
  BY DEF HandleMulConst
<1>2. Working /\ g.op = op /\ g.op \in Editing
  BY <1>1, AtIsWorking DEF Editing
<1>3. /\ values[Out] = Result(g, InputValues(g))[1] /\ g.in \in [1..1 -> Wires] /\ g.c \in Field
  BY <1>2, LinearValue DEF Ins
<1>4. InputValues(g)[1] = values[g.in[1]]
  BY <1>3 DEF InputValues
<1>5. Result(g, InputValues(g)) = <<(g.c * InputValues(g)[1]) % P>>
  BY <1>2 DEF Result
<1>6. g.c \in Int /\ (g.c * values[Line.in[1]]) % P = values[Out]
  BY <1>3, <1>4, <1>5 DEF Field
<1> QED
  BY <1>1, <1>6, ScaledGate

LEMMA HandleMulNegConstEdits == IInv /\ HandleMulNegConst => \E t, p : EditedAt(t, p)
<1> SUFFICES ASSUME IInv, HandleMulNegConst PROVE \E t, p : EditedAt(t, p)
  OBVIOUS
<1> PICK op \in {"const-mul", "const-mul-neg"} : op = "const-mul-neg"
  OBVIOUS
<1> PICK g : g = Line
  OBVIOUS
<1> PICK c : c = (P - g.c) % P
  OBVIOUS
<1>1. At(op) /\ Linear(Scaled(c))
  BY DEF HandleMulNegConst
<1>2. Working /\ g.op = op /\ g.op \in Editing
  BY <1>1, AtIsWorking DEF Editing
<1>3. /\ values[Out] = Result(g, InputValues(g))[1] /\ g.in \in [1..1 -> Wires] /\ g.c \in Field
  BY <1>2, LinearValue DEF Ins
<1>4. InputValues(g)[1] = values[g.in[1]]
  BY <1>3 DEF InputValues
<1>5. Result(g, InputValues(g)) = <<((P - g.c) * InputValues(g)[1]) % P>>
  BY <1>2 DEF Result
<1>6. values[Out] = ((P - g.c) * values[g.in[1]]) % P
  BY <1>3, <1>4, <1>5
<1>7. P - g.c \in Int /\ values[g.in[1]] \in Int
  <2>1. values \in [Wires -> Field]
    BY DEF IInv, Circuit
  <2> QED
    BY <1>3, <2>1 DEF Field
<1>8. (c * values[g.in[1]]) % P = ((P - g.c) * values[g.in[1]]) % P /\ c \in Int
  BY <1>7, ModTimes, CongRemainder
<1>9. (c * values[Line.in[1]]) % P = values[Out]
  BY <1>6, <1>8
<1> QED
  BY <1>1, <1>8, <1>9, ScaledGate

\* The store after input i, times c, was added to the combination at p.
Added(t, i, p, c) ==
  LET u == Find(t, Line.in[i], FALSE)
  IN [u EXCEPT !.heap[p] = Plus(@, Times(c, u.heap[u.ptr])), !.ptr = p]

\* The stores after[1], after[2], ... after each of the n inputs.
Stores(after, n, weights) ==
  \A k \in 1..n : after[k] = IF k = 1 THEN Find(Store, Line.in[1], TRUE)
                             ELSE Added(after[k - 1], k, Find(Store, Line.in[1], TRUE).ptr, weights[k])

LEMMA AccumulatedIsLast ==
  ASSUME NEW weights, NEW n \in Nat \ {0}, n = Len(Line.in)
  PROVE  \E after : Stores(after, n, weights) /\ Accumulated(weights) = after[n]
<1> PICK first : first = Find(Store, Line.in[1], TRUE)
  OBVIOUS
<1> PICK p : p = first.ptr
  OBVIOUS
<1> DEFINE Is(f, k) == f = [i \in 1..k |-> IF i = 1 THEN first ELSE Added(f[i - 1], i, p, weights[i])]
           A == {k \in 0..n : k = 0 \/ \E f : Is(f, k)}
           after == CHOOSE f : Is(f, n)
<1>0. n \in Nat
  OBVIOUS
<1>1. 0 \in A
  OBVIOUS
<1>2. ASSUME NEW k \in 1..n, k - 1 \in A PROVE k \in A
  <2>1. CASE k = 1
    <3>1. Is([i \in 1..1 |-> first], 1)
      OBVIOUS
    <3> HIDE DEF Is
    <3> QED
      BY <2>1, <3>1
  <2>2. CASE k # 1
    <3>1. PICK f : Is(f, k - 1)
      <4> HIDE DEF Is
      <4>1. k - 1 # 0 /\ k - 1 \in A
        BY <1>2, <2>2
      <4> QED
        BY <4>1
    <3> DEFINE g == [i \in 1..k |-> IF i = k THEN Added(f[k - 1], k, p, weights[k]) ELSE f[i]]
    <3>2. \A i \in 1..k : g[i] = IF i = 1 THEN first ELSE Added(g[i - 1], i, p, weights[i])
      <4>1. ASSUME NEW i \in 1..k - 1 PROVE g[i] = IF i = 1 THEN first ELSE Added(g[i - 1], i, p, weights[i])
        <5>1. f[i] = IF i = 1 THEN first ELSE Added(f[i - 1], i, p, weights[i])
          BY <3>1
        <5>2. i \in 1..k /\ i # k /\ (i # 1 => i - 1 \in 1..k /\ i - 1 # k)
          BY <1>0
        <5>3. g[i] = f[i] /\ (i # 1 => g[i - 1] = f[i - 1])
          BY <5>2
        <5> QED
          BY <5>1, <5>3
      <4>2. g[k] = Added(g[k - 1], k, p, weights[k]) /\ k # 1
        <5>0. k \in 1..k /\ k - 1 \in 1..k /\ k - 1 # k
          BY <1>0, <2>2
        <5>1. g[k] = Added(f[k - 1], k, p, weights[k])
          BY <5>0
        <5>2. g[k - 1] = f[k - 1]
          BY <5>0
        <5> QED
          BY <2>2, <5>1, <5>2
      <4>3. \A i \in 1..k : i \in 1..k - 1 \/ i = k
        OBVIOUS
      <4> HIDE DEF g
      <4> QED
        BY <4>1, <4>2, <4>3
    <3>3. Is(g, k)
      BY <3>2
    <3> HIDE DEF Is
    <3> QED
      BY <3>3
  <2> QED
    BY <2>1, <2>2
<1>3. Is(after, n)
  <2> HIDE DEF A, Is
  <2>1. 0..n \subseteq A
    BY <1>1, <1>2, CountingUp
  <2>2. \E f : Is(f, n)
    BY <2>1 DEF A
  <2> QED
    BY <2>2
<1>4. Accumulated(weights) = after[n]
  BY DEF Accumulated, Added
<1> HIDE DEF after
<1>5. \A i \in 1..n : after[i] = IF i = 1 THEN first ELSE Added(after[i - 1], i, p, weights[i])
  BY <1>3
<1>6. Stores(after, n, weights)
  BY <1>5 DEF Stores
<1> QED
  BY <1>4, <1>6

\* What adding input i does, u being the store find returned.
LEMMA AddedEdits ==
  ASSUME NEW t, NEW i, NEW p, NEW c, NEW u, u = Find(t, Line.in[i], FALSE), IsStore(u)
  PROVE  Edits(u, Added(t, i, p, c), p, Plus(u.heap[p], Times(c, u.heap[u.ptr])))
<1> PICK l : l = Plus(u.heap[p], Times(c, u.heap[u.ptr]))
  OBVIOUS
<1> PICK y : y = [u EXCEPT !.heap[p] = Plus(@, Times(c, u.heap[u.ptr])), !.ptr = p]
  OBVIOUS
<1>1. y = Added(t, i, p, c)
  BY DEF Added
<1>2. /\ DOMAIN y = DOMAIN u /\ y.heap = [u.heap EXCEPT ![p] = l] /\ y.ptr = p
      /\ y.uses = u.uses /\ y.toClean = u.toClean /\ y.lcOf = u.lcOf
  BY DEF IsStore
<1>3. Edits(u, y, p, l)
  BY <1>2 DEF Edits, IsStore
<1> QED
  BY <1>1, <1>3

\* The store t has k of the inputs r found, and their sum at the pointer p.
Accumulates(t, r, k, p, sum) ==
    /\ FoundUpTo(t, r, k, p) /\ t.ptr = p /\ p \in 1..Len(t.heap)
    /\ Eval(t.heap[p], Intended) = sum % P

LEMMA InWider ==
  ASSUME NEW a \in Nat, NEW b \in Nat, b >= a, NEW p \in 1..a
  PROVE  p \in 1..b
OBVIOUS

LEMMA FoundHeap ==
  ASSUME NEW s, NEW r, NEW k, NEW p, FoundUpTo(s, r, k, p)
  PROVE  IsStore(s) /\ s.heap \in Seq(LCs(Known)) /\ Len(s.heap) \in Nat
<1>1. IsStore(s) /\ s.heap \in Seq(LCs(Known))
  BY DEF FoundUpTo
<1> QED
  BY <1>1

LEMMA AddedAccumulates ==
  ASSUME Working, NEW r, r = Reads(gates[next]), \A i \in 1..Len(r) : Line.in[i] = r[i], NEW k \in 1..Len(r) - 1,
         NEW p, NEW t, NEW sum \in Int, Accumulates(t, r, k, p, sum),
         NEW c \in Int, NEW y, y = Added(t, k + 1, p, c)
  PROVE  Accumulates(y, r, k + 1, p, sum + c * values[r[k + 1]])
<1>1. Circuit /\ IsVarMap(vs) /\ r \in Seq(Wires) /\ Len(r) \in Nat
  <2>1. Circuit /\ IsVarMap(vs) /\ next \in 1..Len(gates)
    BY DEF Working, IInv
  <2> QED
    BY <2>1, ReadsShape
<1> PICK j : j = k + 1
  OBVIOUS
<1> PICK w : w = r[j]
  OBVIOUS
<1> PICK e \in BOOLEAN : e = FALSE
  OBVIOUS
<1> PICK u : u = Find(t, Line.in[j], FALSE)
  OBVIOUS
<1>2. w \in Wires /\ values[w] \in Int
  <2>1. w \in Wires
    BY <1>1, ElementOfSeq
  <2> QED
    BY <1>1, <2>1 DEF Circuit, Field
<1>3. FoundUpTo(u, r, j, p) /\ Returned(t, u, w, e)
  <2>1. k \in 0..Len(r) - 1 /\ FoundUpTo(t, r, k, p)
    BY <1>1 DEF Accumulates
  <2>2. u = Find(t, r[k + 1], e)
    <3>1. Line.in[j] = r[j]
      BY <1>1
    <3>2. u = Find(t, Line.in[j], e)
      OBVIOUS
    <3> QED
      BY <3>1, <3>2
  <2>3. FoundUpTo(u, r, k + 1, p) /\ Returned(t, u, r[k + 1], e)
    BY <1>1, <2>1, <2>2, FindFinds
  <2> QED
    BY <2>3
<1> PICK h : h = u.heap[p]
  OBVIOUS
<1> PICK m : m = u.heap[u.ptr]
  OBVIOUS
<1> PICK l : l = Plus(h, Times(c, m))
  OBVIOUS
<1>4. /\ p \in 1..Len(u.heap) /\ u.ptr \in 1..Len(u.heap)
      /\ Eval(h, Intended) = sum % P /\ Eval(m, Intended) = values[w]
  <2>1. p \in 1..Len(t.heap) /\ Eval(t.heap[p], Intended) = sum % P
    BY DEF Accumulates
  <2>2. /\ u.ptr \in 1..Len(u.heap) /\ Eval(m, Intended) = values[w]
        /\ Len(u.heap) >= Len(t.heap) /\ \A q \in 1..Len(t.heap) : u.heap[q] = t.heap[q]
    BY <1>3 DEF Returned
  <2>3. Len(t.heap) \in Nat /\ Len(u.heap) \in Nat
    BY <1>3, FoundHeap DEF Accumulates
  <2>4. p \in 1..Len(u.heap) /\ u.heap[p] = t.heap[p]
    <3>1. p \in 1..Len(u.heap)
      <4> PICK a \in Nat : a = Len(t.heap)
        BY <2>3
      <4> PICK b \in Nat : b = Len(u.heap)
        BY <2>3
      <4>1. b >= a /\ p \in 1..a
        BY <2>1, <2>2
      <4>2. p \in 1..b
        BY <4>1, InWider
      <4> QED
        BY <4>2
    <3>2. u.heap[p] = t.heap[p]
      BY <2>1, <2>2
    <3> QED
      BY <3>1, <3>2
  <2>5. Eval(h, Intended) = sum % P
    BY <2>1, <2>4
  <2> QED
    BY <2>2, <2>4, <2>5
<1>5. h \in LCs(Known) /\ m \in LCs(Known)
  BY <1>3, <1>4, ElementOfSeq DEF FoundUpTo
<1>6. Times(c, m) \in LCs(Known) /\ Eval(Times(c, m), Intended) = (c * values[w]) % P
  <2>1. Times(c, m) \in LCs(Known) /\ Eval(Times(c, m), Intended) = (c * Eval(m, Intended)) % P
    BY <1>1, <1>5, Scaling
  <2> QED
    BY <1>4, <2>1
<1>7. l \in LCs(Known) /\ Eval(l, Intended) = (sum + c * values[w]) % P
  <2> PICK z : z = Times(c, m)
    OBVIOUS
  <2>1. l \in LCs(Known) /\ Eval(l, Intended) = (Eval(h, Intended) + Eval(z, Intended)) % P
    BY <1>1, <1>5, <1>6, Adding
  <2>2. Eval(l, Intended) = ((sum % P) + ((c * values[w]) % P)) % P
    BY <1>4, <1>6, <2>1
  <2> PICK b \in Int : b = c * values[w]
    BY <1>2
  <2>3. ((sum % P) + (b % P)) % P = (sum + b) % P
    BY ModPlus
  <2> QED
    BY <2>1, <2>2, <2>3
<1>8. Edits(u, y, p, l)
  <2>1. IsStore(u)
    BY <1>3 DEF FoundUpTo
  <2>2. y = Added(t, j, p, c)
    OBVIOUS
  <2>3. Edits(u, Added(t, j, p, c), p, Plus(u.heap[p], Times(c, u.heap[u.ptr])))
    BY <2>1, AddedEdits
  <2>4. l = Plus(u.heap[p], Times(c, u.heap[u.ptr]))
    OBVIOUS
  <2> QED
    BY <2>2, <2>3, <2>4
<1>9. EditFound(y, r, j, p, l)
  BY <1>3, <1>4, <1>7, <1>8, EditKeepsFound
<1>10. y.ptr = p
  BY <1>8 DEF Edits
<1>11. Accumulates(y, r, j, p, sum + c * values[w])
  BY <1>7, <1>9, <1>10 DEF Accumulates, EditFound
<1> QED
  BY <1>11

\* The sum over 1..k, term by term.
LEMMA PartialSums ==
  ASSUME NEW n \in Nat, NEW f, \A i \in 1..n : f[i] \in Int
  PROVE  /\ \A k \in 0..n : SumFunctionOnSet(f, 1..k) \in Int
         /\ SumFunctionOnSet(f, 1..0) = 0
         /\ \A k \in 1..n : SumFunctionOnSet(f, 1..k) = SumFunctionOnSet(f, 1..k - 1) + f[k]
<1>1. ASSUME NEW k \in 0..n PROVE IsFiniteSet(1..k) /\ \A i \in 1..k : f[i] \in Int
  BY FS_Interval
<1>2. ASSUME NEW k \in 0..n PROVE SumFunctionOnSet(f, 1..k) \in Int
  BY <1>1, SumInt
<1>3. ASSUME NEW k \in 1..n PROVE SumFunctionOnSet(f, 1..k) = SumFunctionOnSet(f, 1..k - 1) + f[k]
  <2>1. k \in 0..n /\ k \in 1..k /\ k - 1 \in 0..n
    OBVIOUS
  <2>2. IsFiniteSet(1..k) /\ \A i \in 1..k : f[i] \in Int
    BY <1>1, <2>1
  <2>3. (1..k) \ {k} = 1..k - 1
    OBVIOUS
  <2>4. SumFunctionOnSet(f, 1..k) = f[k] + SumFunctionOnSet(f, (1..k) \ {k})
    BY <2>1, <2>2, SumRemove
  <2>5. SumFunctionOnSet(f, 1..k) = f[k] + SumFunctionOnSet(f, 1..k - 1)
    BY <2>3, <2>4
  <2>6. f[k] \in Int /\ SumFunctionOnSet(f, 1..k - 1) \in Int
    BY <1>2, <2>1, <2>2
  <2> QED
    BY <2>5, <2>6
<1>4. SumFunctionOnSet(f, 1..0) = 0
  <2>1. SumFunctionOnSet(f, {}) = 0
    BY SumSteps, FS_EmptySet
  <2>2. 1..0 = {}
    OBVIOUS
  <2> QED
    BY <2>1, <2>2
<1> QED
  BY <1>2, <1>3, <1>4

LEMMA AccumulatedGate ==
  ASSUME IInv, NEW op \in {"add", "pack"}, At(op), NEW weights,
         \A i \in 1..Arity : weights[i] \in Int, weights[1] = 1, Linear(Accumulated(weights)),
         NEW f, \A i \in 1..Arity : f[i] = weights[i] * values[Line.in[i]],
         SumFunctionOnSet(f, 1..Arity) % P = values[Out]
  PROVE  \E t, p : EditedAt(t, p)
<1>1. Working /\ Line.op = op /\ op \in Editing
  BY AtIsWorking DEF Editing
<1> PICK g : g = Line
  OBVIOUS
<1> PICK r : r = g.in
  OBVIOUS
<1> PICK n \in Nat \ {0} : n = Arity
  OBVIOUS
<1>2. r = Reads(gates[next]) /\ Len(r) = n /\ Len(r) >= 1 /\ \A i \in 1..n : r[i] \in Wires
  BY <1>1, LinearValue DEF Ins
<1>3. \A i \in 1..n : values[r[i]] \in Field /\ values[r[i]] \in Int
  BY <1>2 DEF IInv, Circuit, Field
<1>4. \A i \in 1..n : f[i] = weights[i] * values[r[i]] /\ f[i] \in Int
  BY <1>3
<1> DEFINE S(k) == SumFunctionOnSet(f, 1..k)
<1>5. /\ \A k \in 0..n : S(k) \in Int
      /\ S(1) = values[r[1]]
      /\ \A k \in 1..n - 1 : S(k + 1) = S(k) + weights[k + 1] * values[r[k + 1]]
  <2>1. /\ \A k \in 0..n : S(k) \in Int
        /\ S(0) = 0
        /\ \A k \in 1..n : S(k) = S(k - 1) + f[k]
    BY <1>4, PartialSums
  <2> HIDE DEF S
  <2>2. S(1) = values[r[1]]
    <3>1. S(1) = S(1 - 1) + f[1] /\ f[1] = 1 * values[r[1]]
      BY <1>4, <2>1
    <3>2. 1 - 1 = 0 /\ values[r[1]] \in Int
      BY <1>3
    <3> QED
      BY <2>1, <3>1, <3>2
  <2>3. ASSUME NEW k \in 1..n - 1 PROVE S(k + 1) = S(k) + weights[k + 1] * values[r[k + 1]]
    <3>1. k + 1 \in 1..n /\ (k + 1) - 1 = k
      OBVIOUS
    <3>2. S(k + 1) = S((k + 1) - 1) + f[k + 1]
      BY <2>1, <3>1
    <3> QED
      BY <1>4, <3>1, <3>2
  <2> QED
    BY <2>1, <2>2, <2>3
<1> HIDE DEF S
<1> PICK first : first = Find(Store, Line.in[1], TRUE)
  OBVIOUS
<1> PICK p : p = first.ptr
  OBVIOUS
<1>6. PICK after : Stores(after, n, weights) /\ Accumulated(weights) = after[n]
  <2>1. n = Len(Line.in)
    BY <1>2
  <2> QED
    BY <2>1, AccumulatedIsLast
<1>7. \A k \in 1..n : after[k] = IF k = 1 THEN first ELSE Added(after[k - 1], k, p, weights[k])
  BY <1>6 DEF Stores
<1> DEFINE A == {k \in 0..n : k = 0 \/ Accumulates(after[k], r, k, p, S(k))}
<1>8. 0 \in A
  OBVIOUS
<1>8a. 1 \in 1..n
  OBVIOUS
<1>8b. \A k \in 1..n : k \in A <=> Accumulates(after[k], r, k, p, S(k))
  <2> TAKE k \in 1..n
  <2>1. k \in 0..n /\ k # 0
    OBVIOUS
  <2> QED
    BY <2>1
<1> HIDE DEF A
<1>9. ASSUME NEW k \in 1..n, k - 1 \in A PROVE k \in A
  <2>1. CASE k = 1
    <3>1. first = Find(Store, r[1], TRUE)
      OBVIOUS
    <3>2. /\ FoundUpTo(first, r, 1, p) /\ p \in 1..Len(first.heap)
          /\ Eval(first.heap[p], Intended) = values[r[1]]
      BY <1>1, <1>2, <3>1, FirstIsEdited
    <3>3. values[r[1]] % P = values[r[1]]
      BY <1>3, FieldSmall
    <3>4. Accumulates(first, r, 1, p, S(1))
      BY <1>5, <3>2, <3>3 DEF Accumulates
    <3>5. after[1] = first
      BY <1>7, <1>8a
    <3>6. Accumulates(after[k], r, k, p, S(k))
      BY <2>1, <3>4, <3>5
    <3> QED
      BY <1>8b, <3>6
  <2>2. CASE k # 1
    <3> PICK j : j = k - 1
      OBVIOUS
    <3> PICK t : t = after[j]
      OBVIOUS
    <3> PICK y : y = after[k]
      OBVIOUS
    <3> PICK c : c = weights[k]
      OBVIOUS
    <3> PICK sum : sum = S(j)
      OBVIOUS
    <3>1. j \in 1..n - 1 /\ j + 1 = k /\ c \in Int
      BY <2>2
    <3>2. Accumulates(t, r, j, p, sum) /\ sum \in Int
      <4>1. j \in A /\ j \in 1..n /\ j \in 0..n
        BY <1>9, <3>1
      <4>2. Accumulates(after[j], r, j, p, S(j))
        BY <1>8b, <4>1
      <4> QED
        BY <1>5, <4>1, <4>2
    <3>3. y = Added(t, j + 1, p, c)
      BY <1>7, <2>2, <3>1
    <3>4. \A i \in 1..Len(r) : Line.in[i] = r[i]
      OBVIOUS
    <3>5. Accumulates(y, r, j + 1, p, sum + c * values[r[j + 1]])
      BY <1>1, <1>2, <3>1, <3>2, <3>3, <3>4, AddedAccumulates
    <3>6. S(j + 1) = sum + c * values[r[j + 1]]
      BY <1>5, <3>1
    <3>7. Accumulates(y, r, k, p, S(k))
      BY <3>1, <3>5, <3>6
    <3> QED
      BY <1>8b, <3>7
  <2> QED
    BY <2>1, <2>2
<1>10. Accumulates(after[n], r, n, p, S(n))
  <2> HIDE DEF A
  <2>1. 0..n \subseteq A
    BY <1>8, <1>9, CountingUp
  <2>2. n \in A
    BY <2>1
  <2> QED
    BY <2>2 DEF A
<1> PICK t : t = Accumulated(weights)
  OBVIOUS
<1>11. /\ FoundUpTo(t, r, n, p) /\ t.ptr = p /\ p \in 1..Len(t.heap)
       /\ Eval(t.heap[p], Intended) = S(n) % P
  BY <1>6, <1>10 DEF Accumulates
<1>12. /\ FoundUpTo(t, Line.in, Len(Line.in), p) /\ p = t.ptr
       /\ Eval(t.heap[p], Intended) = values[Out] /\ Linear(t)
  BY <1>2, <1>11 DEF S
<1>13. EditedAt(t, p)
  BY <1>11, <1>12 DEF EditedAt
<1> QED
  BY <1>13

LEMMA SumFunctionIs == \A f : SumFunction(f) = SumFunctionOnSet(f, DOMAIN f)
BY DEF SumFunction, SumFunctionOnSet, FoldFunction

LEMMA HandleAdditionEdits == IInv /\ HandleAddition => \E t, p : EditedAt(t, p)
<1> SUFFICES ASSUME IInv, HandleAddition PROVE \E t, p : EditedAt(t, p)
  OBVIOUS
<1> PICK op \in {"add", "pack"} : op = "add"
  OBVIOUS
<1> PICK g : g = Line
  OBVIOUS
<1> DEFINE weights == [i \in DOMAIN Line.in |-> 1]
           x == InputValues(g)
<1>1. At(op) /\ Linear(Accumulated(weights))
  BY DEF HandleAddition
<1>2. Working /\ g.op = op /\ g.op \in Editing
  BY <1>1, AtIsWorking DEF Editing
<1>3. values[Out] = Result(g, x)[1] /\ g.in \in [1..Arity -> Wires]
  BY <1>2, LinearValue DEF Ins
<1>4. /\ DOMAIN g.in = 1..Arity /\ DOMAIN x = 1..Arity
      /\ \A i \in 1..Arity : weights[i] = 1 /\ x[i] = values[g.in[i]] /\ values[g.in[i]] \in Int
  <2>1. values \in [Wires -> Field]
    BY DEF IInv, Circuit
  <2> QED
    BY <1>3, <2>1 DEF InputValues, Field
<1> DEFINE f == [i \in 1..Arity |-> weights[i] * values[Line.in[i]]]
<1>5. Result(g, x) = <<SumFunction(x) % P>>
  BY <1>2 DEF Result
<1>6. SumFunctionOnSet(f, 1..Arity) = SumFunctionOnSet(x, 1..Arity)
  <2>1. \A i \in 1..Arity : f[i] = x[i]
    BY <1>4
  <2>2. IsFiniteSet(1..Arity)
    BY FS_Interval
  <2> HIDE DEF f, x
  <2> QED
    BY <2>1, <2>2, SumSame
<1>7. SumFunctionOnSet(f, 1..Arity) % P = values[Out]
  <2>1. SumFunction(x) = SumFunctionOnSet(x, 1..Arity)
    BY <1>4, SumFunctionIs
  <2>2. values[Out] = SumFunction(x) % P
    BY <1>3, <1>5
  <2> HIDE DEF f, x
  <2> QED
    BY <1>6, <2>1, <2>2
<1>8. \A i \in 1..Arity : weights[i] \in Int
  BY <1>4
<1>9. weights[1] = 1
  BY <1>4
<1>10. \A i \in 1..Arity : f[i] = weights[i] * values[Line.in[i]]
  OBVIOUS
<1> HIDE DEF f, weights
<1> QED
  BY <1>1, <1>7, <1>8, <1>9, <1>10, AccumulatedGate

LEMMA HandlePackEdits == IInv /\ HandlePackOperation => \E t, p : EditedAt(t, p)
<1> SUFFICES ASSUME IInv, HandlePackOperation PROVE \E t, p : EditedAt(t, p)
  OBVIOUS
<1> PICK op \in {"add", "pack"} : op = "pack"
  OBVIOUS
<1> PICK g : g = Line
  OBVIOUS
<1> DEFINE weights == [i \in DOMAIN Line.in |-> two_i[i - 1]]
           x == InputValues(g)
           y == [i \in DOMAIN x |-> two_i[i - 1] * x[i]]
<1>1. At(op) /\ Linear(Accumulated(weights))
  BY DEF HandlePackOperation
<1>2. Working /\ g.op = op /\ g.op \in Editing
  BY <1>1, AtIsWorking DEF Editing
<1>3. values[Out] = Result(g, x)[1] /\ g.in \in [1..Arity -> Wires]
  BY <1>2, LinearValue DEF Ins
<1>4. /\ DOMAIN g.in = 1..Arity /\ DOMAIN x = 1..Arity
      /\ \A i \in 1..Arity : weights[i] = two_i[i - 1] /\ x[i] = values[g.in[i]]
  BY <1>3 DEF InputValues
<1> DEFINE f == [i \in 1..Arity |-> weights[i] * values[Line.in[i]]]
<1>5. Result(g, x) = <<SumFunction(y) % P>>
  BY <1>2 DEF Result, Weighted
<1>6. DOMAIN y = 1..Arity /\ \A i \in 1..Arity : f[i] = y[i]
  BY <1>4
<1>7. SumFunctionOnSet(f, 1..Arity) % P = values[Out]
  <2> HIDE DEF f, y
  <2>1. SumFunction(y) = SumFunctionOnSet(y, 1..Arity)
    BY <1>6, SumFunctionIs
  <2>2. values[Out] = SumFunction(y) % P
    BY <1>3, <1>5
  <2>3. SumFunctionOnSet(f, 1..Arity) = SumFunctionOnSet(y, 1..Arity)
    <3>1. IsFiniteSet(1..Arity)
      BY FS_Interval
    <3> QED
      BY <1>6, <3>1, SumSame
  <2> QED
    BY <2>1, <2>2, <2>3
<1>8. (\A i \in 1..Arity : weights[i] \in Int) /\ weights[1] = 1
  <2>1. \A i \in 1..Arity : i - 1 \in 0..Arity /\ two_i[i - 1] \in Int
    BY Powers
  <2>2. two_i[0] = 1 /\ 1 \in 1..Arity /\ 1 - 1 = 0
    BY Powers
  <2> HIDE DEF weights
  <2> QED
    BY <1>4, <2>1, <2>2
<1>9. \A i \in 1..Arity : f[i] = weights[i] * values[Line.in[i]]
  OBVIOUS
<1> HIDE DEF f, weights
<1> QED
  BY <1>1, <1>7, <1>8, <1>9, AccumulatedGate

LinearHandler == HandleAddition \/ HandlePackOperation \/ HandleMulConst \/ HandleMulNegConst

LEMMA LinearHandlerAt ==
  ASSUME IInv, LinearHandler
  PROVE  (\E op \in Editing : At(op)) /\ \E s, p : EditedAt(s, p)
<1>1. \E op \in Editing : At(op)
  BY DEF LinearHandler, Editing, HandleAddition, HandlePackOperation, HandleMulConst, HandleMulNegConst
<1> QED
  BY <1>1, HandleAdditionEdits, HandlePackEdits, HandleMulConstEdits, HandleMulNegConstEdits DEF LinearHandler

LEMMA LinearHandlerKeeps == IInv /\ LinearHandler => IInv'
<1> SUFFICES ASSUME IInv, LinearHandler PROVE IInv'
  OBVIOUS
<1>1. PICK op \in Editing : At(op)
  BY LinearHandlerAt
<1>2. PICK s, p : EditedAt(s, p)
  BY LinearHandlerAt
<1> QED
  BY <1>1, <1>2, LinearKeeps

-----------------------------------------------------------------------------
(* The first pass *)

NoTables == heap = <<>> /\ lcOf = <<>> /\ zeroPs = <<>> /\ zeroOf = <<>>

LEMMA NoPointers == NoTables => Pointers /\ LiveLCsEvaluate /\ Zerops
<1> SUFFICES ASSUME heap = <<>>, lcOf = <<>>, zeroPs = <<>>, zeroOf = <<>>
             PROVE  Pointers /\ LiveLCsEvaluate /\ Zerops
  BY DEF NoTables
<1>1. DOMAIN lcOf = {} /\ DOMAIN zeroOf = {} /\ Len(heap) = 0 /\ Len(zeroPs) = 0
  OBVIOUS
<1>2. Cardinality({}) = 0
  BY FS_EmptySet
<1>3. heap \in Seq(LCs(Known)) /\ zeroPs \in Seq(1..Len(heap))
  <2>1. \A S : <<>> \in Seq(S)
    OBVIOUS
  <2> QED
    BY <2>1
<1>4. lcOf \in [DOMAIN lcOf -> 1..Len(heap)]
  BY <1>1
<1>5. zeroOf \in [DOMAIN zeroOf -> 0..vs.n - 1]
  BY <1>1
<1>6. Pointers
  BY <1>1, <1>3, <1>4 DEF Pointers
<1>7. LiveLCsEvaluate
  BY <1>1 DEF LiveLCsEvaluate
<1>8. Zerops
  BY <1>1, <1>2, <1>3, <1>5 DEF Zerops
<1> QED
  BY <1>6, <1>7, <1>8

NoVars == vs = [of |-> <<>>, n |-> 0]

LEMMA NoVariables == NoVars => IsVarMap(vs)
<1> SUFFICES ASSUME vs = [of |-> <<>>, n |-> 0]
             PROVE  IsVarMap(vs)
  BY DEF NoVars
<1>1. vs.of = <<>> /\ vs.n = 0 /\ DOMAIN vs.of = {}
  OBVIOUS
<1>2. vs.of \in [DOMAIN vs.of -> 0..vs.n - 1]
  BY <1>1
<1> QED
  BY <1>1, <1>2 DEF IsVarMap

LEMMA InitIInv == Init => IInv
<1> SUFFICES ASSUME Init PROVE IInv
  OBVIOUS
<1>1. /\ phase = "parse" /\ gates = <<>> /\ outputs = <<>> /\ uses = [w \in Inputs |-> 0]
      /\ lcOf = <<>> /\ heap = <<>> /\ next = 1 /\ vs = [of |-> <<>>, n |-> 0]
      /\ cons = <<>> /\ zeroPs = <<>> /\ zeroOf = <<>> /\ val = <<>> /\ unmapped = {} /\ zeropIdx = 1
      /\ Wires = Inputs
  BY DEF Init, Wires
<1>2. Circuit
  BY CircuitInit
<1>3. Len(gates) = 0 /\ Len(cons) = 0 /\ Len(zeroPs) = 0 /\ DOMAIN val = {} /\ Range(outputs) = {}
  BY <1>1 DEF Range
<1>4. Seqs
  <2>1. cons \in Seq(Range(cons))
    BY <1>1
  <2> QED
    BY <1>1, <1>3, <2>1 DEF Seqs
<1>5. Unbuilt
  BY <1>1 DEF Unbuilt
<1>6. UsesLeft
  <2>1. ASSUME NEW w PROVE LeftFrom(1, w) = 0
    <3> DEFINE f == [j \in 1..Len(gates) |-> Count(Reads(gates[j]), w)]
    <3>1. SumFunctionOnSet(f, {}) = 0
      BY SumSteps, FS_EmptySet
    <3>2. 1..Len(gates) = {} /\ w \notin Range(outputs)
      BY <1>3
    <3>3. SumFunctionOnSet(f, 1..Len(gates)) = 0
      BY <3>1, <3>2
    <3> HIDE DEF f
    <3>4. LeftFrom(1, w) = SumFunctionOnSet(f, 1..Len(gates)) + (IF w \in Range(outputs) THEN 1 ELSE 0)
      BY DEF LeftFrom, f
    <3> QED
      BY <3>2, <3>3, <3>4
  <2> QED
    BY <1>1, <2>1 DEF UsesLeft
<1>7. IsVarMap(vs) /\ Pointers /\ LiveLCsEvaluate /\ Zerops
  BY <1>1, NoPointers, NoVariables DEF NoTables, NoVars
<1>8. NoInputLost
  BY <1>1 DEF NoInputLost
<1>9. Mapping
  BY <1>1, <1>3 DEF Mapping
<1> QED
  BY <1>2, <1>4, <1>5, <1>6, <1>7, <1>8, <1>9 DEF IInv

\* A line parsed leaves the later passes' tables empty.
LEMMA ParseKeeps ==
  ASSUME IInv, phase = "parse", Circuit', UsesLeft', Len(gates') \in Nat,
         UNCHANGED <<phase, lcOf, heap, next, vs, cons, zeroPs, zeroOf, mapping>>
  PROVE  IInv'
<1>1. Seqs /\ Unbuilt /\ Mapping
  BY DEF IInv
<1>2. Unbuilt'
  BY <1>1 DEF Unbuilt, mapping
<1>3. /\ heap' = <<>> /\ lcOf' = <<>> /\ zeroPs' = <<>> /\ zeroOf' = <<>> /\ vs' = [of |-> <<>>, n |-> 0]
      /\ next' = 1 /\ next = 1 /\ phase' = "parse"
  BY <1>1 DEF Unbuilt
<1>4. Pointers' /\ LiveLCsEvaluate' /\ Zerops'
  <2>1. NoTables'
    BY <1>3 DEF NoTables
  <2> QED
    BY <2>1, NoPointers, PTL
<1>5. IsVarMap(vs)'
  <2>1. NoVars'
    BY <1>3 DEF NoVars
  <2> QED
    BY <2>1, NoVariables, PTL
<1>6. Seqs'
  <2>1. cons' \in Seq(Range(cons')) /\ Len(cons') = next' - 1
    BY <1>1 DEF Seqs
  <2>2. next' \in 1..Len(gates') + 1
    BY <1>3
  <2> QED
    BY <1>3, <2>1, <2>2 DEF Seqs
<1>7. NoInputLost'
  BY <1>3 DEF NoInputLost
<1>8. Mapping'
  BY <1>1, <1>3 DEF Mapping, mapping
<1> QED
  BY <1>2, <1>4, <1>5, <1>6, <1>7, <1>8 DEF IInv

LEMMA ParseGateKeeps == IInv /\ ParseGate => IInv'
<1> SUFFICES ASSUME IInv, ParseGate PROVE IInv'
  OBVIOUS
<1>1. Circuit' /\ UsesLeft'
  BY ParseGateCircuit, ParseGateUses DEF IInv
<1>2. Len(gates') \in Nat
  BY <1>1 DEF Circuit
<1>3. phase = "parse" /\ UNCHANGED <<phase, lcOf, heap, next, vs, cons, zeroPs, zeroOf, mapping>>
  BY DEF ParseGate
<1> QED
  BY <1>1, <1>2, <1>3, ParseKeeps

LEMMA ParseOutputKeeps == IInv /\ ParseOutput => IInv'
<1> SUFFICES ASSUME IInv, ParseOutput PROVE IInv'
  OBVIOUS
<1>1. Circuit' /\ UsesLeft'
  BY ParseOutputCircuit, ParseOutputUses DEF IInv
<1>2. Len(gates') \in Nat
  BY <1>1 DEF Circuit
<1>3. phase = "parse" /\ UNCHANGED <<phase, lcOf, heap, next, vs, cons, zeroPs, zeroOf, mapping>>
  BY DEF ParseOutput
<1> QED
  BY <1>1, <1>2, <1>3, ParseKeeps

\* Whatever the lists are, StartConstruct gives each wire a variable of its own.
Positions(ids) == [w \in Range(ids) |-> (CHOOSE i \in DOMAIN ids : ids[i] = w) - 1]

OneEach(f, ids, S) ==
    /\ Range(ids) \subseteq S /\ DOMAIN f = Range(ids) /\ f \in [DOMAIN f -> 0..Len(ids) - 1]
    /\ \A w, u \in DOMAIN f : f[w] = f[u] => w = u

LEMMA PositionsAreVariables ==
  ASSUME NEW S, NEW ids \in Seq(S)
  PROVE  OneEach(Positions(ids), ids, S)
<1> PICK f : f = [w \in Range(ids) |-> (CHOOSE i \in DOMAIN ids : ids[i] = w) - 1]
  OBVIOUS
<1> DEFINE at(w) == CHOOSE i \in DOMAIN ids : ids[i] = w
<1>1. ASSUME NEW w \in Range(ids) PROVE at(w) \in 1..Len(ids) /\ ids[at(w)] = w /\ w \in S
  <2>1. PICK i \in DOMAIN ids : ids[i] = w
    BY DEF Range
  <2>2. at(w) \in DOMAIN ids /\ ids[at(w)] = w
    BY <2>1
  <2>3. DOMAIN ids = 1..Len(ids)
    OBVIOUS
  <2> HIDE DEF at
  <2> QED
    BY <2>2, <2>3, ElementOfSeq
<1>2. \A w \in Range(ids) : f[w] = at(w) - 1
  OBVIOUS
<1>3. f = [w \in Range(ids) |-> f[w]]
  OBVIOUS
<1> HIDE DEF at
<1>4. \A w \in Range(ids) : f[w] \in 0..Len(ids) - 1
  <2> TAKE w \in Range(ids)
  <2>1. at(w) \in 1..Len(ids) /\ f[w] = at(w) - 1 /\ Len(ids) \in Nat
    BY <1>1, <1>2
  <2> QED
    BY <2>1
<1>5. ASSUME NEW w \in Range(ids), NEW u \in Range(ids), f[w] = f[u] PROVE w = u
  <2>1. at(w) - 1 = at(u) - 1 /\ at(w) \in Int /\ at(u) \in Int
    BY <1>1, <1>2, <1>5
  <2>2. at(w) = at(u)
    BY <2>1
  <2> QED
    BY <1>1, <2>2
<1>6. DOMAIN f = Range(ids) /\ f \in [DOMAIN f -> 0..Len(ids) - 1]
  BY <1>3, <1>4
<1>7. OneEach(f, ids, S)
  BY <1>1, <1>5, <1>6 DEF OneEach
<1> QED
  BY <1>7 DEF Positions

LEMMA IdSeqShape ==
  ASSUME NEW from \in Nat, NEW to \in Int, to >= from - 1
  PROVE  /\ IdSeq(from, to) \in Seq(from..to)
         /\ \A w \in from..to : w \in Range(IdSeq(from, to))
<1> DEFINE k == to - from + 1
           s == IdSeq(from, to)
<1>1. k \in Nat /\ s = [i \in 1..k |-> from + i - 1]
  BY DEF IdSeq
<1>2. \A i \in 1..k : from + i - 1 \in from..to
  BY <1>1
<1>3. s \in [1..k -> from..to] /\ DOMAIN s = 1..k /\ \A i \in 1..k : s[i] = from + i - 1
  BY <1>1, <1>2
<1>4. \A w \in from..to : w - from + 1 \in 1..k /\ from + (w - from + 1) - 1 = w
  BY <1>1
<1>5. ASSUME NEW w \in from..to PROVE w \in Range(s)
  <2>1. w - from + 1 \in DOMAIN s /\ s[w - from + 1] = w
    BY <1>3, <1>4
  <2> HIDE DEF s
  <2> QED
    BY <2>1 DEF Range
<1>6. s \in Seq(from..to)
  <2> HIDE DEF s, k
  <2> QED
    BY <1>1, <1>3, FunctionIsSeq
<1> QED
  BY <1>5, <1>6

\* The wires declared before the first gate is handled are the inputs and the outputs.
LEMMA DeclaredShape ==
  ASSUME Circuit
  PROVE  Declared(outputs) \in Seq(Wires) /\ Inputs \subseteq Range(Declared(outputs))
<1> DEFINE m == NumInputs - 1
           n == NumInputs + NumNizk - 1
           a == IdSeq(0, m)
           b == IdSeq(NumInputs, n)
           ab == a \o outputs
<1>1. /\ NumInputs \in Nat \ {0} /\ NumNizk \in Nat /\ Inputs = 0..n /\ Inputs \subseteq Wires
      /\ outputs \in Seq(Wires)
  BY DEF Circuit, Inputs
<1>2. /\ a \in Seq(0..m) /\ \A w \in 0..m : w \in Range(a)
      /\ b \in Seq(NumInputs..n) /\ \A w \in NumInputs..n : w \in Range(b)
  <2>1. /\ 0 \in Nat /\ m \in Int /\ m >= 0 - 1 /\ NumInputs \in Nat /\ n \in Int /\ n >= NumInputs - 1
    BY <1>1
  <2> HIDE DEF m, n
  <2>2. a \in Seq(0..m) /\ \A w \in 0..m : w \in Range(a)
    BY <2>1, IdSeqShape
  <2>3. b \in Seq(NumInputs..n) /\ \A w \in NumInputs..n : w \in Range(b)
    BY <2>1, IdSeqShape
  <2> QED
    BY <2>2, <2>3
<1>3. 0..m \subseteq Wires /\ NumInputs..n \subseteq Wires
  BY <1>1
<1> HIDE DEF m, n, a, b
<1>4. a \in Seq(Wires) /\ b \in Seq(Wires)
  BY <1>2, <1>3, SeqMonotonic
<1>5. ab \in Seq(Wires) /\ ab \o b \in Seq(Wires)
  BY <1>1, <1>4, ConcatProperties
<1>6. Range(ab \o b) = Range(ab) \cup Range(b) /\ Range(ab) = Range(a) \cup Range(outputs)
  <2> PICK x \in Seq(Wires) : x = ab
    BY <1>5
  <2>1. Range(x \o b) = Range(x) \cup Range(b)
    BY <1>4, RangeConcatenation
  <2>2. Range(a \o outputs) = Range(a) \cup Range(outputs)
    BY <1>1, <1>4, RangeConcatenation
  <2> HIDE DEF ab
  <2> QED
    BY <2>1, <2>2 DEF ab
<1>6a. ASSUME NEW w \in Inputs PROVE w \in Range(ab \o b)
  <2>1. w \in 0..m \/ w \in NumInputs..n
    BY <1>1 DEF m, n
  <2>2. w \in Range(a) \/ w \in Range(b)
    BY <1>2, <2>1
  <2> HIDE DEF ab
  <2> QED
    BY <1>6, <2>2
<1>7. Declared(outputs) = ab \o b
  BY DEF Declared, a, b, m, n
<1> QED
  BY <1>5, <1>6a, <1>7

LEMMA StartConstructKeeps == IInv /\ StartConstruct => IInv'
<1> SUFFICES ASSUME IInv, StartConstruct PROVE IInv'
  OBVIOUS
<1> PICK ids : ids = Declared(outputs)
  OBVIOUS
<1> PICK f : f = Positions(ids)
  OBVIOUS
<1>1. /\ phase = "parse" /\ phase' = "construct" /\ vs' = [of |-> f, n |-> Len(ids)]
      /\ gates' = gates /\ outputs' = outputs /\ values' = values /\ uses' = uses /\ lcOf' = lcOf
      /\ heap' = heap /\ next' = next /\ cons' = cons /\ zeroPs' = zeroPs /\ zeroOf' = zeroOf
      /\ val' = val /\ unmapped' = unmapped /\ zeropIdx' = zeropIdx
  BY DEF StartConstruct, parsed, mapping, Positions
<1>2. Circuit /\ Seqs /\ Unbuilt /\ UsesLeft /\ Mapping
  BY DEF IInv
<1>3. /\ next = 1 /\ heap = <<>> /\ lcOf = <<>> /\ zeroPs = <<>> /\ zeroOf = <<>>
      /\ vs = [of |-> <<>>, n |-> 0] /\ zeropIdx = 1
  BY <1>1, <1>2 DEF Unbuilt
<1>4. Circuit' /\ Wires' = Wires
  BY <1>1, <1>2, CircuitKept DEF Wires
<1>5. Seqs'
  BY <1>1, <1>2 DEF Seqs
<1>6. Unbuilt'
  BY <1>1, <1>3 DEF Unbuilt
<1>7. UsesLeft'
  BY <1>1, <1>2, UsesKept
<1>8. ids \in Seq(Wires) /\ Inputs \subseteq Range(ids) /\ Len(ids) \in Nat
  BY <1>2, DeclaredShape
<1>9. /\ Range(ids) \subseteq Wires /\ DOMAIN f = Range(ids) /\ f \in [DOMAIN f -> 0..Len(ids) - 1]
      /\ \A w, u \in DOMAIN f : f[w] = f[u] => w = u
  <2>1. OneEach(f, ids, Wires)
    BY <1>8, PositionsAreVariables
  <2> QED
    BY <2>1 DEF OneEach
<1>10. vs'.of = f /\ vs'.n = Len(ids) /\ DOMAIN f = Range(ids)
  BY <1>1, <1>9
<1>11. IsVarMap(vs)'
  BY <1>1, <1>4, <1>8, <1>9, <1>10 DEF IsVarMap
<1>12. Pointers' /\ LiveLCsEvaluate' /\ Zerops'
  <2>1. NoTables'
    BY <1>1, <1>3 DEF NoTables
  <2> QED
    BY <2>1, NoPointers, PTL
<1>13. NoInputLost'
  <2> SUFFICES ASSUME NEW i \in 1..Len(gates), NEW w \in Range(Reads(gates[i]))
               PROVE  w \in DOMAIN lcOf' \cup DOMAIN vs'.of \cup UNION {Defined(gates[j]) : j \in 1..Len(gates)}
    BY <1>1, <1>3 DEF NoInputLost
  <2>1. w \in Before(i)
    BY <1>2, ReadsShape
  <2>2. w \in Inputs \/ \E j \in 1..i - 1 : w \in Defined(gates[j])
    BY <2>1 DEF Before
  <2>3. 1..i - 1 \subseteq 1..Len(gates)
    BY <1>2 DEF Circuit
  <2>4. w \in Inputs => w \in DOMAIN vs'.of
    BY <1>8, <1>10
  <2> QED
    BY <2>2, <2>3, <2>4
<1>14. Mapping'
  <2>1. vs.of = <<>> /\ vs.n = 0
    BY <1>3
  <2>2. /\ DOMAIN val \subseteq 0..0 - 1 /\ val \in [DOMAIN val -> Field] /\ unmapped \subseteq DOMAIN <<>>
        /\ zeropIdx \in 1..Len(zeroPs) + 1
    BY <1>2, <2>1 DEF Mapping
  <2>3. DOMAIN val = {} /\ unmapped = {}
    <3>1. 0..0 - 1 = {} /\ DOMAIN <<>> = {}
      OBVIOUS
    <3> QED
      BY <2>2, <3>1
  <2> QED
    BY <1>1, <2>2, <2>3 DEF Mapping
<1> QED
  BY <1>4, <1>5, <1>6, <1>7, <1>11, <1>12, <1>13, <1>14 DEF IInv

-----------------------------------------------------------------------------
(* The steps that build nothing *)

Tables == <<gates, outputs, values, uses, lcOf, heap, next, vs, cons, zeroPs, zeroOf>>
Built == Circuit /\ UsesLeft /\ IsVarMap(vs) /\ Pointers /\ LiveLCsEvaluate /\ Zerops

LEMMA TablesKept == IInv /\ UNCHANGED Tables => Built'
<1> SUFFICES ASSUME IInv, UNCHANGED Tables PROVE Built'
  OBVIOUS
<1>1. /\ gates' = gates /\ outputs' = outputs /\ values' = values /\ uses' = uses /\ lcOf' = lcOf
      /\ heap' = heap /\ next' = next /\ vs' = vs /\ cons' = cons /\ zeroPs' = zeroPs /\ zeroOf' = zeroOf
  BY DEF Tables
<1>2. Circuit /\ UsesLeft /\ IsVarMap(vs) /\ Pointers /\ LiveLCsEvaluate /\ Zerops
  BY DEF IInv
<1>3. Circuit' /\ UsesLeft' /\ Wires' = Wires
  BY <1>1, <1>2, CircuitKept, UsesKept DEF Wires
<1>4. IsVarMap(vs)'
  BY <1>1, <1>2, <1>3 DEF IsVarMap
<1>5. Pointers'
  BY <1>1, <1>2, <1>3 DEF Pointers, Known, Before, Inputs
<1>6. LiveLCsEvaluate'
  BY <1>1, <1>2 DEF LiveLCsEvaluate, Intended
<1>7. Zerops'
  BY <1>1, <1>2 DEF Zerops, Before, Inputs
<1> QED
  BY <1>3, <1>4, <1>5, <1>6, <1>7 DEF Built

LEMMA OnlyPhase ==
  ASSUME IInv, UNCHANGED Tables,
         phase' \in {"construct", "map", "done", "exit", "fatal"},
         phase' = "construct" => phase = "construct" /\ zeropIdx' = zeropIdx, Mapping'
  PROVE  IInv'
<1>1. Built'
  BY TablesKept
<1>2. /\ gates' = gates /\ next' = next /\ cons' = cons /\ lcOf' = lcOf /\ vs' = vs
  BY DEF Tables
<1>3. Seqs'
  BY <1>2 DEF IInv, Seqs
<1>4. Unbuilt'
  BY DEF IInv, Unbuilt
<1>5. NoInputLost'
  BY <1>2 DEF IInv, NoInputLost
<1> QED
  BY <1>1, <1>3, <1>4, <1>5 DEF IInv, Built

LEMMA RefusedKeeps == IInv /\ Refused => IInv'
<1> SUFFICES ASSUME IInv, Refused PROVE IInv'
  OBVIOUS
<1>1. UNCHANGED Tables /\ UNCHANGED mapping /\ phase' = "exit"
  BY DEF Refused, Tables, parsed
<1>2. Mapping'
  BY <1>1 DEF IInv, Mapping, mapping, Tables
<1> QED
  BY <1>1, <1>2, OnlyPhase

LEMMA EndMapKeeps == IInv /\ EndMap => IInv'
<1> SUFFICES ASSUME IInv, EndMap PROVE IInv'
  OBVIOUS
<1>1. UNCHANGED Tables /\ UNCHANGED mapping /\ phase' = "done"
  BY DEF EndMap, Tables, parsed
<1>2. Mapping'
  BY <1>1 DEF IInv, Mapping, mapping, Tables
<1> QED
  BY <1>1, <1>2, OnlyPhase

LEMMA StartMapKeeps == IInv /\ StartMap => IInv'
<1> SUFFICES ASSUME IInv, StartMap PROVE IInv'
  OBVIOUS
<1>1. /\ UNCHANGED Tables /\ phase' = "map" /\ phase = "construct"
      /\ val' = val /\ zeropIdx' = zeropIdx /\ unmapped' = DOMAIN vs.of
  BY DEF StartMap, Tables, parsed
<1>2. vs' = vs /\ zeroPs' = zeroPs /\ zeroOf' = zeroOf
  BY <1>1 DEF Tables
<1>3. zeropIdx = 1 /\ Mapping /\ Zerops
  BY <1>1 DEF IInv, Unbuilt
<1>4. (DOMAIN vs.of) \cap DOMAIN zeroOf = DOMAIN zeroOf
  BY <1>3 DEF Zerops
<1>5. Mapping'
  <2>1. Cardinality(unmapped' \cap DOMAIN zeroOf') = Len(zeroPs) /\ Len(zeroPs) \in Nat
    BY <1>1, <1>2, <1>3, <1>4 DEF Zerops
  <2>2. zeropIdx' + Cardinality(unmapped' \cap DOMAIN zeroOf') = Len(zeroPs') + 1
    BY <1>1, <1>2, <1>3, <2>1
  <2>3. /\ DOMAIN val' \subseteq 0..vs'.n - 1 /\ val' \in [DOMAIN val' -> Field]
        /\ unmapped' \subseteq DOMAIN vs'.of /\ zeropIdx' \in 1..Len(zeroPs') + 1
    BY <1>1, <1>2, <1>3 DEF Mapping
  <2> QED
    BY <2>2, <2>3 DEF Mapping
<1> QED
  BY <1>1, <1>5, OnlyPhase

LEMMA StutterKeeps == IInv /\ UNCHANGED vars => IInv'
<1> SUFFICES ASSUME IInv, UNCHANGED vars PROVE IInv'
  OBVIOUS
<1>1. /\ UNCHANGED Tables /\ phase' = phase /\ val' = val /\ unmapped' = unmapped /\ zeropIdx' = zeropIdx
  BY DEF vars, Tables
<1>2. /\ gates' = gates /\ next' = next /\ cons' = cons /\ lcOf' = lcOf /\ vs' = vs /\ heap' = heap
      /\ zeroPs' = zeroPs /\ zeroOf' = zeroOf
  BY <1>1 DEF Tables
<1>3. Built'
  BY <1>1, TablesKept
<1>4. Seqs'
  BY <1>1, <1>2 DEF IInv, Seqs
<1>5. Unbuilt'
  BY <1>1, <1>2 DEF IInv, Unbuilt
<1>6. NoInputLost'
  BY <1>1, <1>2 DEF IInv, NoInputLost
<1>7. Mapping'
  BY <1>1, <1>2 DEF IInv, Mapping
<1> QED
  BY <1>3, <1>4, <1>5, <1>6, <1>7 DEF IInv, Built

-----------------------------------------------------------------------------
(* The third pass *)

LEMMA MinIsLeast ==
  ASSUME NEW S, IsFiniteSet(S), S \subseteq Int, S # {}
  PROVE  Min(S) \in S /\ \A y \in S : Min(S) <= y
<1> DEFINE Least(T) == \E x \in T : \A y \in T : x <= y
           Bad == {T \in SUBSET S : T # {} /\ ~Least(T)}
<1>1. ASSUME NEW T \in Bad PROVE T # {} /\ \E x \in T : T \ {x} \in Bad
  <2>1. T # {} /\ ~Least(T) /\ T \in SUBSET S /\ T \subseteq Int
    BY <1>1
  <2>2. PICK x \in T : TRUE
    BY <2>1
  <2>3. PICK y \in T : ~(x <= y)
    BY <2>1, <2>2
  <2>4. y \in T \ {x}
    BY <2>1, <2>2, <2>3
  <2>5. ASSUME Least(T \ {x}) PROVE FALSE
    <3>1. PICK z \in T \ {x} : \A u \in T \ {x} : z <= u
      BY <2>5
    <3>2. z <= x
      BY <2>1, <2>2, <2>3, <2>4, <3>1
    <3>3. \A u \in T : z <= u
      BY <3>1, <3>2
    <3> QED
      BY <2>1, <3>1, <3>3
  <2> QED
    BY <2>1, <2>2, <2>4, <2>5
<1>2. Bad = {}
  <2> HIDE DEF Bad
  <2>1. Bad \in SUBSET (SUBSET S)
    BY DEF Bad
  <2> QED
    BY <1>1, <2>1, SubsetInduction
<1>3. Least(S)
  BY <1>2
<1> QED
  BY <1>3 DEF Min

LEMMA InverseInField ==
  ASSUME NEW x \in Field
  PROVE  Inverse0(x) \in Field
<1>1. CASE x = 0
  BY <1>1 DEF Inverse0, Field
<1>2. CASE x # 0
  <2>1. x \in 1..P - 1
    BY <1>2 DEF Field
  <2>2. \E y \in Field : (x * y) % P = 1
    BY <2>1, InverseAssumption DEF Field
  <2> QED
    BY <1>2, <2>2 DEF Inverse0
<1> QED
  BY <1>1, <1>2

\* a assigns elements of the field to some of the variables below n.
Assigns(a, n) == DOMAIN a \subseteq 0..n - 1 /\ \A v \in DOMAIN a : a[v] \in Field

LEMMA AssignsMore ==
  ASSUME NEW a, NEW n, Assigns(a, n), NEW v \in 0..n - 1, NEW x \in Field
  PROVE  Assigns(With(a, v, x), n)
<1> PICK b : b = With(a, v, x)
  OBVIOUS
<1>1. Extended(b, a, v, x)
  BY WithFields
<1>2. /\ DOMAIN b = DOMAIN a \cup {v} /\ b[v] = x
      /\ \A u \in DOMAIN a : u # v => b[u] = a[u]
  BY <1>1 DEF Extended
<1>3. Assigns(b, n)
  BY <1>2 DEF Assigns
<1> QED
  BY <1>3

LEMMA AssignedEvalInField ==
  ASSUME NEW a, NEW n, Assigns(a, n), NEW l, IsLC(l), Assigned(l, a)
  PROVE  Eval(l, a) \in Field
<1>1. \A v \in DOMAIN l : Worth(a, v) \in Int
  BY DEF Assigned, Assigns, Worth, Field
<1> QED
  BY <1>1, EvalInField

LEMMA MapWireKeeps == IInv /\ MapWire => IInv'
<1> SUFFICES ASSUME IInv, MapWire PROVE IInv'
  OBVIOUS
<1> PICK w : w = NextWire
  OBVIOUS
<1> PICK a : a = With(val, vs.of[w], values[w])
  OBVIOUS
<1> PICK l : l = heap[zeroPs[zeropIdx]]
  OBVIOUS
<1> PICK n : n = vs.n
  OBVIOUS
<1> PICK Z : Z = DOMAIN zeroOf
  OBVIOUS
<1>1. /\ phase = "map" /\ unmapped # {} /\ UNCHANGED Tables
      /\ IF w \notin Z
         THEN val' = a /\ unmapped' = unmapped \ {w} /\ UNCHANGED <<phase, zeropIdx>>
         ELSE /\ zeropIdx' = zeropIdx + 1
              /\ IF Assigned(l, a)
                 THEN /\ val' = With(a, zeroOf[w], Inverse0(Eval(l, a)))
                      /\ unmapped' = unmapped \ {w} /\ UNCHANGED phase
                 ELSE phase' = "fatal" /\ UNCHANGED <<val, unmapped>>
  BY DEF MapWire, Tables, parsed
<1>2. /\ Circuit /\ Mapping /\ Zerops /\ Pointers /\ IsVarMap(vs)
      /\ vs' = vs /\ zeroPs' = zeroPs /\ zeroOf' = zeroOf
  BY <1>1 DEF IInv, Tables
<1>3. /\ DOMAIN val \subseteq 0..n - 1 /\ val \in [DOMAIN val -> Field]
      /\ unmapped \subseteq DOMAIN vs.of /\ zeropIdx \in 1..Len(zeroPs) + 1
      /\ zeropIdx + Cardinality(unmapped \cap Z) = Len(zeroPs) + 1
  BY <1>1, <1>2 DEF Mapping
<1>4. IsFiniteSet(unmapped) /\ unmapped \subseteq Wires /\ unmapped \subseteq Int
  <2>1. unmapped \subseteq Wires /\ IsFiniteSet(Wires)
    BY <1>2, <1>3, WiresFinite DEF IsVarMap
  <2>2. Wires \subseteq Int
    BY <1>2 DEF Circuit
  <2> QED
    BY <2>1, <2>2, FS_Subset
<1>5. w \in unmapped /\ w \in DOMAIN vs.of /\ vs.of[w] \in 0..n - 1 /\ values[w] \in Field
  <2>1. w \in unmapped
    BY <1>1, <1>4, MinIsLeast DEF NextWire
  <2>2. w \in DOMAIN vs.of /\ w \in Wires
    BY <1>3, <1>4, <2>1
  <2> QED
    BY <1>2, <2>1, <2>2 DEF IsVarMap, Circuit
<1>6. Assigns(a, n)
  <2>1. Assigns(val, n)
    BY <1>3 DEF Assigns
  <2> PICK v : v = vs.of[w]
    OBVIOUS
  <2> PICK x : x = values[w]
    OBVIOUS
  <2>2. Assigns(With(val, v, x), n)
    BY <1>5, <2>1, AssignsMore
  <2> QED
    BY <2>2
<1>7. Len(zeroPs) \in Nat /\ IsFiniteSet(unmapped \cap Z) /\ Cardinality(unmapped \cap Z) \in Nat
  <2>1. IsFiniteSet(unmapped \cap Z)
    BY <1>4, FS_Subset
  <2> QED
    BY <1>2, <2>1, FS_CardinalityType DEF Zerops
<1>8. CASE w \notin Z
  <2>1. val' = a /\ unmapped' = unmapped \ {w} /\ phase' = phase /\ zeropIdx' = zeropIdx
    BY <1>1, <1>8
  <2>2. unmapped' \cap Z = unmapped \cap Z
    BY <1>8, <2>1
  <2>3. DOMAIN val' \subseteq 0..n - 1 /\ val' \in [DOMAIN val' -> Field]
    <3>1. a = [v \in DOMAIN a |-> a[v]]
      BY DEF With
    <3> QED
      BY <1>6, <2>1, <3>1 DEF Assigns
  <2>4. Mapping'
    BY <1>2, <1>3, <2>1, <2>2, <2>3 DEF Mapping
  <2> QED
    BY <1>1, <2>1, <2>4, OnlyPhase
<1>9. CASE w \in Z
  <2>1. zeropIdx' = zeropIdx + 1 /\ zeropIdx \in 1..Len(zeroPs) /\ zeropIdx' \in 1..Len(zeroPs) + 1
    <3>1. Cardinality((unmapped \cap Z) \ {w}) = Cardinality(unmapped \cap Z) - 1
          /\ Cardinality((unmapped \cap Z) \ {w}) \in Nat
      BY <1>5, <1>7, <1>9, FS_RemoveElement, FS_CardinalityType
    <3> QED
      BY <1>1, <1>3, <1>7, <1>9, <3>1
  <2>2. CASE ~Assigned(l, a)
    <3>1. phase' = "fatal" /\ val' = val /\ unmapped' = unmapped
      BY <1>1, <1>9, <2>2
    <3>2. Mapping'
      BY <1>2, <1>3, <2>1, <3>1 DEF Mapping
    <3> QED
      BY <1>1, <3>1, <3>2, OnlyPhase
  <2>3. CASE Assigned(l, a)
    <3> PICK v : v = zeroOf[w]
      OBVIOUS
    <3> PICK x : x = Inverse0(Eval(l, a))
      OBVIOUS
    <3> PICK b : b = With(a, v, x)
      OBVIOUS
    <3>1. val' = b /\ unmapped' = unmapped \ {w} /\ phase' = phase
      BY <1>1, <1>9, <2>3
    <3>2. v \in 0..n - 1
      BY <1>2, <1>9 DEF Zerops
    <3>3. x \in Field
      <4> PICK p : p = zeroPs[zeropIdx]
        OBVIOUS
      <4>1. p \in 1..Len(heap)
        <5>1. zeroPs \in Seq(1..Len(heap))
          BY <1>2 DEF Zerops
        <5> QED
          BY <2>1, <5>1, ElementOfSeq
      <4>2. l \in LCs(Known)
        <5>1. heap \in Seq(LCs(Known))
          BY <1>2 DEF Pointers
        <5> QED
          BY <4>1, <5>1, ElementOfSeq
      <4>3. IsLC(l)
        BY <1>2, <4>2, CombinationsOver
      <4>4. Eval(l, a) \in Field
        BY <1>6, <2>3, <4>3, AssignedEvalInField
      <4> QED
        BY <4>4, InverseInField
    <3>4. Assigns(b, n)
      BY <1>6, <3>2, <3>3, AssignsMore
    <3>5. DOMAIN val' \subseteq 0..n - 1 /\ val' \in [DOMAIN val' -> Field]
      <4>1. b = [z \in DOMAIN b |-> b[z]]
        BY DEF With
      <4> QED
        BY <3>1, <3>4, <4>1 DEF Assigns
    <3>6. zeropIdx' + Cardinality(unmapped' \cap Z) = Len(zeroPs) + 1
      <4>1. unmapped' \cap Z = (unmapped \cap Z) \ {w}
        BY <3>1
      <4>2. Cardinality((unmapped \cap Z) \ {w}) = Cardinality(unmapped \cap Z) - 1
        BY <1>5, <1>7, <1>9, FS_RemoveElement
      <4> PICK m \in Nat : m = Cardinality(unmapped \cap Z)
        BY <1>7
      <4>3. Cardinality(unmapped' \cap Z) = m - 1
        BY <4>1, <4>2
      <4>4. zeropIdx + m = Len(zeroPs) + 1 /\ zeropIdx \in Int
        BY <1>3
      <4>5. (zeropIdx + 1) + (m - 1) = Len(zeroPs) + 1
        BY <4>4
      <4> QED
        BY <2>1, <4>3, <4>5
    <3>7. Mapping'
      BY <1>2, <1>3, <2>1, <3>1, <3>5, <3>6 DEF Mapping
    <3> QED
      BY <1>1, <3>1, <3>7, OnlyPhase
  <2> QED
    BY <2>2, <2>3
<1> QED
  BY <1>8, <1>9

-----------------------------------------------------------------------------
(* The theorems *)

LEMMA NextKeeps == IInv /\ [Next]_vars => IInv'
<1> SUFFICES ASSUME IInv, [Next]_vars PROVE IInv'
  OBVIOUS
<1>1. CASE ParseGate
  BY <1>1, ParseGateKeeps
<1>2. CASE ParseOutput
  BY <1>2, ParseOutputKeeps
<1>3. CASE StartConstruct
  BY <1>3, StartConstructKeeps
<1>4. CASE AddMulConstraint
  BY <1>4, AddMulKeeps
<1>5. CASE AddXorConstraint
  BY <1>5, AddXorKeeps
<1>6. CASE AddOrConstraint
  BY <1>6, AddOrKeeps
<1>7. CASE AddAssertionConstraint
  BY <1>7, AddAssertionKeeps
<1>8. CASE AddSplitConstraint
  BY <1>8, AddSplitKeeps
<1>9. CASE AddNonzeroCheckConstraint
  BY <1>9, AddNonzeroCheckKeeps
<1>10. CASE LinearHandler
  BY <1>10, LinearHandlerKeeps
<1>11. CASE Refused
  BY <1>11, RefusedKeeps
<1>12. CASE StartMap
  BY <1>12, StartMapKeeps
<1>13. CASE MapWire
  BY <1>13, MapWireKeeps
<1>14. CASE EndMap
  BY <1>14, EndMapKeeps
<1>15. CASE UNCHANGED vars
  BY <1>15, StutterKeeps
<1> QED
  BY <1>1, <1>2, <1>3, <1>4, <1>5, <1>6, <1>7, <1>8, <1>9, <1>10, <1>11, <1>12, <1>13, <1>14,
     <1>15 DEF Next, LinearHandler

LEMMA IInvIsInvariant == Spec => []IInv
BY InitIInv, NextKeeps, PTL DEF Spec

\* The tables of the reader have the shape its passes give them: no use counter
\* runs below zero, every combination is over declared variables, and the third
\* pass never takes more zerop combinations than the second one stored.
THEOREM TypeCorrect == Spec => []TypeOK
<1>1. IInv => TypeOK
  <2> SUFFICES ASSUME IInv PROVE TypeOK
    OBVIOUS
  <2>0. /\ Circuit /\ Seqs /\ UsesLeft /\ IsVarMap(vs) /\ Pointers /\ Zerops /\ Mapping
    BY DEF IInv
  <2>1. Wires = 0..Cardinality(Wires) - 1 /\ Range(values) \subseteq Field
    BY <2>0 DEF Circuit, Range
  <2>2. uses \in [Wires -> Nat]
    <3>1. next \in 1..Len(gates) + 1
      BY <2>0 DEF Seqs
    <3>2. \A w \in Wires : LeftFrom(next, w) \in Nat
      BY <2>0, <3>1, LeftSteps
    <3> QED
      BY <2>0, <3>2 DEF UsesLeft
  <2>3. vs.n \in Nat /\ DOMAIN vs.of \subseteq Wires /\ Range(vs.of) \subseteq 0..vs.n - 1
    BY <2>0 DEF IsVarMap, Range
  <2>4. ASSUME NEW p \in DOMAIN heap
        PROVE  DOMAIN heap[p] \subseteq Range(vs.of) /\ Range(heap[p]) \subseteq Field
    <3> PICK l : l = heap[p]
      OBVIOUS
    <3>1. heap \in Seq(LCs(Known)) /\ DOMAIN heap = 1..Len(heap)
      BY <2>0 DEF Pointers
    <3>2. l \in LCs(Known)
      BY <3>1, ElementOfSeq
    <3>3. IsLC(l) /\ DOMAIN l \subseteq Range(vs.of)
      BY <2>0, <3>2, CombinationsOver
    <3> QED
      BY <3>3 DEF IsLC, Range
  <2>5. DOMAIN lcOf \subseteq Wires /\ Range(lcOf) \cup Range(zeroPs) \subseteq DOMAIN heap
    <3>1. DOMAIN heap = 1..Len(heap) /\ DOMAIN lcOf \subseteq Wires /\ Range(lcOf) \subseteq 1..Len(heap)
      BY <2>0 DEF Pointers, Range
    <3>2. Range(zeroPs) \subseteq 1..Len(heap)
      <4>1. zeroPs \in Seq(1..Len(heap))
        BY <2>0 DEF Zerops
      <4> QED
        BY <4>1 DEF Range
    <3> QED
      BY <3>1, <3>2
  <2>6. next \in 1..Len(gates) + 1 /\ Len(cons) = next - 1
        /\ phase \in {"parse", "construct", "map", "done", "exit", "fatal"}
    BY <2>0 DEF Seqs
  <2>7. DOMAIN val \subseteq 0..vs.n - 1 /\ Range(val) \subseteq Field /\ zeropIdx \in 1..Len(zeroPs) + 1
    BY <2>0 DEF Mapping, Range
  <2> QED
    BY <2>1, <2>2, <2>3, <2>4, <2>5, <2>6, <2>7 DEF TypeOK
<1> QED
  BY <1>1, IInvIsInvariant, PTL

\* The combination that a wire still points to evaluates to the wire's value,
\* whatever find shared, copied or let be edited in place (CircuitReader.cpp:376).
THEOREM LiveLCsEvaluateHolds == Spec => []LiveLCsEvaluate
<1>1. IInv => LiveLCsEvaluate
  BY DEF IInv
<1> QED
  BY <1>1, IInvIsInvariant, PTL

\* No wire that a later gate reads is dropped by clean: it has a combination or a
\* variable until its last use (CircuitReader.cpp:404).
THEOREM NoInputLostHolds == Spec => []NoInputLost
<1>1. IInv => NoInputLost
  BY DEF IInv
<1> QED
  BY <1>1, IInvIsInvariant, PTL
=============================================================================
