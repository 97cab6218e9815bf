----------------------- MODULE CircuitSoundness -----------------------
(* What the reader of a circuit is for, for every circuit and every prime  *)
(* field: the constraints of a gate leave its outputs no choice            *)
(* (GateSound), and the assignment made from the evaluated wires satisfies *)
(* all of them (AssignmentSatisfies).                                      *)
(*                                                                         *)
(* A constraint of a gate is a product of linear combinations.  The        *)
(* invariant of CircuitReaderProofs says that the combination the reader   *)
(* keeps for a wire evaluates to the wire's value, so each handler's       *)
(* constraints become equations between the gate's evaluated inputs and    *)
(* its outputs.  One lemma per kind of gate solves them, both ways:        *)
(* products and exclusive or by substitution, the zero test and the        *)
(* assertion because a field has no zero divisors, the split because a     *)
(* number below 2^n <= P is the weighted sum of one list of n bits only.   *)
(*                                                                         *)
(* The assignment of the third pass is right because it visits the wires   *)
(* in the order of their numbers: the combination a zero test has kept is  *)
(* the next one stored, is over wires visited before, and, unless a linear *)
(* gate has edited it since, is still worth the test's input (AInv).       *)
EXTENDS CircuitReaderProofs

USE FieldAssumption, SizeAssumption

-----------------------------------------------------------------------------
(* The value of a combination *)

\* The combination l is worth x under the assignment b.
ValueIs(l, b, x) ==
    IsLC(l) /\ (\A v \in DOMAIN l : Worth(b, v) \in Int) /\ x \in Field /\ Eval(l, b) = x

LEMMA FieldIsInt == \A x \in Field : x \in Int /\ x >= 0 /\ x < P
BY DEF Field

LEMMA CongOfField ==
  ASSUME NEW x \in Field, NEW y \in Field
  PROVE  Cong(x, y) <=> x = y
BY FieldSmall DEF Cong

LEMMA CongEquivalence ==
  /\ \A a : Cong(a, a)
  /\ \A a, b : Cong(a, b) => Cong(b, a)
  /\ \A a, b, c : Cong(a, b) /\ Cong(b, c) => Cong(a, c)
BY DEF Cong

LEMMA CongMinus ==
  ASSUME NEW a \in Int, NEW b \in Int, NEW c \in Int
  PROVE  Cong(c - a, c - b) <=> Cong(a, b)
<1>1. ASSUME Cong(c - a, c - b) PROVE Cong(a, b)
  <2>1. PICK k \in Int : c - a = c - b + k * P
    BY <1>1, CongApart
  <2>2. k * P \in Int
    OBVIOUS
  <2>3. (-k) * P = -(k * P)
    OBVIOUS
  <2>4. a = b + (-k) * P /\ -k \in Int
    BY <2>1, <2>2, <2>3
  <2> QED
    BY <2>4, CongApart
<1>2. ASSUME Cong(a, b) PROVE Cong(c - a, c - b)
  <2>1. PICK k \in Int : a = b + k * P
    BY <1>2, CongApart
  <2>2. k * P \in Int
    OBVIOUS
  <2>3. (-k) * P = -(k * P)
    OBVIOUS
  <2>4. c - a = c - b + (-k) * P /\ -k \in Int /\ c - a \in Int /\ c - b \in Int
    BY <2>1, <2>2, <2>3
  <2> QED
    BY <2>4, CongApart
<1> QED
  BY <1>1, <1>2

\* P is a prime: a product is zero only if a factor is.
LEMMA NoZeroDivisors ==
  ASSUME NEW x \in Field, x # 0, NEW z \in Int, Cong(x * z, 0)
  PROVE  Cong(z, 0)
<1>0. x \in 1..P-1
  BY DEF Field
<1>1. PICK y \in 0..P-1 : (x * y) % P = 1
  BY <1>0, InverseAssumption
<1> PICK a : a = x * y
  OBVIOUS
<1> PICK b : b = x * z
  OBVIOUS
<1> PICK e : e = 1
  OBVIOUS
<1> PICK o : o = 0
  OBVIOUS
<1>2. x \in Int /\ y \in Int /\ a \in Int /\ b \in Int /\ e \in Field /\ e \in Int /\ o \in Int
  BY <1>0 DEF Field
<1>3. Cong(a, e)
  BY <1>1, <1>2, FieldSmall DEF Cong
<1>4. Cong(z * a, z * e)
  BY <1>2, <1>3, CongTimes
<1>5. Cong(y * b, y * o)
  BY <1>2, CongTimes
<1>6. z * a = y * b /\ z * e = z /\ y * o = 0
  BY <1>2
<1> QED
  BY <1>4, <1>5, <1>6 DEF Cong

LEMMA ValueOfConst ==
  ASSUME NEW c \in Field, NEW b
  PROVE  ValueIs(Const(c), b, c)
<1> DEFINE l == Const(c)
           f == Terms(l, b, {One})
<1>1. IsLC(l) /\ DOMAIN l = {One} /\ IsFiniteSet({One})
  <2>1. DOMAIN l = {One} /\ l \in [{One} -> Field]
    BY DEF Const, Term
  <2>2. IsFiniteSet({One})
    BY FS_Singleton
  <2> HIDE DEF l
  <2> QED
    BY <2>1, <2>2 DEF IsLC
<1>2. \A v \in {One} : Worth(b, v) \in Int
  BY DEF Worth
<1>3. Eval(l, b) = SumFunctionOnSet(f, {One}) % P
  BY <1>1, <1>2, EvalOver
<1>4. f[One] = c /\ c \in Int
  <2>1. f[One] = c * 1
    BY DEF Terms, Coeff, Const, Term, Worth
  <2> QED
    BY <2>1 DEF Field
<1> HIDE DEF f
<1>5. SumFunctionOnSet(f, {One}) = f[One] + SumFunctionOnSet(f, {One} \ {One})
  BY <1>1, <1>4, SumRemove
<1>6. SumFunctionOnSet(f, {One} \ {One}) = 0
  <2>1. {One} \ {One} = {}
    OBVIOUS
  <2>2. SumFunctionOnSet(f, {}) = 0
    BY <1>1, SumSteps
  <2> QED
    BY <2>1, <2>2
<1>7. SumFunctionOnSet(f, {One}) = c
  BY <1>4, <1>5, <1>6
<1>8. Eval(l, b) = c
  BY <1>3, <1>7, FieldSmall
<1> QED
  BY <1>1, <1>2, <1>8 DEF ValueIs

LEMMA ValueOfTerm ==
  ASSUME NEW v, v # One, NEW b, b[v] \in Field
  PROVE  ValueIs(Term(v, 1), b, b[v])
<1>1. IsLC(Term(v, 1)) /\ DOMAIN Term(v, 1) = {v} /\ Eval(Term(v, 1), b) = b[v]
  BY TermIsLC, EvalOfTerm
<1>2. Worth(b, v) \in Int
  BY FieldIsInt DEF Worth
<1> QED
  BY <1>1, <1>2 DEF ValueIs

LEMMA ValueOfPlus ==
  ASSUME NEW l, NEW m, NEW b, NEW x, NEW y, ValueIs(l, b, x), ValueIs(m, b, y)
  PROVE  ValueIs(Plus(l, m), b, (x + y) % P)
<1>1. IsLC(l) /\ IsLC(m) /\ \A v \in DOMAIN l \cup DOMAIN m : Worth(b, v) \in Int
  BY DEF ValueIs
<1>2. x \in Int /\ y \in Int /\ Eval(l, b) = x /\ Eval(m, b) = y
  BY FieldIsInt DEF ValueIs
<1>3. IsLC(Plus(l, m)) /\ DOMAIN Plus(l, m) = DOMAIN l \cup DOMAIN m
  BY <1>1, PlusIsLC
<1>4. Eval(Plus(l, m), b) = (x + y) % P
  BY <1>1, <1>2, EvalOfPlus
<1>5. x + y \in Int
  BY <1>2
<1>6. (x + y) % P \in Field
  BY <1>5, CongRemainder
<1> QED
  BY <1>1, <1>3, <1>4, <1>6 DEF ValueIs

LEMMA ValueOfTimes ==
  ASSUME NEW l, NEW b, NEW x, ValueIs(l, b, x), NEW c \in Int
  PROVE  ValueIs(Times(c, l), b, (c * x) % P)
<1>1. IsLC(l) /\ \A v \in DOMAIN l : Worth(b, v) \in Int
  BY DEF ValueIs
<1>2. x \in Int /\ Eval(l, b) = x
  BY FieldIsInt DEF ValueIs
<1>3. IsLC(Times(c, l)) /\ DOMAIN Times(c, l) = DOMAIN l
  BY <1>1, TimesIsLC
<1>4. Eval(Times(c, l), b) = (c * x) % P
  BY <1>1, <1>2, EvalOfTimes
<1>5. c * x \in Int
  BY <1>2
<1>6. (c * x) % P \in Field
  BY <1>5, CongRemainder
<1> QED
  BY <1>1, <1>3, <1>4, <1>6 DEF ValueIs

LEMMA ValueOfMinus ==
  ASSUME NEW l, NEW m, NEW b, NEW x, NEW y, ValueIs(l, b, x), ValueIs(m, b, y)
  PROVE  \E z : ValueIs(Minus(l, m), b, z) /\ Cong(z, x - y)
<1> PICK c : c = P - 1
  OBVIOUS
<1> PICK q : q = (c * y) % P
  OBVIOUS
<1>1. x \in Int /\ y \in Int /\ c \in Int /\ c * y \in Int
  BY FieldIsInt DEF ValueIs
<1>2. q \in Int /\ Cong(q, c * y)
  BY <1>1, CongRemainder
<1>3. ValueIs(Minus(l, m), b, (x + q) % P)
  <2>1. ValueIs(Times(c, m), b, q)
    BY <1>1, ValueOfTimes
  <2> QED
    BY <2>1, ValueOfPlus DEF Minus
<1>4. Cong(x + q, x + c * y)
  <2>1. Cong(x, x)
    BY DEF Cong
  <2> PICK d : d = c * y
    OBVIOUS
  <2>2. Cong(x + q, x + d)
    BY <1>1, <1>2, <2>1, CongPlus
  <2> QED
    BY <2>2
<1>5. Cong(x + c * y, x - y)
  <2>1. x + c * y = (x - y) + y * P
    BY <1>1
  <2>2. x + c * y \in Int /\ x - y \in Int
    BY <1>1
  <2> QED
    BY <1>1, <2>1, <2>2, CongApart
<1>6. x + q \in Int
  BY <1>1, <1>2
<1>7. Cong((x + q) % P, x + q)
  BY <1>6, CongRemainder
<1> QED
  BY <1>3, <1>4, <1>5, <1>7 DEF Cong

LEMMA HoldsMeans ==
  ASSUME NEW l, NEW m, NEW n, NEW b, NEW x, NEW y, NEW z,
         ValueIs(l, b, x), ValueIs(m, b, y), ValueIs(n, b, z)
  PROVE  Holds(R1(l, m, n), b) <=> Cong(x * y, z)
<1>1. Eval(l, b) = x /\ Eval(m, b) = y /\ Eval(n, b) = z /\ z % P = z
  BY FieldSmall DEF ValueIs
<1> QED
  BY <1>1 DEF Holds, R1, Cong

-----------------------------------------------------------------------------
(* The combinations of a gate's inputs *)

\* The assignment b has the values of the wires that the gates before this one define.
Sees(b) == \A w \in DOMAIN vs.of \cap Before(next) : b[vs.of[w]] = values[w]

\* The combination l stands for the wire w.
Stands(l, w) == l \in LCs(Known) /\ w \in Wires /\ Eval(l, Intended) = values[w]

LEMMA StandsIsValue ==
  ASSUME Working, NEW l, NEW w, Stands(l, w), NEW b, Sees(b)
  PROVE  ValueIs(l, b, values[w])
<1>1. Circuit /\ IsVarMap(vs) /\ l \in LCs(Known) /\ w \in Wires /\ Eval(l, Intended) = values[w]
  BY DEF Working, IInv, Stands
<1> PICK a : a = Intended
  OBVIOUS
<1>2. IsLC(l) /\ DOMAIN l \subseteq Known /\ \A v \in DOMAIN l : Worth(a, v) \in Int
  BY <1>1, CombinationsOver
<1>3. ASSUME NEW v \in DOMAIN l PROVE a[v] = b[v]
  <2>1. PICK u \in DOMAIN vs.of \cap Before(next) : v = vs.of[u]
    BY <1>2 DEF Known
  <2>2. a[v] = values[u]
    BY <1>1, <2>1, IntendedValues
  <2> QED
    BY <2>1, <2>2 DEF Sees
<1>4. Eval(l, b) = Eval(l, a)
  BY <1>3, EvalAgree
<1>5. \A v \in DOMAIN l : Worth(b, v) \in Int
  BY <1>2, <1>3 DEF Worth
<1>6. values[w] \in Field
  BY <1>1 DEF Circuit
<1> QED
  BY <1>1, <1>2, <1>4, <1>5, <1>6 DEF ValueIs

\* What a find that is not for editing adds to the store s.
Adds(s, t, w) ==
    /\ t.ptr \in 1..Len(t.heap) /\ Stands(t.heap[t.ptr], w)
    /\ Len(t.heap) >= Len(s.heap) /\ \A q \in 1..Len(s.heap) : t.heap[q] = s.heap[q]

LEMMA FindStands ==
  ASSUME Working, NEW r, r = Reads(Line), NEW k \in 0..Len(r) - 1, NEW s, FoundUpTo(s, r, k, 0),
         NEW w, w = r[k + 1], NEW t, t = Find(s, w, FALSE)
  PROVE  FoundUpTo(t, r, k + 1, 0) /\ Adds(s, t, w)
<1> PICK e \in BOOLEAN : e = FALSE
  OBVIOUS
<1> PICK p : p = 0
  OBVIOUS
<1>1. r = Reads(gates[next])
  BY DEF Line
<1>2. FoundUpTo(t, r, k + 1, p) /\ Returned(s, t, w, e)
  <2>1. FoundUpTo(s, r, k, p) /\ t = Find(s, r[k + 1], e)
    OBVIOUS
  <2> QED
    BY <1>1, <2>1, FindFinds
<1>3. w \in Wires
  <2>1. r \in Seq(Wires) /\ Len(r) \in Nat
    BY LineShape
  <2>2. k + 1 \in 1..Len(r)
    BY <2>1
  <2> QED
    BY <2>1, <2>2, ElementOfSeq
<1>4. t.ptr \in 1..Len(t.heap) /\ t.heap \in Seq(LCs(Known))
  BY <1>2 DEF Returned, FoundUpTo
<1>5. t.heap[t.ptr] \in LCs(Known)
  BY <1>4, ElementOfSeq
<1> QED
  BY <1>2, <1>3, <1>4, <1>5 DEF Adds, Stands, Returned

\* The combinations of the first and of the second input.
LEMMA InputsStand ==
  ASSUME Working, NEW r, r = Reads(Line), Len(r) >= 1, r[1] = Line.in[1]
  PROVE  /\ Stands(Found1.heap[Found1.ptr], Line.in[1])
         /\ Len(r) >= 2 /\ r[2] = Line.in[2] => Stands(L1, Line.in[1]) /\ Stands(L2, Line.in[2])
<1>1. Len(r) \in Nat
  BY LineShape
<1> PICK t : t = Found1
  OBVIOUS
<1> PICK u : u = Found2
  OBVIOUS
<1> PICK s : s = Store
  OBVIOUS
<1> PICK x : x = Line.in[1]
  OBVIOUS
<1> PICK y : y = Line.in[2]
  OBVIOUS
<1> PICK k : k = 0
  OBVIOUS
<1> PICK m : m = 1
  OBVIOUS
<1>2. FoundUpTo(s, r, k, 0)
  <2>1. r = Reads(gates[next])
    BY DEF Line
  <2> QED
    BY <2>1, NothingFound
<1>3. FoundUpTo(t, r, k + 1, 0) /\ Adds(s, t, x)
  <2>1. k \in 0..Len(r) - 1 /\ x = r[k + 1] /\ t = Find(s, x, FALSE)
    BY <1>1 DEF Found1
  <2> QED
    BY <1>2, <2>1, FindStands
<1>4. ASSUME Len(r) >= 2, r[2] = y PROVE Stands(u.heap[t.ptr], x) /\ Stands(u.heap[u.ptr], y)
  <2>1. m \in 0..Len(r) - 1 /\ y = r[m + 1] /\ u = Find(t, y, FALSE) /\ m = k + 1
    BY <1>1, <1>4 DEF Found2
  <2>2. FoundUpTo(t, r, m, 0)
    BY <1>3, <2>1
  <2>3. Adds(t, u, y)
    BY <2>1, <2>2, FindStands
  <2>4. u.heap[t.ptr] = t.heap[t.ptr]
    BY <1>3, <2>3 DEF Adds
  <2> QED
    BY <1>3, <2>3, <2>4 DEF Adds
<1> QED
  BY <1>3, <1>4 DEF Adds, L1, L2

\* The third combination of an assertion.
LEMMA AssertedStands ==
  ASSUME Working, NEW r, r = Reads(Line), Len(r) = 3, r[1] = Line.in[1], r[2] = Line.in[2], r[3] = Out,
         NEW t, t = Find(Found2, Out, FALSE)
  PROVE  Stands(t.heap[t.ptr], Out)
<1> PICK u : u = Found2
  OBVIOUS
<1> PICK z : z = Out
  OBVIOUS
<1> PICK k : k = 2
  OBVIOUS
<1>1. Len(r) >= 1 /\ Len(r) >= 2
  OBVIOUS
<1>2. FoundUpTo(u, r, k, 0)
  BY <1>1, FoundInputs
<1>3. k \in 0..Len(r) - 1 /\ z = r[k + 1] /\ t = Find(u, z, FALSE)
  OBVIOUS
<1>4. Adds(u, t, z)
  BY <1>2, <1>3, FindStands
<1> QED
  BY <1>4 DEF Adds

LEMMA InWires ==
  ASSUME Working, NEW g, g = Line, NEW i \in 1..Ins(g)
  PROVE  /\ g.in[i] \in Wires /\ g.in[i] \in Before(next)
         /\ values[g.in[i]] \in Field /\ InputValues(g)[i] = values[g.in[i]]
<1>1. /\ GateOK(g, Before(next)) /\ Circuit /\ next \in 1..Len(gates)
  BY LineShape DEF Working, IInv
<1>2. g.in \in [1..Ins(g) -> Before(next)] /\ Before(next) \subseteq Wires
  BY <1>1, ReadsShape, LineShape DEF GateOK
<1> QED
  BY <1>1, <1>2 DEF InputValues, Circuit

-----------------------------------------------------------------------------
(* What the constraints of a gate mean *)

\* Under an assignment that has the values of the wires before the gate, the
\* constraints cs force the gate's outputs, and an assertion that fails has none.
\* u is the variable map after the gate, z the auxiliary variable of a zerop gate.
Sound(cs, u, z) ==
    \A b :
      /\ Sees(b)
      /\ \A w \in Defined(Line) \cap DOMAIN u.of : b[u.of[w]] \in Field
      /\ Line.op = "zerop" => b[z] \in Field
      /\ Line.op = "assert" \/ InRange(Line)
      /\ \A r \in cs : Holds(r, b)
      => InRange(Line) /\ \A w \in Defined(Line) \cap DOMAIN u.of : b[u.of[w]] = values[w]

\* The values computed, with the inverse for the auxiliary variable, satisfy them.
Complete(cs, u, z) ==
    \A b :
      /\ Sees(b)
      /\ \A w \in Defined(Line) \cap DOMAIN u.of : b[u.of[w]] = values[w]
      /\ Line.op = "zerop" => b[z] = Inverse0(values[Line.in[1]])
      /\ InRange(Line)
      => \A r \in cs : Holds(r, b)

Decided(cs, u, z) == Sound(cs, u, z) /\ Complete(cs, u, z)

LEMMA OutVariable ==
  ASSUME Working, Line.op \notin {"assert", "split"}, NEW u, u = Declare(vs, Out)
  PROVE  /\ Grows(vs, u, {Out}) /\ Out \in DOMAIN u.of /\ u.of[Out] \in Nat /\ u.of[Out] # One
         /\ Defined(Line) = {Out} /\ Out \notin Before(next) /\ values[Out] \in Field
         /\ values[Out] = Result(Line, InputValues(Line))[Outs(Line)]
<1>1. IsVarMap(vs) /\ Circuit
  BY DEF Working, IInv
<1> PICK g : g = Line
  OBVIOUS
<1>2. /\ Out \in Wires /\ Defined(g) = {Out} /\ Out \notin Before(next) /\ Out = g.out[Outs(g)]
      /\ GateOK(g, Before(next))
  BY LineShape
<1>3. Grows(vs, u, {Out})
  BY <1>1, <1>2, DeclareGrows
<1>4. Out \in DOMAIN u.of /\ u.of[Out] \in Nat
  BY <1>3 DEF Grows, IsVarMap
<1>5. u.of[Out] # One
  BY <1>4 DEF One
<1>6. values[Out] = Result(g, InputValues(g))[Outs(g)]
  <2>1. Outs(g) \in 1..Outs(g)
    BY DEF Outs
  <2> QED
    BY <1>2, <2>1 DEF GateOK
<1>7. values[Out] \in Field
  BY <1>1, <1>2 DEF Circuit
<1> QED
  BY <1>2, <1>3, <1>4, <1>5, <1>6, <1>7

\* A gate of two inputs is decided if its constraint says what its output is.
LEMMA OutputDecided ==
  ASSUME Working, Line.op \in {"mul", "xor", "or"}, NEW u, u = Declare(vs, Out), NEW cs,
         \A b : Sees(b) /\ b[u.of[Out]] \in Field /\ InRange(Line)
                  => ((\A r \in cs : Holds(r, b)) <=> b[u.of[Out]] = values[Out])
  PROVE  Decided(cs, u, 0)
<1>1. Out \in DOMAIN u.of /\ Defined(Line) = {Out} /\ values[Out] \in Field
  BY OutVariable
<1>2. Defined(Line) \cap DOMAIN u.of = {Out}
  BY <1>1
<1>3. Sound(cs, u, 0)
  BY <1>2 DEF Sound
<1>4. Complete(cs, u, 0)
  BY <1>1, <1>2 DEF Complete
<1> QED
  BY <1>3, <1>4 DEF Decided

\* The values that the constraint of a two-input gate is about.
LEMMA TwoInputValues ==
  ASSUME Working, Line.op \in {"mul", "xor", "or"}, NEW u, u = Declare(vs, Out), NEW b, Sees(b),
         b[u.of[Out]] \in Field, NEW x, x = InputValues(Line)
  PROVE  /\ x[1] \in Field /\ x[2] \in Field
         /\ ValueIs(L1, b, x[1]) /\ ValueIs(L2, b, x[2]) /\ ValueIs(OutTerm(u, Out), b, b[u.of[Out]])
         /\ values[Out] = Result(Line, x)[1] /\ values[Out] \in Field
<1> PICK g : g = Line
  OBVIOUS
<1> PICK v : v = u.of[Out]
  OBVIOUS
<1>1. Ins(g) = 2 /\ Outs(g) = 1 /\ g.op # "assert"
  BY DEF Ins, Outs
<1>2. 1 \in 1..Ins(g) /\ 2 \in 1..Ins(g)
  BY <1>1
<1>3. /\ x[1] = values[g.in[1]] /\ x[2] = values[g.in[2]] /\ x[1] \in Field /\ x[2] \in Field
  BY <1>2, InWires
<1>4. Stands(L1, g.in[1]) /\ Stands(L2, g.in[2])
  <2> PICK r : r = Reads(g)
    OBVIOUS
  <2>1. r = g.in /\ Len(r) = 2
    BY <1>1, LineShape
  <2>2. Len(r) >= 1 /\ Len(r) >= 2 /\ r[1] = g.in[1] /\ r[2] = g.in[2]
    BY <2>1
  <2> QED
    BY <2>2, InputsStand
<1>5. ValueIs(L1, b, values[g.in[1]])
  BY <1>4, StandsIsValue
<1>6. ValueIs(L2, b, values[g.in[2]])
  BY <1>4, StandsIsValue
<1>7. v # One /\ values[Out] = Result(g, x)[Outs(g)] /\ values[Out] \in Field
  BY OutVariable
<1>8. ValueIs(Term(v, 1), b, b[v])
  BY <1>7, ValueOfTerm
<1> QED
  BY <1>1, <1>3, <1>5, <1>6, <1>7, <1>8 DEF OutTerm

LEMMA MulDecided ==
  ASSUME Working, Line.op = "mul", NEW u, u = Declare(vs, Out)
  PROVE  Decided({R1(L1, L2, OutTerm(u, Out))}, u, 0)
<1> PICK v : v = u.of[Out]
  OBVIOUS
<1> PICK r : r = R1(L1, L2, OutTerm(u, Out))
  OBVIOUS
<1>1. ASSUME NEW b, Sees(b), b[v] \in Field, InRange(Line)
      PROVE  Holds(r, b) <=> b[v] = values[Out]
  <2> PICK x : x = InputValues(Line)
    OBVIOUS
  <2>1. /\ x[1] \in Field /\ x[2] \in Field
        /\ ValueIs(L1, b, x[1]) /\ ValueIs(L2, b, x[2]) /\ ValueIs(OutTerm(u, Out), b, b[v])
        /\ values[Out] = Result(Line, x)[1] /\ values[Out] \in Field
    BY <1>1, TwoInputValues
  <2>2. Result(Line, x)[1] = (x[1] * x[2]) % P
    BY DEF Result
  <2>3. Holds(r, b) <=> Cong(x[1] * x[2], b[v])
    BY <2>1, HoldsMeans
  <2>4. b[v] % P = b[v]
    BY <1>1, FieldSmall
  <2> QED
    BY <2>1, <2>2, <2>3, <2>4 DEF Cong
<1>2. \A b : Sees(b) /\ b[u.of[Out]] \in Field /\ InRange(Line)
             => ((\A s \in {r} : Holds(s, b)) <=> b[u.of[Out]] = values[Out])
  BY <1>1
<1> QED
  BY <1>2, OutputDecided

\* A constraint k * x * y = x + y - z on bits x and y, where the left side is the sum
\* less the bit t, says that z is t.
LEMMA BitEquation ==
  ASSUME NEW x \in Bits, NEW y \in Bits, NEW k \in Int, NEW t \in Bits, k * x * y = x + y - t,
         NEW z \in Field, NEW d, Cong(d, ((x + y) % P) - z)
  PROVE  Cong(((k * x) % P) * y, d) <=> z = t
<1>1. x \in Int /\ y \in Int /\ t \in Int /\ z \in Int /\ k * x \in Int /\ t \in Field
  BY DEF Bits, Field
<1> PICK m : m = (k * x) % P
  OBVIOUS
<1> PICK s : s = (x + y) % P
  OBVIOUS
<1> PICK c : c = k * x
  OBVIOUS
<1>2. m \in Int /\ s \in Int /\ Cong(m, c) /\ Cong(s, x + y)
  <2>1. x + y \in Int
    BY <1>1
  <2> QED
    BY <1>1, <2>1, CongRemainder
<1>3. Cong(m * y, c * y) /\ c * y = x + y - t
  <2>1. c * y = x + y - t
    OBVIOUS
  <2> QED
    BY <1>1, <1>2, <2>1, CongTimes
<1>4. Cong(s - z, x + y - z)
  <2> PICK n : n = -z
    OBVIOUS
  <2>1. Cong(n, n) /\ n \in Int /\ x + y \in Int
    BY <1>1 DEF Cong
  <2>2. Cong(s + n, x + y + n)
    BY <1>2, <2>1, CongPlus
  <2>3. s + n = s - z /\ x + y + n = x + y - z
    BY <1>1, <1>2
  <2> QED
    BY <2>2, <2>3
<1>5. Cong(m * y, d) <=> Cong(x + y - t, x + y - z)
  BY <1>3, <1>4 DEF Cong
<1>6. Cong(x + y - t, x + y - z) <=> Cong(t, z)
  <2> PICK e : e = x + y
    OBVIOUS
  <2>1. e \in Int
    BY <1>1
  <2>2. Cong(e - t, e - z) <=> Cong(t, z)
    BY <1>1, <2>1, CongMinus
  <2>3. x + y - t = e - t /\ x + y - z = e - z
    BY <1>1
  <2> QED
    BY <2>2, <2>3, Zenon
<1>7. Cong(t, z) <=> t = z
  BY <1>1, CongOfField
<1> QED
  BY <1>5, <1>6, <1>7

\* The right side of the constraint of an xor or an or gate.
LEMMA SumLessOutput ==
  ASSUME NEW l, NEW m, NEW n, NEW b, NEW x, NEW y, NEW z, ValueIs(l, b, x), ValueIs(m, b, y), ValueIs(n, b, z)
  PROVE  \E d : ValueIs(Minus(Plus(l, m), n), b, d) /\ Cong(d, ((x + y) % P) - z)
<1>1. ValueIs(Plus(l, m), b, (x + y) % P)
  BY ValueOfPlus
<1> QED
  BY <1>1, ValueOfMinus

LEMMA XorDecided ==
  ASSUME Working, Line.op = "xor", NEW u, u = Declare(vs, Out)
  PROVE  Decided({R1(Times(2, L1), L2, Minus(Plus(L1, L2), OutTerm(u, Out)))}, u, 0)
<1> PICK v : v = u.of[Out]
  OBVIOUS
<1> PICK r : r = R1(Times(2, L1), L2, Minus(Plus(L1, L2), OutTerm(u, Out)))
  OBVIOUS
<1>1. ASSUME NEW b, Sees(b), b[v] \in Field, InRange(Line)
      PROVE  Holds(r, b) <=> b[v] = values[Out]
  <2> PICK x : x = InputValues(Line)
    OBVIOUS
  <2> PICK z : z = b[v]
    OBVIOUS
  <2>1. /\ x[1] \in Field /\ x[2] \in Field
        /\ ValueIs(L1, b, x[1]) /\ ValueIs(L2, b, x[2]) /\ ValueIs(OutTerm(u, Out), b, z)
        /\ values[Out] = Result(Line, x)[1]
    BY <1>1, TwoInputValues
  <2>2. x[1] \in Bits /\ x[2] \in Bits
    BY <1>1 DEF InRange, InputValues
  <2> PICK t : t = values[Out]
    OBVIOUS
  <2>3. t = IF x[1] = x[2] THEN 0 ELSE 1
    BY <2>1 DEF Result
  <2>4. t \in Bits /\ 2 * x[1] * x[2] = x[1] + x[2] - t
    BY <2>2, <2>3 DEF Bits
  <2>5. PICK d : ValueIs(Minus(Plus(L1, L2), OutTerm(u, Out)), b, d) /\ Cong(d, ((x[1] + x[2]) % P) - z)
    BY <2>1, SumLessOutput
  <2>6. ValueIs(Times(2, L1), b, (2 * x[1]) % P)
    BY <2>1, ValueOfTimes
  <2>7. Holds(r, b) <=> Cong(((2 * x[1]) % P) * x[2], d)
    BY <2>1, <2>5, <2>6, HoldsMeans
  <2>8. Cong(((2 * x[1]) % P) * x[2], d) <=> z = t
    BY <1>1, <2>2, <2>4, <2>5, BitEquation
  <2> QED
    BY <2>7, <2>8
<1>2. \A b : Sees(b) /\ b[u.of[Out]] \in Field /\ InRange(Line)
             => ((\A s \in {r} : Holds(s, b)) <=> b[u.of[Out]] = values[Out])
  BY <1>1
<1> QED
  BY <1>2, OutputDecided

LEMMA OrDecided ==
  ASSUME Working, Line.op = "or", NEW u, u = Declare(vs, Out)
  PROVE  Decided({R1(L1, L2, Minus(Plus(L1, L2), OutTerm(u, Out)))}, u, 0)
<1> PICK v : v = u.of[Out]
  OBVIOUS
<1> PICK r : r = R1(L1, L2, Minus(Plus(L1, L2), OutTerm(u, Out)))
  OBVIOUS
<1>1. ASSUME NEW b, Sees(b), b[v] \in Field, InRange(Line)
      PROVE  Holds(r, b) <=> b[v] = values[Out]
  <2> PICK x : x = InputValues(Line)
    OBVIOUS
  <2> PICK z : z = b[v]
    OBVIOUS
  <2>1. /\ x[1] \in Field /\ x[2] \in Field
        /\ ValueIs(L1, b, x[1]) /\ ValueIs(L2, b, x[2]) /\ ValueIs(OutTerm(u, Out), b, z)
        /\ values[Out] = Result(Line, x)[1]
    BY <1>1, TwoInputValues
  <2>2. x[1] \in Bits /\ x[2] \in Bits
    BY <1>1 DEF InRange, InputValues
  <2> PICK t : t = values[Out]
    OBVIOUS
  <2>3. t = IF x[1] = 0 /\ x[2] = 0 THEN 0 ELSE 1
    BY <2>1 DEF Result
  <2>4. t \in Bits /\ 1 * x[1] * x[2] = x[1] + x[2] - t
    BY <2>2, <2>3 DEF Bits
  <2>5. PICK d : ValueIs(Minus(Plus(L1, L2), OutTerm(u, Out)), b, d) /\ Cong(d, ((x[1] + x[2]) % P) - z)
    BY <2>1, SumLessOutput
  <2>6. (1 * x[1]) % P = x[1]
    <3>1. 1 * x[1] = x[1]
      BY <2>1, FieldIsInt
    <3> QED
      BY <2>1, <3>1, FieldSmall
  <2>7. Holds(r, b) <=> Cong(x[1] * x[2], d)
    BY <2>1, <2>5, HoldsMeans
  <2>8. Cong(((1 * x[1]) % P) * x[2], d) <=> z = t
    <3> PICK k \in Int : k = 1
      OBVIOUS
    <3>1. k * x[1] * x[2] = x[1] + x[2] - t
      BY <2>4
    <3>2. Cong(((k * x[1]) % P) * x[2], d) <=> z = t
      BY <1>1, <2>2, <2>4, <2>5, <3>1, BitEquation
    <3> QED
      BY <3>2
  <2> QED
    BY <2>6, <2>7, <2>8
<1>2. \A b : Sees(b) /\ b[u.of[Out]] \in Field /\ InRange(Line)
             => ((\A s \in {r} : Holds(s, b)) <=> b[u.of[Out]] = values[Out])
  BY <1>1
<1> QED
  BY <1>2, OutputDecided

\* A constraint on three combinations that stand for wires is about their values.
LEMMA ProductMeans ==
  ASSUME Working, NEW l, NEW m, NEW n, NEW w, NEW v, NEW o, Stands(l, w), Stands(m, v), Stands(n, o),
         NEW b, Sees(b), NEW p, p = values[w] * values[v]
  PROVE  Holds(R1(l, m, n), b) <=> Cong(p, values[o])
<1>1. ValueIs(l, b, values[w])
  BY StandsIsValue
<1>2. ValueIs(m, b, values[v])
  BY StandsIsValue
<1>3. ValueIs(n, b, values[o])
  BY StandsIsValue
<1> QED
  BY <1>1, <1>2, <1>3, HoldsMeans

LEMMA AssertionReads ==
  ASSUME Working, Line.op = "assert", NEW r, r = Reads(Line)
  PROVE  /\ Len(r) = 3 /\ r[1] = Line.in[1] /\ r[2] = Line.in[2] /\ r[3] = Out
         /\ Out \in Wires /\ Defined(Line) = {} /\ 1 \in DOMAIN Line.in /\ 2 \in DOMAIN Line.in
         /\ Out = Line.out[1]
<1> PICK g : g = Line
  OBVIOUS
<1>1. Ins(g) = 2 /\ Outs(g) = 1 /\ Defined(g) = {} /\ Reads(g) = g.in \o g.out
  BY DEF Ins, Outs, Defined, Reads
<1>2. Out = g.out[1] /\ Out \in Wires /\ Len(g.in) = 2 /\ Len(g.out) = 1
  BY <1>1, LineShape
<1>3. g.in \in Seq(Nat) /\ g.out \in Seq(Nat)
  BY LineShape DEF GateLines
<1>4. Three(g.in \o g.out, g.in[1], g.in[2], g.out[1])
  BY <1>2, <1>3, ThreeWires
<1>5. 1 \in DOMAIN g.in /\ 2 \in DOMAIN g.in
  BY <1>2, <1>3
<1> QED
  BY <1>1, <1>2, <1>4, <1>5 DEF Three

LEMMA AssertionMeans ==
  ASSUME Working, Line.op = "assert", NEW l, Stands(l, Out), NEW u
  PROVE  Decided({R1(L1, L2, l)}, u, 0)
<1> PICK g : g = Line
  OBVIOUS
<1> PICK o : o = Out
  OBVIOUS
<1>1. Stands(L1, g.in[1]) /\ Stands(L2, g.in[2])
  <2> PICK r : r = Reads(g)
    OBVIOUS
  <2>1. Len(r) >= 1 /\ Len(r) >= 2 /\ r[1] = g.in[1] /\ r[2] = g.in[2]
    BY AssertionReads
  <2> QED
    BY <2>1, InputsStand
<1> PICK x : x = values[g.in[1]]
  OBVIOUS
<1> PICK y : y = values[g.in[2]]
  OBVIOUS
<1> PICK z : z = values[o]
  OBVIOUS
<1>2. z \in Field /\ o = g.out[1] /\ Defined(g) = {} /\ 1 \in DOMAIN g.in /\ 2 \in DOMAIN g.in
  <2>1. o \in Wires /\ o = g.out[1] /\ Defined(g) = {} /\ 1 \in DOMAIN g.in /\ 2 \in DOMAIN g.in
    BY AssertionReads
  <2> QED
    BY <2>1 DEF Working, IInv, Circuit
<1>3. InRange(g) <=> (x * y) % P = z
  BY <1>2 DEF InRange
<1>4. ASSUME NEW b, Sees(b) PROVE Holds(R1(L1, L2, l), b) <=> InRange(g)
  <2> PICK p : p = x * y
    OBVIOUS
  <2>1. Holds(R1(L1, L2, l), b) <=> Cong(p, z)
    BY <1>1, <1>4, ProductMeans
  <2>2. z % P = z
    BY <1>2, FieldSmall
  <2> QED
    BY <1>3, <2>1, <2>2 DEF Cong
<1> PICK cs : cs = {R1(L1, L2, l)}
  OBVIOUS
<1>5. \A b : Sees(b) => ((\A r \in cs : Holds(r, b)) <=> InRange(g))
  BY <1>4
<1>6. Sound(cs, u, 0)
  BY <1>2, <1>5 DEF Sound
<1>7. Complete(cs, u, 0)
  BY <1>5 DEF Complete
<1> QED
  BY <1>6, <1>7 DEF Decided

LEMMA AssertionDecided ==
  ASSUME Working, Line.op = "assert", NEW t, t = Find(Found2, Out, FALSE), NEW u
  PROVE  Decided({R1(L1, L2, t.heap[t.ptr])}, u, 0)
<1> PICK r : r = Reads(Line)
  OBVIOUS
<1>1. Len(r) = 3 /\ r[1] = Line.in[1] /\ r[2] = Line.in[2] /\ r[3] = Out
  BY AssertionReads
<1>2. Stands(t.heap[t.ptr], Out)
  BY <1>1, AssertedStands
<1> QED
  BY <1>2, AssertionMeans

LEMMA InverseIsInverse ==
  ASSUME NEW x \in Field, NEW z, z = Inverse0(x)
  PROVE  z \in Field /\ (x = 0 => z = 0) /\ (x # 0 => Cong(x * z, 1))
<1>1. CASE x = 0
  BY <1>1 DEF Inverse0, Field
<1>2. CASE x # 0
  <2>1. x \in 1..P-1
    BY <1>2 DEF Field
  <2>2. \E y \in Field : (x * y) % P = 1
    BY <2>1, InverseAssumption DEF Field
  <2>3. z \in Field /\ (x * z) % P = 1
    BY <1>2, <2>2 DEF Inverse0
  <2>4. 1 % P = 1
    <3>1. 1 \in Field
      BY DEF Field
    <3> QED
      BY <3>1, FieldSmall
  <2> QED
    BY <1>2, <2>3, <2>4 DEF Cong
<1> QED
  BY <1>1, <1>2

\* The two equations of a zerop gate for a condition x, an output y and an auxiliary z.
LEMMA NonzeroEquations ==
  ASSUME NEW x \in Field, NEW y \in Field, NEW z \in Field, NEW d, Cong(d, 1 - y)
  PROVE  /\ Cong(x * d, 0) /\ Cong(x * z, y) /\ d \in Int => y = IF x = 0 THEN 0 ELSE 1
         /\ y = (IF x = 0 THEN 0 ELSE 1) /\ z = Inverse0(x) /\ d \in Int => Cong(x * d, 0) /\ Cong(x * z, y)
<1>0. x \in Int /\ y \in Int /\ z \in Int /\ 1 \in Field /\ 0 \in Field
  BY DEF Field
<1>1. CASE x = 0
  <2>1. x * z = 0 /\ (d \in Int => x * d = 0)
    BY <1>0, <1>1
  <2>2. Cong(0, y) <=> y = 0
    BY <1>0, CongOfField
  <2>3. Cong(0, 0)
    BY DEF Cong
  <2> QED
    BY <1>1, <2>1, <2>2, <2>3
<1>2. CASE x # 0
  <2> PICK e : e = 1
    OBVIOUS
  <2> PICK n : n = e - y
    OBVIOUS
  <2>1. n \in Int /\ e - e = 0
    BY <1>0
  <2>2. Cong(n, 0) <=> y = e
    <3>1. Cong(e - y, e - e) <=> Cong(y, e)
      BY <1>0, CongMinus
    <3>2. Cong(y, e) <=> y = e
      BY <1>0, CongOfField
    <3> QED
      BY <2>1, <3>1, <3>2
  <2>3. Cong(d, n)
    OBVIOUS
  <2>4. ASSUME d \in Int, Cong(x * d, 0) PROVE y = e
    <3>1. Cong(d, 0)
      BY <1>2, <2>4, NoZeroDivisors
    <3> QED
      BY <2>2, <2>3, <3>1 DEF Cong
  <2>5. ASSUME d \in Int, y = e, z = Inverse0(x) PROVE Cong(x * d, 0) /\ Cong(x * z, y)
    <3> PICK o : o = 0
      OBVIOUS
    <3>1. Cong(d, o) /\ o \in Int
      BY <2>2, <2>3, <2>5 DEF Cong
    <3>2. Cong(x * d, x * o)
      BY <1>0, <2>5, <3>1, CongTimes
    <3>3. x * o = 0
      BY <1>0
    <3>4. Cong(x * z, y)
      BY <1>2, <2>5, InverseIsInverse
    <3> QED
      BY <3>2, <3>3, <3>4
  <2> QED
    BY <1>2, <2>4, <2>5
<1> QED
  BY <1>1, <1>2

LEMMA ZeropDecided ==
  ASSUME Working, Line.op = "zerop", NEW u, u = Declare(vs, Out), NEW z, z = u.n
  PROVE  Decided(NonzeroConstraints(Found1.heap[Found1.ptr], OutTerm(u, Out), Term(z, 1)), u, z)
<1> PICK g : g = Line
  OBVIOUS
<1> PICK v : v = u.of[Out]
  OBVIOUS
<1> PICK l : l = Found1.heap[Found1.ptr]
  OBVIOUS
<1> PICK cs : cs = NonzeroConstraints(l, OutTerm(u, Out), Term(z, 1))
  OBVIOUS
<1> PICK x : x = values[g.in[1]]
  OBVIOUS
<1>1. Ins(g) = 1 /\ Outs(g) = 2
  BY DEF Ins, Outs
<1>2. x \in Field /\ InputValues(g)[1] = x
  <2>1. 1 \in 1..Ins(g)
    BY <1>1
  <2> QED
    BY <2>1, InWires
<1>3. Stands(l, g.in[1])
  <2> PICK r : r = Reads(g)
    OBVIOUS
  <2>1. r = g.in /\ Len(r) = 1
    BY <1>1, LineShape
  <2>2. Len(r) >= 1 /\ r[1] = g.in[1]
    BY <2>1
  <2> QED
    BY <2>2, InputsStand
<1>4. /\ Defined(g) \cap DOMAIN u.of = {Out} /\ v # One /\ values[Out] \in Field
      /\ values[Out] = IF x = 0 THEN 0 ELSE 1
  <2>1. /\ Out \in DOMAIN u.of /\ v # One /\ Defined(g) = {Out} /\ values[Out] \in Field
        /\ values[Out] = Result(g, InputValues(g))[Outs(g)] /\ Grows(vs, u, {Out})
    BY OutVariable
  <2> QED
    BY <1>1, <1>2, <2>1 DEF Result
<1>5. z # One
  BY OutVariable DEF Grows, IsVarMap, One
<1>6. ASSUME NEW b, Sees(b), b[v] \in Field, b[z] \in Field
      PROVE  \E d \in Int : /\ Cong(d, 1 - b[v])
                            /\ (\A r \in cs : Holds(r, b)) <=> Cong(x * d, 0) /\ Cong(x * b[z], b[v])
  <2>1. ValueIs(l, b, x)
    BY <1>3, <1>6, StandsIsValue
  <2>2. ValueIs(OutTerm(u, Out), b, b[v])
    <3>1. ValueIs(Term(v, 1), b, b[v])
      BY <1>4, <1>6, ValueOfTerm
    <3> QED
      BY <3>1 DEF OutTerm
  <2>3. ValueIs(Term(z, 1), b, b[z])
    BY <1>5, <1>6, ValueOfTerm
  <2>4. ValueIs(Const(1), b, 1) /\ ValueIs(Const(0), b, 0)
    <3>1. 1 \in Field /\ 0 \in Field
      BY DEF Field
    <3> QED
      BY <3>1, ValueOfConst
  <2>5. PICK d : ValueIs(Minus(Const(1), OutTerm(u, Out)), b, d) /\ Cong(d, 1 - b[v])
    BY <2>2, <2>4, ValueOfMinus
  <2>6. Holds(R1(l, Minus(Const(1), OutTerm(u, Out)), Const(0)), b) <=> Cong(x * d, 0)
    BY <2>1, <2>4, <2>5, HoldsMeans
  <2>7. Holds(R1(l, Term(z, 1), OutTerm(u, Out)), b) <=> Cong(x * b[z], b[v])
    BY <2>1, <2>2, <2>3, HoldsMeans
  <2>8. d \in Int
    BY <2>5, FieldIsInt DEF ValueIs
  <2> QED
    BY <2>5, <2>6, <2>7, <2>8 DEF NonzeroConstraints
<1>7. Sound(cs, u, z)
  <2> SUFFICES ASSUME NEW b, Sees(b), b[v] \in Field, b[z] \in Field, InRange(g), \A r \in cs : Holds(r, b)
               PROVE  b[v] = values[Out]
    BY <1>4 DEF Sound
  <2>1. PICK d \in Int : Cong(d, 1 - b[v]) /\ Cong(x * d, 0) /\ Cong(x * b[z], b[v])
    BY <1>6
  <2>2. b[v] = IF x = 0 THEN 0 ELSE 1
    BY <1>2, <2>1, NonzeroEquations
  <2> QED
    BY <1>4, <2>2
<1>8. Complete(cs, u, z)
  <2> SUFFICES ASSUME NEW b, Sees(b), b[v] = values[Out], b[z] = Inverse0(x)
               PROVE  \A r \in cs : Holds(r, b)
    BY <1>4 DEF Complete
  <2>1. b[v] \in Field /\ b[z] \in Field
    BY <1>2, <1>4, InverseIsInverse
  <2>2. PICK d \in Int : /\ Cong(d, 1 - b[v])
                         /\ (\A r \in cs : Holds(r, b)) <=> Cong(x * d, 0) /\ Cong(x * b[z], b[v])
    BY <1>6, <2>1
  <2>3. Cong(x * d, 0) /\ Cong(x * b[z], b[v])
    BY <1>2, <1>4, <2>1, <2>2, NonzeroEquations
  <2> QED
    BY <2>2, <2>3
<1> QED
  BY <1>7, <1>8 DEF Decided

-----------------------------------------------------------------------------
(* Bits *)

LEMMA DivisionUnique ==
  ASSUME NEW d \in Nat \ {0}, NEW q \in Int, NEW r \in 0..d - 1, NEW x, x = d * q + r
  PROVE  x \div d = q
<1> PICK k : k = x \div d
  OBVIOUS
<1> PICK m : m = x % d
  OBVIOUS
<1>1. x \in Int /\ d * q \in Int
  OBVIOUS
<1>2. x = d * k + m /\ k \in Int /\ m \in 0..d - 1
  BY <1>1
<1>3. d * (k - q) = r - m
  <2>1. d * (k - q) = d * k - d * q
    BY <1>2
  <2>2. d * k \in Int
    BY <1>2
  <2> QED
    BY <1>1, <1>2, <2>1, <2>2
<1>4. CASE k - q >= 1
  <2>1. d * (k - q) >= d
    BY <1>2, <1>4
  <2> QED
    BY <1>2, <1>3, <2>1
<1>5. CASE k - q <= -1
  <2>1. d * (k - q) <= -d
    BY <1>2, <1>5
  <2> QED
    BY <1>2, <1>3, <2>1
<1>6. k - q \in Int
  BY <1>2
<1> QED
  BY <1>2, <1>4, <1>5, <1>6

LEMMA Halves == \A q \in Nat : q = 2 * (q \div 2) + (q % 2) /\ q % 2 \in {0, 1} /\ q \div 2 \in Nat
OBVIOUS

LEMMA QuotientIsNat ==
  ASSUME NEW d \in Nat \ {0}, NEW q \in Int, NEW m \in 0..d - 1, d * q + m \in Nat
  PROVE  q \in Nat
<1>1. CASE q <= -1
  <2>1. d * q <= -d
    BY <1>1
  <2>2. d * q \in Int
    OBVIOUS
  <2> QED
    BY <2>1, <2>2
<1> QED
  BY <1>1

LEMMA DividedByTwice ==
  ASSUME NEW d \in Nat \ {0}, NEW h \in Nat, NEW e \in {0, 1}, NEW m \in 0..d - 1, NEW q, q = 2 * h + e,
         NEW x, x = d * q + m
  PROVE  x \div (2 * d) = h
<1> PICK c : c = 2 * d
  OBVIOUS
<1>1. d * q = c * h + d * e
  <2>1. d * (2 * h + e) = d * (2 * h) + d * e
    OBVIOUS
  <2>2. d * (2 * h) = (2 * d) * h
    OBVIOUS
  <2> QED
    BY <2>1, <2>2
<1>2. c * h \in Int /\ d * e \in Int
  OBVIOUS
<1>3. d * e = 0 \/ d * e = d
  OBVIOUS
<1> PICK r : r = d * e + m
  OBVIOUS
<1>4. x = c * h + r
  BY <1>1, <1>2
<1>5. r \in 0..c - 1 /\ c \in Nat \ {0}
  BY <1>3
<1> QED
  BY <1>4, <1>5, DivisionUnique

LEMMA DivisionByTwice ==
  ASSUME NEW d \in Nat \ {0}, NEW x \in Nat, NEW q, q = x \div d
  PROVE  /\ q \in Nat /\ q % 2 \in {0, 1} /\ q \div 2 \in Nat /\ q = 2 * (q \div 2) + (q % 2)
         /\ x \div (2 * d) = q \div 2
<1>1. x = d * (x \div d) + (x % d) /\ x \div d \in Int /\ x % d \in 0..d - 1
  OBVIOUS
<1>2. PICK m \in 0..d - 1 : x = d * q + m
  BY <1>1
<1>3. q \in Nat
  BY <1>1, <1>2, QuotientIsNat
<1>4. q = 2 * (q \div 2) + (q % 2) /\ q % 2 \in {0, 1} /\ q \div 2 \in Nat
  BY <1>3, Halves
<1>5. \A h \in Nat, e \in {0, 1} : q = 2 * h + e => x \div (2 * d) = h
  <2> TAKE h \in Nat, e \in {0, 1}
  <2> HAVE q = 2 * h + e
  <2> QED
    BY <1>2, DividedByTwice
<1> QED
  BY <1>3, <1>4, <1>5

-----------------------------------------------------------------------------
(* Sums of weighted bits *)

\* s[k] is the sum of the first k numbers of y, weighted by the powers of two.
BitSums(s, y, n) ==
    /\ s[0] = 0 /\ \A k \in 0..n : s[k] \in Int
    /\ \A k \in 1..n : s[k] = s[k - 1] + two_i[k - 1] * y[k]

LEMMA PowersStep ==
  ASSUME NEW n \in 0..Arity, NEW k \in 1..n
  PROVE  /\ k \in 0..n /\ k - 1 \in 0..n
         /\ two_i[k - 1] \in Nat \ {0} /\ two_i[k] = 2 * two_i[k - 1]
<1>1. k \in 0..Arity /\ k - 1 \in 0..Arity /\ k # 0
  OBVIOUS
<1> QED
  BY <1>1, Powers

LEMMA BitSumsExist ==
  ASSUME NEW n \in 0..Arity, NEW y, \A k \in 1..n : y[k] \in Int
  PROVE  \E s : BitSums(s, y, n)
<1> PICK f : f = [k \in 1..n |-> two_i[k - 1] * y[k]]
  OBVIOUS
<1>1. \A k \in 1..n : f[k] = two_i[k - 1] * y[k] /\ f[k] \in Int
  <2> TAKE k \in 1..n
  <2>1. two_i[k - 1] \in Int /\ y[k] \in Int
    BY PowersStep
  <2> QED
    BY <2>1
<1>2. n \in Nat
  OBVIOUS
<1>3. /\ \A k \in 0..n : SumFunctionOnSet(f, 1..k) \in Int
      /\ SumFunctionOnSet(f, 1..0) = 0
      /\ \A k \in 1..n : SumFunctionOnSet(f, 1..k) = SumFunctionOnSet(f, 1..k - 1) + f[k]
  BY <1>1, <1>2, PartialSums
<1> PICK s : s = [k \in 0..n |-> SumFunctionOnSet(f, 1..k)]
  OBVIOUS
<1>4. \A k \in 1..n : s[k] = s[k - 1] + two_i[k - 1] * y[k]
  <2> TAKE k \in 1..n
  <2>1. s[k] = SumFunctionOnSet(f, 1..k) /\ s[k - 1] = SumFunctionOnSet(f, 1..k - 1)
    BY PowersStep
  <2> QED
    BY <1>1, <1>3, <2>1
<1>5. s[0] = 0 /\ \A k \in 0..n : s[k] \in Int
  BY <1>2, <1>3
<1> QED
  BY <1>4, <1>5 DEF BitSums

\* The first n numbers of y are the bits of x.
BitsOf(y, x, n) == \A k \in 1..n : y[k] = (x \div two_i[k - 1]) % 2

\* One step of the sum, for the quotient q of a number by the power d before it.
LEMMA CarriedBit ==
  ASSUME NEW d \in Int, NEW q \in Int, NEW h \in Int, NEW e \in Int, q = 2 * h + e, NEW s \in Int
  PROVE  d * q + s = (2 * d) * h + (s + d * e)
<1>1. d * (2 * h + e) = d * (2 * h) + d * e
  OBVIOUS
<1>2. d * (2 * h) = (2 * d) * h
  OBVIOUS
<1>3. (2 * d) * h \in Int /\ d * e \in Int
  OBVIOUS
<1> QED
  BY <1>1, <1>2, <1>3

LEMMA QuotientCarried ==
  ASSUME NEW d \in Nat \ {0}, NEW x \in Nat, NEW r \in Int, x = d * (x \div d) + r
  PROVE  x = (2 * d) * (x \div (2 * d)) + (r + d * ((x \div d) % 2))
<1>1. \A q : q = x \div d => /\ q \in Nat /\ q % 2 \in {0, 1} /\ q \div 2 \in Nat
                            /\ q = 2 * (q \div 2) + (q % 2) /\ x \div (2 * d) = q \div 2
  BY DivisionByTwice
<1>2. \A q, h, e : q \in Nat /\ h \in Nat /\ e \in {0, 1} /\ q = 2 * h + e
                  => d * q + r = (2 * d) * h + (r + d * e)
  BY CarriedBit
<1>3. /\ x \div d \in Nat /\ x \div (2 * d) \in Nat /\ (x \div d) % 2 \in {0, 1}
      /\ x \div d = 2 * (x \div (2 * d)) + ((x \div d) % 2)
  BY <1>1, Zenon
<1>4. d * (x \div d) + r = (2 * d) * (x \div (2 * d)) + (r + d * ((x \div d) % 2))
  BY <1>2, <1>3, Zenon
<1> QED
  BY <1>4

LEMMA NoQuotient == ASSUME NEW d \in Nat \ {0}, NEW x \in 0..d - 1 PROVE x \div d = 0
<1> PICK z : z = 0
  OBVIOUS
<1>1. z \in Int /\ x = d * z + x
  OBVIOUS
<1>2. x \div d = z
  BY <1>1, DivisionUnique
<1> QED
  BY <1>2

\* The bits of x add up to x.
LEMMA SumOfBits ==
  ASSUME NEW n \in 0..Arity, NEW x \in Nat, x < two_i[n], NEW y,
         BitsOf(y, x, n), NEW s, BitSums(s, y, n)
  PROVE  s[n] = x
<1> DEFINE A == {k \in 0..n : x = two_i[k] * (x \div two_i[k]) + s[k]}
<1>0. n \in Nat /\ 0 \in 0..n /\ n \in 0..n
  OBVIOUS
<1>1. 0 \in A
  <2>1. two_i[0] = 1 /\ s[0] = 0
    BY Powers DEF BitSums
  <2>2. x = 1 * (x \div 1) + 0
    OBVIOUS
  <2> QED
    BY <1>0, <2>1, <2>2
<1>2. ASSUME NEW k \in 1..n, k - 1 \in A PROVE k \in A
  <2> PICK d : d = two_i[k - 1]
    OBVIOUS
  <2> PICK r : r = s[k - 1]
    OBVIOUS
  <2>1. k \in 0..n /\ k - 1 \in 0..n /\ d \in Nat \ {0} /\ two_i[k] = 2 * d
    BY PowersStep
  <2>2. x = d * (x \div d) + r
    BY <1>2
  <2>3. r \in Int /\ s[k] = r + d * ((x \div d) % 2)
    BY <2>1 DEF BitSums, BitsOf
  <2>4. x = (2 * d) * (x \div (2 * d)) + (r + d * ((x \div d) % 2))
    BY <2>1, <2>2, <2>3, QuotientCarried
  <2> QED
    BY <2>1, <2>3, <2>4
<1>3. n \in A
  <2> HIDE DEF A
  <2>1. 0..n \subseteq A
    BY <1>0, <1>1, <1>2, CountingUp
  <2> QED
    BY <1>0, <2>1
<1> PICK d : d = two_i[n]
  OBVIOUS
<1>4. d \in Nat \ {0} /\ s[n] \in Int
  BY <1>0, Powers DEF BitSums
<1>5. x \div d = 0
  <2>1. x \in 0..d - 1
    BY <1>4
  <2> QED
    BY <1>4, <2>1, NoQuotient
<1>6. x = d * 0 + s[n]
  BY <1>3, <1>5
<1> QED
  BY <1>4, <1>6

\* A sum of weighted bits is below the next power of two.
LEMMA BitSumsBound ==
  ASSUME NEW n \in 0..Arity, NEW y, \A k \in 1..n : y[k] \in Bits, NEW s, BitSums(s, y, n)
  PROVE  \A k \in 0..n : s[k] \in 0..two_i[k] - 1
<1> DEFINE A == {k \in 0..n : s[k] \in 0..two_i[k] - 1}
<1>0. n \in Nat /\ 0 \in 0..n
  OBVIOUS
<1>1. 0 \in A
  <2>1. two_i[0] = 1 /\ s[0] = 0
    BY Powers DEF BitSums
  <2> QED
    BY <1>0, <2>1
<1>2. ASSUME NEW k \in 1..n, k - 1 \in A PROVE k \in A
  <2> PICK d : d = two_i[k - 1]
    OBVIOUS
  <2> PICK r : r = s[k - 1]
    OBVIOUS
  <2> PICK e : e = y[k]
    OBVIOUS
  <2>1. k \in 0..n /\ d \in Nat \ {0} /\ two_i[k] = 2 * d /\ s[k] = r + d * e
    BY PowersStep DEF BitSums
  <2>2. d * e = 0 \/ d * e = d
    BY <2>1 DEF Bits
  <2>3. r \in 0..d - 1
    BY <1>2
  <2> QED
    BY <2>1, <2>2, <2>3
<1> HIDE DEF A
<1>3. 0..n \subseteq A
  BY <1>0, <1>1, <1>2, CountingUp
<1> QED
  BY <1>3 DEF A

\* Bits that add up to x are the bits of x.
LEMMA BitsOfSum ==
  ASSUME NEW n \in 0..Arity, NEW y, \A k \in 1..n : y[k] \in Bits, NEW s, BitSums(s, y, n), NEW x, x = s[n]
  PROVE  BitsOf(y, x, n)
<1>0. n \in Nat /\ 0 \in 0..n /\ n \in 0..n
  OBVIOUS
<1> DEFINE Has(k) == \E q \in Nat : x = two_i[k] * q + s[k]
           A == {j \in 0..n : Has(n - j)}
<1>1. 0 \in A
  <2>1. two_i[n] \in Nat /\ s[n] \in Int /\ n - 0 = n
    BY <1>0, Powers DEF BitSums
  <2>2. x = two_i[n] * 0 + s[n]
    BY <2>1
  <2> QED
    BY <1>0, <2>1, <2>2
<1>2. ASSUME NEW k \in 1..n, Has(k) PROVE Has(k - 1) /\ y[k] = (x \div two_i[k - 1]) % 2
  <2> PICK d : d = two_i[k - 1]
    OBVIOUS
  <2> PICK r : r = s[k - 1]
    OBVIOUS
  <2> PICK e : e = y[k]
    OBVIOUS
  <2>1. k - 1 \in 0..n /\ d \in Nat \ {0} /\ two_i[k] = 2 * d /\ s[k] = r + d * e
    BY PowersStep DEF BitSums
  <2>2. PICK h \in Nat : x = (2 * d) * h + (r + d * e)
    BY <1>2, <2>1
  <2>3. e \in Bits /\ r \in 0..d - 1
    BY <2>1, BitSumsBound
  <2> PICK q : q = 2 * h + e
    OBVIOUS
  <2>4. q \in Nat /\ q % 2 = e
    BY <2>3 DEF Bits
  <2>5. x = d * q + r
    <3>1. d * q + r = (2 * d) * h + (r + d * e)
      <4>1. e \in Int /\ r \in Int
        BY <2>3 DEF Bits
      <4> QED
        BY <2>1, <2>4, <4>1, CarriedBit
    <3> QED
      BY <2>2, <3>1
  <2>6. x \div d = q
    BY <2>1, <2>3, <2>4, <2>5, DivisionUnique
  <2> QED
    BY <2>4, <2>5, <2>6
<1> HIDE DEF Has
<1>3. ASSUME NEW j \in 1..n, j - 1 \in A PROVE j \in A
  <2> PICK k : k = n - (j - 1)
    OBVIOUS
  <2>1. k \in 1..n /\ k - 1 = n - j /\ j \in 0..n
    OBVIOUS
  <2>2. Has(k)
    BY <1>3
  <2> QED
    BY <1>2, <2>1, <2>2
<1>4. 0..n \subseteq A
  <2> HIDE DEF A
  <2> QED
    BY <1>0, <1>1, <1>3, CountingUp
<1>5. ASSUME NEW k \in 1..n PROVE Has(k)
  <2>1. n - k \in 0..n /\ n - (n - k) = k
    OBVIOUS
  <2>2. n - k \in A
    BY <1>4, <2>1
  <2> QED
    BY <2>1, <2>2
<1> QED
  BY <1>2, <1>5 DEF BitsOf

LEMMA BitsAreBits ==
  ASSUME NEW n \in 0..Arity, NEW x \in Nat, NEW y, BitsOf(y, x, n)
  PROVE  \A k \in 1..n : y[k] \in Bits
<1> TAKE k \in 1..n
<1>1. two_i[k - 1] \in Nat \ {0}
  BY PowersStep
<1>2. \A d \in Nat \ {0} : (x \div d) % 2 \in {0, 1}
  BY DivisionByTwice
<1>3. y[k] \in {0, 1}
  BY <1>1, <1>2, Zenon DEF BitsOf
<1> QED
  BY <1>3 DEF Bits

LEMMA SameBits ==
  ASSUME NEW n, NEW x, NEW y, NEW z, BitsOf(y, x, n), BitsOf(z, x, n)
  PROVE  \A k \in 1..n : y[k] = z[k]
BY DEF BitsOf

LEMMA ValueOfNothing ==
  ASSUME NEW b
  PROVE  ValueIs(<<>>, b, 0)
<1> PICK l : l = [v \in {} |-> 0]
  OBVIOUS
<1>1. l = <<>>
  OBVIOUS
<1>2. DOMAIN l = {} /\ IsLC(l)
  BY FS_EmptySet DEF IsLC
<1>3. Eval(l, b) = SumFunctionOnSet(Terms(l, b, {}), {}) % P
  BY <1>2, FS_EmptySet, EvalOver
<1>4. SumFunctionOnSet(Terms(l, b, {}), {}) = 0
  BY FS_EmptySet, SumSteps
<1>5. 0 \in Field /\ 0 % P = 0
  <2>1. 0 \in Field
    BY DEF Field
  <2> QED
    BY <2>1, FieldSmall
<1> QED
  BY <1>1, <1>2, <1>3, <1>4, <1>5 DEF ValueIs

\* sum[i] is the combination WeightedBits has for the first i of the n wires ws.
WeightedSums(sum, v, ws, n) ==
    /\ sum[0] = <<>>
    /\ \A i \in 1..n : sum[i] = Plus(sum[i - 1], Times(two_i[i - 1], OutTerm(v, ws[i])))

LEMMA WeightedBitsIsLast ==
  ASSUME NEW v, NEW ws, NEW n \in Nat, n = Len(ws)
  PROVE  \E sum : WeightedSums(sum, v, ws, n) /\ WeightedBits(v, ws) = sum[n]
<1> DEFINE Is(f, k) == f = [i \in 0..k |-> IF i = 0 THEN <<>>
                                          ELSE Plus(f[i - 1], Times(two_i[i - 1], OutTerm(v, ws[i])))]
           A == {k \in 0..n : \E f : Is(f, k)}
           sum == CHOOSE f : Is(f, n)
<1>1. 0 \in A
  <2>1. Is([i \in 0..0 |-> <<>>], 0)
    OBVIOUS
  <2> HIDE DEF Is
  <2> QED
    BY <2>1
<1>2. ASSUME NEW k \in 1..n, k - 1 \in A PROVE k \in A
  <2>1. PICK f : Is(f, k - 1)
    BY <1>2
  <2> DEFINE g == [i \in 0..k |-> IF i = k THEN Plus(f[k - 1], Times(two_i[k - 1], OutTerm(v, ws[k])))
                                  ELSE f[i]]
  <2>2. \A i \in 0..k : g[i] = IF i = 0 THEN <<>>
                               ELSE Plus(g[i - 1], Times(two_i[i - 1], OutTerm(v, ws[i])))
    BY <2>1
  <2>3. Is(g, k)
    BY <2>2
  <2> HIDE DEF Is
  <2> QED
    BY <2>3
<1>3. Is(sum, n)
  <2> HIDE DEF A, Is
  <2>1. 0..n \subseteq A
    BY <1>1, <1>2, CountingUp
  <2>2. \E f : Is(f, n)
    BY <2>1 DEF A
  <2> QED
    BY <2>2
<1>4. WeightedBits(v, ws) = sum[n]
  BY DEF WeightedBits
<1> HIDE DEF sum
<1>5. sum[0] = <<>>
  BY <1>3
<1>6. \A i \in 1..n : sum[i] = Plus(sum[i - 1], Times(two_i[i - 1], OutTerm(v, ws[i])))
  BY <1>3
<1> HIDE DEF Is
<1>7. WeightedSums(sum, v, ws, n)
  BY <1>5, <1>6 DEF WeightedSums
<1> QED
  BY <1>4, <1>7

\* What the weighted sum of the bits' variables is worth.
LEMMA WeightedBitsValue ==
  ASSUME NEW v, NEW ws, NEW n \in 0..Arity, n = Len(ws), NEW b, NEW y,
         \A k \in 1..n : y[k] \in Field /\ ValueIs(OutTerm(v, ws[k]), b, y[k]), NEW s, BitSums(s, y, n)
  PROVE  \E z : ValueIs(WeightedBits(v, ws), b, z) /\ Cong(z, s[n])
<1>0. n \in Nat /\ 0 \in 0..n /\ n \in 0..n
  OBVIOUS
<1>0a. PICK sum : WeightedSums(sum, v, ws, n) /\ WeightedBits(v, ws) = sum[n]
  BY <1>0, WeightedBitsIsLast
<1>1. /\ sum[0] = <<>> /\ WeightedBits(v, ws) = sum[n]
      /\ \A i \in 1..n : sum[i] = Plus(sum[i - 1], Times(two_i[i - 1], OutTerm(v, ws[i])))
  BY <1>0a DEF WeightedSums
<1> DEFINE Means(k) == \E z : ValueIs(sum[k], b, z) /\ Cong(z, s[k])
           A == {k \in 0..n : Means(k)}
<1>2. 0 \in A
  <2>1. ValueIs(sum[0], b, 0)
    BY <1>1, ValueOfNothing
  <2>2. Cong(0, s[0])
    BY CongEquivalence DEF BitSums
  <2> QED
    BY <1>0, <2>1, <2>2
<1>3. ASSUME NEW k \in 1..n, Means(k - 1) PROVE Means(k)
  <2> PICK d : d = two_i[k - 1]
    OBVIOUS
  <2> PICK e : e = y[k]
    OBVIOUS
  <2> PICK r : r = s[k - 1]
    OBVIOUS
  <2> PICK p : p = d * e
    OBVIOUS
  <2> PICK q : q = p % P
    OBVIOUS
  <2>1. d \in Int /\ e \in Int /\ p \in Int /\ r \in Int /\ s[k] = r + p /\ q \in Int /\ Cong(q, p)
    <3>1. d \in Int /\ k - 1 \in 0..n
      BY PowersStep
    <3>2. e \in Int
      BY FieldIsInt
    <3>3. p \in Int
      BY <3>1, <3>2
    <3>4. r \in Int /\ s[k] = r + p
      BY <3>1 DEF BitSums
    <3>5. q \in Int /\ Cong(q, p)
      BY <3>3, CongRemainder
    <3> QED
      BY <3>1, <3>2, <3>3, <3>4, <3>5
  <2>2. PICK z : ValueIs(sum[k - 1], b, z) /\ Cong(z, r)
    BY <1>3
  <2>3. z \in Int
    BY <2>2, FieldIsInt DEF ValueIs
  <2>4. ValueIs(Times(d, OutTerm(v, ws[k])), b, q)
    BY <2>1, ValueOfTimes
  <2>5. ValueIs(sum[k], b, (z + q) % P)
    BY <1>1, <2>2, <2>4, ValueOfPlus
  <2>6. Cong(z + q, r + p)
    BY <2>1, <2>2, <2>3, CongPlus
  <2>7. Cong((z + q) % P, z + q)
    <3>1. z + q \in Int
      BY <2>1, <2>3
    <3> QED
      BY <3>1, CongRemainder
  <2>8. Cong((z + q) % P, s[k])
    BY <2>1, <2>6, <2>7, CongEquivalence
  <2> QED
    BY <2>5, <2>8
<1>4. 0..n \subseteq A
  <2>1. ASSUME NEW k \in 1..n, k - 1 \in A PROVE k \in A
    BY <1>3, <2>1
  <2> HIDE DEF A
  <2> QED
    BY <1>0, <1>2, <2>1, CountingUp
<1>5. Means(n)
  BY <1>0, <1>4
<1> QED
  BY <1>1, <1>5

\* The constraint of a bit says that it is one.
LEMMA BitMeans ==
  ASSUME NEW m, NEW b, NEW y, ValueIs(m, b, y)
  PROVE  Holds(R1(m, Minus(m, Const(1)), Const(0)), b) <=> y \in Bits
<1> PICK e : e = 1
  OBVIOUS
<1>1. y \in Field /\ y \in Int /\ e \in Field /\ e \in Int /\ 0 \in Field
  BY FieldIsInt DEF ValueIs, Field
<1>2. ValueIs(Const(e), b, e) /\ ValueIs(Const(0), b, 0)
  BY <1>1, ValueOfConst
<1>3. PICK d : ValueIs(Minus(m, Const(e)), b, d) /\ Cong(d, y - e)
  BY <1>2, ValueOfMinus
<1>4. d \in Int
  BY <1>3, FieldIsInt DEF ValueIs
<1>5. Holds(R1(m, Minus(m, Const(e)), Const(0)), b) <=> Cong(y * d, 0)
  BY <1>2, <1>3, HoldsMeans
<1>6. CASE y = 0
  <2>1. y * d = 0
    BY <1>4, <1>6
  <2> QED
    BY <1>5, <1>6, <2>1, CongEquivalence DEF Bits
<1>7. CASE y # 0
  <2> PICK c : c = y - e
    OBVIOUS
  <2>1. Cong(c, 0) <=> y = e
    <3>1. Cong(y - e, e - e) <=> Cong(y, e)
      <4>1. \A a, f \in Int : a - f = a + (-f)
        OBVIOUS
      <4>2. ASSUME Cong(y, e) PROVE Cong(y - e, e - e)
        <5>1. -e \in Int /\ Cong(-e, -e)
          BY <1>1, CongEquivalence
        <5> PICK f \in Int : f = -e /\ Cong(f, f)
          BY <5>1
        <5>2. Cong(y + f, e + f)
          BY <1>1, <4>2, CongPlus
        <5>3. y + f = y - e /\ e + f = e - e
          BY <1>1
        <5> QED
          BY <5>2, <5>3
      <4>3. ASSUME Cong(y - e, e - e) PROVE Cong(y, e)
        <5>1. e \in Int /\ Cong(e, e) /\ y - e \in Int /\ e - e \in Int
          BY <1>1, CongEquivalence
        <5> PICK g : g = y - e
          OBVIOUS
        <5> PICK h : h = e - e
          OBVIOUS
        <5>2. Cong(g + e, h + e)
          BY <4>3, <5>1, CongPlus
        <5>3. g + e = y /\ h + e = e
          BY <1>1
        <5> QED
          BY <5>2, <5>3
      <4> QED
        BY <4>2, <4>3
    <3>2. Cong(y, e) <=> y = e
      BY <1>1, CongOfField
    <3>3. e - e = 0
      BY <1>1
    <3> QED
      BY <3>1, <3>2, <3>3
  <2>2. ASSUME Cong(y * d, 0) PROVE y = e
    <3>1. Cong(d, 0)
      BY <1>1, <1>4, <1>7, <2>2, NoZeroDivisors
    <3> QED
      BY <1>3, <2>1, <3>1, CongEquivalence
  <2>3. ASSUME y = e PROVE Cong(y * d, 0)
    <3>1. Cong(d, 0)
      BY <1>3, <2>1, <2>3, CongEquivalence
    <3>2. y * d = d
      BY <1>4, <2>3
    <3> QED
      BY <3>1, <3>2
  <2> QED
    BY <1>5, <1>7, <2>2, <2>3 DEF Bits
<1> QED
  BY <1>6, <1>7

\* The constraints AddSplitConstraint adds for the input l and the wires ws.
SplitConstraints(l, u, ws) ==
    {R1(OutTerm(u, ws[i]), Minus(OutTerm(u, ws[i]), Const(1)), Const(0)) : i \in DOMAIN ws}
      \cup {R1(l, Const(1), WeightedBits(u, ws))}

\* What they say of the input's value x and of the values y of the wires.
LEMMA SplitEquations ==
  ASSUME NEW u, NEW ws, NEW n \in 0..Arity, n = Len(ws), DOMAIN ws = 1..n, NEW b, NEW l, NEW x, ValueIs(l, b, x),
         NEW y, \A k \in 1..n : y[k] \in Field /\ ValueIs(OutTerm(u, ws[k]), b, y[k]),
         NEW s, BitSums(s, y, n)
  PROVE  (\A r \in SplitConstraints(l, u, ws) : Holds(r, b))
           <=> (\A k \in 1..n : y[k] \in Bits) /\ Cong(x, s[n])
<1> PICK w : w = WeightedBits(u, ws)
  OBVIOUS
<1>1. PICK z : ValueIs(w, b, z) /\ Cong(z, s[n])
  BY WeightedBitsValue
<1>2. Holds(R1(l, Const(1), w), b) <=> Cong(x, s[n])
  <2> PICK e : e = 1
    OBVIOUS
  <2>1. e \in Field
    BY DEF Field
  <2>2. ValueIs(Const(e), b, e)
    BY <2>1, ValueOfConst
  <2>3. Holds(R1(l, Const(e), w), b) <=> Cong(x * e, z)
    BY <1>1, <2>2, HoldsMeans
  <2>4. x * e = x
    BY FieldIsInt DEF ValueIs
  <2> QED
    BY <1>1, <2>3, <2>4, CongEquivalence
<1>3. ASSUME NEW k \in 1..n
      PROVE  Holds(R1(OutTerm(u, ws[k]), Minus(OutTerm(u, ws[k]), Const(1)), Const(0)), b) <=> y[k] \in Bits
  BY BitMeans
<1>4. (\A r \in SplitConstraints(l, u, ws) : Holds(r, b))
        <=> /\ \A k \in 1..n : Holds(R1(OutTerm(u, ws[k]), Minus(OutTerm(u, ws[k]), Const(1)), Const(0)), b)
            /\ Holds(R1(l, Const(1), w), b)
  BY Zenon DEF SplitConstraints
<1> QED
  BY <1>2, <1>3, <1>4

LEMMA SplitMeans ==
  ASSUME Working, Line.op = "split", NEW u, Grows(vs, u, Range(Line.out)), NEW l, Stands(l, Line.in[1])
  PROVE  Decided(SplitConstraints(l, u, Line.out), u, 0)
<1> PICK g : g = Line
  OBVIOUS
<1> PICK ws : ws = g.out
  OBVIOUS
<1> PICK n : n = Arity
  OBVIOUS
<1>c. PICK cs : cs = SplitConstraints(l, u, ws)
  OBVIOUS
<1>x. PICK x : x = values[g.in[1]]
  OBVIOUS
<1>1. Ins(g) = 1 /\ Outs(g) = n
  BY DEF Ins, Outs
<1>2. /\ ws \in Seq(Wires) /\ Len(ws) = n /\ DOMAIN ws = 1..n /\ n \in 0..Arity /\ n \in Nat
      /\ GateOK(g, Before(next)) /\ Defined(g) = Range(ws)
  <2>1. ws \in Seq(Wires) /\ Len(ws) = n /\ GateOK(g, Before(next))
    BY <1>1, LineShape
  <2>2. Defined(g) = Range(ws)
    BY DEF Defined
  <2> QED
    BY <2>1, <2>2
<1>3. x \in Field /\ x \in Nat /\ InputValues(g)[1] = x
  <2>1. 1 \in 1..Ins(g)
    BY <1>1
  <2> QED
    BY <1>x, <2>1, InWires, FieldIsInt
<1>o. PICK o : o = [k \in 1..n |-> values[ws[k]]]
  OBVIOUS
<1>4. BitsOf(o, x, n)
  <2> SUFFICES ASSUME NEW k \in 1..n PROVE o[k] = (x \div two_i[k - 1]) % 2
    BY DEF BitsOf
  <2>1. o[k] = Result(g, InputValues(g))[k]
    BY <1>1, <1>2, <1>o DEF GateOK
  <2>2. Result(g, InputValues(g)) = [i \in 1..n |-> (x \div two_i[i - 1]) % 2]
    BY <1>2, <1>3 DEF Result
  <2> QED
    BY <2>1, <2>2
<1>4a. \A k \in 1..n : o[k] = values[ws[k]] /\ values[ws[k]] \in Field
  <2> TAKE k \in 1..n
  <2>1. ws[k] \in Wires
    BY <1>2, ElementOfSeq
  <2> QED
    BY <1>o, <2>1 DEF Working, IInv, Circuit
<1>6. \A k \in 1..n : ws[k] \in DOMAIN u.of /\ u.of[ws[k]] # One /\ ws[k] \in Range(ws)
  <2> TAKE k \in 1..n
  <2>1. ws[k] \in Range(ws)
    BY <1>2 DEF Range
  <2> QED
    BY <2>1 DEF Grows, IsVarMap, One
<1>7. \A w \in Range(ws) : w \in DOMAIN u.of /\ \E k \in 1..n : w = ws[k]
  BY <1>2, <1>6 DEF Range
<1>8. Defined(g) \cap DOMAIN u.of = Range(ws)
  BY <1>2, <1>7
<1>9. ASSUME NEW b, Sees(b), \A k \in 1..n : b[u.of[ws[k]]] \in Field,
             NEW y, \A k \in 1..n : y[k] = b[u.of[ws[k]]], NEW s, BitSums(s, y, n)
      PROVE  (\A r \in cs : Holds(r, b)) <=> (\A k \in 1..n : y[k] \in Bits) /\ Cong(x, s[n])
  <2>1. ValueIs(l, b, x)
    BY <1>9, <1>x, StandsIsValue
  <2>2. \A k \in 1..n : y[k] \in Field /\ ValueIs(OutTerm(u, ws[k]), b, y[k])
    <3> TAKE k \in 1..n
    <3> PICK v : v = u.of[ws[k]]
      OBVIOUS
    <3>1. v # One /\ b[v] \in Field
      BY <1>6, <1>9
    <3>2. ValueIs(Term(v, 1), b, b[v])
      BY <3>1, ValueOfTerm
    <3> QED
      BY <1>9, <3>1, <3>2 DEF OutTerm
  <2>3. (\A r \in SplitConstraints(l, u, ws) : Holds(r, b))
           <=> (\A k \in 1..n : y[k] \in Bits) /\ Cong(x, s[n])
    <3>1. n \in 0..Arity /\ n = Len(ws) /\ DOMAIN ws = 1..n
      BY <1>2
    <3>2. BitSums(s, y, n)
      BY <1>9
    <3> QED
      BY <2>1, <2>2, <3>1, <3>2, SplitEquations
  <2> QED
    BY <1>c, <2>3
<1>10. InRange(g) <=> x < two_i[n] /\ two_i[n] <= P
  <2>1. 1 \in DOMAIN g.in
    BY <1>1, <1>2 DEF GateOK
  <2> QED
    BY <1>2, <1>x, <2>1 DEF InRange
<1>11. n \in 0..n /\ two_i[n] \in Nat
  BY <1>2, Powers
<1>12. Sound(cs, u, 0)
  <2> SUFFICES ASSUME NEW b, Sees(b), \A w \in Range(ws) : b[u.of[w]] \in Field, InRange(g),
                      \A r \in cs : Holds(r, b), NEW w \in Range(ws)
               PROVE  b[u.of[w]] = values[w]
    BY <1>8 DEF Sound
  <2> PICK y : y = [k \in 1..n |-> b[u.of[ws[k]]]]
    OBVIOUS
  <2>1. \A k \in 1..n : y[k] = b[u.of[ws[k]]] /\ y[k] \in Field /\ y[k] \in Int
    BY <1>6, FieldIsInt
  <2>2. PICK s : BitSums(s, y, n)
    BY <1>2, <2>1, BitSumsExist
  <2>3. (\A k \in 1..n : y[k] \in Bits) /\ Cong(x, s[n])
    BY <1>9, <2>1, <2>2
  <2>4. s[n] \in 0..two_i[n] - 1
    BY <1>2, <1>11, <2>2, <2>3, BitSumsBound
  <2>5. s[n] \in Field
    BY <1>10, <1>11, <2>4 DEF Field
  <2>6. s[n] = x
    BY <1>3, <2>3, <2>5, CongOfField
  <2>7. BitsOf(y, x, n)
    BY <1>2, <2>2, <2>3, <2>6, BitsOfSum
  <2>8. \A k \in 1..n : y[k] = values[ws[k]]
    BY <1>4, <1>4a, <2>7, SameBits
  <2> QED
    BY <1>7, <2>1, <2>8
<1>13. Complete(cs, u, 0)
  <2> SUFFICES ASSUME NEW b, Sees(b), \A w \in Range(ws) : b[u.of[w]] = values[w], InRange(g)
               PROVE  \A r \in cs : Holds(r, b)
    BY <1>8 DEF Complete
  <2>1. \A k \in 1..n : o[k] = b[u.of[ws[k]]] /\ b[u.of[ws[k]]] \in Field
    BY <1>4a, <1>6
  <2>4. \A k \in 1..n : o[k] \in Int
    BY <2>1, FieldIsInt
  <2>5. PICK s : BitSums(s, o, n)
    BY <1>2, <2>4, BitSumsExist
  <2>6. s[n] = x
    BY <1>2, <1>3, <1>4, <1>10, <2>5, SumOfBits
  <2>7. \A k \in 1..n : o[k] \in Bits
    BY <1>2, <1>3, <1>4, BitsAreBits
  <2>8. Cong(x, s[n])
    BY <2>6, CongEquivalence
  <2> QED
    BY <1>9, <2>1, <2>5, <2>7, <2>8
<1> QED
  BY <1>c, <1>12, <1>13 DEF Decided

LEMMA SplitDecided ==
  ASSUME Working, Line.op = "split", NEW u, u = DeclareAll(vs, Line.out)
  PROVE  Decided(SplitConstraints(Found1.heap[Found1.ptr], u, Line.out), u, 0)
<1> PICK g : g = Line
  OBVIOUS
<1> PICK W : W = Range(g.out)
  OBVIOUS
<1>1. Grows(vs, u, W)
  <2>1. IsVarMap(vs) /\ g.out \in Seq(Wires)
    BY LineShape DEF Working, IInv
  <2> QED
    BY <2>1, DeclareAllGrows
<1>2. Stands(Found1.heap[Found1.ptr], g.in[1])
  <2> PICK r : r = Reads(g)
    OBVIOUS
  <2>1. r = g.in /\ Len(r) = 1
    BY LineShape DEF Ins
  <2>2. Len(r) >= 1 /\ r[1] = g.in[1]
    BY <2>1
  <2> QED
    BY <2>2, InputsStand
<1> QED
  BY <1>1, <1>2, SplitMeans

-----------------------------------------------------------------------------
(* Every gate's constraints force its outputs *)

\* The variables of the outputs of the gate h, under the variable map u.
OutputVars(h, u) == {u.of[w] : w \in Defined(h) \cap DOMAIN u.of}

\* The assignments of the gate's outputs and of its auxiliary variable, by the table f,
\* that satisfy its constraints cs when the other variables have the values of full.
Satisfying(h, cs, u, f, full) ==
    {a \in [OutputVars(h, u) \cup {f[w] : w \in Defined(h) \cap DOMAIN f} -> Field] :
       \A r \in cs : Holds(r, Completed(a, full))}

ForcedTo(S, V, full) == \A a \in S : \A v \in V : a[v] = full[v]

LEMMA LastIsAppended ==
  ASSUME NEW s, s \in Seq(Range(s)), NEW x, NEW n, n = Len(s) + 1
  PROVE  Append(s, x)[n] = x
<1> PICK S : S = Range(s) \cup {x}
  OBVIOUS
<1>1. s \in Seq(S) /\ x \in S
  BY SeqMonotonic
<1> QED
  BY <1>1, AppendProperties

LEMMA ForcesIsGateSound ==
  ASSUME Working, NEW t, NEW cs, Handled(t, cs), NEW f, f = zeroOf', NEW u, u = vs', NEW full, full = Intended',
         NEW h, h = Line, NEW S, S = Satisfying(h, cs, u, f, full),
         (h.op = "assert" \/ InRange(h)) /\ S # {} => InRange(h) /\ ForcedTo(S, OutputVars(h, u), full)
  PROVE  GateSound'
<1> PICK n : n = next
  OBVIOUS
<1>1. /\ cons' = Append(cons, cs) /\ next' = n + 1 /\ gates' = gates /\ values' = values
      /\ h = gates[n]
  BY DEF Handled, parsed, Working, IInv, Circuit, Line
<1>2. next' - 1 = n
  <2>1. n \in Nat /\ next' = n + 1
    BY <1>1 DEF Working
  <2> QED
    BY <2>1
<1>3. cons'[next' - 1] = cs
  <2>1. cons \in Seq(Range(cons)) /\ n = Len(cons) + 1
    BY DEF Working, IInv, Seqs
  <2> QED
    BY <1>1, <1>2, <2>1, LastIsAppended
<1>4. gates'[next' - 1] = h
  BY <1>1, <1>2
<1>5. InRange(gates[next - 1])' <=> InRange(h)
  BY <1>1, <1>4, Zenon DEF InRange
<1> DEFINE T == Satisfying(gates[next - 1], cons[next - 1], vs, zeroOf, Intended)
<1>6. GateSound'
        <=> (phase' = "construct" /\ next' > 1 =>
              \A a \in T' :
                gates'[next' - 1].op = "assert" \/ InRange(gates[next - 1])'
                  => /\ \A v \in OutputVars(gates'[next' - 1], vs') : a[v] = Intended'[v]
                     /\ InRange(gates[next - 1])')
  BY Zenon DEF GateSound, Satisfying, OutputVars
<1>7. T' = S
  BY <1>3, <1>4
<1> HIDE DEF T
<1>8. GateSound'
        <=> (phase' = "construct" /\ next' > 1 =>
              \A a \in S : h.op = "assert" \/ InRange(h) => (\A v \in OutputVars(h, u) : a[v] = full[v]) /\ InRange(h))
  BY <1>4, <1>5, <1>6, <1>7
<1> QED
  BY <1>8 DEF ForcedTo

\* The intended assignment after the gate, for its variables and those before.
LEMMA IntendedAfter ==
  ASSUME Working, NEW t, NEW cs, Handled(t, cs), VarsGrow, NEW u, u = vs', NEW full, full = Intended'
  PROVE  /\ DOMAIN full = Range(u.of)
         /\ \A w \in DOMAIN u.of : u.of[w] \in Range(u.of) /\ full[u.of[w]] = values[w]
<1>1. full = [v \in Range(u.of) |-> values[CHOOSE w \in DOMAIN u.of : u.of[w] = v]]
  BY DEF Intended, Handled, parsed
<1>2. \A w, x \in DOMAIN u.of : u.of[w] = u.of[x] => w = x
  BY DEF VarsGrow, IsVarMap
<1>3. ASSUME NEW w \in DOMAIN u.of PROVE u.of[w] \in Range(u.of) /\ full[u.of[w]] = values[w]
  <2>1. u.of[w] \in Range(u.of)
    BY DEF Range
  <2>2. (CHOOSE x \in DOMAIN u.of : u.of[x] = u.of[w]) = w
    BY <1>2
  <2> QED
    BY <1>1, <2>1, <2>2
<1> QED
  BY <1>1, <1>3

LEMMA SoundIsGateSound ==
  ASSUME Working, NEW t, NEW cs, Handled(t, cs), VarsGrow, NEW f, f = zeroOf', NEW u, u = vs',
         NEW z, Sound(cs, u, z), NEW X, X = {f[w] : w \in Defined(Line) \cap DOMAIN f},
         X \cap Range(u.of) = {}, Line.op = "zerop" => z \in X
  PROVE  GateSound'
<1> PICK full : full = Intended'
  OBVIOUS
<1> PICK h : h = Line
  OBVIOUS
<1> PICK V : V = OutputVars(h, u)
  OBVIOUS
<1> PICK S : S = Satisfying(h, cs, u, f, full)
  OBVIOUS
<1>1. /\ DOMAIN full = Range(u.of)
      /\ \A w \in DOMAIN u.of : u.of[w] \in Range(u.of) /\ full[u.of[w]] = values[w]
  BY IntendedAfter
<1>2. V = {u.of[w] : w \in Defined(h) \cap DOMAIN u.of}
  BY DEF OutputVars
<1>3. Defined(h) \cap Before(next) = {}
  BY LineShape DEF GateOK
<1>4. ASSUME NEW a \in S, NEW b, b = Completed(a, full)
      PROVE  /\ Sees(b) /\ \A r \in cs : Holds(r, b)
             /\ \A w \in Defined(h) \cap DOMAIN u.of : b[u.of[w]] = a[u.of[w]] /\ a[u.of[w]] \in Field
             /\ h.op = "zerop" => b[z] \in Field
  <2>1. a \in [V \cup X -> Field] /\ \A r \in cs : Holds(r, b)
    BY <1>4 DEF Satisfying, OutputVars
  <2>2. b = [v \in DOMAIN a \cup DOMAIN full |-> IF v \in DOMAIN a THEN a[v] ELSE full[v]]
    BY <1>4 DEF Completed
  <2>3. Sees(b)
    <3> SUFFICES ASSUME NEW w \in DOMAIN vs.of, w \in Before(next) PROVE b[vs.of[w]] = values[w]
      BY DEF Sees
    <3>1. w \in DOMAIN u.of /\ u.of[w] = vs.of[w]
      BY DEF VarsGrow
    <3>2. u.of[w] \in Range(u.of) /\ full[u.of[w]] = values[w]
      BY <1>1, <3>1
    <3>3. u.of[w] \notin V
      <4>1. \A x \in DOMAIN u.of : u.of[x] = u.of[w] => x = w
        BY <3>1 DEF VarsGrow, IsVarMap
      <4>2. w \notin Defined(h)
        BY <1>3
      <4> QED
        BY <1>2, <4>1, <4>2
    <3>4. u.of[w] \notin X
      BY <3>2
    <3> QED
      BY <1>1, <2>1, <2>2, <3>1, <3>2, <3>3, <3>4
  <2>4. \A w \in Defined(h) \cap DOMAIN u.of : b[u.of[w]] = a[u.of[w]] /\ a[u.of[w]] \in Field
    <3> TAKE w \in Defined(h) \cap DOMAIN u.of
    <3>1. u.of[w] \in V
      BY <1>2
    <3> QED
      BY <2>1, <2>2, <3>1
  <2>5. h.op = "zerop" => b[z] \in Field
    BY <2>1, <2>2
  <2> QED
    BY <2>1, <2>3, <2>4, <2>5
<1>5. ASSUME NEW a \in S, h.op = "assert" \/ InRange(h)
      PROVE  InRange(h) /\ \A w \in Defined(h) \cap DOMAIN u.of : a[u.of[w]] = values[w]
  <2> PICK b : b = Completed(a, full)
    OBVIOUS
  <2>1. /\ Sees(b) /\ \A r \in cs : Holds(r, b)
        /\ \A w \in Defined(h) \cap DOMAIN u.of : b[u.of[w]] = a[u.of[w]] /\ a[u.of[w]] \in Field
        /\ h.op = "zerop" => b[z] \in Field
    BY <1>4
  <2>2. InRange(Line) /\ \A w \in Defined(Line) \cap DOMAIN u.of : b[u.of[w]] = values[w]
    BY <1>5, <2>1 DEF Sound
  <2> QED
    BY <2>1, <2>2
<1>6. (h.op = "assert" \/ InRange(h)) /\ S # {} => InRange(h) /\ ForcedTo(S, V, full)
  <2> SUFFICES ASSUME h.op = "assert" \/ InRange(h), S # {} PROVE InRange(h) /\ ForcedTo(S, V, full)
    OBVIOUS
  <2>1. InRange(h)
    BY <1>5
  <2>2. ASSUME NEW a \in S, NEW v \in V PROVE a[v] = full[v]
    <3>1. PICK w \in Defined(h) \cap DOMAIN u.of : v = u.of[w]
      BY <1>2
    <3> QED
      BY <1>1, <1>5, <3>1
  <2> QED
    BY <2>1, <2>2 DEF ForcedTo
<1> QED
  BY <1>6, ForcesIsGateSound

-----------------------------------------------------------------------------
(* What the handlers do *)

\* A zerop gate gets an auxiliary variable z that no wire has; others leave the table alone.
Auxiliary(z) ==
    IF Line.op = "zerop"
    THEN Extended(zeroOf', zeroOf, Out, z) /\ z \in Nat /\ z >= vs.n /\ z \notin Range(vs'.of)
    ELSE zeroOf' = zeroOf

\* The gate's constraints cs were added, and decide the gate.
DecidedBy(t, cs, z) == Handled(t, cs) /\ VarsGrow /\ Decided(cs, vs', z) /\ Auxiliary(z)

LEMMA DeclaredGrows ==
  ASSUME IInv, NEW W, NEW u, u = vs', Grows(vs, u, W), NEW t, NEW cs, Handled(t, cs)
  PROVE  VarsGrow
<1>1. Wires' = Wires
  BY DEF Handled, parsed, Wires
<1> QED
  BY <1>1, GrowsIsVarsGrow

LEMMA TwoInputStep ==
  ASSUME Working, Line.op \in {"mul", "xor", "or"}, vs' = Declare(vs, Out), zeroOf' = zeroOf,
         NEW cs, Handled(Found2, cs), Decided(cs, vs', 0)
  PROVE  \E t, c, z : DecidedBy(t, c, z)
<1> PICK t : t = Found2
  OBVIOUS
<1> PICK u : u = vs'
  OBVIOUS
<1>1. Grows(vs, u, {Out})
  BY OutVariable
<1> PICK W : W = {Out}
  OBVIOUS
<1>2. VarsGrow
  <2>1. IInv /\ Grows(vs, u, W) /\ Handled(t, cs)
    BY <1>1 DEF Working
  <2> QED
    BY <2>1, DeclaredGrows
<1>3. Auxiliary(0)
  BY DEF Auxiliary
<1>4. DecidedBy(t, cs, 0)
  BY <1>2, <1>3 DEF DecidedBy
<1> QED
  BY <1>4

LEMMA AddMulDecides == IInv /\ AddMulConstraint => Working /\ \E t, cs, z : DecidedBy(t, cs, z)
<1> SUFFICES ASSUME IInv, AddMulConstraint PROVE Working /\ \E t, cs, z : DecidedBy(t, cs, z)
  OBVIOUS
<1> PICK op : op = "mul"
  OBVIOUS
<1> PICK u : u = vs'
  OBVIOUS
<1> PICK cs : cs = {R1(L1, L2, OutTerm(u, Out))}
  OBVIOUS
<1>1. At(op) /\ u = Declare(vs, Out) /\ Handled(Found2, cs) /\ zeroOf' = zeroOf
  BY DEF AddMulConstraint
<1>2. Working /\ Line.op = op
  BY <1>1, AtIsWorking
<1>3. Decided(cs, u, 0)
  BY <1>1, <1>2, MulDecided
<1> QED
  BY <1>1, <1>2, <1>3, TwoInputStep

LEMMA AddXorDecides == IInv /\ AddXorConstraint => Working /\ \E t, cs, z : DecidedBy(t, cs, z)
<1> SUFFICES ASSUME IInv, AddXorConstraint PROVE Working /\ \E t, cs, z : DecidedBy(t, cs, z)
  OBVIOUS
<1> PICK op : op = "xor"
  OBVIOUS
<1> PICK u : u = vs'
  OBVIOUS
<1> PICK cs : cs = {R1(Times(2, L1), L2, Minus(Plus(L1, L2), OutTerm(u, Out)))}
  OBVIOUS
<1>1. At(op) /\ u = Declare(vs, Out) /\ Handled(Found2, cs) /\ zeroOf' = zeroOf
  BY DEF AddXorConstraint
<1>2. Working /\ Line.op = op
  BY <1>1, AtIsWorking
<1>3. Decided(cs, u, 0)
  BY <1>1, <1>2, XorDecided
<1> QED
  BY <1>1, <1>2, <1>3, TwoInputStep

LEMMA AddOrDecides == IInv /\ AddOrConstraint => Working /\ \E t, cs, z : DecidedBy(t, cs, z)
<1> SUFFICES ASSUME IInv, AddOrConstraint PROVE Working /\ \E t, cs, z : DecidedBy(t, cs, z)
  OBVIOUS
<1> PICK op : op = "or"
  OBVIOUS
<1> PICK u : u = vs'
  OBVIOUS
<1> PICK cs : cs = {R1(L1, L2, Minus(Plus(L1, L2), OutTerm(u, Out)))}
  OBVIOUS
<1>1. At(op) /\ u = Declare(vs, Out) /\ Handled(Found2, cs) /\ zeroOf' = zeroOf
  BY DEF AddOrConstraint
<1>2. Working /\ Line.op = op
  BY <1>1, AtIsWorking
<1>3. Decided(cs, u, 0)
  BY <1>1, <1>2, OrDecided
<1> QED
  BY <1>1, <1>2, <1>3, TwoInputStep

LEMMA AddAssertionDecides ==
  IInv /\ AddAssertionConstraint => Working /\ \E t, cs, z : DecidedBy(t, cs, z)
<1> SUFFICES ASSUME IInv, AddAssertionConstraint PROVE Working /\ \E t, cs, z : DecidedBy(t, cs, z)
  OBVIOUS
<1> PICK op : op = "assert"
  OBVIOUS
<1> PICK t : t = Find(Found2, Out, FALSE)
  OBVIOUS
<1> PICK cs : cs = {R1(L1, L2, t.heap[t.ptr])}
  OBVIOUS
<1> PICK u : u = vs'
  OBVIOUS
<1>1. At(op) /\ vs' = vs /\ Handled(t, cs) /\ zeroOf' = zeroOf
  BY DEF AddAssertionConstraint
<1>2. Working /\ Line.op = op
  BY <1>1, AtIsWorking
<1>3. Decided(cs, u, 0)
  BY <1>2, AssertionDecided
<1>4. VarsGrow
  <2>1. Wires' = Wires
    BY <1>1 DEF Handled, parsed, Wires
  <2> QED
    BY <1>1, <2>1, SameVarsGrow DEF IInv
<1>5. Auxiliary(0)
  BY <1>1, <1>2 DEF Auxiliary
<1>6. DecidedBy(t, cs, 0)
  BY <1>1, <1>3, <1>4, <1>5 DEF DecidedBy
<1> QED
  BY <1>2, <1>6

LEMMA AddSplitDecides == IInv /\ AddSplitConstraint => Working /\ \E t, cs, z : DecidedBy(t, cs, z)
<1> SUFFICES ASSUME IInv, AddSplitConstraint PROVE Working /\ \E t, cs, z : DecidedBy(t, cs, z)
  OBVIOUS
<1> PICK op : op = "split"
  OBVIOUS
<1> PICK u : u = vs'
  OBVIOUS
<1> PICK t : t = Found1
  OBVIOUS
<1> PICK cs : cs = SplitConstraints(Found1.heap[Found1.ptr], u, Line.out)
  OBVIOUS
<1>1. At(op) /\ u = DeclareAll(vs, Line.out) /\ zeroOf' = zeroOf
  BY DEF AddSplitConstraint
<1>2. Handled(t, cs)
  BY DEF AddSplitConstraint, SplitConstraints
<1>3. Working /\ Line.op = op
  BY <1>1, AtIsWorking
<1>4. Decided(cs, u, 0)
  BY <1>1, <1>3, SplitDecided
<1> PICK ws : ws = Line.out
  OBVIOUS
<1> PICK W : W = Range(ws)
  OBVIOUS
<1>5. Grows(vs, u, W)
  <2>1. IsVarMap(vs) /\ ws \in Seq(Wires) /\ u = DeclareAll(vs, ws)
    BY <1>1, <1>3, LineShape DEF Working, IInv
  <2> QED
    BY <2>1, DeclareAllGrows
<1>6. VarsGrow
  BY <1>2, <1>5, DeclaredGrows
<1>7. Auxiliary(0)
  BY <1>1, <1>3 DEF Auxiliary
<1>8. DecidedBy(t, cs, 0)
  BY <1>2, <1>4, <1>6, <1>7 DEF DecidedBy
<1> QED
  BY <1>3, <1>8

LEMMA AddNonzeroCheckDecides ==
  IInv /\ AddNonzeroCheckConstraint => Working /\ \E t, cs, z : DecidedBy(t, cs, z)
<1> SUFFICES ASSUME IInv, AddNonzeroCheckConstraint PROVE Working /\ \E t, cs, z : DecidedBy(t, cs, z)
  OBVIOUS
<1> PICK op : op = "zerop"
  OBVIOUS
<1> PICK v : v = Declare(vs, Out)
  OBVIOUS
<1> PICK u : u = [v EXCEPT !.n = @ + 1]
  OBVIOUS
<1> PICK t : t = Found1
  OBVIOUS
<1> PICK z : z = v.n
  OBVIOUS
<1> PICK cs : cs = NonzeroConstraints(Found1.heap[Found1.ptr], OutTerm(v, Out), Term(z, 1))
  OBVIOUS
<1>1. At(op) /\ vs' = u /\ Handled(t, cs) /\ zeroOf' = With(zeroOf, Out, z)
  BY DEF AddNonzeroCheckConstraint
<1>2. Working /\ Line.op = op
  BY <1>1, AtIsWorking
<1>3. Decided(cs, v, z)
  BY <1>2, ZeropDecided
<1>4. Grows(vs, v, {Out})
  BY <1>2, OutVariable
<1> PICK W : W = {Out}
  OBVIOUS
<1>5. Grows(vs, u, W) /\ u.n = z + 1 /\ z \in Nat /\ u.of = v.of
  <2>1. IsVarMap(vs) /\ Grows(vs, v, W)
    BY <1>4 DEF IInv
  <2>2. u.of = v.of
    BY <2>1 DEF Grows, IsVarMap
  <2> QED
    BY <2>1, <2>2, AuxiliaryGrows
<1>6. VarsGrow
  BY <1>1, <1>5, DeclaredGrows
<1>7. Decided(cs, u, z)
  BY <1>3, <1>5 DEF Decided, Sound, Complete
<1>8. z >= vs.n /\ z \notin Range(u.of)
  <2>1. v.of \in [DOMAIN v.of -> 0..z - 1] /\ z >= vs.n
    BY <1>4 DEF Grows, IsVarMap
  <2> QED
    BY <1>5, <2>1 DEF Range
<1>9. Extended(zeroOf', zeroOf, Out, z)
  BY <1>1, WithFields
<1>10. Auxiliary(z)
  BY <1>1, <1>2, <1>5, <1>8, <1>9 DEF Auxiliary
<1>11. DecidedBy(t, cs, z)
  BY <1>1, <1>6, <1>7, <1>10 DEF DecidedBy
<1> QED
  BY <1>2, <1>11

LEMMA LinearDecides ==
  ASSUME IInv, NEW op \in Editing, At(op), NEW s, Linear(s)
  PROVE  Working /\ \E t, cs, z : DecidedBy(t, cs, z)
<1>1. Working /\ Line.op = op
  BY AtIsWorking
<1> PICK t : t = [s EXCEPT !.lcOf = With(@, Out, s.ptr)]
  OBVIOUS
<1> PICK cs : cs = {}
  OBVIOUS
<1> PICK u : u = vs'
  OBVIOUS
<1>2. Handled(t, cs) /\ vs' = vs /\ zeroOf' = zeroOf /\ Out \notin DOMAIN vs.of
  BY DEF Linear
<1>3. VarsGrow
  <2>1. Wires' = Wires
    BY <1>2 DEF Handled, parsed, Wires
  <2> QED
    BY <1>2, <2>1, SameVarsGrow DEF IInv
<1>4. Defined(Line) = {Out} /\ Line.op \notin {"assert", "zerop", "xor", "or", "split"}
  BY <1>1, LineShape DEF Editing
<1>5. InRange(Line)
  BY <1>4 DEF InRange
<1>6. Decided(cs, u, 0)
  BY <1>2, <1>4, <1>5 DEF Decided, Sound, Complete
<1>7. Auxiliary(0)
  BY <1>2, <1>4 DEF Auxiliary
<1>8. DecidedBy(t, cs, 0)
  BY <1>2, <1>3, <1>6, <1>7 DEF DecidedBy
<1> QED
  BY <1>1, <1>8

Handler ==
    \/ AddMulConstraint \/ AddXorConstraint \/ AddOrConstraint \/ AddAssertionConstraint
    \/ AddSplitConstraint \/ AddNonzeroCheckConstraint \/ LinearHandler

LEMMA HandlerDecides == IInv /\ Handler => Working /\ \E t, cs, z : DecidedBy(t, cs, z)
<1> SUFFICES ASSUME IInv, Handler PROVE Working /\ \E t, cs, z : DecidedBy(t, cs, z)
  OBVIOUS
<1>1. CASE LinearHandler
  <2>1. PICK op \in Editing : At(op)
    BY <1>1, LinearHandlerAt
  <2>2. PICK s, p : EditedAt(s, p)
    BY <1>1, LinearHandlerAt
  <2>3. Linear(s)
    BY <2>2 DEF EditedAt
  <2> QED
    BY <2>1, <2>3, LinearDecides
<1> QED
  BY <1>1, AddMulDecides, AddXorDecides, AddOrDecides, AddAssertionDecides, AddSplitDecides,
     AddNonzeroCheckDecides DEF Handler

\* A zerop table after the gate.
LEMMA AuxiliaryVariables ==
  ASSUME Working, NEW z, Auxiliary(z), NEW f, f = zeroOf', NEW X, X = {f[w] : w \in Defined(Line) \cap DOMAIN f}
  PROVE  IF Line.op = "zerop" THEN X = {z} /\ z \notin Range(vs'.of) ELSE X = {}
<1> PICK h : h = Line
  OBVIOUS
<1>1. CASE h.op = "zerop"
  <2>1. Defined(h) = {Out}
    BY <1>1, LineShape
  <2>2. Extended(f, zeroOf, Out, z) /\ z \notin Range(vs'.of)
    BY <1>1 DEF Auxiliary
  <2>3. Defined(h) \cap DOMAIN f = {Out} /\ f[Out] = z
    BY <2>1, <2>2 DEF Extended
  <2> QED
    BY <1>1, <2>2, <2>3
<1>2. CASE h.op # "zerop"
  <2>1. f = zeroOf
    BY <1>2 DEF Auxiliary
  <2>2. DOMAIN zeroOf \subseteq Before(next) /\ Defined(h) \cap Before(next) = {}
    BY LineShape DEF Working, IInv, Zerops, GateOK
  <2> QED
    BY <1>2, <2>1, <2>2
<1> QED
  BY <1>1, <1>2

LEMMA HandlerIsSound == IInv /\ Handler => GateSound'
<1> SUFFICES ASSUME IInv, Handler PROVE GateSound'
  OBVIOUS
<1>1. Working /\ \E t, cs, z : DecidedBy(t, cs, z)
  BY HandlerDecides
<1>2. PICK t, cs, z : DecidedBy(t, cs, z)
  BY <1>1
<1> PICK f : f = zeroOf'
  OBVIOUS
<1> PICK u : u = vs'
  OBVIOUS
<1> PICK X : X = {f[w] : w \in Defined(Line) \cap DOMAIN f}
  OBVIOUS
<1>3. Handled(t, cs) /\ VarsGrow /\ Sound(cs, u, z) /\ Auxiliary(z)
  BY <1>2 DEF DecidedBy, Decided
<1>4. X \cap Range(u.of) = {} /\ (Line.op = "zerop" => z \in X)
  <2>1. IF Line.op = "zerop" THEN X = {z} /\ z \notin Range(vs'.of) ELSE X = {}
    BY <1>1, <1>3, AuxiliaryVariables
  <2> QED
    BY <2>1
<1> QED
  BY <1>1, <1>3, <1>4, SoundIsGateSound

LEMMA OthersAreSound == IInv /\ GateSound /\ [Next]_vars /\ ~Handler => GateSound'
<1> SUFFICES ASSUME IInv, GateSound, [Next]_vars, ~Handler PROVE GateSound'
  OBVIOUS
<1>1. CASE UNCHANGED vars
  <2>1. /\ phase' = phase /\ next' = next /\ gates' = gates /\ vs' = vs /\ zeroOf' = zeroOf
        /\ cons' = cons /\ values' = values
    BY <1>1 DEF vars
  <2> DEFINE h == gates[next - 1]
  <2> DEFINE T == Satisfying(h, cons[next - 1], vs, zeroOf, Intended)
  <2>2. Intended' = Intended
    BY <2>1 DEF Intended
  <2>3. InRange(h)' <=> InRange(h)
    BY <2>1, Zenon DEF InRange
  <2>4. h' = h /\ T' = T
    BY <2>1, <2>2
  <2>5. GateSound
          <=> (phase = "construct" /\ next > 1 =>
                \A a \in T : h.op = "assert" \/ InRange(h)
                  => (\A v \in OutputVars(h, vs) : a[v] = Intended[v]) /\ InRange(h))
    BY Zenon DEF GateSound, Satisfying, OutputVars
  <2>6. GateSound'
          <=> (phase' = "construct" /\ next' > 1 =>
                \A a \in T' : h'.op = "assert" \/ InRange(h)'
                  => (\A v \in OutputVars(h', vs') : a[v] = Intended'[v]) /\ InRange(h)')
    BY Zenon DEF GateSound, Satisfying, OutputVars
  <2> HIDE DEF h, T
  <2> QED
    BY <2>1, <2>2, <2>3, <2>4, <2>5, <2>6
<1>2. CASE ParseGate \/ ParseOutput
  BY <1>2 DEF ParseGate, ParseOutput, GateSound
<1>3. CASE StartConstruct
  <2>1. next' = 1
    BY <1>3 DEF StartConstruct, IInv, Unbuilt
  <2> QED
    BY <2>1 DEF GateSound
<1>4. CASE Refused \/ StartMap \/ MapWire \/ EndMap
  <2>1. phase' # "construct"
    BY <1>4 DEF Refused, StartMap, MapWire, EndMap
  <2> QED
    BY <2>1 DEF GateSound
<1> QED
  BY <1>1, <1>2, <1>3, <1>4 DEF Next, Handler, LinearHandler

\* The constraints a gate adds leave its outputs no choice: for inputs they are
\* made for, an assignment of the outputs and of the auxiliary variable satisfies
\* them only if it has the values the gate computes, and an assertion that fails
\* has none (the addX methods, CircuitReader.cpp:412-632).
THEOREM GateSoundHolds == Spec => []GateSound
<1>1. Init => GateSound
  BY DEF Init, GateSound
<1>2. IInv /\ GateSound /\ [Next]_vars => GateSound'
  BY HandlerIsSound, OthersAreSound
<1> QED
  BY <1>1, <1>2, IInvIsInvariant, PTL DEF Spec

-----------------------------------------------------------------------------
(* The assignment the third pass makes *)

Tests == {g \in 1..next - 1 : gates[g].op = "zerop"}

\* Wires are defined in the order of their numbers.
WireOrder == \A i \in 1..Len(gates) : \A w \in Before(i), u \in Defined(gates[i]) : w < u

\* Only linear gates leave a combination behind.
FromLinear == \A w \in DOMAIN lcOf : \E i \in 1..next - 1 : gates[i].op \in Editing /\ w \in Defined(gates[i])

\* Every zero test has an auxiliary variable, which is no wire's and no other test's.
TestVariables ==
    /\ DOMAIN zeroOf = {gates[g].out[2] : g \in Tests}
    /\ \A z \in DOMAIN zeroOf : zeroOf[z] \notin Range(vs.of)
    /\ \A z, y \in DOMAIN zeroOf : zeroOf[z] = zeroOf[y] => z = y

\* The place of z among the numbers D.
Rank(D, z) == Cardinality({u \in D : u <= z})

\* The pointer the test g has kept.
KeptAt(g) == zeroPs[Rank(DOMAIN zeroOf, gates[g].out[2])]

\* By the variable map v, the assignment b has the values f of the wires B.
Agrees(b, v, f, B) == \A w \in DOMAIN v \cap B : b[v[w]] = f[w]

\* The combination l is over the variables of the wires B, and worth x for their values.
WorthBy(l, v, f, B, x) ==
    /\ DOMAIN l \subseteq {v[w] : w \in DOMAIN v \cap B}
    /\ \A b : Agrees(b, v, f, B) => Eval(l, b) = x

\* What a test has kept is still its input, and shared with no other wire.
TestKept(g) ==
    /\ KeptAt(g) \in 1..Len(heap)
    /\ WorthBy(heap[KeptAt(g)], vs.of, values, Before(g), values[gates[g].in[1]])
    /\ \A w \in DOMAIN lcOf : lcOf[w] = KeptAt(g) => w = gates[g].in[1]

TestsKept == ~ZeropEdited => \A g \in Tests : TestKept(g)

\* The assignment b has the values of the wires, and the inverses for the tests.
Right(b) ==
    /\ \A w \in DOMAIN vs.of : b[vs.of[w]] = values[w]
    /\ \A g \in Tests : b[zeroOf[gates[g].out[2]]] = Inverse0(values[gates[g].in[1]])

\* It satisfies the constraints of the gates whose inputs are in range.
Satisfied(b) == \A i \in 1..next - 1 : InRange(gates[i]) => \A r \in cons[i] : Holds(r, b)

ConsHold == \A b : Right(b) => Satisfied(b)

\* The third pass has the wires up to a number right, and their tests.
MappedRight ==
    /\ \A w \in DOMAIN vs.of \ unmapped : vs.of[w] \in DOMAIN val /\ val[vs.of[w]] = values[w]
    /\ \A g \in Tests : gates[g].out[2] \notin unmapped =>
         /\ zeroOf[gates[g].out[2]] \in DOMAIN val
         /\ val[zeroOf[gates[g].out[2]]] = Inverse0(values[gates[g].in[1]])
    /\ \A w \in unmapped, u \in DOMAIN vs.of \ unmapped : u < w

MapRight ==
    /\ phase \in {"map", "done", "fatal"} => next = Len(gates) + 1
    /\ phase = "done" => unmapped = {}
    /\ phase \in {"map", "done"} /\ ~ZeropEdited => MappedRight
    /\ phase = "fatal" => ZeropEdited

AInv == WireOrder /\ FromLinear /\ TestVariables /\ TestsKept /\ ConsHold /\ MapRight

LEMMA AssignmentIsRight == IInv /\ AInv => AssignmentSatisfies
<1> SUFFICES ASSUME IInv, AInv, ~ZeropEdited, \A i \in DOMAIN gates : InRange(gates[i])
             PROVE  phase # "fatal" /\ (phase = "done" => \A i \in DOMAIN cons : \A r \in cons[i] : Holds(r, val))
  BY DEF AssignmentSatisfies
<1>1. phase # "fatal"
  BY DEF AInv, MapRight
<1>2. ASSUME phase = "done" PROVE \A i \in DOMAIN cons : \A r \in cons[i] : Holds(r, val)
  <2>1. next = Len(gates) + 1 /\ unmapped = {} /\ MappedRight
    BY <1>2 DEF AInv, MapRight
  <2>2. Right(val)
    BY <2>1 DEF MappedRight, Right
  <2>3. DOMAIN cons = 1..next - 1 /\ DOMAIN gates = 1..Len(gates) /\ Len(gates) \in Nat
    BY DEF IInv, Seqs, Circuit
  <2>4. next - 1 = Len(gates)
    BY <2>1, <2>3
  <2>5. Satisfied(val)
    BY <2>2 DEF AInv, ConsHold
  <2> QED
    BY <2>3, <2>4, <2>5 DEF Satisfied
<1> QED
  BY <1>1, <1>2

(* Ranks *)

LEMMA RankOfNew ==
  ASSUME NEW D, IsFiniteSet(D), D \subseteq Int, NEW w \in Int, \A u \in D : u < w
  PROVE  /\ Rank(D \cup {w}, w) = Cardinality(D) + 1
         /\ \A z \in D : Rank(D \cup {w}, z) = Rank(D, z)
<1>1. w \notin D
  OBVIOUS
<1>2. {u \in D \cup {w} : u <= w} = D \cup {w}
  <2>1. \A u \in D \cup {w} : u <= w
    OBVIOUS
  <2> QED
    BY <2>1, Zenon
<1>3. Cardinality(D \cup {w}) = Cardinality(D) + 1
  BY <1>1, FS_AddElement
<1>4. ASSUME NEW z \in D PROVE {u \in D \cup {w} : u <= z} = {u \in D : u <= z}
  OBVIOUS
<1> QED
  BY <1>2, <1>3, <1>4 DEF Rank

LEMMA RankIsIndex ==
  ASSUME NEW D, IsFiniteSet(D), D \subseteq Int, NEW z \in D
  PROVE  Rank(D, z) \in 1..Cardinality(D)
<1> PICK S : S = {u \in D : u <= z}
  OBVIOUS
<1>1. IsFiniteSet(S) /\ Cardinality(S) \in Nat /\ Cardinality(D) \in Nat /\ Cardinality(S) <= Cardinality(D)
  BY FS_Subset, FS_CardinalityType
<1>2. Cardinality(S) # 0
  BY <1>1, FS_EmptySet
<1> QED
  BY <1>1, <1>2 DEF Rank

LEMMA RankOfNext ==
  ASSUME NEW D, IsFiniteSet(D), D \subseteq Int, NEW U, NEW z \in D \cap U,
         \A u \in D \ U : u < z, \A u \in D \cap U : z <= u
  PROVE  Rank(D, z) + Cardinality(D \cap U) = Cardinality(D) + 1
<1> PICK M : M = D \ U
  OBVIOUS
<1>1. IsFiniteSet(M) /\ IsFiniteSet(D \cap U) /\ M \cap (D \cap U) = {} /\ M \cup (D \cap U) = D
  BY FS_Subset
<1>2. {u \in D : u <= z} = M \cup {z}
  <2>1. \A u \in D : u <= z <=> u \in M \/ u = z
    <3> TAKE u \in D
    <3>1. u \in Int /\ z \in Int
      OBVIOUS
    <3>2. u \in M => u < z
      OBVIOUS
    <3>3. u \notin M => z <= u
      OBVIOUS
    <3> QED
      BY <3>1, <3>2, <3>3
  <2>2. M \subseteq D /\ z \in D
    OBVIOUS
  <2> QED
    BY <2>1, <2>2, Zenon
<1>3. Rank(D, z) = Cardinality(M) + 1
  BY <1>1, <1>2, FS_AddElement DEF Rank
<1>4. Cardinality(M \cap (D \cap U)) = 0
  BY <1>1, FS_EmptySet
<1>5. Cardinality(D) = Cardinality(M) + Cardinality(D \cap U)
  <2>1. Cardinality(M \cup (D \cap U)) = Cardinality(M) + Cardinality(D \cap U) - Cardinality(M \cap (D \cap U))
    BY <1>1, FS_Union
  <2> QED
    <3> PICK m \in Nat, k \in Nat : m = Cardinality(M) /\ k = Cardinality(D \cap U)
      BY <1>1, FS_CardinalityType
    <3>1. Cardinality(D) = m + k - 0
      BY <1>1, <1>4, <2>1
    <3> QED
      BY <3>1
<1> QED
  BY <1>1, <1>3, <1>5, FS_CardinalityType

(* What the handlers leave of the combinations *)

\* The combinations are as before except at p, which is 0 or the new wire's pointer.
Hands(p) ==
    /\ Len(heap') \in Nat /\ Len(heap') >= Len(heap)
    /\ \A q \in 1..Len(heap) : q # p => heap'[q] = heap[q]
    /\ \A w \in DOMAIN lcOf' :
         \/ w \in DOMAIN lcOf /\ lcOf'[w] = lcOf[w]
         \/ p # 0 /\ w = Out /\ lcOf'[w] = p

LEMMA CleanedKeeps ==
  ASSUME NEW s, NEW h, h = Cleaned(s)
  PROVE  \A w \in DOMAIN h : w \in DOMAIN s.lcOf /\ h[w] = s.lcOf[w]
BY DEF Cleaned, Restrict

LEMMA FoundHands ==
  ASSUME NEW r, NEW k, NEW t, FoundUpTo(t, r, k, 0), NEW cs, Handled(t, cs)
  PROVE  Hands(0)
<1> PICK h : h = lcOf'
  OBVIOUS
<1> PICK z : z = 0
  OBVIOUS
<1>1. heap' = t.heap /\ h = Cleaned(t)
  BY DEF Handled
<1>2. /\ t.lcOf = lcOf /\ t.heap \in Seq(LCs(Known)) /\ Len(t.heap) >= Len(heap)
      /\ \A q \in 1..Len(heap) : q # z => t.heap[q] = heap[q]
  BY DEF FoundUpTo, IsStore
<1>3. \A w \in DOMAIN h : w \in DOMAIN t.lcOf /\ h[w] = t.lcOf[w]
  BY <1>1, CleanedKeeps
<1>4. Hands(z)
  BY <1>1, <1>2, <1>3 DEF Hands
<1> QED
  BY <1>4

LEMMA EditedHands ==
  ASSUME Working, NEW s, NEW p, EditedAt(s, p)
  PROVE  Hands(p)
<1> PICK h : h = lcOf'
  OBVIOUS
<1> PICK t : t = [s EXCEPT !.lcOf = With(@, Out, s.ptr)]
  OBVIOUS
<1> PICK r : r = Line.in
  OBVIOUS
<1> PICK k : k = Len(r)
  OBVIOUS
<1> PICK cs : cs = {}
  OBVIOUS
<1>1. FoundUpTo(s, r, k, p) /\ Handled(t, cs) /\ p = s.ptr /\ p \in 1..Len(s.heap)
  BY DEF EditedAt, Linear
<1>2. /\ IsStore(s) /\ s.heap \in Seq(LCs(Known)) /\ Len(s.heap) >= Len(heap)
      /\ \A q \in 1..Len(heap) : q # p => s.heap[q] = heap[q]
  BY <1>1 DEF FoundUpTo
<1>3. HandsOn(s, t)
  BY <1>2, HandedOn
<1>4. t.heap = s.heap /\ Extended(t.lcOf, lcOf, Out, p)
  BY <1>1, <1>2, <1>3 DEF HandsOn, IsStore
<1>5. heap' = s.heap /\ h = Cleaned(t)
  BY <1>1, <1>4 DEF Handled
<1>6. \A w \in DOMAIN h : w \in DOMAIN t.lcOf /\ h[w] = t.lcOf[w]
  BY <1>5, CleanedKeeps
<1>7. p # 0
  BY <1>1
<1>8. ASSUME NEW w \in DOMAIN h
      PROVE  \/ w \in DOMAIN lcOf /\ h[w] = lcOf[w]
             \/ p # 0 /\ w = Out /\ h[w] = p
  BY <1>4, <1>6, <1>7 DEF Extended
<1> QED
  BY <1>2, <1>5, <1>8 DEF Hands

\* The pointer edited is new, or the first input's, at its last use.
LEMMA EditedIsLast ==
  ASSUME Working, NEW s, NEW p, EditedAt(s, p), NEW w, w = Line.in[1], w \in Wires
  PROVE  \/ p > Len(heap)
         \/ w \in DOMAIN lcOf /\ p = lcOf[w] /\ LeftFrom(next, w) = 1
<1> PICK x : x = Store
  OBVIOUS
<1> PICK e \in BOOLEAN : e = TRUE
  OBVIOUS
<1> PICK t : t = Find(x, w, e)
  OBVIOUS
<1>1. IsStore(x) /\ x.heap = heap /\ x.uses = uses
  BY DEF Store, IsStore
<1>2. FindSteps(x, w, e, t)
  BY <1>1, FindFields
<1>3. p = t.ptr
  BY DEF EditedAt
<1>4. Len(heap) \in Nat /\ uses[w] = LeftFrom(next, w)
  BY DEF Working, IInv, Pointers, UsesLeft
<1>5. CASE w \in DOMAIN lcOf /\ uses[w] = 1
  <2>1. t.ptr = lcOf[w]
    BY <1>1, <1>2, <1>5 DEF FindSteps
  <2> QED
    BY <1>3, <1>4, <1>5, <2>1
<1>6. CASE ~(w \in DOMAIN lcOf /\ uses[w] = 1)
  <2>1. t.ptr = Len(heap) + 1
    BY <1>1, <1>2, <1>6 DEF FindSteps
  <2> QED
    BY <1>3, <1>4, <2>1
<1> QED
  BY <1>5, <1>6

LEMMA LastUse ==
  ASSUME Circuit, NEW i \in 1..Len(gates), NEW w, w \in Range(Reads(gates[i])), LeftFrom(i, w) = 1
  PROVE  \A j \in i..Len(gates) : Count(Reads(gates[j]), w) = (IF j = i THEN 1 ELSE 0)
<1> PICK n : n = Len(gates)
  OBVIOUS
<1> PICK c : c = Count(Reads(gates[i]), w)
  OBVIOUS
<1> PICK k : k = i + 1
  OBVIOUS
<1>1. n \in Nat /\ k \in 1..Len(gates) + 1 /\ i \in 1..Len(gates) + 1 /\ i <= Len(gates)
  BY DEF Circuit
<1>2. c \in Nat /\ c > 0
  BY ReadsShape, CountIsNat
<1>3. LeftFrom(i, w) = LeftFrom(k, w) + c
  BY <1>1, LeftSteps
<1>4. LeftFrom(k, w) \in Nat
  BY <1>1, LeftSteps
<1>5. c = 1 /\ LeftFrom(k, w) = 0
  BY <1>2, <1>3, <1>4
<1>6. \A j \in k..Len(gates) : w \notin Range(Reads(gates[j]))
  BY <1>1, <1>5, LeftSteps
<1> SUFFICES ASSUME NEW j \in i..n PROVE Count(Reads(gates[j]), w) = (IF j = i THEN 1 ELSE 0)
  OBVIOUS
<1>7. CASE j = i
  BY <1>5, <1>7
<1>8. CASE j # i
  <2>1. j \in k..Len(gates) /\ j \in 1..Len(gates)
    BY <1>1, <1>8
  <2>2. Reads(gates[j]) \in Seq(Wires)
    BY <2>1, ReadsShape
  <2> QED
    BY <1>6, <1>8, <2>1, <2>2, CountIsNat
<1> QED
  BY <1>7, <1>8

\* What a zero test keeps is its input.
Keeps(q) ==
    /\ zeroPs' = Append(zeroPs, q) /\ q \in 1..Len(heap') /\ Stands(heap'[q], Line.in[1])
    /\ \A w \in DOMAIN lcOf : lcOf[w] = q => w = Line.in[1]

\* What a handler does to the combinations and to the pointers kept.
Effect(p) ==
    /\ Hands(p)
    /\ p # 0 => Line.op \in Editing /\ \E s : EditedAt(s, p)
    /\ IF Line.op = "zerop" THEN \E q : Keeps(q) ELSE zeroPs' = zeroPs

LEMMA TwoInputEffect ==
  ASSUME Working, Line.op \in {"mul", "xor", "or"}, NEW cs, Handled(Found2, cs), zeroPs' = zeroPs
  PROVE  Effect(0)
<1> PICK r : r = Reads(Line)
  OBVIOUS
<1>1. Len(r) = 2 /\ Len(r) >= 1 /\ Len(r) >= 2 /\ r[1] = Line.in[1] /\ r[2] = Line.in[2]
  <2> PICK g : g = Line
    OBVIOUS
  <2>1. Ins(g) = 2 /\ g.op # "assert"
    BY DEF Ins
  <2>2. Len(g.in) = Ins(g) /\ Reads(g) = g.in
    BY <2>1, LineShape
  <2> QED
    BY <2>1, <2>2
<1>2. FoundUpTo(Found2, r, 2, 0)
  BY <1>1, FoundInputs
<1>3. Hands(0)
  BY <1>2, FoundHands
<1> QED
  BY <1>3 DEF Effect

LEMMA AssertionEffect == IInv /\ AddAssertionConstraint => Working /\ Effect(0)
<1> SUFFICES ASSUME IInv, AddAssertionConstraint PROVE Working /\ Effect(0)
  OBVIOUS
<1> PICK op : op = "assert"
  OBVIOUS
<1> PICK t : t = Find(Found2, Out, FALSE)
  OBVIOUS
<1> PICK cs : cs = {R1(L1, L2, t.heap[t.ptr])}
  OBVIOUS
<1>1. At(op) /\ zeroPs' = zeroPs /\ Handled(t, cs)
  BY DEF AddAssertionConstraint
<1>2. Working /\ Line.op = op
  BY <1>1, AtIsWorking
<1> PICK r : r = Reads(Line)
  OBVIOUS
<1>3. Len(r) = 3 /\ r[1] = Line.in[1] /\ r[2] = Line.in[2] /\ r[3] = Out
  BY <1>2, AssertionReads
<1> PICK k : k = 2
  OBVIOUS
<1>4. FoundUpTo(Found2, r, k, 0)
  BY <1>2, <1>3, FoundInputs
<1>5. FoundUpTo(t, r, k + 1, 0)
  <2> PICK s : s = Found2
    OBVIOUS
  <2> PICK w : w = Out
    OBVIOUS
  <2>1. k \in 0..Len(r) - 1 /\ w = r[k + 1] /\ t = Find(s, w, FALSE)
    BY <1>3
  <2> QED
    BY <1>2, <1>4, <2>1, FindStands
<1>6. Hands(0)
  BY <1>1, <1>5, FoundHands
<1> QED
  BY <1>1, <1>2, <1>6 DEF Effect, Editing

LEMMA SplitEffect == IInv /\ AddSplitConstraint => Working /\ Effect(0)
<1> SUFFICES ASSUME IInv, AddSplitConstraint PROVE Working /\ Effect(0)
  OBVIOUS
<1> PICK op : op = "split"
  OBVIOUS
<1>1. At(op) /\ zeroPs' = zeroPs /\ \E cs : Handled(Found1, cs)
  BY DEF AddSplitConstraint
<1>2. PICK cs : Handled(Found1, cs)
  BY <1>1
<1>3. Working /\ Line.op = op
  BY <1>1, AtIsWorking
<1> PICK r : r = Reads(Line)
  OBVIOUS
<1>4. Len(r) >= 1 /\ r[1] = Line.in[1]
  BY <1>3, LineShape DEF Ins
<1>5. FoundUpTo(Found1, r, 1, 0)
  BY <1>3, <1>4, FoundInputs
<1>6. Hands(0)
  BY <1>2, <1>5, FoundHands
<1> QED
  BY <1>1, <1>3, <1>6 DEF Effect

LEMMA ZeropEffect == IInv /\ AddNonzeroCheckConstraint => Working /\ Effect(0)
<1> SUFFICES ASSUME IInv, AddNonzeroCheckConstraint PROVE Working /\ Effect(0)
  OBVIOUS
<1> PICK op : op = "zerop"
  OBVIOUS
<1> PICK t : t = Found1
  OBVIOUS
<1> PICK q : q = t.ptr
  OBVIOUS
<1>1. At(op) /\ zeroPs' = Append(zeroPs, q) /\ \E cs : Handled(t, cs)
  BY DEF AddNonzeroCheckConstraint
<1>2. PICK cs : Handled(t, cs)
  BY <1>1
<1>3. Working /\ Line.op = op
  BY <1>1, AtIsWorking
<1> PICK r : r = Reads(Line)
  OBVIOUS
<1> PICK w : w = Line.in[1]
  OBVIOUS
<1>4. Len(r) >= 1 /\ r[1] = Line.in[1]
  BY <1>3, LineShape DEF Ins
<1>5. FoundUpTo(t, r, 1, 0) /\ t.ptr \in 1..Len(t.heap) /\ Stands(t.heap[q], w)
  BY <1>3, <1>4, FoundInputs, InputsStand
<1>6. Hands(0)
  BY <1>2, <1>5, FoundHands
<1>7. heap' = t.heap
  BY <1>2 DEF Handled
<1>8. q = Len(heap) + 1 \/ (w \in DOMAIN lcOf /\ q = lcOf[w])
  <2> PICK x : x = Store
    OBVIOUS
  <2> PICK e \in BOOLEAN : e = FALSE
    OBVIOUS
  <2>1. IsStore(x) /\ x.heap = heap /\ t = Find(x, w, e)
    BY DEF Store, IsStore, Found1
  <2>2. FindSteps(x, w, e, t)
    BY <2>1, FindFields
  <2> QED
    BY <2>1, <2>2 DEF FindSteps
<1>9. \A u \in DOMAIN lcOf : lcOf[u] = q => u = w
  <2>1. \A u \in DOMAIN lcOf : lcOf[u] \in 1..Len(heap)
    BY <1>3 DEF Working, IInv, Pointers
  <2>2. Len(heap) \in Nat /\ \A u, y \in DOMAIN lcOf : lcOf[u] = lcOf[y] => u = y
    BY <1>3 DEF Working, IInv, Pointers
  <2> QED
    BY <1>8, <2>1, <2>2
<1>10. Keeps(q)
  BY <1>1, <1>5, <1>7, <1>9 DEF Keeps
<1> QED
  BY <1>3, <1>6, <1>10 DEF Effect

LEMMA LinearEffect ==
  ASSUME IInv, LinearHandler
  PROVE  Working /\ \E p : Effect(p)
<1>1. PICK op \in Editing : At(op)
  BY LinearHandlerAt
<1>2. PICK s, p : EditedAt(s, p)
  BY LinearHandlerAt
<1>3. Working /\ Line.op = op
  BY <1>1, AtIsWorking
<1>4. Hands(p) /\ zeroPs' = zeroPs
  BY <1>2, <1>3, EditedHands DEF EditedAt, Linear
<1>5. Effect(p)
  BY <1>1, <1>2, <1>3, <1>4 DEF Effect, Editing
<1> QED
  BY <1>3, <1>5

LEMMA HandlerEffect == IInv /\ Handler => Working /\ \E p : Effect(p)
<1> SUFFICES ASSUME IInv, Handler PROVE Working /\ \E p : Effect(p)
  OBVIOUS
<1>1. CASE AddMulConstraint \/ AddXorConstraint \/ AddOrConstraint
  <2>1. (\E op \in {"mul", "xor", "or"} : At(op)) /\ zeroPs' = zeroPs /\ \E cs : Handled(Found2, cs)
    BY <1>1 DEF AddMulConstraint, AddXorConstraint, AddOrConstraint
  <2>2. PICK op \in {"mul", "xor", "or"} : At(op)
    BY <2>1
  <2>3. Working /\ Line.op = op
    BY <2>2, AtIsWorking
  <2>4. PICK cs : Handled(Found2, cs)
    BY <2>1
  <2> QED
    BY <2>1, <2>3, <2>4, TwoInputEffect
<1> QED
  BY <1>1, AssertionEffect, SplitEffect, ZeropEffect, LinearEffect DEF Handler

(* A handler keeps the tests *)

LEMMA WorthByGrows ==
  ASSUME NEW l, NEW v, NEW u, NEW f, NEW B, NEW x, WorthBy(l, v, f, B, x),
         DOMAIN v \subseteq DOMAIN u, \A w \in DOMAIN v : u[w] = v[w]
  PROVE  WorthBy(l, u, f, B, x)
<1>1. ASSUME NEW b, Agrees(b, u, f, B) PROVE Eval(l, b) = x
  <2>1. Agrees(b, v, f, B)
    BY <1>1 DEF Agrees
  <2> QED
    BY <2>1 DEF WorthBy
<1>2. DOMAIN l \subseteq {u[w] : w \in DOMAIN u \cap B}
  BY DEF WorthBy
<1> QED
  BY <1>1, <1>2 DEF WorthBy

\* What every handler leaves as it was.
LEMMA AfterHandler ==
  ASSUME Working, NEW t, NEW cs, Handled(t, cs), NEW n, n = next
  PROVE  /\ gates' = gates /\ values' = values /\ outputs' = outputs /\ next' = n + 1 /\ phase' = "construct"
         /\ n \in Nat /\ n \in 1..Len(gates) /\ Len(gates) \in Nat /\ Line = gates[n]
         /\ cons' = Append(cons, cs) /\ (\A i : Before(i)' = Before(i))
<1>1. /\ gates' = gates /\ values' = values /\ outputs' = outputs /\ next' = n + 1 /\ phase' = "construct"
      /\ n \in Nat /\ n \in 1..Len(gates) /\ Len(gates) \in Nat /\ Line = gates[n]
      /\ cons' = Append(cons, cs)
  BY DEF Handled, parsed, Working, IInv, Circuit, Line
<1>2. \A i : Before(i)' = Before(i)
  BY <1>1 DEF Before, Inputs
<1> QED
  BY <1>1, <1>2

LEMMA EditedIsNotKept ==
  ASSUME Working, FromLinear, ~ZeropEdited, NEW g \in Tests, TestKept(g),
         Line.op \in Editing, NEW s, NEW p, EditedAt(s, p)
  PROVE  p # KeptAt(g)
<1> PICK n : n = next
  OBVIOUS
<1> PICK h : h = gates[n]
  OBVIOUS
<1> PICK w : w = h.in[1]
  OBVIOUS
<1> SUFFICES ASSUME p = KeptAt(g) PROVE FALSE
  OBVIOUS
<1>1. h = Line /\ n \in 1..Len(gates) /\ Circuit /\ Pointers /\ Len(gates) \in Nat /\ Len(heap) \in Nat
  BY DEF Working, IInv, Circuit, Pointers, Line
<1>2. w \in Range(Reads(h)) /\ w \in Wires
  <2>1. Reads(h) = h.in /\ Len(h.in) >= 1 /\ Reads(h) \in Seq(Wires)
    BY <1>1, LineShape DEF Editing, Ins
  <2>2. 1 \in DOMAIN h.in
    BY <2>1
  <2> QED
    BY <2>1, <2>2, ElementOfSeq DEF Range
<1>3. w \in DOMAIN lcOf /\ p = lcOf[w] /\ LeftFrom(n, w) = 1
  <2>1. p \in 1..Len(heap)
    BY DEF TestKept
  <2> QED
    BY <1>1, <1>2, <2>1, EditedIsLast
<1>4. w = gates[g].in[1]
  BY <1>3 DEF TestKept
<1>5. \A j \in n..Len(gates) : Count(Reads(gates[j]), w) = (IF j = n THEN 1 ELSE 0)
  BY <1>1, <1>2, <1>3, LastUse
<1>6. PICK i \in 1..n - 1 : gates[i].op \in Editing /\ w \in Defined(gates[i])
  BY <1>3 DEF FromLinear
<1>7. g \in 1..n - 1 /\ gates[g].op = "zerop"
  BY DEF Tests
<1>8. DOMAIN gates = 1..Len(gates)
  BY <1>1 DEF Circuit
<1>9. g \in DOMAIN gates /\ n \in DOMAIN gates /\ i \in DOMAIN gates /\ g < n
  BY <1>1, <1>6, <1>7, <1>8
<1>10. ZeropEdited
  <2>1. /\ g < n /\ gates[g].op = "zerop" /\ gates[n].op \in Editing /\ gates[n].in[1] = gates[g].in[1]
        /\ gates[i].op \in Editing /\ gates[g].in[1] \in Defined(gates[i])
    BY <1>1, <1>4, <1>6, <1>7, <1>9
  <2>2. \A j \in n..Len(gates) : Count(Reads(gates[j]), gates[g].in[1]) = (IF j = n THEN 1 ELSE 0)
    BY <1>4, <1>5
  <2> QED
    BY <1>9, <2>1, <2>2, Zenon DEF ZeropEdited
<1> QED
  BY <1>10

LEMMA TestStaysKept ==
  ASSUME Working, NEW t, NEW cs, Handled(t, cs), VarsGrow, NEW p, Hands(p), NEW g \in Tests, TestKept(g),
         NEW q, q = KeptAt(g), q # p, KeptAt(g)' = q
  PROVE  TestKept(g)'
<1> PICK h : h = lcOf'
  OBVIOUS
<1> PICK l : l = heap[q]
  OBVIOUS
<1> PICK B : B = Before(g)
  OBVIOUS
<1> PICK v : v = vs.of
  OBVIOUS
<1> PICK u : u = vs'.of
  OBVIOUS
<1> PICK f : f = values
  OBVIOUS
<1> PICK w : w = gates[g].in[1]
  OBVIOUS
<1>1. gates' = gates /\ values' = f /\ Before(g)' = B
  BY AfterHandler
<1>2. q \in 1..Len(heap) /\ WorthBy(l, v, f, B, f[w]) /\ \A x \in DOMAIN lcOf : lcOf[x] = q => x = w
  BY DEF TestKept
<1>3. heap'[q] = l /\ q \in 1..Len(heap')
  <2>1. Len(heap') >= Len(heap) /\ \A y \in 1..Len(heap) : y # p => heap'[y] = heap[y]
    BY DEF Hands
  <2>2. Len(heap) \in Nat /\ Len(heap') \in Nat
    BY DEF Working, IInv, Pointers, Hands
  <2> QED
    BY <1>2, <2>1, <2>2
<1>4. WorthBy(l, u, f, B, f[w])
  <2>1. DOMAIN v \subseteq DOMAIN u /\ \A x \in DOMAIN v : u[x] = v[x]
    BY DEF VarsGrow
  <2> QED
    BY <1>2, <2>1, WorthByGrows
<1>5. \A x \in DOMAIN h : h[x] = q => x = w
  BY <1>2 DEF Hands
<1> QED
  BY <1>1, <1>3, <1>4, <1>5 DEF TestKept

\* The tests and their table after a handler.
LEMMA TestsAfter ==
  ASSUME Working, WireOrder, NEW t, NEW cs, Handled(t, cs), NEW z, Auxiliary(z), NEW n, n = next,
         NEW D, D = DOMAIN zeroOf, NEW f, f = zeroOf'
  PROVE  /\ IsFiniteSet(D) /\ D \subseteq Int /\ Len(zeroPs) = Cardinality(D) /\ Len(zeroPs) \in Nat
         /\ IF Line.op = "zerop"
            THEN /\ Tests' = Tests \cup {n} /\ n \notin Tests /\ gates[n].out[2] = Out
                 /\ Extended(f, zeroOf, Out, z) /\ Out \in Int /\ Out \notin D /\ \A u \in D : u < Out
            ELSE Tests' = Tests /\ f = zeroOf
<1>1. Zerops /\ Circuit /\ n \in 1..Len(gates) /\ Line = gates[n] /\ gates' = gates /\ next' = n + 1 /\ n \in Nat
  BY AfterHandler DEF Working, IInv
<1>2. D \subseteq Before(n) /\ Len(zeroPs) = Cardinality(D) /\ Len(zeroPs) \in Nat
  BY <1>1 DEF Zerops
<1>3. IsFiniteSet(D) /\ D \subseteq Int
  <2>1. n \in Nat /\ n <= Len(gates) + 1
    BY <1>1
  <2>2. Before(n) \subseteq Wires
    BY <1>1, <2>1, BeforeIsWires
  <2>3. IsFiniteSet(Wires) /\ Wires \subseteq Int
    BY <1>1, WiresFinite DEF Circuit
  <2> QED
    BY <1>2, <2>2, <2>3, FS_Subset
<1>4. 1..next' - 1 = (1..n - 1) \cup {n}
  BY <1>1
<1>5. CASE Line.op = "zerop"
  <2>1. Tests' = Tests \cup {n}
    <3>1. Tests' = {g \in 1..next' - 1 : gates[g].op = "zerop"}
      BY <1>1 DEF Tests
    <3>2. gates[n].op = "zerop"
      BY <1>1, <1>5
    <3> QED
      BY <1>4, <3>1, <3>2 DEF Tests
  <2>2. gates[n].out[2] = Out /\ Out \in Defined(gates[n]) /\ Out \in Wires
    <3> PICK g : g = Line
      OBVIOUS
    <3>1. Out = g.out[Outs(g)] /\ Out \in Wires /\ Out \in Defined(g) /\ Outs(g) = 2
      BY <1>5, LineShape DEF Outs
    <3> QED
      BY <1>1, <3>1
  <2>3. \A u \in D : u < Out
    BY <1>1, <1>2, <2>2 DEF WireOrder
  <2>4. Out \in Int
    BY <1>1, <2>2 DEF Circuit
  <2>5. Out \notin D
    BY <2>3, <2>4
  <2>6. n \notin Tests
    BY <1>1 DEF Tests
  <2> QED
    BY <1>2, <1>3, <1>5, <2>1, <2>2, <2>3, <2>4, <2>5, <2>6 DEF Auxiliary
<1>6. CASE Line.op # "zerop"
  <2>1. Tests' = Tests
    <3>1. Tests' = {g \in 1..next' - 1 : gates[g].op = "zerop"}
      BY <1>1 DEF Tests
    <3>2. gates[n].op # "zerop"
      BY <1>1, <1>6
    <3> QED
      BY <1>4, <3>1, <3>2 DEF Tests
  <2> QED
    BY <1>2, <1>3, <1>6, <2>1 DEF Auxiliary
<1> QED
  BY <1>5, <1>6

LEMMA VariablesAfter ==
  ASSUME Working, WireOrder, TestVariables, NEW t, NEW cs, Handled(t, cs), VarsGrow, NEW z, Auxiliary(z)
  PROVE  TestVariables'
<1> PICK n : n = next
  OBVIOUS
<1> PICK D : D = DOMAIN zeroOf
  OBVIOUS
<1> PICK e : e = zeroOf
  OBVIOUS
<1> PICK f : f = zeroOf'
  OBVIOUS
<1> PICK u : u = vs'.of
  OBVIOUS
<1>1. gates' = gates
  BY AfterHandler
<1>2. /\ D = {gates[g].out[2] : g \in Tests}
      /\ \A x \in D : e[x] \notin Range(vs.of)
      /\ \A x, y \in D : e[x] = e[y] => x = y
  BY DEF TestVariables
<1>3. \A x \in D : e[x] \in 0..vs.n - 1
  BY DEF Working, IInv, Zerops
<1>4. ASSUME NEW x \in D PROVE e[x] \notin Range(u)
  <2> SUFFICES ASSUME NEW w \in DOMAIN u, u[w] = e[x] PROVE FALSE
    BY DEF Range
  <2>1. CASE w \in DOMAIN vs.of
    <3>1. u[w] = vs.of[w]
      BY <2>1 DEF VarsGrow
    <3> QED
      BY <1>2, <2>1, <3>1 DEF Range
  <2>2. CASE w \notin DOMAIN vs.of
    <3>1. u[w] >= vs.n /\ vs.n \in Nat
      BY <2>2 DEF VarsGrow, Working, IInv, IsVarMap
    <3> QED
      BY <1>3, <3>1
  <2> QED
    BY <2>1, <2>2
<1>5. CASE Line.op = "zerop"
  <2>1. Tests' = Tests \cup {n} /\ gates[n].out[2] = Out /\ Extended(f, e, Out, z) /\ Out \notin D
    BY <1>5, TestsAfter
  <2>2. z >= vs.n /\ z \in Nat /\ z \notin Range(u) /\ vs.n \in Nat
    BY <1>5 DEF Auxiliary, Working, IInv, IsVarMap
  <2>3. DOMAIN f = D \cup {Out} /\ f[Out] = z /\ \A x \in D : f[x] = e[x]
    BY <2>1 DEF Extended
  <2>4. DOMAIN f = {gates'[g].out[2] : g \in Tests'}
    BY <1>1, <1>2, <2>1, <2>3
  <2>5. \A x \in DOMAIN f : f[x] \notin Range(u)
    BY <1>4, <2>2, <2>3
  <2>6. \A x \in D : f[x] # z
    BY <1>3, <2>2, <2>3
  <2>7. \A x, y \in DOMAIN f : f[x] = f[y] => x = y
    BY <1>2, <2>3, <2>6
  <2> QED
    BY <2>4, <2>5, <2>7 DEF TestVariables
<1>6. CASE Line.op # "zerop"
  <2>1. Tests' = Tests /\ f = e
    BY <1>6, TestsAfter
  <2> QED
    BY <1>1, <1>2, <1>4, <2>1 DEF TestVariables
<1> QED
  BY <1>5, <1>6

\* A test that was there keeps its place among the pointers kept; a new one gets the next.
LEMMA PlacesAfter ==
  ASSUME Working, WireOrder, TestVariables, NEW t, NEW cs, Handled(t, cs), NEW z, Auxiliary(z),
         NEW p, Effect(p), NEW n, n = next
  PROVE  /\ \A g \in Tests : KeptAt(g)' = KeptAt(g)
         /\ Line.op = "zerop" => \E q : Keeps(q) /\ KeptAt(n)' = q
<1> PICK D : D = DOMAIN zeroOf
  OBVIOUS
<1> PICK E : E = DOMAIN zeroOf'
  OBVIOUS
<1> PICK o : o = Out
  OBVIOUS
<1> PICK k : k = Cardinality(D)
  OBVIOUS
<1>1. gates' = gates /\ zeroPs \in Seq(1..Len(heap))
  BY AfterHandler DEF Working, IInv, Zerops
<1>2. IsFiniteSet(D) /\ D \subseteq Int /\ Len(zeroPs) = k /\ k \in Nat
  BY TestsAfter
<1>3. \A g \in Tests : gates[g].out[2] \in D
  BY DEF TestVariables
<1>4. CASE Line.op = "zerop"
  <2>1. E = D \cup {o} /\ o \in Int /\ (\A u \in D : u < o) /\ gates[n].out[2] = o
    BY <1>4, TestsAfter DEF Extended
  <2>2. Rank(E, o) = k + 1 /\ \A x \in D : Rank(E, x) = Rank(D, x)
    <3>1. /\ Rank(D \cup {o}, o) = Cardinality(D) + 1
          /\ \A x \in D : Rank(D \cup {o}, x) = Rank(D, x)
      BY <1>2, <2>1, RankOfNew
    <3>2. E = D \cup {o} /\ k = Cardinality(D)
      BY <2>1
    <3> QED
      BY <3>1, <3>2
  <2>3. PICK q : Keeps(q)
    BY <1>4 DEF Effect
  <2>4. zeroPs' = Append(zeroPs, q)
    BY <2>3 DEF Keeps
  <2>5. zeroPs'[k + 1] = q /\ \A i \in 1..k : zeroPs'[i] = zeroPs[i]
    BY <1>1, <1>2, <2>4
  <2>6. \A x \in D : Rank(D, x) \in 1..k
    BY <1>2, RankIsIndex
  <2>7. \A g \in Tests : KeptAt(g)' = KeptAt(g)
    BY <1>1, <1>3, <2>2, <2>5, <2>6 DEF KeptAt
  <2>8. KeptAt(n)' = q
    BY <1>1, <2>1, <2>2, <2>5 DEF KeptAt
  <2> QED
    BY <2>3, <2>7, <2>8
<1>5. CASE Line.op # "zerop"
  <2>1. zeroPs' = zeroPs /\ zeroOf' = zeroOf
    BY <1>5, TestsAfter DEF Effect
  <2> QED
    BY <1>1, <1>5, <2>1 DEF KeptAt
<1> QED
  BY <1>4, <1>5

(* The invariant after a handler *)

LEMMA OrderAfter ==
  ASSUME Working, WireOrder, NEW t, NEW cs, Handled(t, cs)
  PROVE  WireOrder'
<1> PICK n : n = next
  OBVIOUS
<1>1. gates' = gates /\ \A i : Before(i)' = Before(i)
  BY AfterHandler
<1>2. ASSUME NEW i \in 1..Len(gates'), NEW w \in Before(i)', NEW u \in Defined(gates'[i]) PROVE w < u
  <2>1. Before(i)' = Before(i)
    BY <1>1
  <2> QED
    BY <1>1, <1>2, <2>1 DEF WireOrder
<1> QED
  BY <1>2 DEF WireOrder

LEMMA LinearAfter ==
  ASSUME Working, FromLinear, NEW t, NEW cs, Handled(t, cs), NEW p, Effect(p)
  PROVE  FromLinear'
<1> PICK n : n = next
  OBVIOUS
<1> PICK h : h = lcOf'
  OBVIOUS
<1>1. gates' = gates /\ next' = n + 1 /\ n \in Nat /\ Line = gates[n] /\ n \in 1..Len(gates)
  BY AfterHandler
<1>2. \A w \in DOMAIN h : (w \in DOMAIN lcOf) \/ (p # 0 /\ w = Out)
  BY DEF Effect, Hands
<1>3. ASSUME NEW w \in DOMAIN h PROVE \E i \in 1..next' - 1 : gates[i].op \in Editing /\ w \in Defined(gates[i])
  <2>1. CASE w \in DOMAIN lcOf
    <3>1. PICK i \in 1..n - 1 : gates[i].op \in Editing /\ w \in Defined(gates[i])
      BY <2>1 DEF FromLinear
    <3>2. i \in 1..next' - 1
      BY <1>1
    <3> QED
      BY <3>1, <3>2
  <2>2. CASE p # 0 /\ w = Out
    <3> PICK g : g = Line
      OBVIOUS
    <3>1. g.op \in Editing
      BY <2>2 DEF Effect
    <3>2. g.op # "assert"
      BY <3>1 DEF Editing
    <3>3. Out \in Defined(g)
      BY <3>2, LineShape
    <3>4. n \in 1..next' - 1
      BY <1>1
    <3> QED
      BY <1>1, <2>2, <3>1, <3>3, <3>4
  <2> QED
    BY <1>2, <2>1, <2>2
<1> QED
  BY <1>1, <1>3 DEF FromLinear

\* A combination that stands for a wire is worth its value.
LEMMA StandingIsWorth ==
  ASSUME Working, NEW l, NEW w, Stands(l, w)
  PROVE  WorthBy(l, vs.of, values, Before(next), values[w])
<1> PICK B : B = Before(next)
  OBVIOUS
<1> PICK x : x = values[w]
  OBVIOUS
<1>1. DOMAIN l \subseteq {vs.of[u] : u \in DOMAIN vs.of \cap B}
  <2>1. IsVarMap(vs) /\ Circuit /\ l \in LCs(Known)
    BY DEF Stands, Working, IInv
  <2>2. DOMAIN l \subseteq Known
    BY <2>1, CombinationsOver
  <2> QED
    BY <2>2 DEF Known
<1>2. ASSUME NEW b, Agrees(b, vs.of, values, B) PROVE Eval(l, b) = x
  <2>1. Sees(b)
    BY <1>2 DEF Agrees, Sees
  <2>2. ValueIs(l, b, values[w])
    BY <2>1, StandsIsValue
  <2> QED
    BY <2>2 DEF ValueIs
<1>3. WorthBy(l, vs.of, values, B, x)
  BY <1>1, <1>2 DEF WorthBy
<1> QED
  BY <1>3

\* The combination a zero test has just kept.
LEMMA NewTestKept ==
  ASSUME Working, NEW t, NEW cs, Handled(t, cs), VarsGrow, NEW p, Effect(p), Line.op = "zerop",
         NEW q, Keeps(q), NEW n, n = next, KeptAt(n)' = q
  PROVE  TestKept(n)'
<1> PICK h : h = lcOf'
  OBVIOUS
<1> PICK l : l = heap'[q]
  OBVIOUS
<1> PICK B : B = Before(n)
  OBVIOUS
<1> PICK v : v = vs.of
  OBVIOUS
<1> PICK u : u = vs'.of
  OBVIOUS
<1> PICK f : f = values
  OBVIOUS
<1> PICK w : w = Line.in[1]
  OBVIOUS
<1>1. gates' = gates /\ values' = f /\ Before(n)' = B /\ w = gates[n].in[1]
  BY AfterHandler
<1>2. q \in 1..Len(heap') /\ Stands(l, w) /\ \A x \in DOMAIN lcOf : lcOf[x] = q => x = w
  BY DEF Keeps
<1>3. WorthBy(l, v, f, B, f[w])
  BY <1>2, StandingIsWorth
<1>4. WorthBy(l, u, f, B, f[w])
  <2>1. DOMAIN v \subseteq DOMAIN u /\ \A x \in DOMAIN v : u[x] = v[x]
    BY DEF VarsGrow
  <2> QED
    BY <1>3, <2>1, WorthByGrows
<1>5. \A x \in DOMAIN h : h[x] = q => x = w
  <2>1. p = 0
    BY DEF Effect, Editing
  <2> QED
    BY <1>2, <2>1 DEF Effect, Hands
<1> QED
  BY <1>1, <1>2, <1>4, <1>5 DEF TestKept

LEMMA TestsKeptAfter ==
  ASSUME Working, WireOrder, FromLinear, TestVariables, TestsKept, NEW t, NEW cs, Handled(t, cs), VarsGrow,
         NEW z, Auxiliary(z), NEW p, Effect(p)
  PROVE  TestsKept'
<1> PICK n : n = next
  OBVIOUS
<1>1. gates' = gates
  BY AfterHandler
<1>2. ZeropEdited' <=> ZeropEdited
  BY <1>1, Zenon DEF ZeropEdited
<1> SUFFICES ASSUME ~ZeropEdited PROVE \A g \in Tests' : TestKept(g)'
  BY <1>2 DEF TestsKept
<1>3. /\ \A g \in Tests : KeptAt(g)' = KeptAt(g)
      /\ Line.op = "zerop" => \E q : Keeps(q) /\ KeptAt(n)' = q
  BY PlacesAfter
<1>4. ASSUME NEW g \in Tests PROVE TestKept(g)'
  <2> PICK q : q = KeptAt(g)
    OBVIOUS
  <2>1. TestKept(g) /\ KeptAt(g)' = q
    BY <1>3 DEF TestsKept
  <2>2. q # p
    <3>1. CASE p = 0
      BY <2>1, <3>1 DEF TestKept
    <3>2. CASE p # 0
      <4>1. Line.op \in Editing /\ \E s : EditedAt(s, p)
        BY <3>2 DEF Effect
      <4>2. PICK s : EditedAt(s, p)
        BY <4>1
      <4> QED
        BY <2>1, <4>1, <4>2, EditedIsNotKept
    <3> QED
      BY <3>1, <3>2
  <2> QED
    BY <2>1, <2>2, TestStaysKept DEF Effect
<1>5. CASE Line.op = "zerop"
  <2>1. PICK q : Keeps(q) /\ KeptAt(n)' = q
    BY <1>3, <1>5
  <2>2. TestKept(n)'
    BY <1>5, <2>1, NewTestKept
  <2>3. Tests' = Tests \cup {n}
    BY <1>5, TestsAfter
  <2> QED
    BY <1>4, <2>2, <2>3
<1>6. CASE Line.op # "zerop"
  <2>1. Tests' = Tests
    BY <1>6, TestsAfter
  <2> QED
    BY <1>4, <2>1
<1> QED
  BY <1>5, <1>6

\* An assignment that is right after the gate was right before it.
LEMMA RightBefore ==
  ASSUME Working, WireOrder, TestVariables, NEW t, NEW cs, Handled(t, cs), VarsGrow, NEW z, Auxiliary(z),
         NEW b, Right(b)'
  PROVE  /\ Right(b) /\ Sees(b)
         /\ \A w \in Defined(Line) \cap DOMAIN vs'.of : b[vs'.of[w]] = values[w]
         /\ Line.op = "zerop" => b[z] = Inverse0(values[Line.in[1]])
<1> PICK n : n = next
  OBVIOUS
<1> PICK u : u = vs'.of
  OBVIOUS
<1> PICK v : v = vs.of
  OBVIOUS
<1> PICK e : e = zeroOf
  OBVIOUS
<1> PICK f : f = zeroOf'
  OBVIOUS
<1> PICK N : N = Tests'
  OBVIOUS
<1>1. gates' = gates /\ values' = values /\ Line = gates[n]
  BY AfterHandler
<1>2. /\ \A w \in DOMAIN u : b[u[w]] = values[w]
      /\ \A g \in N : b[f[gates[g].out[2]]] = Inverse0(values[gates[g].in[1]])
  BY <1>1 DEF Right
<1>3. \A w \in DOMAIN v : w \in DOMAIN u /\ u[w] = v[w]
  BY DEF VarsGrow
<1>4. \A w \in DOMAIN v : b[v[w]] = values[w]
  BY <1>2, <1>3
<1>5. \A g \in Tests : gates[g].out[2] \in DOMAIN e
  BY DEF TestVariables
<1>6. /\ \A x \in DOMAIN e : f[x] = e[x]
      /\ Tests \subseteq N
      /\ Line.op = "zerop" => n \in N /\ f[gates[n].out[2]] = z
  BY TestsAfter DEF Extended
<1>7. \A g \in Tests : b[e[gates[g].out[2]]] = Inverse0(values[gates[g].in[1]])
  <2> TAKE g \in Tests
  <2>1. f[gates[g].out[2]] = e[gates[g].out[2]] /\ g \in N
    BY <1>5, <1>6
  <2> QED
    BY <1>2, <2>1
<1>8. Right(b)
  BY <1>4, <1>7 DEF Right
<1>9. Sees(b)
  BY <1>4 DEF Sees
<1>10. Line.op = "zerop" => b[z] = Inverse0(values[Line.in[1]])
  BY <1>1, <1>2, <1>6
<1> QED
  BY <1>2, <1>8, <1>9, <1>10

LEMMA ConsAfter ==
  ASSUME Working, WireOrder, TestVariables, ConsHold, NEW t, NEW cs, NEW z, DecidedBy(t, cs, z)
  PROVE  ConsHold'
<1> PICK n : n = next
  OBVIOUS
<1> PICK u : u = vs'
  OBVIOUS
<1> PICK c : c = cons'
  OBVIOUS
<1>1. Handled(t, cs) /\ VarsGrow /\ Complete(cs, u, z) /\ Auxiliary(z)
  BY DEF DecidedBy, Decided
<1>2. /\ gates' = gates /\ values' = values /\ next' = n + 1 /\ n \in Nat /\ Line = gates[n]
      /\ c = Append(cons, cs)
  BY <1>1, AfterHandler
<1>3. cons \in Seq(Range(cons)) /\ n = Len(cons) + 1
  BY DEF Working, IInv, Seqs
<1>4. c[n] = cs
  BY <1>2, <1>3, LastIsAppended
<1>5. \A i \in 1..n - 1 : c[i] = cons[i]
  BY <1>2, <1>3
<1>6. \A i : InRange(gates[i])' <=> InRange(gates[i])
  BY <1>2, Zenon DEF InRange
<1> SUFFICES ASSUME NEW b, Right(b)' PROVE Satisfied(b)'
  BY DEF ConsHold
<1>7. /\ Right(b) /\ Sees(b)
      /\ \A w \in Defined(Line) \cap DOMAIN u.of : b[u.of[w]] = values[w]
      /\ Line.op = "zerop" => b[z] = Inverse0(values[Line.in[1]])
  BY <1>1, RightBefore
<1>8. \A i \in 1..n - 1 : InRange(gates[i]) => \A r \in cons[i] : Holds(r, b)
  BY <1>7 DEF ConsHold, Satisfied
<1>9. InRange(Line) => \A r \in cs : Holds(r, b)
  BY <1>1, <1>7 DEF Complete
<1>10. \A i \in 1..n : InRange(gates[i]) => \A r \in c[i] : Holds(r, b)
  <2> TAKE i \in 1..n
  <2>1. i \in 1..n - 1 \/ i = n
    BY <1>2
  <2> QED
    BY <1>2, <1>4, <1>5, <1>8, <1>9, <2>1
<1>11. next' - 1 = n
  BY <1>2
<1> QED
  BY <1>6, <1>10, <1>11, Zenon DEF Satisfied

LEMMA HandlerKeepsAssignment == IInv /\ AInv /\ Handler => AInv'
<1> SUFFICES ASSUME IInv, AInv, Handler PROVE AInv'
  OBVIOUS
<1>1. Working /\ (\E t, cs, z : DecidedBy(t, cs, z)) /\ \E p : Effect(p)
  BY HandlerDecides, HandlerEffect
<1>2. PICK t, cs, z : DecidedBy(t, cs, z)
  BY <1>1
<1>3. PICK p : Effect(p)
  BY <1>1
<1>4. Handled(t, cs) /\ VarsGrow /\ Auxiliary(z)
  BY <1>2 DEF DecidedBy
<1>5. WireOrder /\ FromLinear /\ TestVariables /\ TestsKept /\ ConsHold
  BY DEF AInv
<1>6. WireOrder'
  BY <1>1, <1>4, <1>5, OrderAfter
<1>7. FromLinear'
  BY <1>1, <1>3, <1>4, <1>5, LinearAfter
<1>8. TestVariables'
  BY <1>1, <1>4, <1>5, VariablesAfter
<1>9. TestsKept'
  BY <1>1, <1>3, <1>4, <1>5, TestsKeptAfter
<1>10. ConsHold'
  BY <1>1, <1>2, <1>5, ConsAfter
<1>11. MapRight'
  BY <1>1, <1>4, AfterHandler DEF MapRight
<1> QED
  BY <1>6, <1>7, <1>8, <1>9, <1>10, <1>11 DEF AInv

(* The first pass *)

NothingBuilt == next = 1 /\ lcOf = <<>> /\ zeroOf = <<>> /\ phase \in {"parse", "construct"}

LEMMA NothingToAssign ==
  NothingBuilt => FromLinear /\ TestVariables /\ TestsKept /\ ConsHold /\ MapRight
<1> SUFFICES ASSUME NothingBuilt PROVE FromLinear /\ TestVariables /\ TestsKept /\ ConsHold /\ MapRight
  OBVIOUS
<1>1. DOMAIN lcOf = {} /\ DOMAIN zeroOf = {} /\ 1..next - 1 = {}
  BY DEF NothingBuilt
<1>2. Tests = {}
  BY <1>1 DEF Tests
<1>3. FromLinear
  BY <1>1 DEF FromLinear
<1>4. TestVariables
  BY <1>1, <1>2 DEF TestVariables
<1>5. TestsKept
  BY <1>2 DEF TestsKept
<1>6. ConsHold
  BY <1>1 DEF ConsHold, Satisfied
<1>7. MapRight
  BY DEF MapRight, NothingBuilt
<1> QED
  BY <1>3, <1>4, <1>5, <1>6, <1>7

\* A gate line defines wires above all others.
LEMMA ParsedInOrder == Circuit /\ WireOrder /\ ParseGate => WireOrder'
<1> SUFFICES ASSUME Circuit, WireOrder, ParseGate PROVE WireOrder'
  OBVIOUS
<1>1. PICK op \in GateTypes : \E g \in NewGates(op) : gates' = Append(gates, g)
  BY KitsAssumption DEF ParseGate
<1>2. PICK g \in NewGates(op) : gates' = Append(gates, g)
  BY <1>1
<1> PICK m : m = Len(gates)
  OBVIOUS
<1> PICK k : k = Cardinality(Wires)
  OBVIOUS
<1>3. /\ g.op = op /\ g \in GateLines
      /\ IF op = "assert" THEN TRUE ELSE g.out = [i \in 1..Outs(g) |-> k + i - 1]
  BY NewGateShape
<1>4. /\ m \in Nat /\ Len(gates') = m + 1 /\ gates'[m + 1] = g
      /\ \A i \in 1..m : gates'[i] = gates[i]
  <2>1. gates \in Seq(GateLines)
    BY DEF Circuit
  <2> QED
    BY <1>2, <1>3, <2>1, AppendProperties
<1>5. ASSUME NEW i \in 1..m + 1 PROVE Before(i)' = Before(i)
  <2>1. \A j \in 1..i - 1 : Defined(gates'[j]) = Defined(gates[j])
    BY <1>4
  <2> QED
    BY <2>1 DEF Before, Inputs
<1>6. Before(m + 1) \subseteq Wires /\ Wires = 0..k - 1 /\ k \in Nat
  <2>1. Before(m + 1) \subseteq Wires
    BY UsableIsBefore
  <2>2. Wires = 0..k - 1 /\ k \in Nat
    BY DEF Circuit
  <2> QED
    BY <2>1, <2>2
<1>7. \A u \in Defined(g) : u \in Int /\ u >= k
  <2>1. CASE op = "assert"
    BY <1>3, <2>1 DEF Defined
  <2>2. CASE op # "assert"
    <3>1. Outs(g) \in Nat /\ (op = "zerop" => Outs(g) = 2)
      BY <1>3 DEF Outs, SizeAssumption
    <3>2. \A i \in 1..Outs(g) : g.out[i] \in Int /\ g.out[i] >= k
      BY <1>3, <1>6, <2>2, <3>1
    <3>3. DOMAIN g.out = 1..Outs(g)
      BY <1>3, <2>2
    <3>4. \A u \in Defined(g) : \E i \in 1..Outs(g) : u = g.out[i]
      BY <1>3, <2>2, <3>1, <3>3 DEF Defined, Range
    <3> QED
      BY <3>2, <3>4
  <2> QED
    BY <2>1, <2>2
<1>8. ASSUME NEW i \in 1..Len(gates'), NEW w \in Before(i)', NEW u \in Defined(gates'[i]) PROVE w < u
  <2>1. i \in 1..m + 1 /\ w \in Before(i)
    BY <1>4, <1>5
  <2>2. CASE i \in 1..m
    BY <1>4, <2>1, <2>2 DEF WireOrder
  <2>3. CASE i = m + 1
    <3>1. w \in 0..k - 1 /\ u \in Int /\ u >= k
      BY <1>4, <1>6, <1>7, <2>1, <2>3
    <3> QED
      BY <1>6, <3>1
  <2> QED
    BY <1>4, <2>1, <2>2, <2>3
<1> QED
  BY <1>8 DEF WireOrder

LEMMA OrderKept == WireOrder /\ UNCHANGED gates => WireOrder'
BY DEF WireOrder, Before, Inputs

LEMMA ParseKeepsAssignment ==
  ASSUME IInv, AInv, ParseGate \/ ParseOutput \/ StartConstruct
  PROVE  AInv'
<1>1. phase = "parse" /\ UNCHANGED <<next, lcOf, zeroOf>> /\ phase' \in {"parse", "construct"}
  BY DEF ParseGate, ParseOutput, StartConstruct
<1>2. NothingBuilt'
  BY <1>1 DEF NothingBuilt, IInv, Unbuilt
<1>3. (FromLinear /\ TestVariables /\ TestsKept /\ ConsHold /\ MapRight)'
  BY <1>2, NothingToAssign, PTL
<1>4. WireOrder'
  <2>1. CASE ParseGate
    BY <2>1, ParsedInOrder DEF IInv, AInv
  <2>2. CASE ParseOutput \/ StartConstruct
    <3>1. UNCHANGED gates
      BY <2>2 DEF ParseOutput, StartConstruct, parsed
    <3> QED
      BY <3>1, OrderKept DEF AInv
  <2> QED
    BY <2>1, <2>2
<1> QED
  BY <1>3, <1>4 DEF AInv

LEMMA InitAssignment == Init => AInv
<1> SUFFICES ASSUME Init PROVE AInv
  OBVIOUS
<1>1. NothingBuilt /\ gates = <<>>
  BY DEF Init, NothingBuilt
<1>2. WireOrder
  BY <1>1 DEF WireOrder
<1> QED
  BY <1>1, <1>2, NothingToAssign DEF AInv

(* The steps that build nothing *)

LEMMA AssignmentTablesKept ==
  IInv /\ AInv /\ UNCHANGED Tables => (WireOrder /\ FromLinear /\ TestVariables /\ TestsKept /\ ConsHold)'
<1> SUFFICES ASSUME IInv, AInv, UNCHANGED Tables
             PROVE  (WireOrder /\ FromLinear /\ TestVariables /\ TestsKept /\ ConsHold)'
  OBVIOUS
<1>1. /\ gates' = gates /\ values' = values /\ lcOf' = lcOf /\ heap' = heap /\ next' = next /\ vs' = vs
      /\ cons' = cons /\ zeroPs' = zeroPs /\ zeroOf' = zeroOf
  BY DEF Tables
<1>2. WireOrder'
  BY <1>1, OrderKept DEF AInv
<1>3. FromLinear'
  BY <1>1 DEF AInv, FromLinear
<1>4. Tests' = Tests /\ \A i : Before(i)' = Before(i)
  BY <1>1 DEF Tests, Before, Inputs
<1>5. TestVariables'
  BY <1>1, <1>4 DEF AInv, TestVariables
<1>6. ZeropEdited' <=> ZeropEdited
  BY <1>1, Zenon DEF ZeropEdited
<1>7. \A g : TestKept(g)' <=> TestKept(g)
  <2> TAKE g
  <2>1. KeptAt(g)' = KeptAt(g) /\ Before(g)' = Before(g)
    BY <1>1, <1>4 DEF KeptAt
  <2> QED
    BY <1>1, <2>1 DEF TestKept
<1>8. TestsKept'
  BY <1>4, <1>6, <1>7 DEF AInv, TestsKept
<1>9. \A i : InRange(gates[i])' <=> InRange(gates[i])
  BY <1>1, Zenon DEF InRange
<1>10. \A b : (Right(b)' <=> Right(b)) /\ (Satisfied(b)' <=> Satisfied(b))
  <2> TAKE b
  <2>1. Right(b)' <=> Right(b)
    BY <1>1, <1>4 DEF Right
  <2>2. Satisfied(b)' <=> Satisfied(b)
    BY <1>1, <1>9 DEF Satisfied
  <2> QED
    BY <2>1, <2>2
<1>11. ConsHold'
  BY <1>10 DEF AInv, ConsHold
<1> QED
  BY <1>2, <1>3, <1>5, <1>8, <1>11

(* The third pass *)

LEMMA MapRightKept == MapRight /\ UNCHANGED Tables /\ UNCHANGED mapping /\ UNCHANGED phase => MapRight'
<1> SUFFICES ASSUME MapRight, UNCHANGED Tables, UNCHANGED mapping, UNCHANGED phase PROVE MapRight'
  OBVIOUS
<1>1. /\ gates' = gates /\ values' = values /\ next' = next /\ vs' = vs /\ zeroOf' = zeroOf
      /\ val' = val /\ unmapped' = unmapped /\ phase' = phase
  BY DEF Tables, mapping
<1>2. Tests' = Tests
  BY <1>1 DEF Tests
<1>3. MappedRight' <=> MappedRight
  BY <1>1, <1>2 DEF MappedRight
<1>4. ZeropEdited' <=> ZeropEdited
  BY <1>1, Zenon DEF ZeropEdited
<1> QED
  BY <1>1, <1>3, <1>4 DEF MapRight

LEMMA StartMapRight == IInv /\ AInv /\ StartMap => MapRight'
<1> SUFFICES ASSUME IInv, AInv, StartMap PROVE MapRight'
  OBVIOUS
<1>1. /\ gates' = gates /\ values' = values /\ next' = next /\ vs' = vs /\ zeroOf' = zeroOf
      /\ next > Len(gates) /\ phase' = "map" /\ unmapped' = DOMAIN vs.of
  BY DEF StartMap, parsed
<1>2. Tests' = Tests
  BY <1>1 DEF Tests
<1>3. \A g \in Tests : gates[g].out[2] \in unmapped'
  BY <1>1 DEF AInv, TestVariables, IInv, Zerops
<1>4. MappedRight'
  BY <1>1, <1>2, <1>3 DEF MappedRight
<1>5. next = Len(gates) + 1
  BY <1>1 DEF IInv, Seqs, Circuit
<1> QED
  BY <1>1, <1>4, <1>5 DEF MapRight

LEMMA EndMapRight == AInv /\ EndMap => MapRight'
<1> SUFFICES ASSUME AInv, EndMap PROVE MapRight'
  OBVIOUS
<1>1. /\ gates' = gates /\ values' = values /\ next' = next /\ vs' = vs /\ zeroOf' = zeroOf
      /\ val' = val /\ unmapped' = unmapped /\ phase = "map" /\ phase' = "done" /\ unmapped = {}
  BY DEF EndMap, parsed, mapping
<1>2. Tests' = Tests
  BY <1>1 DEF Tests
<1>3. MappedRight' <=> MappedRight
  BY <1>1, <1>2 DEF MappedRight
<1>4. ZeropEdited' <=> ZeropEdited
  BY <1>1, Zenon DEF ZeropEdited
<1> QED
  BY <1>1, <1>3, <1>4 DEF AInv, MapRight

\* The third pass, at the wire w, which is the least it has left.
Visits(w) ==
    /\ IInv /\ AInv /\ phase = "map" /\ MappedRight
    /\ w \in unmapped /\ w \in Int /\ \A x \in unmapped : x \in Int /\ w <= x

\* The assignment a has the visited wires and w right, and the tests of the visited wires.
VisitedRight(a, w) ==
    /\ \A x \in DOMAIN vs.of \ unmapped : vs.of[x] \in DOMAIN a /\ a[vs.of[x]] = values[x]
    /\ vs.of[w] \in DOMAIN a /\ a[vs.of[w]] = values[w]
    /\ \A g \in Tests : gates[g].out[2] \notin unmapped =>
         /\ zeroOf[gates[g].out[2]] \in DOMAIN a
         /\ a[zeroOf[gates[g].out[2]]] = Inverse0(values[gates[g].in[1]])

LEMMA WireVisited ==
  ASSUME NEW w, Visits(w), NEW a, a = With(val, vs.of[w], values[w])
  PROVE  VisitedRight(a, w)
<1> PICK v : v = vs.of
  OBVIOUS
<1> PICK e : e = zeroOf
  OBVIOUS
<1>1. /\ \A x \in DOMAIN v \ unmapped : v[x] \in DOMAIN val /\ val[v[x]] = values[x]
      /\ \A g \in Tests : gates[g].out[2] \notin unmapped =>
           /\ e[gates[g].out[2]] \in DOMAIN val
           /\ val[e[gates[g].out[2]]] = Inverse0(values[gates[g].in[1]])
  BY DEF Visits, MappedRight
<1>2. w \in DOMAIN v /\ \A x, y \in DOMAIN v : v[x] = v[y] => x = y
  BY DEF Visits, IInv, Mapping, IsVarMap
<1>3. Extended(a, val, v[w], values[w])
  BY WithFields
<1>4. DOMAIN a = DOMAIN val \cup {v[w]} /\ a[v[w]] = values[w] /\ \A y \in DOMAIN val : y # v[w] => a[y] = val[y]
  BY <1>3 DEF Extended
<1>5. \A g \in Tests : gates[g].out[2] \in DOMAIN e
  BY DEF Visits, AInv, TestVariables
<1>6. \A z \in DOMAIN e : e[z] # v[w]
  BY <1>2 DEF Visits, AInv, TestVariables, Range
<1>7. ASSUME NEW x \in DOMAIN v \ unmapped PROVE v[x] \in DOMAIN a /\ a[v[x]] = values[x]
  <2>1. x # w
    BY DEF Visits
  <2>2. v[x] # v[w]
    BY <1>2, <2>1
  <2> QED
    BY <1>1, <1>4, <2>2
<1>8. ASSUME NEW g \in Tests, gates[g].out[2] \notin unmapped
      PROVE  e[gates[g].out[2]] \in DOMAIN a /\ a[e[gates[g].out[2]]] = Inverse0(values[gates[g].in[1]])
  BY <1>1, <1>4, <1>5, <1>6, <1>8
<1> QED
  BY <1>4, <1>7, <1>8 DEF VisitedRight

\* The next kept combination is that of the test of w.
LEMMA PlaceOfTest ==
  ASSUME NEW w, Visits(w), w \in DOMAIN zeroOf
  PROVE  zeropIdx = Rank(DOMAIN zeroOf, w)
<1> PICK D : D = DOMAIN zeroOf
  OBVIOUS
<1> PICK U : U = unmapped
  OBVIOUS
<1>1. /\ D \subseteq DOMAIN vs.of /\ D \subseteq Wires /\ Len(zeroPs) = Cardinality(D) /\ zeropIdx \in Int
      /\ zeropIdx + Cardinality(U \cap D) = Len(zeroPs) + 1 /\ Circuit
  BY DEF Visits, IInv, Zerops, Mapping, IsVarMap
<1>2. IsFiniteSet(D) /\ D \subseteq Int
  <2>1. IsFiniteSet(Wires)
    BY <1>1, WiresFinite
  <2>2. Wires \subseteq Int
    BY <1>1 DEF Circuit
  <2> QED
    BY <1>1, <2>1, <2>2, FS_Subset
<1>3. w \in D \cap U /\ (\A u \in D \ U : u < w) /\ \A u \in D \cap U : w <= u
  BY <1>1 DEF Visits, MappedRight
<1>4. Rank(D, w) + Cardinality(D \cap U) = Cardinality(D) + 1
  BY <1>2, <1>3, RankOfNext
<1>5. D \cap U = U \cap D
  OBVIOUS
<1> PICK c \in Nat : c = Cardinality(U \cap D)
  <2>1. IsFiniteSet(U \cap D)
    BY <1>2, <1>5, FS_Subset
  <2> QED
    BY <2>1, FS_CardinalityType
<1> PICK k \in Nat : k = Cardinality(D)
  BY <1>2, FS_CardinalityType
<1> PICK j \in Nat : j = Rank(D, w)
  BY <1>2, <1>3, RankIsIndex
<1>6. zeropIdx + c = k + 1 /\ j + c = k + 1
  BY <1>1, <1>4, <1>5
<1>7. zeropIdx = j
  BY <1>1, <1>6
<1> QED
  BY <1>7

\* It is over wires visited before, so it is worth the test's input.
LEMMA TestIsWorth ==
  ASSUME NEW w, Visits(w), ~ZeropEdited, NEW a, VisitedRight(a, w), NEW g \in Tests, gates[g].out[2] = w,
         NEW l, l = heap[zeroPs[zeropIdx]]
  PROVE  Assigned(l, a) /\ Eval(l, a) = values[gates[g].in[1]]
<1> PICK v : v = vs.of
  OBVIOUS
<1> PICK B : B = Before(g)
  OBVIOUS
<1> PICK x : x = values[gates[g].in[1]]
  OBVIOUS
<1>1. w \in DOMAIN zeroOf
  BY DEF Visits, AInv, TestVariables
<1>2. l = heap[KeptAt(g)]
  BY <1>1, PlaceOfTest DEF KeptAt
<1>3. WorthBy(l, v, values, B, x)
  BY <1>2 DEF Visits, AInv, TestsKept, TestKept
<1>4. \A u \in B : u < w
  <2>1. g \in 1..Len(gates) /\ gates[g].op = "zerop"
    <3>1. next \in 1..Len(gates) + 1 /\ Len(gates) \in Nat
      BY DEF Visits, IInv, Seqs, Circuit
    <3> QED
      BY <3>1 DEF Tests
  <2>2. w \in Defined(gates[g])
    BY <2>1 DEF Defined
  <2> QED
    BY <2>1, <2>2 DEF Visits, AInv, WireOrder
<1>5. \A u \in DOMAIN v \cap B : v[u] \in DOMAIN a /\ a[v[u]] = values[u]
  <2> TAKE u \in DOMAIN v \cap B
  <2>1. u < w
    BY <1>4
  <2>2. u \notin unmapped
    <3> SUFFICES ASSUME u \in unmapped PROVE FALSE
      OBVIOUS
    <3>1. w <= u /\ u \in Int /\ w \in Int
      BY DEF Visits
    <3> QED
      BY <2>1, <3>1
  <2> QED
    BY <2>2 DEF VisitedRight
<1>6. Agrees(a, v, values, B)
  BY <1>5 DEF Agrees
<1>7. Eval(l, a) = x
  BY <1>3, <1>6 DEF WorthBy
<1>8. Assigned(l, a)
  <2>1. DOMAIN l \subseteq {v[u] : u \in DOMAIN v \cap B}
    BY <1>3 DEF WorthBy
  <2> QED
    BY <1>5, <2>1 DEF Assigned
<1> QED
  BY <1>7, <1>8

LEMMA MapWireRight == IInv /\ AInv /\ MapWire => MapRight'
<1> SUFFICES ASSUME IInv, AInv, MapWire PROVE MapRight'
  OBVIOUS
<1> PICK w : w = NextWire
  OBVIOUS
<1> PICK a : a = With(val, vs.of[w], values[w])
  OBVIOUS
<1> PICK l : l = heap[zeroPs[zeropIdx]]
  OBVIOUS
<1> PICK x : x = Inverse0(Eval(l, a))
  OBVIOUS
<1> PICK v : v = vs.of
  OBVIOUS
<1> PICK e : e = zeroOf
  OBVIOUS
<1> PICK b : b = val'
  OBVIOUS
<1>1. /\ phase = "map" /\ unmapped # {}
      /\ gates' = gates /\ values' = values /\ next' = next /\ vs' = vs /\ zeroOf' = zeroOf
      /\ IF w \notin DOMAIN e
         THEN b = a /\ unmapped' = unmapped \ {w} /\ phase' = phase
         ELSE IF Assigned(l, a)
              THEN b = With(a, e[w], x) /\ unmapped' = unmapped \ {w} /\ phase' = phase
              ELSE phase' = "fatal"
  BY DEF MapWire, parsed
<1>2. next = Len(gates) + 1 /\ (~ZeropEdited => MappedRight)
  BY <1>1 DEF AInv, MapRight
<1>3. ZeropEdited' <=> ZeropEdited
  BY <1>1, Zenon DEF ZeropEdited
<1>4. CASE ZeropEdited
  BY <1>1, <1>2, <1>3, <1>4 DEF MapRight
<1>5. CASE ~ZeropEdited
  <2>1. unmapped \subseteq DOMAIN v /\ Circuit /\ DOMAIN v \subseteq Wires
    BY DEF IInv, Mapping, IsVarMap
  <2>2. IsFiniteSet(unmapped) /\ unmapped \subseteq Int
    <3>1. IsFiniteSet(Wires)
      BY <2>1, WiresFinite
    <3>2. Wires \subseteq Int
      BY <2>1 DEF Circuit
    <3> QED
      BY <2>1, <3>1, <3>2, FS_Subset
  <2>3. w \in unmapped /\ \A y \in unmapped : w <= y
    BY <1>1, <2>2, MinIsLeast DEF NextWire
  <2>4. Visits(w)
    BY <1>1, <1>2, <1>5, <2>2, <2>3 DEF Visits
  <2>5. VisitedRight(a, w)
    BY <2>4, WireVisited
  <2>6. /\ \A y \in DOMAIN v \ unmapped : v[y] \in DOMAIN a /\ a[v[y]] = values[y]
        /\ v[w] \in DOMAIN a /\ a[v[w]] = values[w]
        /\ \A g \in Tests : gates[g].out[2] \notin unmapped =>
             /\ e[gates[g].out[2]] \in DOMAIN a
             /\ a[e[gates[g].out[2]]] = Inverse0(values[gates[g].in[1]])
    BY <2>5 DEF VisitedRight
  <2>7. Tests' = Tests /\ \A g \in Tests : gates[g].out[2] \in DOMAIN e
    BY <1>1 DEF Tests, AInv, TestVariables
  <2>8. unmapped' = unmapped \ {w} => \A y \in unmapped', u \in DOMAIN v \ unmapped' : u < y
    <3> SUFFICES ASSUME unmapped' = unmapped \ {w}, NEW y \in unmapped \ {w}, NEW u \in DOMAIN v, u \notin unmapped \ {w}
                 PROVE  u < y
      OBVIOUS
    <3>1. w <= y /\ w # y /\ w \in Int /\ y \in Int
      BY <2>2, <2>3
    <3>2. CASE u = w
      BY <3>1, <3>2
    <3>3. CASE u # w
      BY <2>4, <3>3 DEF Visits, MappedRight
    <3> QED
      BY <3>2, <3>3
  <2>9. CASE w \notin DOMAIN e
    <3>1. b = a /\ unmapped' = unmapped \ {w} /\ phase' = phase
      BY <1>1, <2>9
    <3>2. \A y \in DOMAIN v \ unmapped' : v[y] \in DOMAIN b /\ b[v[y]] = values[y]
      BY <2>6, <3>1
    <3>3. \A g \in Tests : gates[g].out[2] \notin unmapped' =>
             /\ e[gates[g].out[2]] \in DOMAIN b
             /\ b[e[gates[g].out[2]]] = Inverse0(values[gates[g].in[1]])
      BY <2>6, <2>7, <2>9, <3>1
    <3>4. MappedRight'
      BY <1>1, <2>7, <2>8, <3>1, <3>2, <3>3 DEF MappedRight
    <3> QED
      BY <1>1, <1>2, <3>1, <3>4 DEF MapRight
  <2>10. CASE w \in DOMAIN e
    <3>1. \A g \in Tests : gates[g].out[2] = w => Assigned(l, a) /\ Eval(l, a) = values[gates[g].in[1]]
      BY <1>5, <2>4, <2>5, TestIsWorth
    <3>2. \E g \in Tests : gates[g].out[2] = w
      BY <2>10 DEF AInv, TestVariables
    <3>3. b = With(a, e[w], x) /\ unmapped' = unmapped \ {w} /\ phase' = phase
      BY <1>1, <2>10, <3>1, <3>2
    <3>4. DOMAIN b = DOMAIN a \cup {e[w]} /\ b[e[w]] = x /\ \A y \in DOMAIN a : y # e[w] => b[y] = a[y]
      <4>1. Extended(b, a, e[w], x)
        BY <3>3, WithFields
      <4> QED
        BY <4>1 DEF Extended
    <3>5. \A y \in DOMAIN v : v[y] # e[w]
      BY <2>10 DEF AInv, TestVariables, Range
    <3>6. \A z \in DOMAIN e : e[z] = e[w] => z = w
      BY <2>10 DEF AInv, TestVariables
    <3>7. \A y \in DOMAIN v \ unmapped' : v[y] \in DOMAIN b /\ b[v[y]] = values[y]
      <4> TAKE y \in DOMAIN v \ unmapped'
      <4>1. v[y] \in DOMAIN a /\ a[v[y]] = values[y]
        BY <2>6, <3>3
      <4> QED
        BY <3>4, <3>5, <4>1
    <3>8. ASSUME NEW g \in Tests, gates[g].out[2] \notin unmapped'
          PROVE  /\ e[gates[g].out[2]] \in DOMAIN b
                 /\ b[e[gates[g].out[2]]] = Inverse0(values[gates[g].in[1]])
      <4>1. CASE gates[g].out[2] = w
        BY <3>1, <3>4, <4>1
      <4>2. CASE gates[g].out[2] # w
        <5>1. gates[g].out[2] \notin unmapped /\ e[gates[g].out[2]] # e[w]
          BY <2>7, <3>3, <3>6, <3>8, <4>2
        <5> QED
          BY <2>6, <3>4, <5>1
      <4> QED
        BY <4>1, <4>2
    <3>9. MappedRight'
      BY <1>1, <2>7, <2>8, <3>3, <3>7, <3>8 DEF MappedRight
    <3> QED
      BY <1>1, <1>2, <3>3, <3>9 DEF MapRight
  <2> QED
    BY <2>9, <2>10
<1> QED
  BY <1>4, <1>5

LEMMA OthersKeepAssignment ==
  ASSUME IInv, AInv, Refused \/ StartMap \/ MapWire \/ EndMap \/ UNCHANGED vars
  PROVE  AInv'
<1>1. UNCHANGED Tables
  BY DEF Refused, StartMap, MapWire, EndMap, vars, Tables, parsed
<1>2. MapRight'
  <2>1. CASE Refused
    <3>1. phase' = "exit"
      BY <2>1 DEF Refused
    <3> QED
      BY <3>1 DEF MapRight
  <2>2. CASE UNCHANGED vars
    <3>1. UNCHANGED mapping /\ UNCHANGED phase
      BY <2>2 DEF vars, mapping
    <3> QED
      BY <1>1, <3>1, MapRightKept DEF AInv
  <2> QED
    BY <2>1, <2>2, StartMapRight, MapWireRight, EndMapRight
<1> QED
  BY <1>1, <1>2, AssignmentTablesKept DEF AInv

LEMMA NextKeepsAssignment == IInv /\ AInv /\ [Next]_vars => AInv'
<1> SUFFICES ASSUME IInv, AInv, [Next]_vars PROVE AInv'
  OBVIOUS
<1>1. CASE ParseGate \/ ParseOutput \/ StartConstruct
  BY <1>1, ParseKeepsAssignment
<1>2. CASE Handler
  BY <1>2, HandlerKeepsAssignment
<1>3. CASE Refused \/ StartMap \/ MapWire \/ EndMap \/ UNCHANGED vars
  BY <1>3, OthersKeepAssignment
<1> QED
  BY <1>1, <1>2, <1>3 DEF Next, Handler, LinearHandler

\* For inputs in range, and unless a linear gate edits a combination that a zero
\* test has kept, the third pass ends without its fatal error and the assignment
\* it makes satisfies every constraint (mapValuesToProtoboard, CircuitReader.cpp:351).
THEOREM AssignmentSatisfiesHolds == Spec => []AssignmentSatisfies
<1>1. Init => AInv
  BY InitAssignment
<1>2. IInv /\ AInv /\ [Next]_vars => AInv'
  BY NextKeepsAssignment
<1>3. IInv /\ AInv => AssignmentSatisfies
  BY AssignmentIsRight
<1> QED
  BY <1>1, <1>2, <1>3, IInvIsInvariant, PTL DEF Spec

=====================================================================
