---- MODULE CircuitReader ----
(***************************************************************************)
(* The reader of a .arith circuit (jsnark_interface/CircuitReader.cpp).    *)
(* A first pass evaluates every wire and counts its uses; a second pass    *)
(* turns each gate into rank-1 constraints, or, for the linear gates, into *)
(* a linear combination the output wire points to; a third one assigns the *)
(* values to the protoboard's variables.                                   *)
(*                                                                         *)
(* Linear combinations are shared pointers: heap[p] is the combination the *)
(* pointer p refers to, and an operation that edits heap[p] is seen by all *)
(* who hold p.  Numbers are those of the prime field of P elements.  Wire  *)
(* numbers are given in the order the gates define them, as the circuit    *)
(* generator does.                                                         *)
(***************************************************************************)
EXTENDS Integers, Sequences, FiniteSets, FiniteSetsExt, SequencesExt, Functions, TLC

CONSTANTS P,            \* the order of the field, a prime
          NumInputs,    \* wires declared by "input" lines; wire 0 is the one-wire
          NumNizk,      \* wires declared by "nizkinput" lines
          Data,         \* values the input file gives to the wires above 0
          Factors,      \* constants of the const-mul gates
          Arity,        \* inputs of an add or pack gate, outputs of a split gate
          Kits,         \* sets of gate types; a circuit is built from one of them
          MaxGates,     \* bound on the gates of a circuit
          MaxOutputs    \* bound on its "output" lines

ASSUME FieldAssumption == P \in Nat \ {0, 1} /\ Data \subseteq 0..P-1 /\ Factors \subseteq 0..P-1
ASSUME InverseAssumption == \A x \in 1..P-1 : \E y \in 0..P-1 : (x * y) % P = 1
ASSUME SizeAssumption == NumInputs \in Nat \ {0} /\ NumNizk \in Nat /\ Arity \in Nat \ {0}
                         /\ MaxGates \in Nat /\ MaxOutputs \in Nat

VARIABLES phase,     \* the pass, or how the reader ended
          gates,     \* the gate lines
          outputs,   \* outputWireIds
          values,    \* wireValues
          uses,      \* wireUseCounters
          lcOf,      \* wireLinearCombinations, where not null: wire -> pointer
          heap,      \* the linear combinations, by pointer
          next,      \* the gate line the second pass is at
          vs,        \* variableMap (of) and currentVariableIdx (n)
          cons,      \* the constraints each gate added to the protoboard
          zeroPs,    \* zeroPwires
          zeroOf,    \* zeropMap: output wire of a zerop gate -> its auxiliary variable
          val,       \* the protoboard's assignment
          unmapped,  \* wires the third pass has still to visit
          zeropIdx   \* zeropGateIndex

parsed == <<gates, outputs, values>>
mapping == <<val, unmapped, zeropIdx>>
vars == <<phase, gates, outputs, values, uses, lcOf, heap, next, vs, cons, zeroPs, zeroOf,
          val, unmapped, zeropIdx>>

Field == 0..P-1
Bits == {0, 1}
Inputs == 0..NumInputs + NumNizk - 1
Wires == DOMAIN values

\* f changed or extended at x.
With(f, x, y) == [z \in DOMAIN f \cup {x} |-> IF z = x THEN y ELSE f[z]]

\* The powers of two, by doubling.
two_i[i \in 0..Arity] == IF i = 0 THEN 1 ELSE 2 * two_i[i - 1]

-----------------------------------------------------------------------------
\* Linear combinations: a coefficient per variable that occurs; One is the constant term.
One == -1
Term(v, c) == [x \in {v} |-> c]
Coeff(l, v) == IF v \in DOMAIN l THEN l[v] ELSE 0
Plus(l, m) == [v \in DOMAIN l \cup DOMAIN m |-> (Coeff(l, v) + Coeff(m, v)) % P]
Times(c, l) == [v \in DOMAIN l |-> (c * l[v]) % P]
Const(c) == Term(One, c)
Eval(l, a) == SumFunction([v \in DOMAIN l |-> l[v] * (IF v = One THEN 1 ELSE a[v])]) % P
Assigned(l, a) == DOMAIN l \subseteq DOMAIN a \cup {One}

R1(a, b, c) == [a |-> a, b |-> b, c |-> c]
Holds(r, a) == (Eval(r.a, a) * Eval(r.b, a)) % P = Eval(r.c, a)

-----------------------------------------------------------------------------
\* First pass.
GateTypes == {"add", "mul", "xor", "or", "assert", "pack", "zerop", "split",
              "const-mul", "const-mul-neg"}
ASSUME KitsAssumption == Kits \subseteq SUBSET GateTypes
Editing == {"add", "pack", "const-mul", "const-mul-neg"}
Gate(op, in, out, c) == [op |-> op, in |-> in, out |-> out, c |-> c]

\* A zerop gate names two output wires and defines the second.
Defined(g) == IF g.op = "zerop" THEN {g.out[2]} ELSE IF g.op = "assert" THEN {} ELSE Range(g.out)
Usable == Inputs \cup UNION {Defined(g) : g \in Range(gates)}
\* Mutant: the output wire of an assert gate is not counted.
ReadsInputsOnly(g) == g.in

\* The wires a gate reads: an assert gate reads its output wire too.
Reads(g) == IF g.op = "assert" THEN g.in \o g.out ELSE g.in

Sorted(in) == \A i, j \in DOMAIN in : i < j => in[i] <= in[j]
NewGates(op) ==
  LET n == Cardinality(Wires)
      Of(in, m) == Gate(op, in, [i \in 1..m |-> n + i - 1], 0)
      Ins(k) == [1..k -> Usable]
  IN CASE op \in {"add", "pack"} -> {Of(in, 1) : in \in Ins(Arity)}
       [] op \in {"mul", "xor", "or"} -> {Of(in, 1) : in \in {s \in Ins(2) : Sorted(s)}}
       [] op = "assert" -> {Gate(op, in, <<w>>, 0) : in \in {s \in Ins(2) : Sorted(s)}, w \in Usable}
       [] op = "zerop" -> {Of(in, 2) : in \in Ins(1)}
       [] op = "split" -> {Of(in, Arity) : in \in Ins(1)}
       [] OTHER -> {[Of(in, 1) EXCEPT !.c = c] : in \in Ins(1), c \in Factors}

\* What an "output" line names.  parseAndEval takes any wire; the generator's circuits
\* (registerarith.dat, tallyarith.dat) name no input there and no wire twice.
NewOutputs == Usable \ (Inputs \cup Range(outputs))

Weighted(x) == SumFunction([i \in DOMAIN x |-> two_i[i - 1] * x[i]]) % P
\* What parseAndEval computes for the wires of a gate from the values x of its inputs.
Result(g, x) ==
  CASE g.op = "add" -> <<SumFunction(x) % P>>
    [] g.op = "mul" -> <<(x[1] * x[2]) % P>>
    [] g.op = "xor" -> <<IF x[1] = x[2] THEN 0 ELSE 1>>
    [] g.op = "or" -> <<IF x[1] = 0 /\ x[2] = 0 THEN 0 ELSE 1>>
    [] g.op = "zerop" -> <<0, IF x[1] = 0 THEN 0 ELSE 1>>
    [] g.op = "pack" -> <<Weighted(x)>>
    [] g.op = "split" -> [i \in DOMAIN g.out |-> (x[1] \div two_i[i - 1]) % 2]
    [] g.op = "const-mul" -> <<(g.c * x[1]) % P>>
    [] g.op = "const-mul-neg" -> <<((P - g.c) * x[1]) % P>>
    [] OTHER -> <<>>

\* Mutant: a wire that is an input twice is counted once.
CountOnce(s, w) == IF w \in Range(s) THEN 1 ELSE 0

\* How often wire w is listed in s.
Count(s, w) == Cardinality({i \in DOMAIN s : s[i] = w})

WithResult(g) ==
  LET r == Result(g, [i \in DOMAIN g.in |-> values[g.in[i]]])
  IN [w \in Wires \cup {g.out[i] : i \in DOMAIN r} |->
        IF w \in Wires THEN values[w] ELSE r[CHOOSE i \in DOMAIN r : g.out[i] = w]]

Init ==
  /\ phase = "parse" /\ gates = <<>> /\ outputs = <<>>
  /\ values \in {f \in [Inputs -> Data \cup {1}] : f[0] = 1 /\ \A w \in Inputs \ {0} : f[w] \in Data}
  /\ uses = [w \in Inputs |-> 0]
  /\ lcOf = <<>> /\ heap = <<>> /\ next = 1 /\ vs = [of |-> <<>>, n |-> 0]
  /\ cons = <<>> /\ zeroPs = <<>> /\ zeroOf = <<>>
  /\ val = <<>> /\ unmapped = {} /\ zeropIdx = 1

\* A gate line: evaluate it and count a use of every wire it reads.
ParseGate ==
  /\ phase = "parse" /\ Len(gates) < MaxGates
  /\ \E kit \in Kits : \E op \in kit :
       /\ {g.op : g \in Range(gates)} \subseteq kit
       /\ \E g \in NewGates(op) :
            /\ gates' = Append(gates, g)
            /\ values' = WithResult(g)
            /\ uses' = [w \in DOMAIN values' |->
                          (IF w \in Wires THEN uses[w] ELSE 0) + Count(Reads(g), w)]
  /\ UNCHANGED <<phase, outputs, lcOf, heap, next, vs, cons, zeroPs, zeroOf, mapping>>

\* An "output" line: the wire is kept, and counted as used once more.
ParseOutput ==
  /\ phase = "parse" /\ Len(outputs) < MaxOutputs
  /\ \E w \in NewOutputs :
       outputs' = Append(outputs, w) /\ uses' = [uses EXCEPT ![w] = @ + 1]
  /\ UNCHANGED <<phase, gates, values, lcOf, heap, next, vs, cons, zeroPs, zeroOf, mapping>>

-----------------------------------------------------------------------------
\* Second pass.
Declare(v, w) == IF w \in DOMAIN v.of THEN v ELSE [of |-> With(v.of, w, v.n), n |-> v.n + 1]
IdSeq(from, to) == [i \in 1..(to - from + 1) |-> from + i - 1]
DeclareAll(v, ws) ==
  LET after[i \in 0..Len(ws)] == IF i = 0 THEN v ELSE Declare(after[i - 1], ws[i])
  IN after[Len(ws)]
Declared(ws) == IdSeq(0, NumInputs - 1) \o ws \o IdSeq(NumInputs, NumInputs + NumNizk - 1)

\* Inputs, outputs and nizk inputs get their variables first, in this order.
StartConstruct ==
  /\ phase = "parse"
  /\ phase' = "construct"
  /\ LET ids == Declared(outputs)
     IN vs' = [of |-> [w \in Range(ids) |-> (CHOOSE i \in DOMAIN ids : ids[i] = w) - 1],
               n |-> Len(ids)]
  /\ UNCHANGED <<parsed, uses, lcOf, heap, next, cons, zeroPs, zeroOf, mapping>>

\* What find reads and changes; ptr is the pointer it returned last.
Store == [uses |-> uses, lcOf |-> lcOf, heap |-> heap, toClean |-> {}, ptr |-> 0]
Shared(s, p) == [s EXCEPT !.ptr = p]
Fresh(s, l) == [s EXCEPT !.heap = Append(@, l), !.ptr = Len(s.heap) + 1]

\* Mutant: a combination with further uses is edited in place.
FindNeverCopies(s, w, edit) ==
  LET last == s.uses[w] = 1
      t == [s EXCEPT !.uses[w] = @ - 1, !.toClean = IF last THEN @ \cup {w} ELSE @]
  IN IF w \notin DOMAIN s.lcOf THEN Fresh(t, Term(vs.of[w], 1)) ELSE Shared(t, s.lcOf[w])

\* A wire without a combination stands for its variable.  A combination is
\* copied only if the caller will edit it and the wire has further uses.
Find(s, w, edit) ==
  LET last == s.uses[w] = 1
      t == [s EXCEPT !.uses[w] = @ - 1, !.toClean = IF last THEN @ \cup {w} ELSE @]
  IN IF w \notin DOMAIN s.lcOf THEN Fresh(t, Term(vs.of[w], 1))
     ELSE IF edit /\ ~last THEN Fresh(t, s.heap[s.lcOf[w]])
     ELSE Shared(t, s.lcOf[w])

\* clean(): the wires used for the last time drop their pointer.
Cleaned(s) == Restrict(s.lcOf, DOMAIN s.lcOf \ s.toClean)

Line == gates[next]
At(op) == phase = "construct" /\ next <= Len(gates) /\ Line.op = op
Out == Line.out[Len(Line.out)]

\* The end of every handler: find's changes, clean(), the constraints added.
Handled(s, cs) ==
  /\ uses' = s.uses /\ heap' = s.heap /\ lcOf' = Cleaned(s)
  /\ cons' = Append(cons, cs) /\ next' = next + 1
  /\ UNCHANGED <<phase, parsed, mapping>>

Found1 == Find(Store, Line.in[1], FALSE)
Found2 == Find(Found1, Line.in[2], FALSE)
L1 == Found2.heap[Found1.ptr]
L2 == Found2.heap[Found2.ptr]
OutTerm(v, w) == Term(v.of[w], 1)
Minus(l, m) == Plus(l, Times(P - 1, m))

AddMulConstraint ==
  /\ At("mul") /\ vs' = Declare(vs, Out)
  /\ Handled(Found2, {R1(L1, L2, OutTerm(vs', Out))})
  /\ UNCHANGED <<zeroPs, zeroOf>>

AddXorConstraint ==
  /\ At("xor") /\ vs' = Declare(vs, Out)
  /\ Handled(Found2, {R1(Times(2, L1), L2, Minus(Plus(L1, L2), OutTerm(vs', Out)))})
  /\ UNCHANGED <<zeroPs, zeroOf>>

AddOrConstraint ==
  /\ At("or") /\ vs' = Declare(vs, Out)
  /\ Handled(Found2, {R1(L1, L2, Minus(Plus(L1, L2), OutTerm(vs', Out)))})
  /\ UNCHANGED <<zeroPs, zeroOf>>

AddAssertionConstraint ==
  /\ At("assert")
  /\ LET s == Find(Found2, Out, FALSE) IN Handled(s, {R1(L1, L2, s.heap[s.ptr])})
  /\ UNCHANGED <<vs, zeroPs, zeroOf>>

\* The variables of the wires ws, weighted by the powers of two.
WeightedBits(v, ws) ==
  LET sum[i \in 0..Len(ws)] ==
        IF i = 0 THEN <<>> ELSE Plus(sum[i - 1], Times(two_i[i - 1], OutTerm(v, ws[i])))
  IN sum[Len(ws)]

\* Every bit is constrained to be one, and their weighted sum to be the input.
AddSplitConstraint ==
  /\ At("split") /\ vs' = DeclareAll(vs, Line.out)
  /\ LET bit(i) == OutTerm(vs', Line.out[i])
     IN Handled(Found1,
                {R1(bit(i), Minus(bit(i), Const(1)), Const(0)) : i \in DOMAIN Line.out}
                  \cup {R1(Found1.heap[Found1.ptr], Const(1), WeightedBits(vs', Line.out))})
  /\ UNCHANGED <<zeroPs, zeroOf>>

\* Mutant: a nonzero condition may have output 0.
NonzeroConstraintsOneSided(l, out, aux) == {R1(l, aux, out)}

\* condition * not(output) = 0, condition * auxConditionInverse = output.
NonzeroConstraints(l, out, aux) == {R1(l, Minus(Const(1), out), Const(0)), R1(l, aux, out)}

\* zeroPwires keeps the pointer find returned, not a copy.
AddNonzeroCheckConstraint ==
  /\ At("zerop")
  /\ LET v == Declare(vs, Out)
     IN /\ vs' = [v EXCEPT !.n = @ + 1]
        /\ zeroPs' = Append(zeroPs, Found1.ptr)
        /\ zeroOf' = With(zeroOf, Out, v.n)
        /\ Handled(Found1, NonzeroConstraints(Found1.heap[Found1.ptr], OutTerm(v, Out),
                                              Term(v.n, 1)))

-----------------------------------------------------------------------------
\* The linear gates edit the combination of their first input and hand it on.
\* An output wire that has a variable already is refused: exit(-1).
Refused ==
  /\ phase = "construct" /\ next <= Len(gates) /\ Line.op \in Editing /\ Out \in DOMAIN vs.of
  /\ phase' = "exit"
  /\ UNCHANGED <<parsed, uses, lcOf, heap, next, vs, cons, zeroPs, zeroOf, mapping>>

\* The store after k inputs: the combination of the first one is edited, and
\* weights[i] times input i is added to it, for i from 2 on.
Accumulated(weights) ==
  LET first == Find(Store, Line.in[1], TRUE)
      p == first.ptr
      added(t, i) == LET u == Find(t, Line.in[i], FALSE)
                     IN [u EXCEPT !.heap[p] = Plus(@, Times(weights[i], u.heap[u.ptr])), !.ptr = p]
      after[k \in 1..Len(Line.in)] == IF k = 1 THEN first ELSE added(after[k - 1], k)
  IN after[Len(Line.in)]
Scaled(c) == LET s == Find(Store, Line.in[1], TRUE) IN [s EXCEPT !.heap[s.ptr] = Times(c, @)]

Linear(s) ==
  /\ Out \notin DOMAIN vs.of
  /\ Handled([s EXCEPT !.lcOf = With(@, Out, s.ptr)], {})
  /\ UNCHANGED <<vs, zeroPs, zeroOf>>

HandleAddition == At("add") /\ Linear(Accumulated([i \in DOMAIN Line.in |-> 1]))
HandlePackOperation == At("pack") /\ Linear(Accumulated([i \in DOMAIN Line.in |-> two_i[i - 1]]))
HandleMulConst == At("const-mul") /\ Linear(Scaled(Line.c))
HandleMulNegConst == At("const-mul-neg") /\ Linear(Scaled((P - Line.c) % P))

-----------------------------------------------------------------------------
\* Third pass: the wires that have a variable, in the order of their numbers.
StartMap ==
  /\ phase = "construct" /\ next > Len(gates)
  /\ phase' = "map" /\ unmapped' = DOMAIN vs.of
  /\ UNCHANGED <<parsed, uses, lcOf, heap, next, vs, cons, zeroPs, zeroOf, val, zeropIdx>>

Inverse0(x) == IF x = 0 THEN 0 ELSE CHOOSE y \in Field : (x * y) % P = 1

\* Mutant: the variables are visited in another order.
LastWireFirst == Max(unmapped)

\* variableMap is an ordered map: the third pass goes through it by wire number.
NextWire == Min(unmapped)

\* A zerop output takes the next stored combination and assigns its auxiliary
\* variable; a combination with a variable not assigned yet is a fatal error.
MapWire ==
  /\ phase = "map" /\ unmapped # {}
  /\ LET w == NextWire
         a == With(val, vs.of[w], values[w])
         l == heap[zeroPs[zeropIdx]]
     IN IF w \notin DOMAIN zeroOf
        THEN val' = a /\ unmapped' = unmapped \ {w} /\ UNCHANGED <<phase, zeropIdx>>
        ELSE /\ zeropIdx' = zeropIdx + 1
             /\ IF Assigned(l, a)
                THEN /\ val' = With(a, zeroOf[w], Inverse0(Eval(l, a)))
                     /\ unmapped' = unmapped \ {w} /\ UNCHANGED phase
                ELSE phase' = "fatal" /\ UNCHANGED <<val, unmapped>>
  /\ UNCHANGED <<parsed, uses, lcOf, heap, next, vs, cons, zeroPs, zeroOf>>

\* isSatisfied is only logged; the reader goes on whatever it says.
EndMap ==
  /\ phase = "map" /\ unmapped = {}
  /\ phase' = "done"
  /\ UNCHANGED <<parsed, uses, lcOf, heap, next, vs, cons, zeroPs, zeroOf, mapping>>

Next ==
  \/ ParseGate \/ ParseOutput \/ StartConstruct
  \/ AddMulConstraint \/ AddXorConstraint \/ AddOrConstraint \/ AddAssertionConstraint
  \/ AddSplitConstraint \/ AddNonzeroCheckConstraint
  \/ HandleAddition \/ HandlePackOperation \/ HandleMulConst \/ HandleMulNegConst \/ Refused
  \/ StartMap \/ MapWire \/ EndMap

Spec == Init /\ [][Next]_vars

-----------------------------------------------------------------------------
\* Every table has the shape the passes give it: counters never underflow, and
\* combinations use only declared variables (CircuitReader.hpp, private members).
TypeOK ==
  /\ phase \in {"parse", "construct", "map", "done", "exit", "fatal"}
  /\ Wires = 0..Cardinality(Wires) - 1 /\ Range(values) \subseteq Field
  /\ uses \in [Wires -> Nat]
  /\ vs.n \in Nat /\ DOMAIN vs.of \subseteq Wires /\ Range(vs.of) \subseteq 0..vs.n - 1
  /\ \A p \in DOMAIN heap : DOMAIN heap[p] \subseteq Range(vs.of) /\ Range(heap[p]) \subseteq Field
  /\ DOMAIN lcOf \subseteq Wires /\ Range(lcOf) \cup Range(zeroPs) \subseteq DOMAIN heap
  /\ next \in 1..Len(gates) + 1 /\ Len(cons) = next - 1
  /\ DOMAIN val \subseteq 0..vs.n - 1 /\ Range(val) \subseteq Field
  /\ zeropIdx \in 1..Len(zeroPs) + 1

\* The assignment parseAndEval's values amount to, for the variables of wires.
Intended == [v \in Range(vs.of) |-> values[CHOOSE w \in DOMAIN vs.of : vs.of[w] = v]]

\* Whatever was shared, edited in place or copied, the combination a wire still
\* points to evaluates to the wire's value (find, CircuitReader.cpp:376).
LiveLCsEvaluate ==
  \A w \in DOMAIN lcOf : Eval(heap[lcOf[w]], Intended) = values[w]

\* A wire that a later gate reads was not dropped: it still has a combination or
\* a variable.  Otherwise find would silently stand in variable 0 (clean, :404).
NoInputLost ==
  phase = "construct" =>
    \A i \in next..Len(gates) : \A w \in Range(Reads(gates[i])) :
      w \in DOMAIN lcOf \cup DOMAIN vs.of \cup UNION {Defined(gates[j]) : j \in next..Len(gates)}

\* The inputs for which the constraints of a gate mean what the gate computes.
InRange(h) ==
  LET x == [i \in DOMAIN h.in |-> values[h.in[i]]]
  IN CASE h.op \in {"xor", "or"} -> x[1] \in Bits /\ x[2] \in Bits
       [] h.op = "split" -> x[1] < two_i[Len(h.out)] /\ two_i[Len(h.out)] <= P
       [] h.op = "assert" -> (x[1] * x[2]) % P = values[h.out[1]]
       [] OTHER -> TRUE

\* The assignment a, and f for the variables a leaves out.
Completed(a, f) == [v \in DOMAIN a \cup DOMAIN f |-> IF v \in DOMAIN a THEN a[v] ELSE f[v]]

\* The constraints a gate adds leave its outputs no choice: with the right
\* values on its inputs, any assignment of its output and auxiliary variables
\* that satisfies them has the evaluated outputs, and an assertion that fails
\* satisfies none (the addX methods, CircuitReader.cpp:412-632).
GateSound ==
  (phase = "construct" /\ next > 1) =>
    LET h == gates[next - 1]
        outs == {vs.of[w] : w \in Defined(h) \cap DOMAIN vs.of}
        aux == {zeroOf[w] : w \in Defined(h) \cap DOMAIN zeroOf}
    IN \A a \in [outs \cup aux -> Field] :
         ((h.op = "assert" \/ InRange(h)) /\ \A r \in cons[next - 1] : Holds(r, Completed(a, Intended)))
           => /\ \A v \in outs : a[v] = Intended[v]
              /\ InRange(h)

\* Gate k edits, in place, the combination a zerop gate before it has kept.
ZeropEdited ==
  \E j, k \in DOMAIN gates :
    /\ j < k /\ gates[j].op = "zerop" /\ gates[k].op \in Editing
    /\ gates[k].in[1] = gates[j].in[1]
    /\ \E i \in DOMAIN gates : gates[i].op \in Editing /\ gates[j].in[1] \in Defined(gates[i])
    /\ \A i \in k..Len(gates) :
         Count(Reads(gates[i]), gates[j].in[1]) = (IF i = k THEN 1 ELSE 0)

\* For inputs in range, and unless a kept combination was edited, the assignment
\* the third pass makes satisfies every constraint the second one added
\* (mapValuesToProtoboard, CircuitReader.cpp:351).
AssignmentSatisfies ==
  (~ZeropEdited /\ \A i \in DOMAIN gates : InRange(gates[i])) =>
    /\ phase # "fatal"
    /\ phase = "done" => \A i \in DOMAIN cons : \A r \in cons[i] : Holds(r, val)

\* "condition * auxConditionInverse = output" (CircuitReader.cpp:627), for every
\* zerop gate of every circuit that was read.
ZeropAnnotation ==
  phase = "done" =>
    \A i \in DOMAIN gates : gates[i].op = "zerop" => \A r \in cons[i] : Holds(r, val)
====
