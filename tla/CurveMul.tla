------------------------------ MODULE CurveMul ------------------------------
(***************************************************************************)
(* EncActivity and BigIntegerEC: the encryption of a vote on a Montgomery  *)
(* curve, y^2 = x^3 + A x^2 + x.  A multiplication makes a table of        *)
(* doublings, starts from the last entry, adds the entries the scalar's    *)
(* bits select from the highest down, and subtracts the last entry again.  *)
(* Every addition is computed, also those a zero bit throws away, with the *)
(* chord's formula only: equal or opposite points make modInverse throw.   *)
(* Two products are added; only their x was kept, and a root is taken anew.*)
(***************************************************************************)
EXTENDS Integers, Sequences, FiniteSets

CONSTANTS
    FIELD_PRIME, COEFF_A,
    SECRET_BITWIDTH,  \* bits of a scalar
    CURVE_ORDER,      \* the number of points, infinity included
    Bases,            \* the x of the public points: candidates' and keys
    Inputs            \* the scalars before they are reduced, signed

ASSUME CurveAssumption ==
    /\ FIELD_PRIME \in Nat /\ FIELD_PRIME > 3
    /\ COEFF_A \in Nat /\ SECRET_BITWIDTH \in Nat
    /\ \A d \in 2 .. FIELD_PRIME - 1 : FIELD_PRIME % d # 0
    /\ CURVE_ORDER < 2 ^ SECRET_BITWIDTH
    /\ Bases \subseteq 0 .. FIELD_PRIME - 1
    /\ Inputs \subseteq Int

VARIABLES
    ecStep,   \* what the computation does next
    exponent, \* the scalar as it was given
    table,    \* precomputedTable, from 0 on
    result,   \* the running sum
    j,        \* the loop variable
    products  \* the finished products: base, scalar, and the x that is kept

curveVars == <<ecStep, exponent, table, result, j, products>>

-----------------------------------------------------------------------------
(* The field and the curve *)

Field == 0 .. FIELD_PRIME - 1
Points ==
    {q \in Field \X Field :
        (q[2] * q[2]) % FIELD_PRIME = (q[1] * q[1] * q[1] + COEFF_A * q[1] * q[1] + q[1]) % FIELD_PRIME}
ASSUME OrderAssumption == Cardinality(Points) + 1 = CURVE_ORDER
NoPoint == <<>>  \* no result yet; infinity in the reference below

modInverse(b) == CHOOSE c \in Field : (b * c) % FIELD_PRIME = 1
FieldDivision(a, b) == (a * modInverse(b % FIELD_PRIME)) % FIELD_PRIME

\* Where the line of slope q through p1 and p2 meets the curve, negated.
OnLine(p1, p2, q) ==
    << (q * q - COEFF_A - p1[1] - p2[1]) % FIELD_PRIME,
       ((2 * p1[1] + p2[1] + COEFF_A) * q - q * q * q - p1[2]) % FIELD_PRIME >>

doubleBigIntegerAffinePoint(p) ==
    OnLine(p, p, FieldDivision(3 * p[1] * p[1] + 2 * COEFF_A * p[1] + 1, 2 * p[2]))

addBigIntegerAffinePoints(p1, p2) == OnLine(p1, p2, FieldDivision(p1[2] - p2[2], p1[1] - p2[1]))

\* p2 negated; the formula has p2's x only.
subAffinePoints(p1, p2) == OnLine(p1, p2, FieldDivision(p1[2] + p2[2], p1[1] - p2[1]))

\* makesecretbits: the bits of the scalar modulo the order, lowest first.
Scalar(k)    == k % CURVE_ORDER
secretBit(i) == (Scalar(exponent) \div 2 ^ i) % 2

-----------------------------------------------------------------------------
(* The computation *)

Last == table[Len(table)]

CurveInit ==
    /\ ecStep = "idle"
    /\ exponent = 0 /\ table = <<>> /\ result = NoPoint /\ j = 0
    /\ products = <<>>

\* new BigIntegerEC(baseX, expX): the base point, with either root for its y.
BeginProduct(base, exp) ==
    /\ ecStep = "idle" /\ Len(products) < 2
    /\ base[1] \in Bases
    /\ ecStep' = "table"
    /\ exponent' = exp
    /\ table' = <<base>>
    /\ UNCHANGED <<result, j, products>>

Throw(blocked) == blocked /\ ecStep' = "thrown" /\ UNCHANGED <<exponent, table, result, j, products>>

\* preprocess: one doubling; a point with y = 0 has none.
Double ==
    /\ ecStep = "table" /\ Len(table) <= SECRET_BITWIDTH
    /\ \/ Throw(Last[2] = 0)
       \/ /\ Last[2] # 0
          /\ table' = Append(table, doubleBigIntegerAffinePoint(Last))
          /\ UNCHANGED <<ecStep, exponent, result, j, products>>

BeginLoop ==
    /\ ecStep = "table" /\ Len(table) = SECRET_BITWIDTH + 1
    /\ ecStep' = "add"
    /\ result' = Last
    /\ j' = SECRET_BITWIDTH - 1
    /\ UNCHANGED <<exponent, table, products>>

\* Mutant: the additions a zero bit throws away are not computed.
AddSelectedOnly ==
    /\ ecStep = "add" /\ j >= 0
    /\ \/ Throw(secretBit(j) = 1 /\ result[1] = table[j + 1][1])
       \/ /\ secretBit(j) = 1 => result[1] # table[j + 1][1]
          /\ result' = IF secretBit(j) = 1 THEN addBigIntegerAffinePoints(result, table[j + 1])
                                           ELSE result
          /\ j' = j - 1
          /\ UNCHANGED <<ecStep, exponent, table, products>>

\* Mutant: the sum of an addition is kept whatever the bit is.
AddKept ==
    /\ ecStep = "add" /\ j >= 0
    /\ \/ Throw(result[1] = table[j + 1][1])
       \/ /\ result[1] # table[j + 1][1]
          /\ result' = addBigIntegerAffinePoints(result, table[j + 1])
          /\ j' = j - 1
          /\ UNCHANGED <<ecStep, exponent, table, products>>

\* A turn of the loop of mul.
Add ==
    /\ ecStep = "add" /\ j >= 0
    /\ \/ Throw(result[1] = table[j + 1][1])
       \/ /\ result[1] # table[j + 1][1]
          /\ result' = IF secretBit(j) = 1 THEN addBigIntegerAffinePoints(result, table[j + 1])
                                           ELSE result
          /\ j' = j - 1
          /\ UNCHANGED <<ecStep, exponent, table, products>>

\* Mutant: the last entry is left in.
SubtractNothing ==
    /\ ecStep = "add" /\ j < 0
    /\ ecStep' = "idle"
    /\ products' = Append(products, [ base |-> table[1], scalar |-> Scalar(exponent),
                                      x |-> result[1] ])
    /\ exponent' = 0 /\ table' = <<>> /\ result' = NoPoint /\ j' = 0

\* The last entry is taken off again; the x is the product.
Subtract ==
    /\ ecStep = "add" /\ j < 0
    /\ \/ Throw(result[1] = Last[1])
       \/ /\ result[1] # Last[1]
          /\ ecStep' = "idle"
          /\ products' = Append(products, [ base |-> table[1], scalar |-> Scalar(exponent),
                                            x |-> subAffinePoints(result, Last)[1] ])
          /\ exponent' = 0 /\ table' = <<>> /\ result' = NoPoint /\ j' = 0

\* EncActivity adds the products, each with a root for its y.
Combine(p1, p2) ==
    /\ ecStep = "idle" /\ Len(products) = 2
    /\ p1[1] = products[1].x /\ p2[1] = products[2].x
    /\ \/ Throw(p1[1] = p2[1])
       \/ /\ p1[1] # p2[1]
          /\ ecStep' = "encrypted"
          /\ result' = addBigIntegerAffinePoints(p1, p2)
          /\ UNCHANGED <<exponent, table, j, products>>

CurveNext ==
    \/ \E base \in Points, exp \in Inputs : BeginProduct(base, exp)
    \/ Double \/ BeginLoop \/ Add \/ Subtract
    \/ \E p1, p2 \in Points : Combine(p1, p2)

CurveSpec == CurveInit /\ [][CurveNext]_curveVars

CurveTypeOK ==
    /\ ecStep \in {"idle", "table", "add", "thrown", "encrypted"}
    /\ exponent \in Inputs \cup {0}
    /\ \A k \in DOMAIN table : table[k] \in Points
    /\ result \in Points \cup {NoPoint}
    /\ j \in -1 .. SECRET_BITWIDTH
    /\ Len(products) <= 2

-----------------------------------------------------------------------------
(* The reference: the group of the curve's points *)

Minus(p) == IF p = NoPoint THEN p ELSE <<p[1], (-p[2]) % FIELD_PRIME>>

\* The point R with p + q + R = 0 lies on their line; negate it.
Plus(p, q) ==
    IF p = NoPoint THEN q
    ELSE IF q = NoPoint THEN p
    ELSE IF q = Minus(p) THEN NoPoint
    ELSE LET slope == CHOOSE s \in Field :
                IF p = q
                THEN (2 * s * p[2]) % FIELD_PRIME = (3 * p[1] * p[1] + 2 * COEFF_A * p[1] + 1) % FIELD_PRIME
                ELSE (s * (q[1] - p[1])) % FIELD_PRIME = (q[2] - p[2]) % FIELD_PRIME
             x3 == (slope * slope - COEFF_A - p[1] - q[1]) % FIELD_PRIME
         IN <<x3, (-(p[2] + slope * (x3 - p[1]))) % FIELD_PRIME>>

\* k times p, by repeated addition.
Times(k, p) ==
    LET times[n \in 0 .. k] == IF n = 0 THEN NoPoint ELSE Plus(times[n - 1], p)
    IN times[k]

\* The least k > 0 for which k times p is infinity.
OrderOf == [p \in Points |->
    CHOOSE k \in 1 .. CURVE_ORDER :
        Times(k, p) = NoPoint /\ \A i \in 1 .. k - 1 : Times(i, p) # NoPoint]

\* What the loop has summed up: the last entry and the bits of k from i on.
SumFrom(k, i) == 2 ^ SECRET_BITWIDTH + (k \div 2 ^ i) * 2 ^ i

\* The sum and the entry of turn i, or at -1 the one to take off, are the same
\* multiple of a point of order n up to sign.
Meets(k, i, n) ==
    LET entry == IF i < 0 THEN 2 ^ SECRET_BITWIDTH ELSE 2 ^ i IN
    \/ (SumFrom(k, i + 1) - entry) % n = 0
    \/ (SumFrom(k, i + 1) + entry) % n = 0

-----------------------------------------------------------------------------
(* Properties *)

\* The running sum is the multiple of the base that repeated addition gives, at
\* every turn, with infinity never reached unnoticed (BigIntegerEC.java:139-148).
SumIsMultiple ==
    ecStep = "add" => result = Times(SumFrom(Scalar(exponent), j + 1), table[1])

\* A multiplication throws exactly where a doubling meets a point of order two or a
\* sum meets its entry, although the bit may be zero: it ends if and only if no turn
\* does.  In particular it never ends for a multiple of the base's order, where the
\* sum is the entry to take off (BigIntegerEC.java:128, 142, 149, 158, 171, 181).
ThrowsAtMeetings ==
    /\ ecStep = "thrown" /\ table # <<>> =>
        LET n == OrderOf[table[1]] IN
        IF Len(table) <= SECRET_BITWIDTH THEN 2 ^ Len(table) % n = 0
                                         ELSE Meets(Scalar(exponent), j, n)
    /\ ecStep = "idle" => \A k \in DOMAIN products :
        LET n == OrderOf[products[k].base] IN
        /\ products[k].scalar % n # 0
        /\ \A i \in -1 .. SECRET_BITWIDTH - 1 : ~Meets(products[k].scalar, i, n)

\* What is sent is the sum or the difference of the two products: which one depends
\* on the roots taken, as a product keeps its x only (EncActivity.java:106-125).
EncryptedUpToSign ==
    ecStep = "encrypted" =>
        LET p == Times(products[1].scalar, products[1].base)
            q == Times(products[2].scalar, products[2].base)
        IN result[1] \in {Plus(p, q)[1], Plus(p, Minus(q))[1]}
=============================================================================
