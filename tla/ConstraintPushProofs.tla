------------------------ MODULE ConstraintPushProofs ------------------------
(***************************************************************************)
(* TLAPS proofs about ConstraintPush, for every number of constraints and  *)
(* threads: with stores seen in program order, main only ever pushes       *)
(* complete conversions, nobody stores into the freed buffer, and the      *)
(* threads together implement the sequential conversion.                   *)
(*                                                                         *)
(* The argument: a flag is meaningful only once its worker has cleared its *)
(* own flags.  The caller's reset covers the first flag of each worker, so *)
(* seeing that flag set means the worker is past its clearing loop, and    *)
(* consuming in order means that every later flag read is of a worker      *)
(* already seen past it.                                                   *)
(***************************************************************************)
EXTENDS ConstraintPush, TLAPS

Mine(j) == j % ThreadCount

Past(t) == pc[t] \in {"convert", "store", "log", "unlock", "exit", "wild"}

\* Main's reset loop, while no worker runs.
ResetPart ==
    mainPc = "reset" =>
        /\ i < ThreadCount
        /\ constraints = <<>>
        /\ \A t \in Worker : pc[t] = "idle" /\ (t < i => ~lc_processed[t])

\* Main's spawn loop: workers from i on have not started.
SpawnPart ==
    mainPc = "spawn" =>
        /\ i < ThreadCount
        /\ constraints = <<>>
        /\ \A t \in Worker : t >= i => pc[t] = "idle"

\* Every worker walks its own stride.
StridePart ==
    \A t \in Worker :
        /\ Mine(vector_index[t]) = t
        /\ pc[t] = "idle" => vector_index[t] = t

\* Flags while their worker has not reached its second loop.
ClearPart ==
    \A t \in Worker :
        /\ mainPc # "reset" /\ pc[t] \in {"idle", "clear"} => ~lc_processed[t]
        /\ pc[t] = "clear" =>
               \A j \in Index : Mine(j) = t /\ j < vector_index[t] => ~lc_processed[j]

\* Flags and results from then on.
ConvertPart ==
    \A t \in Worker : Past(t) =>
        \A j \in Index : Mine(j) = t =>
            /\ lc_processed[j] <=> j < vector_index[t]
            /\ j < vector_index[t] => itmd[j] = Converted(j)

\* Inside one conversion the flag is the last store.
StorePart ==
    \A t \in Worker : pc[t] = "store" =>
        /\ vector_index[t] < N
        /\ "flag" \in todo[t]
        /\ \A p \in Part : p \notin todo[t] => itmd[vector_index[t]][p] = vector_index[t]

\* Workers past the second loop have nothing left.
EndPart ==
    \A t \in Worker :
        pc[t] \in {"log", "unlock", "exit", "wild"} => vector_index[t] >= N

\* What main has consumed was converted by a worker past its clearing loop.
ConsumePart ==
    mainPc \notin {"reset", "spawn"} =>
        /\ Len(constraints) = i
        /\ mainPc # "consume" => i = N
        /\ \A j \in Index : j < i => Past(Mine(j)) /\ j < vector_index[Mine(j)]

IInv ==
    /\ TypeOK
    /\ ResetPart
    /\ SpawnPart
    /\ StridePart
    /\ ClearPart
    /\ ConvertPart
    /\ StorePart
    /\ EndPart
    /\ ConsumePart
    /\ PushedIsConverted

-----------------------------------------------------------------------------
(* Arithmetic of strides *)

\* A remainder and a quotient determine a number.
LEMMA DivMod ==
    ASSUME NEW m \in Nat \ {0}, NEW a \in Nat
    PROVE  /\ a \div m \in Nat
           /\ a % m \in 0 .. (m - 1)
           /\ m * (a \div m) \in Nat
           /\ a = m * (a \div m) + (a % m)
OBVIOUS

\* Multiples of m are at least m apart.
LEMMA MultiplesApart ==
    ASSUME NEW m \in Nat \ {0}, NEW q \in Nat, NEW p \in Nat, q < p
    PROVE  m * q + m <= m * p
<1>1. PICK d \in Nat : p = q + 1 + d
    BY p - q - 1 \in Nat
<1>2. m * p = m * q + m + m * d
    BY <1>1
<1>3. m * d \in Nat /\ m * q \in Nat
    BY Z3
<1> QED
    BY <1>2, <1>3

\* The remainder of a number written as quotient and remainder is unique.
LEMMA DivModUnique ==
    ASSUME NEW m \in Nat \ {0}, NEW q \in Nat, NEW p \in Nat,
           NEW r \in 0 .. (m - 1), NEW s \in 0 .. (m - 1),
           m * q + r = m * p + s
    PROVE  r = s
<1>1. m * p \in Nat /\ m * q \in Nat
    BY Z3
<1>2. CASE q < p
    BY <1>1, <1>2, MultiplesApart
<1>3. CASE p < q
    BY <1>1, <1>3, MultiplesApart
<1> QED
    BY <1>1, <1>2, <1>3

\* A worker's next index is again its own.
LEMMA ModStep ==
    ASSUME NEW m \in Nat \ {0}, NEW a \in Nat
    PROVE  (a + m) % m = a % m
<1> DEFINE q == a \div m + 1
           p == (a + m) \div m
           r == a % m
           s == (a + m) % m
<1>1. q \in Nat /\ r \in 0 .. (m - 1) /\ a + m = m * q + r
    <2>1. /\ a \div m \in Nat /\ a % m \in 0 .. (m - 1)
          /\ m * (a \div m) \in Nat /\ a = m * (a \div m) + (a % m)
        BY DivMod
    <2>2. m * q = m * (a \div m) + m
        BY <2>1
    <2> QED
        BY <2>1, <2>2
<1>2. p \in Nat /\ s \in 0 .. (m - 1) /\ a + m = m * p + s
    <2> DEFINE b == a + m
    <2>1. b \in Nat
        OBVIOUS
    <2> HIDE DEF b
    <2>2. b \div m \in Nat /\ b % m \in 0 .. (m - 1) /\ b = m * (b \div m) + (b % m)
        BY <2>1, DivMod
    <2> QED
        BY <2>2 DEF b
<1> HIDE DEF q, p, r, s
<1>3. r = s
    BY <1>1, <1>2, DivModUnique
<1> QED
    BY <1>3 DEF r, s

\* Two indices of one worker are at least a stride apart.
LEMMA ModApart ==
    ASSUME NEW m \in Nat \ {0}, NEW a \in Nat, NEW b \in Nat, a % m = b % m, a < b
    PROVE  a + m <= b
<1> DEFINE q == a \div m
           p == b \div m
           r == a % m
<1>1. /\ q \in Nat /\ p \in Nat /\ r \in 0 .. (m - 1)
      /\ m * q \in Nat /\ m * p \in Nat
      /\ a = m * q + r /\ b = m * p + r
    BY DivMod
<1> HIDE DEF q, p, r
<1>2. CASE q < p
    BY <1>1, <1>2, MultiplesApart
<1>3. CASE p < q
    BY <1>1, <1>3, MultiplesApart
<1>4. CASE p = q
    BY <1>1, <1>4
<1> QED
    BY <1>1, <1>2, <1>3, <1>4

\* The facts about Mine the invariance proof uses.
LEMMA Strides ==
    /\ \A j \in Nat : Mine(j) \in Worker
    /\ \A t \in Worker : Mine(t) = t
    /\ \A j \in Nat : Mine(j + ThreadCount) = Mine(j)
    /\ \A j, k \in Nat : Mine(j) = Mine(k) /\ j < k => j + ThreadCount <= k
<1>1. \A j \in Nat : Mine(j) \in Worker
    BY SizeAssumption, DivMod DEF Mine, Worker
<1>2. \A t \in Worker : Mine(t) = t
    BY SizeAssumption DEF Mine, Worker
<1>3. \A j \in Nat : Mine(j + ThreadCount) = Mine(j)
    BY SizeAssumption, ModStep DEF Mine
<1>4. \A j, k \in Nat : Mine(j) = Mine(k) /\ j < k => j + ThreadCount <= k
    BY SizeAssumption, ModApart DEF Mine
<1> QED
    BY <1>1, <1>2, <1>3, <1>4

\* Every index is a number, every worker owns an index of the buffer.
LEMMA Bounds ==
    /\ N \in Nat /\ ThreadCount \in Nat /\ ThreadCount >= 1
    /\ Index \subseteq Nat
    /\ Worker \subseteq Index
    /\ 0 \in Worker
BY SizeAssumption DEF Index, Worker

\* One step along a stride passes exactly one index of the stride.
LEMMA NextStride ==
    ASSUME NEW v \in Index
    PROVE  /\ Mine(v + ThreadCount) = Mine(v)
           /\ \A j \in Index : Mine(j) = Mine(v) =>
                 (j < v + ThreadCount <=> j = v \/ j < v)
<1>1. v \in Nat /\ ThreadCount \in Nat /\ ThreadCount >= 1
    BY Bounds
<1>2. SUFFICES ASSUME NEW j \in Index, Mine(j) = Mine(v)
               PROVE  j < v + ThreadCount <=> j = v \/ j < v
    BY <1>1, Strides
<1>3. j \in Nat
    BY Bounds
<1>4. v < j => v + ThreadCount <= j
    BY <1>1, <1>2, <1>3, Strides
<1> HIDE DEF Mine
<1> QED
    BY <1>1, <1>3, <1>4

-----------------------------------------------------------------------------
(* Type correctness *)

\* TypeOK is inductive by itself: the counters of the reset and spawn loops
\* stay below ThreadCount and that of the push loop below N.
LEMMA TypeStep ==
    ASSUME TypeOK, [Next]_vars
    PROVE  TypeOK'
<1> USE Bounds DEF TypeOK, MainPcs, WorkerPcs
<1>0. headers' \in Headers
    BY DEF Next, Sane, ReleaseGarbage, vars, Headers
<1> USE <1>0
<1>1. CASE ResetFlag
    <2>1. i' \in 0 .. N /\ mainPc' \in MainPcs
        BY <1>1, SizeAssumption DEF ResetFlag
    <2>2. lc_processed' \in [Index -> BOOLEAN]
        BY <1>1 DEF ResetFlag
    <2> QED
        BY <1>1, <2>1, <2>2 DEF ResetFlag, workerVars
<1>2. CASE SpawnWorker
    <2>1. i' \in 0 .. N /\ mainPc' \in MainPcs
        BY <1>2, SizeAssumption DEF SpawnWorker
    <2>2. pc' \in [Worker -> WorkerPcs]
        BY <1>2 DEF SpawnWorker
    <2> QED
        BY <1>2, <2>1, <2>2 DEF SpawnWorker, memVars
<1>3. CASE WaitAndPush
    <2>1. itmd[i] \in [Part -> Nat \cup {Unset}]
        BY <1>3 DEF WaitAndPush, Index
    <2>2. constraints' \in Seq([Part -> Nat \cup {Unset}])
        BY <1>3, <2>1 DEF WaitAndPush
    <2> QED
        BY <1>3, <2>2 DEF WaitAndPush, memVars, workerVars
<1>4. CASE LeaveLoop \/ FreeBuffer \/ Return
    BY <1>4 DEF LeaveLoop, FreeBuffer, Return, memVars, workerVars
<1>5. ASSUME NEW t \in Worker, WorkerStep(t)
      PROVE  TypeOK'
    <2>1. CASE ClearFlag(t)
        <3>1. lc_processed' \in [Index -> BOOLEAN]
            BY <2>1 DEF ClearFlag
        <3>2. vector_index' \in [Worker -> Nat]
            BY <2>1, <1>5 DEF ClearFlag
        <3> QED
            BY <2>1, <3>1, <3>2 DEF ClearFlag, mainVars
    <2>2. CASE ClearDone(t)
        BY <1>5, <2>2 DEF ClearDone, mainVars, memVars
    <2>3. CASE BeginConvert(t)
        BY <1>5, <2>3 DEF BeginConvert, mainVars, memVars
    <2>4. ASSUME NEW s \in Stores, Store(t, s)
          PROVE  TypeOK'
        <3>1. lc_processed' \in [Index -> BOOLEAN]
            BY <2>4 DEF Store
        <3>2. itmd' \in [Index -> [Part -> Nat \cup {Unset}]]
            <4> DEFINE old == itmd[vector_index[t]]
                       new == [old EXCEPT ![s] = vector_index[t]]
            <4>1. vector_index[t] \in Nat
                BY <1>5
            <4>2. CASE vector_index[t] \notin Index
                BY <2>4, <4>2 DEF Store
            <4>3. CASE vector_index[t] \in Index
                <5>1. new \in [Part -> Nat \cup {Unset}]
                    BY <4>1, <4>3
                <5> QED
                    BY <2>4, <5>1 DEF Store
            <4> QED
                BY <4>2, <4>3
        <3>3. pc' \in [Worker -> WorkerPcs] /\ todo' \in [Worker -> SUBSET Stores]
            BY <2>4, <1>5 DEF Store
        <3>4. vector_index' \in [Worker -> Nat]
            BY <2>4, <1>5 DEF Store
        <3> QED
            BY <2>4, <3>1, <3>2, <3>3, <3>4 DEF Store, mainVars
    <2>5. CASE ConvertDone(t) \/ TestDeadPb(t) \/ StoreFreed(t)
        BY <1>5, <2>5 DEF ConvertDone, TestDeadPb, StoreFreed, mainVars, memVars
    <2>6. CASE LockLog(t) \/ UnlockLog(t)
        BY <1>5, <2>6 DEF LockLog, UnlockLog, mainVars, memVars
    <2> QED
        BY <1>5, <2>1, <2>2, <2>3, <2>4, <2>5, <2>6 DEF WorkerStep
<1>6. CASE UNCHANGED vars \/ \E t \in Worker : ReleaseGarbage(t)
    BY <1>6 DEF vars, ReleaseGarbage, mainVars, workerVars, memVars
<1> QED
    BY <1>1, <1>2, <1>3, <1>4, <1>5, <1>6 DEF Next, Sane, MainStep

\* Main and the workers only ever hold states, counters, flags and results of
\* the kinds they should: TypeOK is an invariant for every size of the system.
THEOREM TypeCorrect == Spec => []TypeOK
<1>1. Init => TypeOK
    BY Bounds DEF Init, TypeOK, MainPcs, WorkerPcs, Headers, Index, Worker
<1>2. TypeOK /\ [Next]_vars => TypeOK'
    BY TypeStep
<1>3. QED
    BY <1>1, <1>2, PTL DEF Spec

-----------------------------------------------------------------------------
(* The inductive invariant *)

LEMMA InitIInv == Init => IInv
<1> SUFFICES ASSUME Init
             PROVE  IInv
    OBVIOUS
<1>1. TypeOK
    BY Bounds DEF Init, TypeOK, MainPcs, WorkerPcs, Headers, Index, Worker
<1>2. ResetPart /\ SpawnPart
    BY Bounds DEF Init, ResetPart, SpawnPart, Worker
<1>3. StridePart
    BY Strides DEF Init, StridePart
<1>4. ClearPart /\ ConvertPart /\ StorePart /\ EndPart /\ ConsumePart
    BY DEF Init, ClearPart, ConvertPart, StorePart, EndPart, ConsumePart, Past
<1>5. PushedIsConverted
    BY DEF Init, PushedIsConverted
<1> QED
    BY <1>1, <1>2, <1>3, <1>4, <1>5 DEF IInv

LEMMA MainIInv ==
    ASSUME IInv, MainStep, TypeOK'
    PROVE  IInv'
<1> USE Bounds DEF IInv
<1>1. CASE ResetFlag
    <2> USE <1>1 DEF ResetFlag, workerVars
    <2>1. \A t \in Worker : pc[t] = "idle" /\ (t <= i => ~lc_processed'[t])
        <3>1. i < ThreadCount /\ \A t \in Worker : pc[t] = "idle" /\ (t < i => ~lc_processed[t])
            BY DEF ResetPart
        <3>2. i \in Nat /\ \A j \in Index : lc_processed'[j] = IF j = i THEN FALSE ELSE lc_processed[j]
            BY DEF TypeOK
        <3> HIDE <1>1 DEF IInv, ResetFlag
        <3>3. \A t \in Worker : t \in Nat /\ t \in Index
            OBVIOUS
        <3>4. \A t \in Worker : t <= i => t = i \/ t < i
            BY <3>2, <3>3
        <3> QED
            BY <3>1, <3>2, <3>3, <3>4
    <2>2. (ResetPart /\ SpawnPart)'
        BY <2>1 DEF ResetPart, SpawnPart, TypeOK
    <2>3. (StridePart /\ StorePart /\ EndPart /\ ConsumePart /\ ConvertPart)'
        BY <2>1 DEF StridePart, StorePart, EndPart, ConsumePart, ConvertPart, Past
    <2>4. ClearPart'
        BY <2>1 DEF ClearPart, Worker, TypeOK
    <2>5. PushedIsConverted'
        BY DEF PushedIsConverted
    <2> QED
        BY <2>2, <2>3, <2>4, <2>5
<1>2. CASE SpawnWorker
    <2> USE <1>2 DEF SpawnWorker, memVars
    <2>1. i \in Worker /\ pc[i] = "idle" /\ vector_index[i] = i
        BY DEF SpawnPart, StridePart, Worker, TypeOK
    <2>2. \A t \in Worker : t # i => pc'[t] = pc[t]
        BY DEF TypeOK
    <2>3. pc'[i] = "clear"
        BY <2>1 DEF TypeOK
    <2>4. (ResetPart /\ SpawnPart /\ StridePart)'
        BY <2>1, <2>2, <2>3 DEF ResetPart, SpawnPart, StridePart, TypeOK
    <2>5. ClearPart'
        <3>1. \A j \in Index : Mine(j) = i => ~(j < i)
            BY <2>1, Strides DEF Index, Worker
        <3> QED
            BY <2>1, <2>2, <2>3, <3>1 DEF ClearPart
    <2>6. (StorePart /\ EndPart /\ ConvertPart)'
        BY <2>1, <2>2, <2>3 DEF StorePart, EndPart, ConvertPart, Past
    <2>7. (ConsumePart /\ PushedIsConverted)'
        BY DEF ConsumePart, PushedIsConverted, SpawnPart, TypeOK
    <2> QED
        BY <2>4, <2>5, <2>6, <2>7
<1>3. CASE WaitAndPush
    <2> USE <1>3 DEF WaitAndPush, memVars, workerVars
    <2>1. i \in Index /\ Mine(i) \in Worker /\ i' = i + 1 /\ i' \in Nat
        BY Strides DEF TypeOK, Index
    <2>2. Past(Mine(i))
        <3>1. CASE i < ThreadCount
            BY <2>1, <3>1, Strides DEF ClearPart, Past, Worker, TypeOK, WorkerPcs
        <3>2. CASE i >= ThreadCount
            <4>1. i - ThreadCount \in Index /\ i - ThreadCount < i
                BY <2>1, <3>2 DEF Index
            <4>2. Mine(i - ThreadCount) = Mine(i)
                BY <2>1, <4>1, Strides
            <4> QED
                BY <4>1, <4>2 DEF ConsumePart
        <3> QED
            BY <2>1, <3>1, <3>2
    <2>3. i < vector_index[Mine(i)] /\ itmd[i] = Converted(i)
        BY <2>1, <2>2 DEF ConvertPart
    <2>4. Len(constraints) = i /\ constraints \in Seq([Part -> Nat \cup {Unset}])
        BY DEF ConsumePart, TypeOK
    <2>5. PushedIsConverted'
        <3> SUFFICES ASSUME NEW k \in 1 .. Len(constraints')
                     PROVE  constraints'[k] = Converted(k - 1)
            BY DEF PushedIsConverted
        <3>1. constraints' = Append(constraints, Converted(i))
            BY <2>3
        <3> QED
            BY <2>1, <2>4, <3>1 DEF PushedIsConverted
    <2>6. ConsumePart'
        <3>1. Len(constraints') = i'
            BY <2>1, <2>4
        <3>2. \A j \in Index : j < i' => Past(Mine(j)) /\ j < vector_index[Mine(j)]
            BY <2>1, <2>2, <2>3 DEF ConsumePart, Index
        <3> QED
            BY <3>1, <3>2 DEF ConsumePart, Past
    <2>7. (ResetPart /\ SpawnPart /\ StridePart /\ ClearPart)'
        BY DEF ResetPart, SpawnPart, StridePart, ClearPart
    <2>8. (ConvertPart /\ StorePart /\ EndPart)'
        BY DEF ConvertPart, StorePart, EndPart, Past
    <2> QED
        BY <2>5, <2>6, <2>7, <2>8
<1>4. CASE LeaveLoop \/ FreeBuffer \/ Return
    <2>1. /\ mainPc \in {"consume", "free", "return"}
          /\ mainPc' \in {"free", "return", "returned"}
          /\ i' = i /\ constraints' = constraints /\ pc' = pc /\ todo' = todo
          /\ vector_index' = vector_index /\ lc_processed' = lc_processed /\ itmd' = itmd
          /\ mainPc = "consume" => i >= N
        BY <1>4 DEF LeaveLoop, FreeBuffer, Return, memVars, workerVars
    <2>2. (ResetPart /\ SpawnPart /\ StridePart /\ ClearPart)'
        BY <2>1 DEF ResetPart, SpawnPart, StridePart, ClearPart
    <2>3. (ConvertPart /\ StorePart)'
        BY <2>1 DEF ConvertPart, StorePart, Past
    <2>4. (EndPart /\ PushedIsConverted)'
        BY <2>1 DEF EndPart, PushedIsConverted
    <2>5. ConsumePart'
        <3>1. i' = N
            BY <2>1 DEF ConsumePart, TypeOK
        <3> QED
            BY <2>1, <3>1 DEF ConsumePart, Past
    <2> QED
        BY <2>2, <2>3, <2>4, <2>5
<1> QED
    BY <1>1, <1>2, <1>3, <1>4 DEF MainStep

\* What main has consumed stays converted as long as workers only move on.
LEMMA ConsumeKept ==
    ASSUME ConsumePart, TypeOK,
           mainPc' = mainPc, i' = i, constraints' = constraints,
           \A u \in Worker : Past(u) => Past(u)' /\ vector_index'[u] >= vector_index[u],
           TypeOK'
    PROVE  ConsumePart'
<1> SUFFICES ASSUME mainPc \notin {"reset", "spawn"}, NEW j \in Index, j < i
             PROVE  Past(Mine(j))' /\ j < vector_index'[Mine(j)]
    BY DEF ConsumePart, Mine
<1>1. Mine(j) \in Worker /\ j \in Nat
    BY Strides, Bounds
<1>2. Past(Mine(j)) /\ j < vector_index[Mine(j)]
    BY DEF ConsumePart
<1>3. vector_index[Mine(j)] \in Nat /\ vector_index'[Mine(j)] \in Nat
    BY <1>1 DEF TypeOK
<1> HIDE DEF Mine
<1>4. Past(Mine(j))' /\ vector_index'[Mine(j)] >= vector_index[Mine(j)]
    BY <1>1, <1>2
<1> QED
    BY <1>1, <1>2, <1>3, <1>4

\* A worker only touches its own stride: what it changes is outside every
\* other worker's part of the invariant.
LEMMA WorkerIInv ==
    ASSUME InOrder, IInv, NEW t \in Worker, WorkerStep(t), TypeOK'
    PROVE  IInv'
<1> USE Bounds DEF IInv
<1>0. /\ vector_index[t] \in Nat /\ Mine(vector_index[t]) = t
      /\ \A u \in Worker : u # t => Mine(u) # t /\ u # vector_index[t]
      /\ \A j \in Index : j \in Nat
    BY Strides DEF StridePart, TypeOK
<1>1. CASE ClearFlag(t)
    <2> USE <1>1 DEF ClearFlag, mainVars
    <2>1. /\ mainPc' = mainPc /\ i' = i /\ constraints' = constraints
          /\ pc' = pc /\ todo' = todo /\ itmd' = itmd
        OBVIOUS
    <2>2. /\ vector_index[t] \in Index
          /\ vector_index'[t] = vector_index[t] + ThreadCount
          /\ \A u \in Worker : u # t => vector_index'[u] = vector_index[u]
        BY <1>0 DEF TypeOK, Index
    <2>3. /\ ~lc_processed'[vector_index[t]]
          /\ \A j \in Index : j # vector_index[t] => lc_processed'[j] = lc_processed[j]
        BY <2>2 DEF TypeOK
    <2>4. (ResetPart /\ SpawnPart /\ PushedIsConverted)'
        BY <2>1 DEF ResetPart, SpawnPart, PushedIsConverted
    <2>5. StridePart'
        BY <1>0, <2>1, <2>2, Strides DEF StridePart
    <2>6. ClearPart'
        <3>1. \A j \in Index : Mine(j) = t /\ j < vector_index'[t] =>
                  j = vector_index[t] \/ j < vector_index[t]
            BY <1>0, <2>2, NextStride
        <3> QED
            BY <1>0, <2>1, <2>2, <2>3, <3>1 DEF ClearPart
    <2>7. (ConvertPart /\ StorePart /\ EndPart)'
        BY <1>0, <2>1, <2>2, <2>3 DEF ConvertPart, StorePart, EndPart, Past
    <2>8. ConsumePart'
        BY <2>1, <2>2, Strides DEF ConsumePart, Past
    <2> QED
        BY <2>4, <2>5, <2>6, <2>7, <2>8
<1>2. CASE ClearDone(t)
    <2> USE <1>2 DEF ClearDone, mainVars, memVars
    <2>1. /\ mainPc' = mainPc /\ i' = i /\ constraints' = constraints
          /\ todo' = todo /\ itmd' = itmd /\ lc_processed' = lc_processed
        OBVIOUS
    <2>2. /\ pc'[t] = "convert" /\ vector_index'[t] = t
          /\ \A u \in Worker : u # t => pc'[u] = pc[u] /\ vector_index'[u] = vector_index[u]
        BY DEF TypeOK
    <2>3. (ResetPart /\ SpawnPart /\ PushedIsConverted)'
        BY <2>1, <2>2 DEF ResetPart, SpawnPart, PushedIsConverted
    <2>4. (StridePart /\ ClearPart)'
        BY <2>1, <2>2, Strides DEF StridePart, ClearPart
    <2>5. ConvertPart'
        <3>1. \A j \in Index : Mine(j) = t => ~lc_processed[j] /\ ~(j < t)
            BY <1>0, Strides DEF ClearPart, Index, Worker
        <3> QED
            BY <2>1, <2>2, <3>1 DEF ConvertPart, Past
    <2>6. (StorePart /\ EndPart)'
        BY <2>1, <2>2 DEF StorePart, EndPart
    <2>7. ConsumePart'
        <3>1. ~Past(t)
            BY DEF Past
        <3> QED
            BY <2>1, <2>2, <3>1 DEF ConsumePart, Past
    <2> QED
        BY <2>3, <2>4, <2>5, <2>6, <2>7
<1>3. CASE BeginConvert(t)
    <2> USE <1>3 DEF BeginConvert, mainVars, memVars
    <2>1. /\ mainPc' = mainPc /\ i' = i /\ constraints' = constraints
          /\ vector_index' = vector_index /\ itmd' = itmd /\ lc_processed' = lc_processed
        OBVIOUS
    <2>2. /\ pc'[t] = "store" /\ todo'[t] = Stores
          /\ \A u \in Worker : u # t => pc'[u] = pc[u] /\ todo'[u] = todo[u]
        BY DEF TypeOK
    <2>3. (ResetPart /\ SpawnPart /\ PushedIsConverted /\ StridePart)'
        BY <2>1, <2>2 DEF ResetPart, SpawnPart, PushedIsConverted, StridePart
    <2>4. (ClearPart /\ ConvertPart /\ EndPart /\ ConsumePart)'
        BY <2>1, <2>2 DEF ClearPart, ConvertPart, EndPart, ConsumePart, Past
    <2>5. StorePart'
        BY <2>1, <2>2 DEF StorePart, Stores
    <2> QED
        BY <2>3, <2>4, <2>5
<1>4. ASSUME NEW s \in Stores, Store(t, s)
      PROVE  IInv'
    <2> USE <1>4 DEF Store, mainVars
    <2>1. /\ mainPc' = mainPc /\ i' = i /\ constraints' = constraints
          /\ vector_index[t] \in Index /\ "flag" \in todo[t] /\ todo[t] \subseteq Stores
        BY <1>0 DEF StorePart, Index, TypeOK
    <2>2. \A u \in Worker : u # t =>
              pc'[u] = pc[u] /\ todo'[u] = todo[u] /\ vector_index'[u] = vector_index[u]
        BY DEF TypeOK
    <2>3. (ResetPart /\ SpawnPart /\ PushedIsConverted)'
        BY <2>1, <2>2 DEF ResetPart, SpawnPart, PushedIsConverted
    <2>4. CASE s = "flag"
        <3>1. todo[t] = {"flag"}
            BY <2>1, <2>4 DEF Before, Stores
        <3>2. /\ pc'[t] = "convert" /\ vector_index'[t] = vector_index[t] + ThreadCount
              /\ itmd' = itmd /\ lc_processed'[vector_index[t]]
              /\ \A j \in Index : j # vector_index[t] => lc_processed'[j] = lc_processed[j]
            BY <2>1, <2>4, <3>1 DEF TypeOK
        <3>3. itmd[vector_index[t]] = Converted(vector_index[t])
            <4>1. \A p \in Part : itmd[vector_index[t]][p] = vector_index[t]
                BY <3>1 DEF StorePart, Part
            <4> QED
                BY <2>1, <4>1 DEF TypeOK, Converted
        <3>4. StridePart' /\ ClearPart'
            <4>1. Mine(vector_index'[t]) = t
                BY <1>0, <2>1, <3>2, NextStride
            <4>2. StridePart'
                BY <2>1, <2>2, <3>2, <4>1 DEF StridePart
            <4>3. ClearPart'
                <5> SUFFICES ASSUME NEW u \in Worker
                             PROVE  /\ mainPc' # "reset" /\ pc'[u] \in {"idle", "clear"} => ~lc_processed'[u]
                                    /\ pc'[u] = "clear" =>
                                          \A j \in Index : Mine(j) = u /\ j < vector_index'[u]
                                                             => ~lc_processed'[j]
                    BY DEF ClearPart, Mine
                <5>1. CASE u = t
                    BY <3>2, <5>1
                <5>2. CASE u # t
                    <6>1. u \in Index /\ u # vector_index[t]
                        BY <1>0, <5>2
                    <6>2. \A j \in Index : Mine(j) = u => j # vector_index[t]
                        BY <1>0, <5>2
                    <6> QED
                        BY <2>1, <2>2, <3>2, <5>2, <6>1, <6>2 DEF ClearPart
                <5> QED
                    BY <5>1, <5>2
            <4> QED
                BY <4>2, <4>3
        <3>5. ConvertPart'
            <4>1. \A j \in Index : Mine(j) = t =>
                      (j < vector_index'[t] <=> j = vector_index[t] \/ j < vector_index[t])
                <5> HIDE <1>4 DEF Store, IInv
                <5> QED
                    BY <1>0, <2>1, <3>2, NextStride
            <4> QED
                BY <1>0, <2>1, <2>2, <3>2, <3>3, <4>1 DEF ConvertPart, Past
        <3>6. (StorePart /\ EndPart)'
            BY <2>1, <2>2, <3>2 DEF StorePart, EndPart
        <3>7. ConsumePart'
            <4>1. vector_index[t] + ThreadCount >= vector_index[t]
                BY <1>0
            <4>2. \A u \in Worker : vector_index'[u] >= vector_index[u]
                BY <2>2, <3>2, <4>1 DEF TypeOK
            <4>3. \A u \in Worker : Past(u) => Past(u)'
                BY <2>2, <3>2 DEF Past
            <4> HIDE <1>4 DEF Store
            <4> QED
                BY <2>1, <4>2, <4>3, ConsumeKept
        <3> QED
            BY <2>3, <3>4, <3>5, <3>6, <3>7
    <2>5. CASE s # "flag"
        <3>1. /\ pc' = pc /\ vector_index' = vector_index /\ lc_processed' = lc_processed
              /\ todo'[t] = todo[t] \ {s} /\ s \in Part
            BY <2>1, <2>5 DEF TypeOK, Stores
        <3>2. /\ itmd'[vector_index[t]] = [itmd[vector_index[t]] EXCEPT ![s] = vector_index[t]]
              /\ \A j \in Index : j # vector_index[t] => itmd'[j] = itmd[j]
            BY <2>1, <2>5 DEF TypeOK
        <3>3. (StridePart /\ ClearPart /\ EndPart /\ ConsumePart)'
            BY <2>1, <3>1 DEF StridePart, ClearPart, EndPart, ConsumePart, Past
        <3>4. ConvertPart'
            BY <1>0, <2>1, <3>1, <3>2 DEF ConvertPart, Past
        <3>5. StorePart'
            <4>1. \A p \in Part : p \notin todo'[t] =>
                      itmd'[vector_index[t]][p] = vector_index[t]
                BY <2>1, <3>1, <3>2 DEF StorePart, TypeOK
            <4>2. \A u \in Worker : u # t /\ pc[u] = "store" =>
                      vector_index[u] \in Index /\ vector_index[u] # vector_index[t]
                BY <1>0 DEF StorePart, StridePart, TypeOK, Index
            <4> SUFFICES ASSUME NEW u \in Worker, pc'[u] = "store"
                         PROVE  /\ vector_index'[u] < N
                                /\ "flag" \in todo'[u]
                                /\ \A p \in Part : p \notin todo'[u] =>
                                       itmd'[vector_index'[u]][p] = vector_index'[u]
                BY DEF StorePart
            <4>3. CASE u = t
                BY <2>1, <2>5, <3>1, <4>1, <4>3 DEF StorePart
            <4>4. CASE u # t
                BY <2>2, <3>1, <3>2, <4>2, <4>4 DEF StorePart
            <4> QED
                BY <4>3, <4>4
        <3> QED
            BY <2>3, <3>3, <3>4, <3>5
    <2> QED
        BY <2>4, <2>5
<1>5. CASE ConvertDone(t) \/ TestDeadPb(t)
    <2> USE <1>5 DEF ConvertDone, TestDeadPb, mainVars, memVars
    <2>1. /\ mainPc' = mainPc /\ i' = i /\ constraints' = constraints /\ todo' = todo
          /\ vector_index' = vector_index /\ itmd' = itmd /\ lc_processed' = lc_processed
        OBVIOUS
    <2>2. /\ pc[t] = "convert" /\ pc'[t] \in {"log", "wild"}
          /\ \A u \in Worker : u # t => pc'[u] = pc[u]
        BY DEF TypeOK
    <2>3. vector_index[t] >= N
        <3>1. CASE vector_index[t] \in Index /\ PbDead
            BY <1>0, <3>1 DEF ConsumePart, PbDead, Index, TypeOK
        <3> QED
            BY <1>0, <3>1 DEF Index
    <2>4. (ResetPart /\ SpawnPart /\ PushedIsConverted /\ StridePart)'
        BY <2>1, <2>2 DEF ResetPart, SpawnPart, PushedIsConverted, StridePart
    <2>5. (ClearPart /\ ConvertPart /\ StorePart)'
        BY <2>1, <2>2 DEF ClearPart, ConvertPart, StorePart, Past
    <2>6. EndPart'
        BY <2>1, <2>2, <2>3 DEF EndPart
    <2>7. ConsumePart'
        <3>1. \A u \in Worker : Past(u) => Past(u)'
            BY <2>2 DEF Past
        <3>2. \A u \in Worker : vector_index'[u] >= vector_index[u]
            BY <2>1 DEF TypeOK
        <3> HIDE <1>5 DEF ConvertDone, TestDeadPb
        <3> QED
            BY <2>1, <3>1, <3>2, ConsumeKept
    <2> QED
        BY <2>4, <2>5, <2>6, <2>7
<1>6. CASE Freed /\ StoreFreed(t)
    <2>1. vector_index[t] \in Index /\ mainPc \in {"return", "returned"}
        BY <1>0, <1>6 DEF StoreFreed, StorePart, Freed, Index
    <2>2. vector_index[t] < vector_index[Mine(vector_index[t])]
        BY <2>1 DEF ConsumePart, Index
    <2> QED
        BY <1>0, <2>2
<1>7. CASE LockLog(t) \/ UnlockLog(t)
    <2> USE <1>7 DEF LockLog, UnlockLog, mainVars, memVars
    <2>1. /\ mainPc' = mainPc /\ i' = i /\ constraints' = constraints /\ todo' = todo
          /\ vector_index' = vector_index /\ itmd' = itmd /\ lc_processed' = lc_processed
        OBVIOUS
    <2>2. /\ pc[t] \in {"log", "unlock"} /\ pc'[t] \in {"unlock", "exit"}
          /\ \A u \in Worker : u # t => pc'[u] = pc[u]
        BY DEF TypeOK
    <2>3. (ResetPart /\ SpawnPart /\ PushedIsConverted /\ StridePart)'
        BY <2>1, <2>2 DEF ResetPart, SpawnPart, PushedIsConverted, StridePart
    <2>4. (ClearPart /\ ConvertPart /\ StorePart)'
        BY <2>1, <2>2 DEF ClearPart, ConvertPart, StorePart, Past
    <2>5. EndPart'
        BY <2>1, <2>2 DEF EndPart
    <2>6. ConsumePart'
        BY <2>1, <2>2, ConsumeKept DEF Past, TypeOK
    <2> QED
        BY <2>3, <2>4, <2>5, <2>6
<1> QED
    BY <1>1, <1>2, <1>3, <1>4, <1>5, <1>6, <1>7 DEF WorkerStep

LEMMA StepIInv ==
    ASSUME InOrder, IInv, [Next]_vars
    PROVE  IInv'
<1>1. TypeOK'
    BY TypeStep DEF IInv
<1>2. CASE MainStep
    BY <1>1, <1>2, MainIInv
<1>3. ASSUME NEW t \in Worker, WorkerStep(t)
      PROVE  IInv'
    BY <1>1, <1>3, WorkerIInv
<1>4. CASE UNCHANGED vars \/ \E t \in Worker : ReleaseGarbage(t)
    <2> USE <1>4 DEF vars, ReleaseGarbage, mainVars, workerVars, memVars, IInv
    <2>1. (ResetPart /\ SpawnPart /\ StridePart /\ ClearPart /\ PushedIsConverted)'
        BY DEF ResetPart, SpawnPart, StridePart, ClearPart, PushedIsConverted
    <2>2. (ConvertPart /\ StorePart /\ EndPart /\ ConsumePart)'
        BY DEF ConvertPart, StorePart, EndPart, ConsumePart, Past
    <2> QED
        BY <1>1, <2>1, <2>2
<1> QED
    BY <1>2, <1>3, <1>4 DEF Next, Sane

LEMMA Invariance == ASSUME InOrder PROVE Spec => []IInv
<1>1. IInv /\ [Next]_vars => IInv'
    BY StepIInv
<1>2. QED
    BY InitIInv, <1>1, PTL DEF Spec

-----------------------------------------------------------------------------
(* The results *)

\* With in-order stores main never pushes a result that is unset, half stored
\* or of another constraint, although it trusts flags malloc left undefined.
THEOREM PushedIsConvertedHolds == ASSUME InOrder PROVE Spec => []PushedIsConverted
<1>1. IInv => PushedIsConverted
    BY DEF IInv
<1>2. QED
    BY <1>1, Invariance, PTL

\* With in-order stores no worker stores into the buffer main has freed without
\* joining the workers, and the only read of the dead protoboard left to a
\* worker is the loop test that fails.
THEOREM NoStoreAfterFreeHolds == ASSUME InOrder PROVE Spec => []NoStoreAfterFree
<1>1. IInv => NoStoreAfterFree
    <2> SUFFICES ASSUME IInv, Freed, NEW t \in Worker
                 PROVE  /\ pc[t] \notin {"idle", "clear", "store"}
                        /\ pc[t] = "convert" => vector_index[t] >= N
        BY DEF NoStoreAfterFree
    <2>1. \A j \in Index : Past(Mine(j)) /\ j < vector_index[Mine(j)]
        BY DEF IInv, ConsumePart, Freed, Index
    <2>2. t \in Index /\ Mine(t) = t
        BY Strides, Bounds
    <2>3. Past(t)
        BY <2>1, <2>2
    <2>4. vector_index[t] \in Nat /\ Mine(vector_index[t]) = t
        BY DEF IInv, StridePart, TypeOK
    <2>5. vector_index[t] >= N
        BY <2>1, <2>4, Bounds DEF Index
    <2>6. pc[t] # "store"
        BY <2>4, <2>5, Bounds DEF IInv, StorePart
    <2> QED
        BY <2>3, <2>5, <2>6 DEF Past
<1>2. QED
    BY <1>1, Invariance, PTL

\* The threaded conversion implements the sequential one: each push is the next
\* constraint's, the return is the end, everything else stutters.
THEOREM ImplementsSequential == ASSUME InOrder PROVE Spec => SequentialSpec
<1>1. Init => Sequential!Init
    BY DEF Init, Sequential!Init, PbDead
<1>2. IInv /\ IInv' /\ [Next]_vars => [Sequential!Next]_<<constraints, PbDead>>
    <2> SUFFICES ASSUME IInv, IInv', [Next]_vars
                 PROVE  [Sequential!Next]_<<constraints, PbDead>>
        OBVIOUS
    <2>1. CASE WaitAndPush
        <3>1. constraints' = Append(constraints, itmd[i]) /\ Len(constraints) = i /\ i < N
              /\ mainPc = "consume" /\ mainPc' = mainPc
            BY <2>1 DEF WaitAndPush, IInv, ConsumePart
        <3>2. Len(constraints') = i + 1 /\ constraints'[i + 1] = itmd[i]
              /\ i \in Nat
            BY <3>1 DEF IInv, TypeOK
        <3>3. itmd[i] = Converted(i)
            BY <3>2 DEF IInv, PushedIsConverted
        <3> QED
            BY <3>1, <3>3 DEF Sequential!Next, Sequential!Push, PbDead, Converted, Part
    <2>2. CASE Return
        BY <2>2 DEF Return, IInv, ConsumePart, Sequential!Next, Sequential!Finish, PbDead
    <2>3. CASE ResetFlag \/ SpawnWorker \/ LeaveLoop \/ FreeBuffer
        BY <2>3 DEF ResetFlag, SpawnWorker, LeaveLoop, FreeBuffer, PbDead
    <2>4. ASSUME NEW t \in Worker, WorkerStep(t)
          PROVE  UNCHANGED <<constraints, PbDead>>
        BY <2>4 DEF WorkerStep, ClearFlag, ClearDone, BeginConvert, Store, ConvertDone,
                    TestDeadPb, StoreFreed, LockLog, UnlockLog, mainVars, PbDead
    <2>5. CASE UNCHANGED vars \/ \E t \in Worker : ReleaseGarbage(t)
        BY <2>5 DEF vars, ReleaseGarbage, mainVars, PbDead
    <2> QED
        BY <2>1, <2>2, <2>3, <2>4, <2>5 DEF Next, Sane, MainStep
<1>3. QED
    BY <1>1, <1>2, Invariance, PTL DEF Spec, SequentialSpec, Sequential!Spec
=============================================================================
