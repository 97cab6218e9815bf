--------------------------- MODULE ConstraintPush ---------------------------
(***************************************************************************)
(* The multi-threaded conversion of a gadgetlib2 protoboard into an R1CS   *)
(* constraint system (gadgetlib2/integration.cpp).                         *)
(*                                                                         *)
(* The main thread allocates one intermediate result per constraint,       *)
(* clears the lc_processed flag of the first constraint of every worker,   *)
(* starts ThreadCount workers, and then walks the constraints in order,    *)
(* spinning on lc_processed before it copies the result.  Worker t clears  *)
(* its own flags, then converts constraints t, t + ThreadCount, ...        *)
(* Nobody joins the workers: main frees the buffer and returns (which      *)
(* destroys converted_pb) as soon as it has consumed the last result.      *)
(*                                                                         *)
(* The flag is a volatile bool, not an atomic.  InOrder says whether the   *)
(* main thread sees the four stores of one conversion in program order     *)
(* (a, b, c, lc_processed) or, as the arm64 memory model allows, in any    *)
(* order.                                                                  *)
(*                                                                         *)
(* malloc constructs nothing: flags and linear combinations hold whatever  *)
(* the memory held.  The worker's move assignment first releases the       *)
(* array a combination seems to own, so a header that is not null makes    *)
(* it free a stray pointer (`headers`).                                    *)
(***************************************************************************)
EXTENDS Integers, Sequences, FiniteSets

CONSTANTS
    N,            \* converted_pb.first.size()
    ThreadCount,  \* thread_count (8 in the source)
    InOrder,      \* are a worker's stores seen in program order?
    Unset         \* content of a linear combination nobody stored

\* With fewer constraints than threads the source writes flags past the end
\* of the buffer and divides by zero in the log line: undefined from there on.
ASSUME SizeAssumption ==
    /\ N \in Nat
    /\ ThreadCount \in Nat \ {0}
    /\ ThreadCount <= N
ASSUME OrderAssumption == InOrder \in BOOLEAN
ASSUME UnsetAssumption == Unset \notin Nat

Index  == 0 .. (N - 1)
Worker == 0 .. (ThreadCount - 1)
Part   == {"a", "b", "c"}
Stores == Part \cup {"flag"}

VARIABLES
    mainPc,         \* where the calling thread is
    i,              \* its loop counter
    lc_processed,   \* itmd_r[.].lc_processed
    itmd,           \* itmd_r[.].{a,b,c}_result
    headers,        \* what their std::vector headers held when malloc returned
    constraints,    \* result.constraints
    pc,             \* where each worker is
    vector_index,   \* its loop counter
    todo,           \* the stores of its current conversion not yet visible
    log_print_mtx   \* the workers inside the log mutex

mainVars   == <<mainPc, i, constraints>>
workerVars == <<pc, vector_index, todo, log_print_mtx>>
memVars    == <<lc_processed, itmd>>
vars       == <<mainVars, workerVars, memVars, headers>>

MainPcs   == {"reset", "spawn", "consume", "free", "return", "returned"}
WorkerPcs == {"idle", "clear", "convert", "store", "log", "unlock", "exit", "wild"}

\* All null (a block fresh from the kernel), or old bytes in some of them; "wild"
\* once a stray pointer was freed and nothing is known of the process any more.
Headers == {"null", "garbage", "wild"}

\* convert_gadgetlib2_linear_combination on the three sides of constraint j.
Converted(j) == [p \in Part |-> j]

TypeOK ==
    /\ mainPc \in MainPcs
    /\ i \in 0 .. N
    /\ lc_processed \in [Index -> BOOLEAN]
    /\ itmd \in [Index -> [Part -> Nat \cup {Unset}]]
    /\ constraints \in Seq([Part -> Nat \cup {Unset}])
    /\ pc \in [Worker -> WorkerPcs]
    /\ vector_index \in [Worker -> Nat]
    /\ todo \in [Worker -> SUBSET Stores]
    /\ log_print_mtx \in SUBSET Worker
    /\ headers \in Headers

\* malloc leaves the flags and the headers with whatever the memory held.
Init ==
    /\ mainPc = "reset"
    /\ i = 0
    /\ lc_processed \in [Index -> BOOLEAN]
    /\ itmd = [j \in Index |-> [p \in Part |-> Unset]]
    /\ constraints = <<>>
    /\ pc = [t \in Worker |-> "idle"]
    /\ vector_index = [t \in Worker |-> t]
    /\ todo = [t \in Worker |-> {}]
    /\ log_print_mtx = {}
    /\ headers \in {"null", "garbage"}

-----------------------------------------------------------------------------
(* The calling thread *)

\* Mutant: the reset loop runs once too often.
ResetFlagOnceMore ==
    /\ mainPc = "reset"
    /\ lc_processed' = [lc_processed EXCEPT ![i] = FALSE]
    /\ IF i < N
       THEN i' = i + 1 /\ UNCHANGED mainPc
       ELSE i' = i + 1 /\ mainPc' = "spawn"
    /\ UNCHANGED <<constraints, itmd, workerVars>>

ResetFlag ==
    /\ mainPc = "reset"
    /\ lc_processed' = [lc_processed EXCEPT ![i] = FALSE]
    /\ IF i + 1 < ThreadCount
       THEN i' = i + 1 /\ UNCHANGED mainPc
       ELSE i' = 0 /\ mainPc' = "spawn"
    /\ UNCHANGED <<constraints, itmd, workerVars>>

SpawnWorker ==
    /\ mainPc = "spawn"
    /\ pc' = [pc EXCEPT ![i] = "clear"]
    /\ IF i + 1 < ThreadCount
       THEN i' = i + 1 /\ UNCHANGED mainPc
       ELSE i' = 0 /\ mainPc' = "consume"
    /\ UNCHANGED <<constraints, vector_index, todo, log_print_mtx, memVars>>

\* Main pushes in index order.  The storage get_allocator().allocate(n) returned
\* is not the vector's; that only costs reallocations and is left out.
WaitAndPush ==
    /\ mainPc = "consume"
    /\ i < N
    /\ lc_processed[i]
    /\ constraints' = Append(constraints, itmd[i])
    /\ i' = i + 1
    /\ UNCHANGED <<mainPc, memVars, workerVars>>

LeaveLoop ==
    /\ mainPc = "consume"
    /\ i >= N
    /\ mainPc' = "free"
    /\ UNCHANGED <<i, constraints, memVars, workerVars>>

FreeBuffer ==
    /\ mainPc = "free"
    /\ mainPc' = "return"
    /\ UNCHANGED <<i, constraints, memVars, workerVars>>

Return ==
    /\ mainPc = "return"
    /\ mainPc' = "returned"
    /\ UNCHANGED <<i, constraints, memVars, workerVars>>

Freed == mainPc \in {"return", "returned"}
PbDead == mainPc = "returned"

-----------------------------------------------------------------------------
(* A worker: bg_routine *)

\* Mutant: the clearing loop is left out of bg_routine, so that the flags of the
\* later rounds keep what malloc left in them.
ClearNothing(t) ==
    /\ pc[t] = "clear"
    /\ ~PbDead
    /\ vector_index[t] < N
    /\ vector_index' = [vector_index EXCEPT ![t] = @ + ThreadCount]
    /\ UNCHANGED <<mainVars, pc, todo, log_print_mtx, memVars>>

ClearFlag(t) ==
    /\ pc[t] = "clear"
    /\ ~PbDead
    /\ vector_index[t] < N
    /\ lc_processed' = [lc_processed EXCEPT ![vector_index[t]] = FALSE]
    /\ vector_index' = [vector_index EXCEPT ![t] = @ + ThreadCount]
    /\ UNCHANGED <<mainVars, pc, todo, log_print_mtx, itmd>>

\* Mutant: the converting loop starts in the second round.
ClearDoneSkipsFirst(t) ==
    /\ pc[t] = "clear"
    /\ ~PbDead
    /\ vector_index[t] >= N
    /\ pc' = [pc EXCEPT ![t] = "convert"]
    /\ vector_index' = [vector_index EXCEPT ![t] = t + ThreadCount]
    /\ UNCHANGED <<mainVars, todo, log_print_mtx, memVars>>

ClearDone(t) ==
    /\ pc[t] = "clear"
    /\ ~PbDead
    /\ vector_index[t] >= N
    /\ pc' = [pc EXCEPT ![t] = "convert"]
    /\ vector_index' = [vector_index EXCEPT ![t] = t]
    /\ UNCHANGED <<mainVars, todo, log_print_mtx, memVars>>

BeginConvert(t) ==
    /\ pc[t] = "convert"
    /\ ~PbDead
    /\ vector_index[t] < N
    /\ pc' = [pc EXCEPT ![t] = "store"]
    /\ todo' = [todo EXCEPT ![t] = Stores]
    /\ UNCHANGED <<mainVars, vector_index, log_print_mtx, memVars>>

\* Mutant: lc_processed is set before c_result is stored.
FlagBeforeC(s) == CASE s = "a"    -> {}
                    [] s = "b"    -> {"a"}
                    [] s = "flag" -> {"a", "b"}
                    [] s = "c"    -> {"a", "b", "flag"}

\* The stores that bg_routine issues before store s.
Before(s) == CASE s = "a"    -> {}
               [] s = "b"    -> {"a"}
               [] s = "c"    -> {"a", "b"}
               [] s = "flag" -> Part

\* Store s of the current conversion becomes visible to the main thread; the old
\* header of a linear combination was null, or its release went unnoticed.
Store(t, s) ==
    /\ pc[t] = "store"
    /\ s \in todo[t]
    /\ InOrder => Before(s) \cap todo[t] = {}
    /\ IF s = "flag"
       THEN /\ lc_processed' = [lc_processed EXCEPT ![vector_index[t]] = TRUE]
            /\ UNCHANGED itmd
       ELSE /\ itmd' = [itmd EXCEPT ![vector_index[t]] = [@ EXCEPT ![s] = vector_index[t]]]
            /\ UNCHANGED lc_processed
    /\ todo' = [todo EXCEPT ![t] = @ \ {s}]
    /\ IF todo[t] = {s}
       THEN /\ pc' = [pc EXCEPT ![t] = "convert"]
            /\ vector_index' = [vector_index EXCEPT ![t] = @ + ThreadCount]
       ELSE UNCHANGED <<pc, vector_index>>
    /\ UNCHANGED <<mainVars, log_print_mtx>>

\* The move assignment of a part frees the stray pointer it finds in the
\* unconstructed vector: the allocator aborts, or the heap is corrupt from there on.
ReleaseGarbage(t) ==
    /\ headers = "garbage"
    /\ pc[t] = "store" /\ ~Freed
    /\ \E p \in Part \cap todo[t] : InOrder => Before(p) \cap todo[t] = {}
    /\ headers' = "wild"
    /\ UNCHANGED <<mainVars, workerVars, memVars>>

ConvertDone(t) ==
    /\ pc[t] = "convert"
    /\ ~PbDead
    /\ vector_index[t] >= N
    /\ pc' = [pc EXCEPT ![t] = "log"]
    /\ UNCHANGED <<mainVars, vector_index, todo, log_print_mtx, memVars>>

\* The loop test reads converted_pb after the caller's frame is gone: the old
\* value may still be there, or anything else.
TestDeadPb(t) ==
    /\ pc[t] = "convert"
    /\ PbDead
    /\ \E next \in {"log", "wild"} : pc' = [pc EXCEPT ![t] = next]
    /\ UNCHANGED <<mainVars, vector_index, todo, log_print_mtx, memVars>>

\* A store into the buffer that main has freed.
StoreFreed(t) ==
    /\ pc[t] = "store"
    /\ pc' = [pc EXCEPT ![t] = "wild"]
    /\ UNCHANGED <<mainVars, vector_index, todo, log_print_mtx, memVars>>

LockLog(t) ==
    /\ pc[t] = "log"
    /\ log_print_mtx = {}
    /\ log_print_mtx' = {t}
    /\ pc' = [pc EXCEPT ![t] = "unlock"]
    /\ UNCHANGED <<mainVars, vector_index, todo, memVars>>

\* Mutant: the log mutex is not released.
UnlockLogForgotten(t) ==
    /\ pc[t] = "unlock"
    /\ pc' = [pc EXCEPT ![t] = "exit"]
    /\ UNCHANGED <<mainVars, vector_index, todo, log_print_mtx, memVars>>

UnlockLog(t) ==
    /\ pc[t] = "unlock"
    /\ log_print_mtx' = log_print_mtx \ {t}
    /\ pc' = [pc EXCEPT ![t] = "exit"]
    /\ UNCHANGED <<mainVars, vector_index, todo, memVars>>

-----------------------------------------------------------------------------

MainStep ==
    \/ ResetFlag
    \/ SpawnWorker
    \/ WaitAndPush
    \/ LeaveLoop
    \/ FreeBuffer
    \/ Return

WorkerStep(t) ==
    \/ ClearFlag(t)
    \/ ClearDone(t)
    \/ BeginConvert(t)
    \/ IF Freed THEN StoreFreed(t) ELSE \E s \in Stores : Store(t, s)
    \/ ConvertDone(t)
    \/ TestDeadPb(t)
    \/ LockLog(t)
    \/ UnlockLog(t)

\* A step while the process is sane.
Sane(step) == headers # "wild" /\ step /\ UNCHANGED headers

Next ==
    \/ Sane(MainStep)
    \/ \E t \in Worker : Sane(WorkerStep(t)) \/ ReleaseGarbage(t)

Spec == Init /\ [][Next]_vars

\* The operating system keeps scheduling every thread, the spinning one and
\* the workers alike.
FairSpec == Spec /\ WF_vars(Sane(MainStep)) /\ \A t \in Worker : WF_vars(Sane(WorkerStep(t)))

-----------------------------------------------------------------------------
(* Properties *)

\* Every constraint pushed is the complete conversion of the constraint of the
\* same position: no flag left over from malloc, no half-stored result and no
\* other worker's result is ever consumed (integration.cpp:181-189).
PushedIsConverted ==
    \A k \in 1 .. Len(constraints) : constraints[k] = Converted(k - 1)

\* Nobody joins the workers, yet once the buffer is freed no worker has a
\* conversion left that would write into it (integration.cpp:196), and a worker
\* still inside its loop has only the last, failing loop test ahead.
NoStoreAfterFree ==
    Freed => \A t \in Worker :
        /\ pc[t] \notin {"idle", "clear", "store"}
        /\ pc[t] = "convert" => vector_index[t] >= N

\* The calling thread gets every result it spins for and returns, whatever the
\* scheduling of the workers and whatever flags malloc left (integration.cpp:183),
\* unless a stray pointer was freed, which takes headers that were not all null.
MainReturns == <>(mainPc = "returned" \/ headers = "wild")

\* No worker is left waiting for the log mutex: each one finishes, unless it
\* fell into the read of the dead frame or the process lost its heap.
WorkersFinish == \A t \in Worker : <>(pc[t] \in {"exit", "wild"} \/ headers = "wild")

\* The threads together do what the sequential conversion does.
Sequential == INSTANCE SequentialPush WITH out <- constraints, done <- PbDead
SequentialSpec == Sequential!Spec
=============================================================================
