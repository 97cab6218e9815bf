--------------------------- MODULE SequentialPush ---------------------------
(***************************************************************************)
(* What the conversion of a protoboard promises: the constraint system is  *)
(* the list of the converted constraints in the order of the protoboard.   *)
(* This is the sequential version the source keeps beside the threaded one *)
(* (get_constraint_system_from_gadgetlib2).                                *)
(***************************************************************************)
EXTENDS Integers, Sequences

CONSTANT N

VARIABLES
    out,   \* result.constraints
    done   \* has the function returned?

Init == out = <<>> /\ done = FALSE

\* One iteration of the loop: convert the next constraint and push it.
Push ==
    /\ ~done
    /\ Len(out) < N
    /\ out' = Append(out, [p \in {"a", "b", "c"} |-> Len(out)])
    /\ UNCHANGED done

Finish ==
    /\ ~done
    /\ Len(out) = N
    /\ done' = TRUE
    /\ UNCHANGED out

Next == Push \/ Finish

Spec == Init /\ [][Next]_<<out, done>>
=============================================================================
