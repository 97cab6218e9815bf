----------------------------- MODULE MCVoteCast -----------------------------
(***************************************************************************)
(* VoteCast with one segment of the choice in the first ciphertext, and in *)
(* the second the one of the fixed randomness and one of the choice, where *)
(* encrypt_vote writes nine in each.                                       *)
(***************************************************************************)
EXTENDS VoteCast

FirstDef  == <<"op1">>
SecondDef == <<"enc2x", "op2">>
=============================================================================
