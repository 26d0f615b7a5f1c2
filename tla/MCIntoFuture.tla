---------------------------- MODULE MCIntoFuture ----------------------------
(* Instances of IntoFuture for TLC: the calls are interchangeable. *)
EXTENDS IntoFuture, TLC

CallSymmetry == Permutations(Call)
=============================================================================
