---------------------------- MODULE MCDbConsumer ----------------------------
(* Instances of DbConsumer for TLC: what its configurations share. *)
EXTENDS DbConsumer, TLC

\* Nothing in the code tells ids, consumers, loops or slots apart.
Symmetry ==
    Permutations(Jobs) \cup Permutations(Consumers) \cup Permutations(Loops)
        \cup Permutations(Slots)
=============================================================================
