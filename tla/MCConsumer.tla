----------------------------- MODULE MCConsumer -----------------------------
(* Instances of Consumer for TLC *)
EXTENDS Consumer, TLC

MCSymmetry == Permutations(Consumers) \cup Permutations(Messages)

=============================================================================
