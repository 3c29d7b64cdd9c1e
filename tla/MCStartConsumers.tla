-------------------------- MODULE MCStartConsumers --------------------------
(* Instances of StartConsumers for TLC *)
EXTENDS StartConsumers
=============================================================================
