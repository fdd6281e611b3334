----------------------------- MODULE MCWrapperBatch -----------------------------
(* Instances of WrapperBatch for TLC. *)
EXTENDS WrapperBatch, TLC

CONSTANTS m1, m2

Alike == Permutations({ m1, m2 })
================================================================================
