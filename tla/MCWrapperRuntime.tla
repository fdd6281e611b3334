--------------------------- MODULE MCWrapperRuntime ---------------------------
(* WrapperRuntime on small instances. *)
EXTENDS WrapperRuntime, TLC

CONSTANTS m1, m2

MCMessage == { m1, m2 }

MCOneMessage == { m1 }

Symmetric == Permutations(Message)

=============================================================================
