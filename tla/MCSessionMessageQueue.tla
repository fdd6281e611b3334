------------------------- MODULE MCSessionMessageQueue -------------------------
(* Instances of SessionMessageQueue for TLC. *)
EXTENDS SessionMessageQueue, TLC

(* Every failure is of a mode with a single delay. *)
MCBudget == [ mode \in ResetEligible \cup {"other"} |-> 1 ]

MCFailures == { <<"TRANSIENT", "unset">>, <<"PERMANENT", "unset">> }

MCTransient == { <<"TRANSIENT", "unset">> }

(* Messages and callers are interchangeable; for safety properties only. *)
MCSymmetry == Permutations(Message) \cup Permutations(Caller)
=============================================================================
