-------------------------- MODULE MCSettlementOutbox --------------------------
(* Small instances of SettlementOutbox for TLC. *)
EXTENDS SettlementOutbox, TLC

CONSTANTS m1, m2, h1, pass

OneMessage == { m1 }

TwoMessages == { m1, m2 }

OneHandler == { h1 }

OneResult == { pass }

(* Every message wants a callback, so they are alike. *)
Alike == Permutations(Message)
=============================================================================
