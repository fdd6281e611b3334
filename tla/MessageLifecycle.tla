--------------------------- MODULE MessageLifecycle ---------------------------
(***************************************************************************)
(* What the CloudAgentSession object promises about a user message,        *)
(* whatever the order of its handlers and crashes: a message is admitted   *)
(* once, is acknowledged only when its admission is durable, never returns *)
(* to the queue once a wrapper run accepted it, and reaches one final      *)
(* outcome that nothing changes (docs/diagrams.md: "durable admission",    *)
(* "settle once", "fails accepted work without redispatch").  Delivery to  *)
(* a wrapper run is not part of the promise: it is at least once.          *)
(***************************************************************************)
CONSTANT Message

VARIABLES
  life,            \* the status of every message, "none" before admission
  acked            \* the messages a client was told are queued

vars == <<life, acked>>

Terminal == { "completed", "failed", "interrupted" }

Status == { "none", "queued", "accepted" } \cup Terminal

Init ==
  /\ life = [m \in Message |-> "none"]
  /\ acked = {}

Admit(m) ==
  /\ life[m] = "none"
  /\ life' = [life EXCEPT ![m] = "queued"]
  /\ UNCHANGED acked

Acknowledge(m) ==
  /\ life[m] # "none"
  /\ acked' = acked \cup {m}
  /\ UNCHANGED life

Accept(m) ==
  /\ life[m] = "queued"
  /\ life' = [life EXCEPT ![m] = "accepted"]
  /\ UNCHANGED acked

(* A turn that never reached a wrapper cannot have completed. *)
Settle(m, outcome) ==
  /\ \/ life[m] = "accepted"
     \/ life[m] = "queued" /\ outcome # "completed"
  /\ life' = [life EXCEPT ![m] = outcome]
  /\ UNCHANGED acked

Next ==
  \E m \in Message :
    \/ Admit(m) \/ Acknowledge(m) \/ Accept(m)
    \/ \E outcome \in Terminal : Settle(m, outcome)

Spec == Init /\ [][Next]_vars
=============================================================================
