---------------------------- MODULE MCPendingFlush ----------------------------
(* The delay lists of session/pending-messages.ts, by their lengths. *)
EXTENDS PendingFlush

MCBudget == [ SANDBOX_CONNECT_FAILED |-> 1, sandbox_storage_full |-> 3,
              git_rate_limited |-> 2, WRAPPER_CLEANUP_EXHAUSTED |-> 3, other |-> 1 ]
=============================================================================
