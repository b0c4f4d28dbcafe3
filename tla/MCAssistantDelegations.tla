----------------------- MODULE MCAssistantDelegations -----------------------
(* A small instance of AssistantDelegations for TLC: one task, one request. *)
EXTENDS AssistantDelegations

CONSTANTS t1, f1, r1, h1, h2
=============================================================================
