--------------------------- MODULE MCAgentService ---------------------------
(* Small instances of AgentService for TLC: two conversations, one of them  *)
(* of an IM owner, and requests that share a conversation, repeat a key and *)
(* name another workspace.                                                  *)
EXTENDS AgentService

CONSTANTS c1, c2, ws1, ws2, k1, k2, k3, a1, a2, nil

Req(k, c, w, b) == [key |-> k, conv |-> c, ws |-> w, sessionBindingId |-> b]

MCConversation == {c1, c2}
MCImConversation == {c2}
MCWorkspace == {ws1, ws2}
MCKey == {k1, k2, k3}

MCRequest ==
  { Req(k1, c1, ws1, nil), Req(k2, c1, ws1, c1), Req(k3, c2, ws1, nil),
    Req(k3, c1, ws2, nil) }
=============================================================================
