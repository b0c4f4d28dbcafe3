-------------------------- MODULE AgentRunContract --------------------------
(***************************************************************************)
(* What the Agent service promises about one run, whatever its scheduler,   *)
(* its approvals and its restarts do: the transition table of               *)
(* yuanpu-runtime/src/agent/contracts.ts, the rule that a run's persisted   *)
(* external-effect checkpoint decides between "interrupted" and             *)
(* "result_unknown", and nothing else.  Several runs may move in one step:  *)
(* a dispatch claims several and a restart recovers all the active ones.    *)
(***************************************************************************)
CONSTANT Run

VARIABLES status,  \* status[r]: the persisted status, "absent" before submission
          effects  \* the runs whose external_effect_state is 'possible'

cvars == <<status, effects>>

Terminal == {"succeeded", "failed", "cancelled", "interrupted", "result_unknown"}
Active   == {"running", "waiting_approval"}
Status   == {"absent", "queued"} \cup Active \cup Terminal

transitions ==
  [ queued |->
      [ start |-> "running", cancel_observed |-> "cancelled",
        interrupt |-> "interrupted" ],
    running |->
      [ await_approval |-> "waiting_approval", succeed |-> "succeeded",
        fail |-> "failed", cancel_observed |-> "cancelled",
        interrupt |-> "interrupted", mark_result_unknown |-> "result_unknown" ],
    waiting_approval |->
      [ approval_granted |-> "running", fail |-> "failed",
        cancel_observed |-> "cancelled", interrupt |-> "interrupted",
        mark_result_unknown |-> "result_unknown" ] ]

(* The recovery rule, for an active run: only a run that never started may  *)
(* be called interrupted, and the outcome of one that did is unknown.       *)
Recovered(possible) == IF possible THEN "result_unknown" ELSE "interrupted"

Admit(r) ==
  /\ status[r] = "absent"
  /\ status'[r] = "queued"
  /\ r \notin effects'

Transition(r, e) ==
  /\ status[r] \in DOMAIN transitions
  /\ e \in DOMAIN transitions[status[r]]
  /\ status'[r] = transitions[status[r]][e]
  /\ status'[r] \in {"interrupted", "result_unknown"}
       => status'[r] = Recovered(r \in effects)
  /\ r \in effects' <=> r \in effects \/ e = "start"

Stays(r) == status'[r] = status[r] /\ (r \in effects' <=> r \in effects)

Event == UNION {DOMAIN transitions[s] : s \in DOMAIN transitions}

Init == /\ status = [r \in Run |-> "absent"]
        /\ effects = {}

Next == \A r \in Run : Stays(r) \/ Admit(r) \/ \E e \in Event : Transition(r, e)

Spec == Init /\ [][Next]_cvars
=============================================================================
