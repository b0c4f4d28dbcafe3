---------------------------- MODULE AgentService ----------------------------
(***************************************************************************)
(* PersistentAgentService (yuanpu-runtime/src/agent/service.ts) over        *)
(* AgentRunStore (persistence/agent-run-store.ts): a durable queue of agent *)
(* runs, a dispatcher that claims them into a bounded set of workers, one   *)
(* run at a time per Pi session, approvals that suspend a run and resume it *)
(* under another caller, cancellation, expiry, shutdown and restart.        *)
(*                                                                         *)
(* The service is single-threaded JavaScript: an action is what runs        *)
(* between two awaits that can let another caller in.  A run's number is    *)
(* its place in (created_at, rowid) order; the clock is taken not to step   *)
(* back.  A session is named by the conversation it is bound to.            *)
(***************************************************************************)
EXTENDS Integers, FiniteSets

CONSTANTS
  MaxRuns,                \* bound: runs ever submitted
  MaxRestarts,            \* bound: crashes or restarts of the process
  Conversation,           \* (owner, namespace, conversation, thread)
  ImConversation,         \* those whose owner's entry point is "im"
  Workspace,
  Key,                    \* idempotency keys, each with its owner
  Request,                \* the requests callers may send
  Client,                 \* concurrent callers of cancel
  Approver,               \* concurrent approval decisions
  MaximumConcurrentRuns,
  MaximumQueuedRuns,
  Nil                     \* no binding, no request, no call in progress

ASSUME LimitsAssumption ==
  /\ MaxRuns \in Nat \ {0}
  /\ MaxRestarts \in Nat
  /\ MaximumConcurrentRuns \in Nat \ {0}
  /\ MaximumQueuedRuns \in Nat \ {0}

ASSUME RequestAssumption ==
  /\ ImConversation \subseteq Conversation
  /\ Request \subseteq [ key : Key, conv : Conversation, ws : Workspace,
                         sessionBindingId : Conversation \cup {Nil} ]

ASSUME NilAssumption ==
  /\ Nil \notin Request /\ Nil \notin Workspace
  /\ Nil \notin Conversation /\ Nil \notin 1..MaxRuns

Run == 1..MaxRuns

VARIABLES
  (* automation.sqlite *)
  status,             \* yp_agent_runs.status, "absent" before submission
  effects,            \* runs whose external_effect_state is 'possible'
  request,            \* the immutable request columns of each run
  bindings,           \* yp_conversation_bindings: conversation -> workspace
  payloads,           \* yp_agent_run_queue_payloads
  outputs,            \* yp_agent_run_outputs
  approvals,          \* runs with a non-null approval_request_id
  (* the service's memory *)
  worker,             \* #activeWorkers: "none", "executing", "settling"
  activeBindings,     \* #activeBindings
  waitingBindings,    \* the keys of #waitingBindings
  controller,         \* #abortControllers: "none", "live", "aborted"
  approvalRuns,       \* #approvalRuns and #approvalSettlements
  approvalExecutions, \* #approvalExecutions
  expiryTimers,       \* armed #approvalExpiryTimers
  liveOutputs,        \* #liveOutputs
  slotWaiters,        \* #slotWaiters: the approvers parked in it
  dispatchScheduled,  \* #dispatchScheduled
  closePhase,         \* "open", "interrupting", "draining", "closed"
  closeTodo,          \* waiting runs close() has still to visit
  closeRun,           \* the run whose approvals close() is cancelling
  (* its callers *)
  cancels,            \* cancel calls between their read and their act
  deciders,           \* approval decisions in progress
  acknowledged,       \* runs a cancel of this process answered
                      \* "cancellation_requested" for
  restarts

store  == <<status, effects, request, bindings, payloads, outputs, approvals>>
slots  == <<worker, activeBindings, waitingBindings, controller, approvalRuns,
            approvalExecutions, expiryTimers, slotWaiters, dispatchScheduled>>
closing == <<closePhase, closeTodo, closeRun>>
callers == <<cancels, deciders, acknowledged>>
vars == <<store, slots, liveOutputs, closing, callers, restarts>>

Terminal == {"succeeded", "failed", "cancelled", "interrupted", "result_unknown"}
Active   == {"running", "waiting_approval"}
Status   == {"absent", "queued"} \cup Active \cup Terminal
DeciderStage == {"idle", "beginning", "owner"}

closed      == closePhase # "open"
Session(r)  == request[r].conv
Created     == {r \in Run : status[r] # "absent"}
QueuedRuns  == {r \in Run : status[r] = "queued"}
Idle        == [stage |-> "idle", run |-> Nil, execute |-> FALSE]
Owns(a, r)  == deciders[a].stage = "owner" /\ deciders[a].run = r

TypeOK ==
  /\ status \in [Run -> Status]
  /\ effects \subseteq Run
  /\ request \in [Run -> Request \cup {Nil}]
  /\ \A r \in Created : request[r] \in Request
  /\ bindings \in [Conversation -> Workspace \cup {Nil}]
  /\ payloads \subseteq Run /\ outputs \subseteq Run /\ approvals \subseteq Run
  /\ worker \in [Run -> {"none", "executing", "settling"}]
  /\ activeBindings \subseteq Conversation
  /\ waitingBindings \subseteq Run
  /\ controller \in [Run -> {"none", "live", "aborted"}]
  /\ approvalRuns \subseteq Run /\ approvalExecutions \subseteq Run
  /\ expiryTimers \subseteq Run /\ liveOutputs \subseteq Run
  /\ slotWaiters \subseteq Approver
  /\ dispatchScheduled \in BOOLEAN
  /\ closePhase \in {"open", "interrupting", "draining", "closed"}
  /\ closeTodo \subseteq Run /\ closeRun \in Run \cup {Nil}
  /\ cancels \in [Client -> [run : Run, seen : {"queued"} \cup Active] \cup {Nil}]
  /\ deciders \in [Approver -> [stage : DeciderStage, run : Run \cup {Nil},
                                execute : BOOLEAN]]
  /\ acknowledged \subseteq Run
  /\ restarts \in 0..MaxRestarts

Init ==
  /\ status = [r \in Run |-> "absent"]
  /\ request = [r \in Run |-> Nil]
  /\ bindings = [c \in Conversation |-> Nil]
  /\ effects = {} /\ payloads = {} /\ outputs = {} /\ approvals = {}
  /\ worker = [r \in Run |-> "none"]
  /\ controller = [r \in Run |-> "none"]
  /\ activeBindings = {} /\ waitingBindings = {}
  /\ approvalRuns = {} /\ approvalExecutions = {}
  /\ expiryTimers = {} /\ liveOutputs = {} /\ slotWaiters = {}
  /\ dispatchScheduled = TRUE
  /\ closePhase = "open" /\ closeTodo = {} /\ closeRun = Nil
  /\ cancels = [c \in Client |-> Nil]
  /\ deciders = [a \in Approver |-> Idle]
  /\ acknowledged = {} /\ restarts = 0

-----------------------------------------------------------------------------
(* Shared pieces of the handlers.                                           *)

ActiveExecutionCount ==
  Cardinality({r \in Run : worker[r] # "none"}) + Cardinality(approvalExecutions)

DispatchForgotten == UNCHANGED dispatchScheduled      \* mutant
ScheduleDispatch == dispatchScheduled' = (dispatchScheduled \/ ~closed)

NobodyNotified == UNCHANGED slotWaiters               \* mutant
NotifySlotWaiters == slotWaiters' = {}

(* store.finish and store.interrupt, whose UPDATE requires an active run;   *)
(* that it finds one whenever a worker or an owner calls it is part of the  *)
(* invariants below, so the throw of a lost UPDATE is never reached there.  *)
RecordStatus(r, s) ==
  /\ status[r] \in Active
  /\ status' = [status EXCEPT ![r] = s]
  /\ approvals' = approvals \ {r}

(* recoverStatus: what interrupt() and a restart make of an active run.     *)
RecoverAsInterrupted(r) == "interrupted"              \* mutant
RecoverStatus(r) == IF r \in effects THEN "result_unknown" ELSE "interrupted"

(* An aborted execution, however it ended.                                  *)
AbortedUnnamed(r) == "aborted"                        \* mutant
AbortedStatus(r) == IF closed THEN RecoverStatus(r) ELSE "cancelled"

(* finish() persists the output of desktop and scheduler runs only.         *)
PersistOutput(r) ==
  outputs' = IF Session(r) \in ImConversation THEN outputs ELSE outputs \cup {r}

(* The session a waiting run held is free again.                            *)
BindingLeaked(r) == UNCHANGED activeBindings          \* mutant
ReleaseBinding(r) ==
  activeBindings' = IF r \in waitingBindings
                      THEN activeBindings \ {Session(r)} ELSE activeBindings

SettlementForgotten(r) == UNCHANGED approvalRuns      \* mutant
SettleApproval(r) == approvalRuns' = approvalRuns \ {r}

(* #releaseApprovalRun                                                      *)
ReleaseApprovalRun(r) ==
  /\ controller' = [controller EXCEPT ![r] = "none"]
  /\ SettleApproval(r)
  /\ approvalExecutions' = approvalExecutions \ {r}
  /\ expiryTimers' = expiryTimers \ {r}
  /\ waitingBindings' = waitingBindings \ {r}
  /\ ReleaseBinding(r)
  /\ NotifySlotWaiters
  /\ ScheduleDispatch
  /\ UNCHANGED worker

(* When a worker ends, its session stays reserved only if the run now waits.*)
BindingDropped(r) == activeBindings' = activeBindings \ {Session(r)}  \* mutant
KeepBindingIfWaiting(r) ==
  activeBindings' = IF r \in waitingBindings'
                      THEN activeBindings ELSE activeBindings \ {Session(r)}

(* #execute's finally, which drops the controller, and the worker's finally *)
(* callback, the next microtask: no other caller can run between the two    *)
(* and see the worker of a run that already waits.                          *)
WorkerFinally(r) ==
  /\ worker' = [worker EXCEPT ![r] = "none"]
  /\ controller' = [controller EXCEPT ![r] = "none"]
  /\ KeepBindingIfWaiting(r)
  /\ NotifySlotWaiters
  /\ ScheduleDispatch

-----------------------------------------------------------------------------
(* store.submit, one transaction.  A known idempotency key is answered      *)
(* "duplicate" or "idempotency_conflict"; a full queue, an unknown or       *)
(* foreign binding and a workspace other than the binding's are refused:    *)
(* none of those answers changes anything.                                  *)
KnownWhileQueued(q) == \E r \in QueuedRuns : request[r].key = q.key  \* mutant
KnownKey(q) == \E r \in Created : request[r].key = q.key

Enqueue(q) ==
  /\ ~KnownKey(q)
  /\ Cardinality(QueuedRuns) < MaximumQueuedRuns
  /\ q.sessionBindingId # Nil =>
       /\ bindings[q.sessionBindingId] # Nil
       /\ q.sessionBindingId = q.conv
  /\ bindings[q.conv] \in {Nil, q.ws}
  /\ \E r \in Run :
       /\ status[r] = "absent"
       /\ \A s \in Run : s < r => status[s] # "absent"
       /\ status' = [status EXCEPT ![r] = "queued"]
       /\ request' = [request EXCEPT ![r] = q]
       /\ payloads' = payloads \cup {r}
  /\ bindings' = [bindings EXCEPT ![q.conv] = q.ws]

(* submit, for a request that is admitted.                                  *)
Submit(q) ==
  /\ ~closed
  /\ Enqueue(q)
  /\ ScheduleDispatch
  /\ UNCHANGED <<effects, outputs, approvals, worker, activeBindings,
                 waitingBindings, controller, approvalRuns, approvalExecutions,
                 expiryTimers, slotWaiters, liveOutputs, closing, callers, restarts>>

(* The runs #dispatch claims in one go: listQueued joins the payload, so a  *)
(* queued run without one is invisible; of each free session the oldest     *)
(* queued run is eligible, and the oldest eligible ones fill the free slots.*)
EligibleNewestFirst ==                                \* mutant
  {r \in QueuedRuns \cap payloads :
     /\ Session(r) \notin activeBindings
     /\ \A s \in QueuedRuns \cap payloads : Session(s) = Session(r) => r >= s}

Eligible ==
  {r \in QueuedRuns \cap payloads :
     /\ Session(r) \notin activeBindings
     /\ \A s \in QueuedRuns \cap payloads : Session(s) = Session(r) => r <= s}

Claimable ==
  {r \in Eligible : ActiveExecutionCount
     + Cardinality({s \in Eligible : s < r}) < MaximumConcurrentRuns}

(* store.claimQueued of each: from here on the run may have had an effect.  *)
ClaimQueued(claimed) ==
  /\ status' = [r \in Run |-> IF r \in claimed THEN "running" ELSE status[r]]
  /\ effects' = effects \cup claimed
  /\ payloads' = payloads \ claimed

Dispatch ==
  /\ dispatchScheduled
  /\ dispatchScheduled' = FALSE
  /\ LET claimed == IF closed THEN {} ELSE Claimable IN
       /\ ClaimQueued(claimed)
       /\ activeBindings' = activeBindings \cup {Session(r) : r \in claimed}
       /\ worker' = [r \in Run |-> IF r \in claimed THEN "executing" ELSE worker[r]]
       /\ controller' = [r \in Run |-> IF r \in claimed THEN "live" ELSE controller[r]]
  /\ UNCHANGED <<request, bindings, outputs, approvals, waitingBindings,
                 approvalRuns, approvalExecutions, expiryTimers, slotWaiters,
                 liveOutputs, closing, callers, restarts>>

-----------------------------------------------------------------------------
(* #execute, resumed by the executor under a live or an aborted signal.     *)

ReturnedUnchecked(r) == worker[r] = "executing"       \* mutant
ReturnedLive(r) == worker[r] = "executing" /\ controller[r] = "live"

AbortedWhileOpen(r) ==                                \* mutant
  worker[r] = "executing" /\ controller[r] = "aborted" /\ ~closed
ReturnedAborted(r) == worker[r] = "executing" /\ controller[r] = "aborted"

TimerForgotten(r) == UNCHANGED expiryTimers           \* mutant
ScheduleApprovalExpiry(r) == expiryTimers' = expiryTimers \cup {r}

WorkerSucceeds(r) ==
  /\ ReturnedLive(r)
  /\ RecordStatus(r, "succeeded")
  /\ PersistOutput(r)
  /\ liveOutputs' = liveOutputs \cup {r}
  /\ UNCHANGED waitingBindings
  /\ WorkerFinally(r)
  /\ UNCHANGED <<effects, request, bindings, payloads, approvalRuns,
                 approvalExecutions, expiryTimers, closing, callers, restarts>>

(* store.markWaitingApproval                                                *)
MarkWaitingApproval(r) ==
  /\ status[r] = "running"
  /\ status' = [status EXCEPT ![r] = "waiting_approval"]
  /\ approvals' = approvals \cup {r}

WorkerAwaitsApproval(r) ==
  /\ ReturnedLive(r)
  /\ MarkWaitingApproval(r)
  /\ waitingBindings' = waitingBindings \cup {r}
  /\ ScheduleApprovalExpiry(r)
  /\ liveOutputs' = liveOutputs \cup {r}
  /\ WorkerFinally(r)
  /\ UNCHANGED <<effects, request, bindings, payloads, outputs, approvalRuns,
                 approvalExecutions, closing, callers, restarts>>

(* The executor threw, or returned an approval bound to another run; the    *)
(* worker then awaits approvals.cancelRun, still holding its slot.          *)
WorkerFails(r) ==
  /\ ReturnedLive(r)
  /\ RecordStatus(r, "failed")
  /\ worker' = [worker EXCEPT ![r] = "settling"]
  /\ UNCHANGED <<effects, request, bindings, payloads, outputs, activeBindings,
                 waitingBindings, controller, approvalRuns, approvalExecutions,
                 expiryTimers, slotWaiters, dispatchScheduled, liveOutputs,
                 closing, callers, restarts>>

(* The signal was aborted: whatever the executor returned or threw is       *)
(* dropped.                                                                 *)
WorkerObservesAbort(r) ==
  /\ ReturnedAborted(r)
  /\ RecordStatus(r, AbortedStatus(r))
  /\ worker' = [worker EXCEPT ![r] = "settling"]
  /\ UNCHANGED <<effects, request, bindings, payloads, outputs, activeBindings,
                 waitingBindings, controller, approvalRuns, approvalExecutions,
                 expiryTimers, slotWaiters, dispatchScheduled, liveOutputs,
                 closing, callers, restarts>>

WorkerSettles(r) ==
  /\ worker[r] = "settling"
  /\ UNCHANGED waitingBindings
  /\ WorkerFinally(r)
  /\ UNCHANGED <<store, approvalRuns, approvalExecutions, expiryTimers,
                 liveOutputs, closing, callers, restarts>>

-----------------------------------------------------------------------------
(* cancel: the record is read, awaited, and acted on later.                 *)

CancelReads(c, r) ==
  /\ cancels[c] = Nil
  /\ status[r] \in {"queued"} \cup Active
  /\ cancels' = [cancels EXCEPT ![c] = [run |-> r, seen |-> status[r]]]
  /\ UNCHANGED <<store, slots, liveOutputs, closing, deciders, acknowledged, restarts>>

(* store.cancelQueued                                                       *)
WithdrawQueued(r) ==
  /\ status[r] = "queued"
  /\ status' = [status EXCEPT ![r] = "cancelled"]
  /\ payloads' = payloads \ {r}

CancelQueued(c) ==
  /\ cancels[c] # Nil /\ cancels[c].seen = "queued"
  /\ LET r == cancels[c].run IN
       \/ /\ WithdrawQueued(r)
          /\ cancels' = [cancels EXCEPT ![c] = Nil]
       \/ /\ status[r] # "queued"           \* lost: cancel again from the start
          /\ cancels' = [cancels EXCEPT ![c] =
               IF status[r] \in Active THEN [run |-> r, seen |-> status[r]] ELSE Nil]
          /\ UNCHANGED <<status, payloads>>
  /\ UNCHANGED <<effects, request, bindings, outputs, approvals, slots,
                 liveOutputs, closing, deciders, acknowledged, restarts>>

(* A controller is found: abort it.                                         *)
CancelAborts(c) ==
  /\ cancels[c] # Nil /\ cancels[c].seen \in Active
  /\ LET r == cancels[c].run IN
       /\ controller[r] # "none"
       /\ controller' = [controller EXCEPT ![r] = "aborted"]
       /\ acknowledged' = acknowledged \cup {r}
  /\ cancels' = [cancels EXCEPT ![c] = Nil]
  /\ UNCHANGED <<store, worker, activeBindings, waitingBindings, approvalRuns,
                 approvalExecutions, expiryTimers, slotWaiters,
                 dispatchScheduled, liveOutputs, closing, deciders, restarts>>

(* No controller, and the record that was read waits for an approval:       *)
(* finish it as cancelled, or throw if it is no longer active.              *)
CancelWaiting(c) ==
  /\ cancels[c] # Nil /\ cancels[c].seen = "waiting_approval"
  /\ controller[cancels[c].run] = "none"
  /\ cancels' = [cancels EXCEPT ![c] = Nil]
  /\ LET r == cancels[c].run IN
       \/ /\ RecordStatus(r, "cancelled")
          /\ ReleaseApprovalRun(r)
          /\ acknowledged' = acknowledged \cup {r}
       \/ /\ status[r] \notin Active
          /\ UNCHANGED <<status, approvals, slots, acknowledged>>
  /\ UNCHANGED <<effects, request, bindings, payloads, outputs, liveOutputs,
                 closing, deciders, restarts>>

(* No controller, and the record that was read was running: nothing is done *)
(* and the caller is told that cancellation was requested.                  *)
CancelFindsNothing(c) ==
  /\ cancels[c] # Nil /\ cancels[c].seen = "running"
  /\ controller[cancels[c].run] = "none"
  /\ acknowledged' = acknowledged \cup {cancels[c].run}
  /\ cancels' = [cancels EXCEPT ![c] = Nil]
  /\ UNCHANGED <<store, slots, liveOutputs, closing, deciders, restarts>>

-----------------------------------------------------------------------------
(* An approval decision: beginApproval, then completeApproval or            *)
(* failApproval by the caller that holds the signal.                        *)

NeverWaits(execute) == FALSE                          \* mutant
MustWait(execute) == execute /\ ActiveExecutionCount >= MaximumConcurrentRuns

(* store.resumeAfterApproval                                                *)
ResumeAfterApproval(r) == status' = [status EXCEPT ![r] = "running"]

TakeOwnership(a, r, execute) ==
  /\ ResumeAfterApproval(r)
  /\ controller' = [controller EXCEPT ![r] = "live"]
  /\ approvalRuns' = approvalRuns \cup {r}
  /\ approvalExecutions' = IF execute THEN approvalExecutions \cup {r}
                                      ELSE approvalExecutions
  /\ deciders' = [deciders EXCEPT ![a] =
                    [stage |-> "owner", run |-> r, execute |-> execute]]

PendingRequest(r) == r \in approvals                  \* mutant
AwaitsDecision(r) == status[r] = "waiting_approval" /\ r \in approvals

BeginApproval(a, r, execute) ==
  /\ deciders[a] = Idle /\ ~closed
  /\ AwaitsDecision(r)
  /\ \/ /\ MustWait(execute)
        /\ deciders' = [deciders EXCEPT ![a] =
                          [stage |-> "beginning", run |-> r, execute |-> TRUE]]
        /\ slotWaiters' = slotWaiters \cup {a}
        /\ UNCHANGED <<status, controller, approvalRuns, approvalExecutions>>
     \/ /\ ~MustWait(execute)
        /\ TakeOwnership(a, r, execute)
        /\ UNCHANGED slotWaiters
  /\ UNCHANGED <<effects, request, bindings, payloads, outputs, approvals,
                 worker, activeBindings, waitingBindings, expiryTimers,
                 dispatchScheduled, liveOutputs, closing, cancels, acknowledged,
                 restarts>>

(* A woken waiter looks again: closed, still no slot, decided meanwhile, or *)
(* its turn.                                                                *)
ResumeBeginApproval(a) ==
  /\ deciders[a].stage = "beginning" /\ a \notin slotWaiters
  /\ LET r == deciders[a].run
     IN \/ /\ ~closed /\ MustWait(TRUE)
           /\ slotWaiters' = slotWaiters \cup {a}
           /\ UNCHANGED <<status, controller, approvalRuns, approvalExecutions, deciders>>
        \/ /\ ~closed /\ ~MustWait(TRUE) /\ AwaitsDecision(r)
           /\ TakeOwnership(a, r, TRUE)
           /\ UNCHANGED slotWaiters
        \/ /\ closed \/ (~MustWait(TRUE) /\ ~AwaitsDecision(r))
           /\ deciders' = [deciders EXCEPT ![a] = Idle]
           /\ UNCHANGED <<status, controller, approvalRuns, approvalExecutions, slotWaiters>>
  /\ UNCHANGED <<effects, request, bindings, payloads, outputs, approvals,
                 worker, activeBindings, waitingBindings, expiryTimers,
                 dispatchScheduled, liveOutputs, closing, cancels, acknowledged,
                 restarts>>

CompleteApproval(a) ==
  /\ deciders[a].stage = "owner" /\ deciders[a].execute
  /\ LET r == deciders[a].run IN
       /\ controller[r] = "live"
       /\ r \in approvals
       /\ RecordStatus(r, "succeeded")
       /\ PersistOutput(r)
       /\ ReleaseApprovalRun(r)
       /\ liveOutputs' = liveOutputs \cup {r}
  /\ deciders' = [deciders EXCEPT ![a] = Idle]
  /\ UNCHANGED <<effects, request, bindings, payloads, closing, cancels,
                 acknowledged, restarts>>

(* A denial, a failed capability, or any outcome under an aborted signal.   *)
FailApproval(a) ==
  /\ deciders[a].stage = "owner"
  /\ LET r == deciders[a].run IN
       /\ controller[r] # "none"
       /\ r \in approvals
       /\ RecordStatus(r, IF controller[r] = "aborted" THEN AbortedStatus(r) ELSE "failed")
       /\ ReleaseApprovalRun(r)
  /\ deciders' = [deciders EXCEPT ![a] = Idle]
  /\ UNCHANGED <<effects, request, bindings, payloads, outputs, liveOutputs,
                 closing, cancels, acknowledged, restarts>>

(* The expiry timer fires, at any time after it was armed.                  *)
ExpireApproval(r) ==
  /\ r \in expiryTimers
  /\ \/ /\ ~closed /\ status[r] = "waiting_approval" /\ r \in approvals
        /\ RecordStatus(r, "failed")
        /\ ReleaseApprovalRun(r)
     \/ /\ closed \/ ~AwaitsDecision(r)
        /\ expiryTimers' = expiryTimers \ {r}
        /\ UNCHANGED <<status, approvals, worker, activeBindings,
                       waitingBindings, controller, approvalRuns,
                       approvalExecutions, slotWaiters, dispatchScheduled>>
  /\ UNCHANGED <<effects, request, bindings, payloads, outputs, liveOutputs,
                 closing, callers, restarts>>

-----------------------------------------------------------------------------
(* close(): interrupt the waiting runs one by one, awaiting the approval    *)
(* store after each; then abort every controller and wait for the workers   *)
(* and the approved executions to settle.  Map order is not modelled: any   *)
(* order of the visits is allowed.                                          *)

InterruptVisited(r) ==
  IF status[r] \in Active THEN RecordStatus(r, RecoverStatus(r))
                          ELSE UNCHANGED <<status, approvals>>

AbortLive(f) == [r \in Run |-> IF f[r] = "live" THEN "aborted" ELSE f[r]]

Close ==
  /\ closePhase = "open"
  /\ slotWaiters' = {}
  /\ LET left == waitingBindings \ approvalRuns IN
       \/ /\ left = {}
          /\ closePhase' = "draining"
          /\ controller' = AbortLive(controller)
          /\ UNCHANGED <<closeTodo, closeRun, status, approvals>>
       \/ \E r \in left :
          /\ closePhase' = "interrupting"
          /\ InterruptVisited(r)
          /\ closeRun' = r /\ closeTodo' = waitingBindings \ {r}
          /\ UNCHANGED controller
  /\ UNCHANGED <<effects, request, bindings, payloads, outputs, worker,
                 activeBindings, waitingBindings, approvalRuns,
                 approvalExecutions, expiryTimers, dispatchScheduled,
                 liveOutputs, callers, restarts>>

(* The awaited cancelRun returned: release the run and visit the next one.  *)
CloseAdvances ==
  /\ closePhase = "interrupting"
  /\ LET r == closeRun
         left == closeTodo \ (approvalRuns \ {r})
         released == [controller EXCEPT ![r] = "none"]
     IN /\ SettleApproval(r)
        /\ approvalExecutions' = approvalExecutions \ {r}
        /\ expiryTimers' = expiryTimers \ {r}
        /\ waitingBindings' = waitingBindings \ {r}
        /\ ReleaseBinding(r)
        /\ \/ /\ left = {}
              /\ closePhase' = "draining" /\ closeRun' = Nil /\ closeTodo' = {}
              /\ controller' = AbortLive(released)
              /\ UNCHANGED <<status, approvals>>
           \/ \E s \in left :
              /\ closeRun' = s /\ closeTodo' = closeTodo \ {s}
              /\ InterruptVisited(s)
              /\ controller' = released
              /\ UNCHANGED closePhase
  /\ NotifySlotWaiters
  /\ UNCHANGED <<effects, request, bindings, payloads, outputs, worker,
                 dispatchScheduled, liveOutputs, callers, restarts>>

WorkersSettled == \A r \in Run : worker[r] = "none"   \* mutant
AllSettled == (\A r \in Run : worker[r] = "none") /\ approvalRuns = {}

CloseFinishes ==
  /\ closePhase = "draining"
  /\ AllSettled
  /\ closePhase' = "closed"
  /\ UNCHANGED <<store, slots, liveOutputs, closeTodo, closeRun, callers, restarts>>

(* The process ends, at any point, and open() recovers the store.           *)
Restart ==
  /\ restarts < MaxRestarts
  /\ restarts' = restarts + 1
  /\ status' = [r \in Run |-> IF status[r] \in Active THEN RecoverStatus(r) ELSE status[r]]
  /\ approvals' = {r \in approvals : status[r] \notin Active}
  /\ worker' = [r \in Run |-> "none"]
  /\ controller' = [r \in Run |-> "none"]
  /\ activeBindings' = {} /\ waitingBindings' = {}
  /\ approvalRuns' = {} /\ approvalExecutions' = {}
  /\ expiryTimers' = {} /\ liveOutputs' = {} /\ slotWaiters' = {}
  /\ dispatchScheduled' = TRUE
  /\ closePhase' = "open" /\ closeTodo' = {} /\ closeRun' = Nil
  /\ cancels' = [c \in Client |-> Nil]
  /\ deciders' = [a \in Approver |-> Idle]
  /\ acknowledged' = {}
  /\ UNCHANGED <<effects, request, bindings, payloads, outputs>>

-----------------------------------------------------------------------------
Execution(r) ==
  \/ WorkerSucceeds(r) \/ WorkerAwaitsApproval(r) \/ WorkerFails(r)
  \/ WorkerObservesAbort(r) \/ WorkerSettles(r)

Cancellation(c) ==
  \/ CancelQueued(c) \/ CancelAborts(c) \/ CancelWaiting(c) \/ CancelFindsNothing(c)

Decision(a) == ResumeBeginApproval(a) \/ CompleteApproval(a) \/ FailApproval(a)

Next ==
  \/ \E q \in Request : Submit(q)
  \/ Dispatch
  \/ \E r \in Run : Execution(r) \/ ExpireApproval(r)
  \/ \E c \in Client, r \in Run : CancelReads(c, r)
  \/ \E c \in Client : Cancellation(c)
  \/ \E a \in Approver, r \in Run, execute \in BOOLEAN : BeginApproval(a, r, execute)
  \/ \E a \in Approver : Decision(a)
  \/ Close \/ CloseAdvances \/ CloseFinishes
  \/ Restart

Spec == Init /\ [][Next]_vars

(* The event loop runs what is ready: microtasks, resumed awaits and due    *)
(* timers.  It also assumes that an executor, an approved capability and    *)
(* approvals.cancelRun return at last; nothing is assumed of the callers,   *)
(* of close() being called or of the process dying.                         *)
Fairness ==
  /\ WF_vars(Dispatch)
  /\ \A r \in Run : WF_vars(Execution(r)) /\ WF_vars(ExpireApproval(r))
  /\ \A c \in Client : WF_vars(Cancellation(c))
  /\ \A a \in Approver : WF_vars(Decision(a))
  /\ WF_vars(CloseAdvances) /\ WF_vars(CloseFinishes)

LiveSpec == Spec /\ Fairness

-----------------------------------------------------------------------------
(* Safety.                                                                  *)

Occupies(r) == status[r] \in Active \/ worker[r] # "none"

(* Runs bound to the same Pi session are strictly serial: no two of them    *)
(* execute, wait for an approval or still settle at the same time, across   *)
(* dispatch, approval, expiry, cancellation and shutdown.                   *)
SessionExclusion ==
  \A r, s \in Run :
    r # s /\ Occupies(r) /\ Occupies(s) => Session(r) # Session(s)

(* A reserved session is reserved by a run that will give it back: a        *)
(* leaked #activeBindings entry would block its conversation for ever.      *)
NoLeakedBinding ==
  \A c \in activeBindings : \E r \in Run :
    (worker[r] # "none" \/ r \in waitingBindings) /\ Session(r) = c

(* A session is held by one run at a time, and by one that gives it back.   *)
SessionLeases == SessionExclusion /\ NoLeakedBinding

(* Every active run has someone in memory who will end it: its worker, the  *)
(* owner of its approval or, while it waits, an armed expiry timer (after   *)
(* close() the restart's recovery ends it).                                 *)
NoOrphanedRun ==
  \A r \in Run :
    /\ status[r] = "running" =>
         worker[r] = "executing" \/ \E a \in Approver : Owns(a, r)
    /\ status[r] = "waiting_approval" =>
         /\ worker[r] = "none" /\ r \in approvals
         /\ closed \/ (r \in expiryTimers /\ r \in waitingBindings)

(* Only one decision owns a pending approval, and while it does the run is  *)
(* running under its controller and no worker executes it.                  *)
SingleDecision ==
  \A a \in Approver :
    deciders[a].stage = "owner" =>
      LET r == deciders[a].run IN
        /\ \A b \in Approver : Owns(b, r) => a = b
        /\ status[r] = "running" /\ worker[r] = "none"
        /\ controller[r] # "none" /\ r \in approvalRuns

(* Workers and approved executions together never exceed the limit, though  *)
(* the approval path takes its slot after awaiting one.                     *)
ConcurrencyBound == ActiveExecutionCount <= MaximumConcurrentRuns

(* No wake-up is lost: a decision parked for a slot means every slot is     *)
(* taken and the service is open, so some later release will wake it.       *)
NoLostWakeup ==
  slotWaiters # {} => ActiveExecutionCount >= MaximumConcurrentRuns /\ ~closed

(* The two sides of the limit, whose slots the dispatcher and the decisions *)
(* both fill: never one too many, and nobody waits for a free one.          *)
SlotDiscipline == ConcurrencyBound /\ NoLostWakeup

(* The queue never strands a run: a queued run keeps its payload, and when  *)
(* an open service could claim one a dispatch is already scheduled.         *)
QueueNotStranded ==
  /\ \A r \in Run : status[r] = "queued" => r \in payloads
  /\ ~closed /\ Claimable # {} => dispatchScheduled

(* Whatever is queued will be dispatched and whatever is active ended: no   *)
(* run is left to nobody by a lost timer, wake-up, binding or payload.      *)
NoRunForgotten == NoOrphanedRun /\ QueueNotStranded

(* After close() has resolved nothing executes: no worker, no approved      *)
(* capability, no controller, no running run.                               *)
ClosedIsQuiet ==
  closePhase = "closed" =>
    \A r \in Run : /\ worker[r] = "none" /\ r \notin approvalRuns
                   /\ controller[r] = "none" /\ status[r] # "running"

(* docs/application-architecture.md says of shutdown that the executions    *)
(* still left are cancelled and recorded as interrupted: none stays active. *)
ShutdownRecordsActiveRuns ==
  closePhase = "closed" => \A r \in Run : status[r] \notin Active

(* docs/agent-runtime-contracts.md: cancelling a running run returns        *)
(* cancellation_requested and it becomes cancelled once the worker observes *)
(* the signal.  So an acknowledged run has ended or has its signal raised.  *)
AcknowledgedCancellationHolds ==
  \A r \in acknowledged : status[r] \in Terminal \/ controller[r] = "aborted"

-----------------------------------------------------------------------------
(* What a step may never do.                                                *)

Starts(r) == worker[r] = "none" /\ worker'[r] = "executing"

(* The executor is handed each idempotency key at most once, across         *)
(* duplicates, lost claims and restarts: an effect is never repeated.       *)
ExecutedAtMostOnce ==
  [][\A r \in Run : Starts(r) =>
       \A s \in effects : request[s].key # request[r].key]_vars

(* The runs of one conversation execute in submission order, each after the *)
(* earlier ones have ended.                                                 *)
ConversationOrder ==
  [][\A r \in Run : Starts(r) =>
       \A s \in Run : s < r /\ Session(s) = Session(r) =>
         status[s] \in Terminal /\ worker[s] = "none"]_vars

(* What a conversation asked for is executed once and in order.             *)
ExecutionOrder == ExecutedAtMostOnce /\ ConversationOrder

(* Once its signal is raised a run can no longer succeed, fail or go back   *)
(* to waiting, however its executor or its capability ends.                 *)
AbortSticks ==
  [][\A r \in Run : controller[r] = "aborted" /\ status'[r] # status[r] =>
       status'[r] \in {"cancelled", "interrupted", "result_unknown"}]_vars

(* Every step moves every run along the transition table of contracts.ts.   *)
Contract == INSTANCE AgentRunContract
ContractSpec == Contract!Spec

-----------------------------------------------------------------------------
(* Liveness.                                                                *)

(* A queued run ends, unless the service is closed: a conversation is not   *)
(* held up for ever by an approval nobody answers.                          *)
QueuedRunsEnd ==
  \A r \in Run : status[r] = "queued" ~> (status[r] \in Terminal \/ closed)

(* A run whose signal was raised ends.                                      *)
AbortedRunsEnd ==
  \A r \in Run : controller[r] = "aborted" ~> status[r] \in Terminal

(* No run is left waiting or aborted for ever.                              *)
RunsEnd == QueuedRunsEnd /\ AbortedRunsEnd

(* close() resolves, unless the process dies first.                         *)
CloseCompletes == closed ~> closePhase \in {"closed", "open"}
=============================================================================
