------------------------ MODULE AgentService_proofs ------------------------
(***************************************************************************)
(* Theorems about AgentService, for every number of runs, conversations,    *)
(* callers, decisions and slots: types and serial conversations; who ends   *)
(* every active run, in what order runs start, and that each step is one    *)
(* the run contract allows; and the execution slots, which the dispatcher   *)
(* and the decisions never overfill, and where no decision that waits for   *)
(* one is forgotten.                                                        *)
(***************************************************************************)
EXTENDS AgentService, TLAPS, FiniteSetTheorems, WellFoundedInduction

(* What #dispatch claims is queued, and its session is a conversation.      *)
LEMMA ClaimableIsQueued ==
  ASSUME TypeOK, NEW r \in Claimable
  PROVE  /\ r \in Run /\ status[r] = "queued"
         /\ Session(r) \in Conversation
         /\ Session(r) \notin activeBindings
<1>1. r \in QueuedRuns /\ Session(r) \notin activeBindings
  BY DEF Claimable, Eligible
<1>2. r \in Created
  BY <1>1 DEF QueuedRuns, Created
<1>. QED
  BY <1>1, <1>2, RequestAssumption DEF TypeOK, QueuedRuns, Session

(* Every variable of the service keeps its type whatever the callers, the   *)
(* dispatcher, close() and restarts do: in particular no handler applies to *)
(* a run that was never created, or records a status outside the contract.  *)
THEOREM TypeCorrect == Spec => []TypeOK
<1>1. Init => TypeOK
  BY LimitsAssumption DEF Init, TypeOK, Run, Idle, Status, DeciderStage, Created
<1>2. TypeOK /\ [Next]_vars => TypeOK'
  <2> SUFFICES ASSUME TypeOK, [Next]_vars PROVE TypeOK'
    OBVIOUS
  <2> USE DEF TypeOK, Created, Active, Terminal, Status, DeciderStage,
              store, slots, closing, callers,
              RecordStatus, ReleaseApprovalRun, ReleaseBinding, SettleApproval,
              NotifySlotWaiters, ScheduleDispatch, WorkerFinally,
              KeepBindingIfWaiting, PersistOutput
  <2>1. ASSUME NEW q \in Request, Submit(q) PROVE TypeOK'
    BY <2>1, RequestAssumption DEF Submit, Enqueue
  <2>2. CASE Dispatch
    <3>1. Claimable \subseteq Run /\ {Session(r) : r \in Claimable} \subseteq Conversation
      BY ClaimableIsQueued
    <3>. QED
      BY <2>2, <3>1, ClaimableIsQueued DEF Dispatch, ClaimQueued
  <2>3. ASSUME NEW r \in Run, WorkerSucceeds(r) PROVE TypeOK'
    BY <2>3 DEF WorkerSucceeds
  <2>4. ASSUME NEW r \in Run, WorkerAwaitsApproval(r) PROVE TypeOK'
    BY <2>4 DEF WorkerAwaitsApproval, MarkWaitingApproval,
       ScheduleApprovalExpiry
  <2>5. ASSUME NEW r \in Run, WorkerFails(r) PROVE TypeOK'
    BY <2>5 DEF WorkerFails
  <2>6. ASSUME NEW r \in Run, WorkerObservesAbort(r) PROVE TypeOK'
    BY <2>6 DEF WorkerObservesAbort, AbortedStatus, RecoverStatus
  <2>7. ASSUME NEW r \in Run, WorkerSettles(r) PROVE TypeOK'
    BY <2>7 DEF WorkerSettles
  <2>8. ASSUME NEW r \in Run, ExpireApproval(r) PROVE TypeOK'
    BY <2>8 DEF ExpireApproval
  <2>9. ASSUME NEW c \in Client, NEW r \in Run, CancelReads(c, r) PROVE TypeOK'
    BY <2>9 DEF CancelReads
  <2>10. ASSUME NEW c \in Client, Cancellation(c) PROVE TypeOK'
    <3>0. cancels[c] # Nil => cancels[c] \in [run : Run, seen : {"queued"} \cup Active]
      OBVIOUS
    <3>1. CASE CancelQueued(c)
      BY <3>0, <3>1 DEF CancelQueued, WithdrawQueued
    <3>2. CASE CancelAborts(c)
      BY <3>0, <3>2 DEF CancelAborts
    <3>3. CASE CancelWaiting(c)
      <4>1. CASE /\ RecordStatus(cancels[c].run, "cancelled")
                 /\ ReleaseApprovalRun(cancels[c].run)
                 /\ acknowledged' = acknowledged \cup {cancels[c].run}
        <5>1. cancels[c].run \in Run /\ status[cancels[c].run] \in Active
          BY <3>0, <3>3, <4>1 DEF CancelWaiting
        <5>2. status' \in [Run -> Status] /\ \A r \in Run : status'[r] # "absent" => status[r] # "absent"
          BY <4>1, <5>1
        <5>. QED
          BY <3>3, <4>1, <5>1, <5>2 DEF CancelWaiting
      <4>2. CASE UNCHANGED <<status, approvals, slots, acknowledged>>
        BY <3>0, <3>3, <4>2 DEF CancelWaiting
      <4>. QED
        BY <3>3, <4>1, <4>2 DEF CancelWaiting
    <3>4. CASE CancelFindsNothing(c)
      BY <3>0, <3>4 DEF CancelFindsNothing
    <3>. QED
      BY <2>10, <3>1, <3>2, <3>3, <3>4 DEF Cancellation
  <2>11. ASSUME NEW a \in Approver, NEW r \in Run, NEW execute \in BOOLEAN,
                BeginApproval(a, r, execute)
         PROVE TypeOK'
    <3>1. CASE slotWaiters' = slotWaiters \cup {a} /\ MustWait(execute)
      <4>1. [stage |-> "beginning", run |-> r, execute |-> TRUE]
              \in [stage : DeciderStage, run : Run \cup {Nil}, execute : BOOLEAN]
        OBVIOUS
      <4>2. /\ deciders' = [deciders EXCEPT ![a] =
                              [stage |-> "beginning", run |-> r, execute |-> TRUE]]
            /\ UNCHANGED <<status, controller, approvalRuns, approvalExecutions>>
        BY <2>11, <3>1 DEF BeginApproval
      <4>. QED
        BY <2>11, <3>1, <4>1, <4>2 DEF BeginApproval
    <3>2. CASE TakeOwnership(a, r, execute) /\ UNCHANGED slotWaiters
      <4>1. [stage |-> "owner", run |-> r, execute |-> execute]
              \in [stage : DeciderStage, run : Run \cup {Nil}, execute : BOOLEAN]
        OBVIOUS
      <4>2. approvalExecutions' \subseteq Run
        BY <3>2 DEF TakeOwnership, ResumeAfterApproval
      <4>. QED
        BY <2>11, <3>2, <4>1, <4>2 DEF BeginApproval, TakeOwnership,
           ResumeAfterApproval, AwaitsDecision
    <3>. QED
      BY <2>11, <3>1, <3>2 DEF BeginApproval
  <2>12. ASSUME NEW a \in Approver, Decision(a) PROVE TypeOK'
    <3>1. CASE ResumeBeginApproval(a)
      <4>1. CASE slotWaiters' = slotWaiters \cup {a} /\ UNCHANGED deciders
        BY <2>12, <3>1, <4>1 DEF ResumeBeginApproval, TakeOwnership,
           ResumeAfterApproval, AwaitsDecision
      <4>2. CASE AwaitsDecision(deciders[a].run) /\ TakeOwnership(a, deciders[a].run, TRUE)
        <5>1. deciders[a].run \in Run
          BY <4>2 DEF AwaitsDecision
        <5>2. [stage |-> "owner", run |-> deciders[a].run, execute |-> TRUE]
                \in [stage : DeciderStage, run : Run \cup {Nil}, execute : BOOLEAN]
          BY <5>1
        <5>3. /\ status' = [status EXCEPT ![deciders[a].run] = "running"]
              /\ controller' = [controller EXCEPT ![deciders[a].run] = "live"]
              /\ approvalRuns' = approvalRuns \cup {deciders[a].run}
              /\ approvalExecutions' = approvalExecutions \cup {deciders[a].run}
              /\ deciders' = [deciders EXCEPT ![a] =
                    [stage |-> "owner", run |-> deciders[a].run, execute |-> TRUE]]
          BY <4>2 DEF TakeOwnership, ResumeAfterApproval
        <5>4. status[deciders[a].run] = "waiting_approval"
          BY <4>2 DEF AwaitsDecision
        <5>5. \A r \in Run : status'[r] # "absent" => status[r] # "absent"
          BY <5>1, <5>3, <5>4
        <5>. QED
          BY <3>1, <5>1, <5>2, <5>3, <5>5 DEF ResumeBeginApproval
      <4>3. CASE /\ closed \/ (~MustWait(TRUE) /\ ~AwaitsDecision(deciders[a].run))
                 /\ deciders' = [deciders EXCEPT ![a] = Idle]
        BY <2>12, <3>1, <4>3 DEF ResumeBeginApproval, Idle
      <4>. QED
        BY <3>1, <4>1, <4>2, <4>3 DEF ResumeBeginApproval
    <3>2. CASE CompleteApproval(a)
      BY <2>12, <3>2 DEF CompleteApproval, Idle
    <3>3. CASE FailApproval(a)
      BY <2>12, <3>3 DEF FailApproval, Idle, AbortedStatus, RecoverStatus
    <3>. QED
      BY <2>12, <3>1, <3>2, <3>3 DEF Decision
  <2>13. CASE Close
    BY <2>13 DEF Close, InterruptVisited, RecoverStatus, AbortLive
  <2>14. CASE CloseAdvances
    BY <2>14 DEF CloseAdvances, InterruptVisited, RecoverStatus, AbortLive
  <2>15. CASE CloseFinishes
    BY <2>15 DEF CloseFinishes
  <2>16. CASE Restart
    BY <2>16, LimitsAssumption DEF Restart, RecoverStatus, Idle
  <2>17. CASE UNCHANGED vars
    BY <2>17 DEF vars
  <2>. QED
    BY <2>1, <2>2, <2>3, <2>4, <2>5, <2>6, <2>7, <2>8, <2>9, <2>10, <2>11,
       <2>12, <2>13, <2>14, <2>15, <2>16, <2>17 DEF Next, Execution
<1>. QED
  BY <1>1, <1>2, PTL DEF Spec

-----------------------------------------------------------------------------
(* Why the runs of a session are serial.  SessionExclusion says nothing of  *)
(* #activeBindings, which is what #dispatch looks at, so it is not          *)
(* inductive.  A run holds its session from its claim until its worker and  *)
(* its #waitingBindings entry are both gone, and what is inductive is that  *)
(* a held session is reserved and has one holder, together with who         *)
(* accounts for every active run.                                           *)

Holds(r) == Occupies(r) \/ r \in waitingBindings

Reserved == \A r \in Run : Holds(r) => Session(r) \in activeBindings

OneHolder ==
  \A r, s \in Run : r # s /\ Holds(r) /\ Holds(s) => Session(r) # Session(s)

(* An active run is executed by its worker or registered as waiting, never  *)
(* both; a worker has a controller; a pending approval belongs to a         *)
(* registered active run.                                                   *)
Accounted ==
  \A r \in Run :
    /\ Holds(r) => status[r] \notin {"absent", "queued"}
    /\ status[r] \in Active => worker[r] = "executing" \/ r \in waitingBindings
    /\ worker[r] = "executing" => status[r] = "running"
    /\ worker[r] # "none" => r \notin waitingBindings /\ controller[r] # "none"
    /\ r \in approvals => r \in waitingBindings /\ status[r] \in Active

(* The run close() is awaiting has been recorded, and neither it nor those  *)
(* still to visit have a worker.                                            *)
CloseVisits ==
  closePhase = "interrupting" =>
    /\ closeRun \in Run /\ status[closeRun] \notin Active
    /\ \A r \in closeTodo \cup {closeRun} : worker[r] = "none"

SerialInv == Reserved /\ OneHolder /\ Accounted /\ CloseVisits

LEMMA SerialInit == Init => SerialInv
  BY DEF Init, SerialInv, Reserved, OneHolder, Accounted, CloseVisits, Holds,
         Occupies, Active, Run

LEMMA SerialStep == TypeOK /\ TypeOK' /\ SerialInv /\ [Next]_vars => SerialInv'
<1> SUFFICES ASSUME TypeOK, TypeOK', SerialInv, [Next]_vars PROVE SerialInv'
  OBVIOUS
<1> USE DEF SerialInv, Reserved, OneHolder, Accounted, CloseVisits, Holds,
            Occupies, Active, Session, TypeOK, store, slots, closing, callers
<1>1. ASSUME NEW q \in Request, Submit(q) PROVE SerialInv'
  BY <1>1 DEF Submit, Enqueue
<1>2. CASE Dispatch
  <2>1. CASE closed
    BY <1>2, <2>1 DEF Dispatch, ClaimQueued
  <2>2. CASE ~closed
    <3>1. \A r \in Claimable : r \in Run /\ status[r] = "queued"
                               /\ request[r].conv \notin activeBindings
      BY ClaimableIsQueued
    <3>2. \A r, s \in Claimable : r # s => request[r].conv # request[s].conv
      BY <3>1 DEF Claimable, Eligible, Run, QueuedRuns
    <3>. QED
      BY <1>2, <2>2, <3>1, <3>2 DEF Dispatch, ClaimQueued, closed
  <2>. QED
    BY <2>1, <2>2
<1> USE DEF RecordStatus, ReleaseApprovalRun, ReleaseBinding, SettleApproval,
            WorkerFinally, KeepBindingIfWaiting
<1>3. ASSUME NEW r \in Run, WorkerSucceeds(r) PROVE SerialInv'
  BY <1>3 DEF WorkerSucceeds, ReturnedLive
<1>4. ASSUME NEW r \in Run, WorkerAwaitsApproval(r) PROVE SerialInv'
  BY <1>4 DEF WorkerAwaitsApproval, MarkWaitingApproval, ReturnedLive
<1>5. ASSUME NEW r \in Run, WorkerFails(r) PROVE SerialInv'
  BY <1>5 DEF WorkerFails, ReturnedLive
<1>6. ASSUME NEW r \in Run, WorkerObservesAbort(r) PROVE SerialInv'
  BY <1>6 DEF WorkerObservesAbort, ReturnedAborted, AbortedStatus, RecoverStatus
<1>7. ASSUME NEW r \in Run, WorkerSettles(r) PROVE SerialInv'
  BY <1>7 DEF WorkerSettles
<1>8. ASSUME NEW r \in Run, ExpireApproval(r) PROVE SerialInv'
  BY <1>8 DEF ExpireApproval, AwaitsDecision
<1>9. ASSUME NEW c \in Client, NEW r \in Run, CancelReads(c, r) PROVE SerialInv'
  BY <1>9 DEF CancelReads
<1>10. ASSUME NEW c \in Client, CancelQueued(c) PROVE SerialInv'
  BY <1>10 DEF CancelQueued, WithdrawQueued
<1>11. ASSUME NEW c \in Client, CancelAborts(c) PROVE SerialInv'
  BY <1>11 DEF CancelAborts
<1>12. ASSUME NEW c \in Client, CancelWaiting(c) PROVE SerialInv'
  BY <1>12 DEF CancelWaiting
<1>13. ASSUME NEW c \in Client, CancelFindsNothing(c) PROVE SerialInv'
  BY <1>13 DEF CancelFindsNothing
<1>14. ASSUME NEW a \in Approver, NEW r \in Run, NEW execute \in BOOLEAN,
              BeginApproval(a, r, execute)
       PROVE SerialInv'
  BY <1>14 DEF BeginApproval, TakeOwnership, ResumeAfterApproval,
     AwaitsDecision
<1>15. ASSUME NEW a \in Approver, ResumeBeginApproval(a) PROVE SerialInv'
  <2>1. CASE UNCHANGED <<status, controller>>
    BY <1>15, <2>1 DEF ResumeBeginApproval
  <2>2. CASE /\ AwaitsDecision(deciders[a].run)
             /\ TakeOwnership(a, deciders[a].run, TRUE)
    BY <1>15, <2>2 DEF ResumeBeginApproval, TakeOwnership, ResumeAfterApproval,
       AwaitsDecision
  <2>. QED
    BY <1>15, <2>1, <2>2 DEF ResumeBeginApproval
<1>16. ASSUME NEW a \in Approver, CompleteApproval(a) PROVE SerialInv'
  BY <1>16 DEF CompleteApproval
<1>17. ASSUME NEW a \in Approver, FailApproval(a) PROVE SerialInv'
  BY <1>17 DEF FailApproval, AbortedStatus, RecoverStatus
<1>18. CASE Close
  BY <1>18 DEF Close, InterruptVisited, RecoverStatus, AbortLive
<1>19. CASE CloseAdvances
  BY <1>19 DEF CloseAdvances, InterruptVisited, RecoverStatus, AbortLive
<1>20. CASE CloseFinishes
  BY <1>20 DEF CloseFinishes
<1>21. CASE Restart
  BY <1>21 DEF Restart, RecoverStatus
<1>22. CASE UNCHANGED vars
  BY <1>22 DEF vars
<1> HIDE DEF SerialInv, TypeOK
<1>. QED
  BY <1>1, <1>2, <1>3, <1>4, <1>5, <1>6, <1>7, <1>8, <1>9, <1>10, <1>11, <1>12,
     <1>13, <1>14, <1>15, <1>16, <1>17, <1>18, <1>19, <1>20, <1>21, <1>22
     DEF Next, Execution, Cancellation, Decision

(* Runs bound to one Pi session are strictly serial, for any number of      *)
(* sessions, slots, callers and restarts: the dispatcher, the workers'      *)
(* finally callback, approvals, cancellation, expiry and close() never      *)
(* leave two of them executing, waiting or settling at the same time.       *)
THEOREM SessionsAreSerial == Spec => []SessionExclusion
<1>1. SerialInv => SessionExclusion
  BY DEF SerialInv, OneHolder, Holds, SessionExclusion
<1>. QED
  BY <1>1, SerialInit, SerialStep, TypeCorrect, PTL DEF Spec

-----------------------------------------------------------------------------
(* Who accounts for a decision.  A decision that owns a run has it running  *)
(* under a controller; a run that waits has neither a controller nor, while *)
(* the service is open, lost its timer; and a controller is somebody's.     *)

OneOwner ==
  /\ \A a \in Approver :
       deciders[a].stage = "owner" =>
         /\ deciders[a].run \in Run
         /\ status[deciders[a].run] = "running"
         /\ worker[deciders[a].run] = "none"
         /\ controller[deciders[a].run] # "none"
         /\ deciders[a].run \in approvalRuns
  /\ \A a, b \in Approver :
       deciders[a].stage = "owner" /\ Owns(b, deciders[a].run) => a = b

Accompanied ==
  \A r \in Run :
    /\ status[r] = "waiting_approval" =>
         /\ r \in approvals /\ controller[r] = "none"
         /\ closed \/ r \in expiryTimers
    /\ status[r] = "running" =>
         worker[r] = "executing" \/ \E a \in Approver : Owns(a, r)
    /\ controller[r] # "none" =>
         worker[r] # "none" \/ \E a \in Approver : Owns(a, r)

DecisionInv == OneOwner /\ Accompanied

LEMMA DecisionInit == Init => DecisionInv
BY DEF Init, DecisionInv, OneOwner, Accompanied, Idle, Owns

(* A decision that takes a waiting run becomes its only owner.              *)
LEMMA OwnershipTaken ==
  ASSUME TypeOK, DecisionInv, NEW a \in Approver, NEW r, NEW execute \in BOOLEAN,
         deciders[a].stage # "owner", r \in Run, status[r] = "waiting_approval",
         worker[r] = "none",
         TakeOwnership(a, r, execute),
         UNCHANGED <<worker, approvals, expiryTimers, closing>>
  PROVE  DecisionInv'
<1> USE DEF DecisionInv, OneOwner, Accompanied, Owns, TypeOK, TakeOwnership,
   ResumeAfterApproval, closing, closed
<1>1. deciders'[a] = [stage |-> "owner", run |-> r, execute |-> execute]
  OBVIOUS
<1>2. \A b \in Approver : b # a => deciders'[b] = deciders[b]
  OBVIOUS
<1>3. \A b \in Approver : ~Owns(b, r)
  OBVIOUS
<1>4. OneOwner'
  BY <1>1, <1>2, <1>3
<1>5. Accompanied'
  BY <1>1, <1>2, <1>3
<1>. QED
  BY <1>4, <1>5

LEMMA DecisionStep ==
  ASSUME TypeOK, TypeOK', SerialInv, DecisionInv, [Next]_vars
  PROVE  DecisionInv'
<1> USE DEF DecisionInv, OneOwner, Accompanied, Owns, SerialInv, Accounted, CloseVisits,
            Active, Terminal, TypeOK, store, slots, closing, callers, closed
<1>1. ASSUME NEW q \in Request, Submit(q) PROVE DecisionInv'
  BY <1>1 DEF Submit, Enqueue
<1>2. CASE Dispatch
  BY <1>2, ClaimableIsQueued DEF Dispatch, ClaimQueued
<1> USE DEF RecordStatus, ReleaseApprovalRun, SettleApproval, WorkerFinally
<1>3. ASSUME NEW r \in Run, WorkerSucceeds(r) PROVE DecisionInv'
  BY <1>3 DEF WorkerSucceeds, ReturnedLive
<1>4. ASSUME NEW r \in Run, WorkerAwaitsApproval(r) PROVE DecisionInv'
  BY <1>4 DEF WorkerAwaitsApproval, MarkWaitingApproval, ReturnedLive,
     ScheduleApprovalExpiry
<1>5. ASSUME NEW r \in Run, WorkerFails(r) PROVE DecisionInv'
  BY <1>5 DEF WorkerFails, ReturnedLive
<1>6. ASSUME NEW r \in Run, WorkerObservesAbort(r) PROVE DecisionInv'
  BY <1>6 DEF WorkerObservesAbort, ReturnedAborted, AbortedStatus, RecoverStatus
<1>7. ASSUME NEW r \in Run, WorkerSettles(r) PROVE DecisionInv'
  BY <1>7 DEF WorkerSettles
<1>8. ASSUME NEW r \in Run, ExpireApproval(r) PROVE DecisionInv'
  BY <1>8 DEF ExpireApproval, AwaitsDecision
<1>9. ASSUME NEW c \in Client, NEW r \in Run, CancelReads(c, r) PROVE DecisionInv'
  BY <1>9 DEF CancelReads
<1>10. ASSUME NEW c \in Client, CancelQueued(c) PROVE DecisionInv'
  BY <1>10 DEF CancelQueued, WithdrawQueued
<1>11. ASSUME NEW c \in Client, CancelAborts(c) PROVE DecisionInv'
  BY <1>11 DEF CancelAborts
<1>12. ASSUME NEW c \in Client, CancelWaiting(c) PROVE DecisionInv'
  BY <1>12 DEF CancelWaiting
<1>13. ASSUME NEW c \in Client, CancelFindsNothing(c) PROVE DecisionInv'
  BY <1>13 DEF CancelFindsNothing
<1>14. ASSUME NEW a \in Approver, NEW r \in Run, NEW execute \in BOOLEAN,
              BeginApproval(a, r, execute)
       PROVE DecisionInv'
  <2>1. CASE MustWait(execute)
    <3>1. /\ deciders' = [deciders EXCEPT ![a] =
                             [stage |-> "beginning", run |-> r, execute |-> TRUE]]
          /\ UNCHANGED <<status, controller, approvalRuns, approvalExecutions, worker,
                         approvals, expiryTimers, closing>>
      BY <1>14, <2>1 DEF BeginApproval
    <3>. QED
      BY <1>14, <3>1 DEF BeginApproval, Idle
  <2>2. CASE ~MustWait(execute)
    <3>1. TakeOwnership(a, r, execute) /\ UNCHANGED <<worker, approvals, expiryTimers, closing>>
      BY <1>14, <2>2 DEF BeginApproval
    <3>2. deciders[a].stage # "owner" /\ status[r] = "waiting_approval" /\ worker[r] = "none"
      BY <1>14 DEF BeginApproval, AwaitsDecision, Idle
    <3>. QED
      BY <3>1, <3>2, OwnershipTaken
  <2>. QED
    BY <2>1, <2>2
<1>15. ASSUME NEW a \in Approver, ResumeBeginApproval(a) PROVE DecisionInv'
  <2>1. CASE TakeOwnership(a, deciders[a].run, TRUE) /\ AwaitsDecision(deciders[a].run)
    <3>1. UNCHANGED <<worker, approvals, expiryTimers, closing>> /\ deciders[a].stage # "owner"
      BY <1>15 DEF ResumeBeginApproval
    <3>2. /\ deciders[a].run \in Run /\ status[deciders[a].run] = "waiting_approval"
          /\ worker[deciders[a].run] = "none"
      BY <2>1 DEF AwaitsDecision
    <3>. QED
      BY <2>1, <3>1, <3>2, OwnershipTaken
  <2>2. CASE UNCHANGED <<status, controller, approvalRuns, approvalExecutions, deciders>>
    BY <1>15, <2>2 DEF ResumeBeginApproval
  <2>3. CASE /\ UNCHANGED <<status, controller, approvalRuns, approvalExecutions>>
             /\ deciders' = [deciders EXCEPT ![a] = Idle]
    BY <1>15, <2>3 DEF ResumeBeginApproval, Idle
  <2>. QED
    BY <1>15, <2>1, <2>2, <2>3 DEF ResumeBeginApproval
<1>16. ASSUME NEW a \in Approver, CompleteApproval(a) PROVE DecisionInv'
  BY <1>16 DEF CompleteApproval, Idle
<1>17. ASSUME NEW a \in Approver, FailApproval(a) PROVE DecisionInv'
  BY <1>17 DEF FailApproval, AbortedStatus, RecoverStatus, Idle
<1>18. CASE Close
  BY <1>18 DEF Close, InterruptVisited, RecoverStatus, AbortLive
<1>19. CASE CloseAdvances
  BY <1>19 DEF CloseAdvances, InterruptVisited, RecoverStatus, AbortLive
<1>20. CASE CloseFinishes
  BY <1>20 DEF CloseFinishes
<1>21. CASE Restart
  BY <1>21 DEF Restart, RecoverStatus, Idle
<1>22. CASE UNCHANGED vars
  BY <1>22 DEF vars
<1> HIDE DEF DecisionInv, SerialInv, TypeOK
<1>. QED
  BY <1>1, <1>2, <1>3, <1>4, <1>5, <1>6, <1>7, <1>8, <1>9, <1>10, <1>11, <1>12,
     <1>13, <1>14, <1>15, <1>16, <1>17, <1>18, <1>19, <1>20, <1>21, <1>22
     DEF Next, Execution, Cancellation, Decision

(* The three invariants hold together.                                      *)
LEMMA DecisionsAccounted == Spec => [](TypeOK /\ SerialInv /\ DecisionInv)
<1>1. Spec => []SerialInv
  BY SerialInit, SerialStep, TypeCorrect, PTL DEF Spec
<1>. QED
  BY <1>1, TypeCorrect, DecisionInit, DecisionStep, PTL DEF Spec

(* Every active run has someone in memory who will end it, whatever callers *)
(* race for it: its worker, the owner of its approval, or the expiry timer  *)
(* of one that waits.                                                       *)
THEOREM EveryRunHasAnOwner == Spec => []NoOrphanedRun
<1>1. SerialInv /\ DecisionInv => NoOrphanedRun
  BY DEF SerialInv, Accounted, DecisionInv, Accompanied, NoOrphanedRun, Active
<1>. QED
  BY <1>1, DecisionsAccounted, PTL

(* One decision owns a pending approval: of any number that race for it,    *)
(* with cancellation, expiry and shutdown beside them, one gets the run.    *)
THEOREM OneDecisionOwns == Spec => []SingleDecision
<1>1. DecisionInv => SingleDecision
  BY DEF DecisionInv, OneOwner, SingleDecision
<1>. QED
  BY <1>1, DecisionsAccounted, PTL

-----------------------------------------------------------------------------
(* After close() has resolved.                                              *)

QuietInv ==
  closePhase = "closed" => \A r \in Run : worker[r] = "none" /\ r \notin approvalRuns

LEMMA QuietStep ==
  ASSUME TypeOK, SerialInv, DecisionInv, QuietInv, [Next]_vars
  PROVE  QuietInv'
<1> USE DEF QuietInv, closed, store, slots, closing, callers
<1>1. CASE closePhase' # "closed"
  BY <1>1
<1>2. CASE CloseFinishes
  BY <1>2 DEF CloseFinishes, AllSettled
<1>3. CASE closePhase = "closed" /\ closePhase' = "closed" /\ Next
  <2>1. \A r \in Run : worker[r] = "none" => worker'[r] = "none"
    <3>1. ASSUME NEW r \in Run, Execution(r) PROVE worker' = [worker EXCEPT ![r] = "none"]
      BY <1>3, <3>1 DEF Execution, WorkerSucceeds, WorkerAwaitsApproval,
         MarkWaitingApproval, WorkerFails, WorkerObservesAbort, WorkerSettles,
         WorkerFinally, ReturnedLive, ReturnedAborted
    <3>2. CASE ~\E r \in Run : Execution(r)
      BY <1>3, <3>2 DEF Next, Cancellation, Decision, Submit, Enqueue,
         Dispatch, ClaimQueued, Close, Restart, ExpireApproval,
         ReleaseApprovalRun, CancelReads, CancelQueued, WithdrawQueued,
         CancelAborts, CancelWaiting, CancelFindsNothing, BeginApproval,
         ResumeBeginApproval, CompleteApproval, FailApproval, CloseAdvances,
         CloseFinishes
    <3>. QED
      BY <3>1, <3>2 DEF TypeOK
  <2>2. approvalRuns' \subseteq approvalRuns
    <3> USE DEF ReleaseApprovalRun, SettleApproval
    <3>1. ASSUME NEW r \in Run, Execution(r) \/ ExpireApproval(r)
          PROVE  approvalRuns' \subseteq approvalRuns
      BY <3>1 DEF Execution, WorkerSucceeds, WorkerAwaitsApproval,
         MarkWaitingApproval, WorkerFails, WorkerObservesAbort, WorkerSettles,
         ExpireApproval
    <3>2. ASSUME NEW c \in Client, Cancellation(c) \/ \E r \in Run : CancelReads(c, r)
          PROVE  approvalRuns' \subseteq approvalRuns
      BY <3>2 DEF Cancellation, CancelReads, CancelQueued, WithdrawQueued,
         CancelAborts, CancelWaiting, CancelFindsNothing
    <3>3. ASSUME NEW a \in Approver,
                 Decision(a) \/ \E r \in Run, execute \in BOOLEAN : BeginApproval(a, r, execute)
          PROVE  approvalRuns' \subseteq approvalRuns
      BY <1>3, <3>3 DEF Decision, BeginApproval, ResumeBeginApproval, CompleteApproval, FailApproval
    <3>4. CASE Dispatch \/ Close \/ CloseAdvances \/ CloseFinishes \/ Restart
               \/ \E q \in Request : Submit(q)
      BY <3>4 DEF Dispatch, ClaimQueued, Close, CloseAdvances, CloseFinishes,
         Restart, Submit, Enqueue
    <3>. QED
      BY <1>3, <3>1, <3>2, <3>3, <3>4 DEF Next
  <2>. QED
    BY <1>3, <2>1, <2>2 DEF TypeOK
<1>4. CASE UNCHANGED vars
  BY <1>4 DEF vars
<1>5. closePhase' = "closed" /\ Next => closePhase = "closed" \/ CloseFinishes
  BY DEF Next, Execution, Cancellation, Decision, Submit, Enqueue, Dispatch,
     ClaimQueued, Close, Restart, WorkerSucceeds, WorkerAwaitsApproval,
     MarkWaitingApproval, WorkerFails, WorkerObservesAbort, WorkerSettles,
     ExpireApproval, CancelReads, CancelQueued, WithdrawQueued, CancelAborts,
     CancelWaiting, CancelFindsNothing, BeginApproval, ResumeBeginApproval,
     CompleteApproval, FailApproval, CloseAdvances
<1>. QED
  BY <1>1, <1>2, <1>3, <1>4, <1>5

(* When close() has resolved nothing executes any more, however the workers *)
(* and decisions that were in progress ended.                               *)
THEOREM ClosedServiceIsQuiet == Spec => []ClosedIsQuiet
<1>1. Init => QuietInv
  BY DEF Init, QuietInv
<1>2. SerialInv /\ DecisionInv /\ QuietInv => ClosedIsQuiet
  BY DEF DecisionInv, OneOwner, Accompanied, Owns, QuietInv, ClosedIsQuiet
<1>. QED
  BY <1>1, <1>2, QuietStep, DecisionsAccounted, PTL DEF Spec

-----------------------------------------------------------------------------
(* What a step may do to one run.                                           *)

EffectsStarted == \A r \in effects : status[r] \notin {"absent", "queued"}

RunStep(r) ==
  \/ status'[r] = status[r] /\ (r \in effects' <=> r \in effects)
  \/ status[r] = "absent" /\ status'[r] = "queued" /\ r \notin effects' /\ controller[r] = "none"
  \/ status[r] = "queued" /\ status'[r] = "running" /\ r \in effects' /\ controller[r] = "none"
  \/ /\ r \in effects' <=> r \in effects
     /\ \/ status[r] = "queued" /\ status'[r] = "cancelled"
        \/ /\ status[r] = "running" /\ controller[r] = "live"
           /\ status'[r] \in {"waiting_approval", "succeeded", "failed"}
        \/ /\ status[r] = "waiting_approval" /\ controller[r] = "none"
           /\ status'[r] \in {"running", "failed"}
        \/ status[r] \in Active /\ status'[r] \in {"cancelled", RecoverStatus(r)}

LEMMA NextIsRunStep ==
  ASSUME TypeOK, SerialInv, DecisionInv, EffectsStarted, [Next]_vars, NEW r \in Run
  PROVE  RunStep(r)
<1> USE DEF RunStep, TypeOK, DecisionInv, OneOwner, Accompanied, SerialInv, Accounted,
            Active, store, RecordStatus
<1>0. status[r] \in {"absent", "queued"} => controller[r] = "none"
  BY DEF Owns, Holds, Occupies
<1>1. ASSUME NEW q \in Request, Submit(q) PROVE RunStep(r)
  BY <1>0, <1>1 DEF Submit, Enqueue, EffectsStarted
<1>2. CASE Dispatch
  BY <1>0, <1>2, ClaimableIsQueued DEF Dispatch, ClaimQueued
<1>3. ASSUME NEW s \in Run, Execution(s) PROVE RunStep(r)
  BY <1>3 DEF Execution, WorkerSucceeds, WorkerAwaitsApproval,
     MarkWaitingApproval, WorkerFails, WorkerObservesAbort, WorkerSettles,
     ReturnedLive, ReturnedAborted, AbortedStatus
<1>4. ASSUME NEW s \in Run, ExpireApproval(s) PROVE RunStep(r)
  BY <1>4 DEF ExpireApproval
<1>5. ASSUME NEW c \in Client, Cancellation(c) \/ \E s \in Run : CancelReads(c, s)
      PROVE  RunStep(r)
  BY <1>5 DEF Cancellation, CancelReads, CancelQueued, WithdrawQueued,
     CancelAborts, CancelWaiting, CancelFindsNothing
<1>6. ASSUME NEW a \in Approver, NEW s \in Run, NEW execute \in BOOLEAN,
             BeginApproval(a, s, execute)
      PROVE  RunStep(r)
  BY <1>6 DEF BeginApproval, TakeOwnership, ResumeAfterApproval, AwaitsDecision
<1>7. ASSUME NEW a \in Approver, ResumeBeginApproval(a) PROVE RunStep(r)
  <2>1. CASE UNCHANGED <<status, controller>>
    BY <1>7, <2>1 DEF ResumeBeginApproval
  <2>2. CASE AwaitsDecision(deciders[a].run) /\ TakeOwnership(a, deciders[a].run, TRUE)
    BY <1>7, <2>2 DEF ResumeBeginApproval, TakeOwnership, ResumeAfterApproval,
       AwaitsDecision
  <2>. QED
    BY <1>7, <2>1, <2>2 DEF ResumeBeginApproval
<1>8. ASSUME NEW a \in Approver, CompleteApproval(a) PROVE RunStep(r)
  BY <1>8 DEF CompleteApproval
<1>9. ASSUME NEW a \in Approver, FailApproval(a) PROVE RunStep(r)
  BY <1>9 DEF FailApproval, AbortedStatus
<1>10. CASE Close \/ CloseAdvances
  BY <1>10 DEF Close, CloseAdvances, InterruptVisited
<1>11. CASE CloseFinishes
  BY <1>11 DEF CloseFinishes
<1>12. CASE Restart
  BY <1>12 DEF Restart
<1>13. CASE UNCHANGED vars
  BY <1>13 DEF vars
<1>. QED
  BY <1>1, <1>2, <1>3, <1>4, <1>5, <1>6, <1>7, <1>8, <1>9, <1>10, <1>11, <1>12, <1>13
     DEF Next, Decision

LEMMA EffectsStep ==
  ASSUME TypeOK, SerialInv, DecisionInv, EffectsStarted, [Next]_vars, TypeOK'
  PROVE  EffectsStarted'
BY NextIsRunStep DEF EffectsStarted, RunStep, TypeOK, Active, RecoverStatus

LEMMA StepsAreRunSteps == Spec => [][\A r \in Run : RunStep(r)]_vars
<1>1. Init => EffectsStarted
  BY DEF Init, EffectsStarted
<1>2. Spec => [](TypeOK /\ SerialInv /\ DecisionInv /\ EffectsStarted)
  BY <1>1, EffectsStep, DecisionsAccounted, PTL DEF Spec
<1>3. TypeOK /\ SerialInv /\ DecisionInv /\ EffectsStarted /\ [Next]_vars
        => [\A r \in Run : RunStep(r)]_vars
  BY NextIsRunStep
<1>. QED
  BY <1>2, <1>3, PTL DEF Spec

(* Once its signal is raised a run ends as cancelled, interrupted or        *)
(* unknown, however its executor or its approved capability returns.        *)
THEOREM AbortsStick == Spec => AbortSticks
<1>1. (\A r \in Run : RunStep(r)) =>
        \A r \in Run : controller[r] = "aborted" /\ status'[r] # status[r] =>
          status'[r] \in {"cancelled", "interrupted", "result_unknown"}
  BY DEF RunStep, RecoverStatus
<1>. QED
  BY <1>1, StepsAreRunSteps, PTL DEF AbortSticks

-----------------------------------------------------------------------------
(* The refinement of the run contract.                                      *)

LEMMA ContractEvents ==
  ASSUME NEW s \in DOMAIN Contract!transitions, NEW e \in DOMAIN Contract!transitions[s]
  PROVE  e \in Contract!Event
BY DEF Contract!Event

(* A step of one run is an event of the contract's table, or none.          *)
LEMMA RunStepIsContractStep ==
  ASSUME TypeOK, NEW r \in Run, RunStep(r)
  PROVE  \/ Contract!Stays(r)
         \/ Contract!Admit(r)
         \/ \E e \in Contract!Event : Contract!Transition(r, e)
<1>1. CASE status'[r] = status[r] /\ (r \in effects' <=> r \in effects)
  BY <1>1 DEF Contract!Stays
<1>2. CASE status[r] = "absent" /\ status'[r] = "queued" /\ r \notin effects'
  BY <1>2 DEF Contract!Admit
<1>3. SUFFICES ASSUME status[r] \in DOMAIN Contract!transitions,
                      ~(status'[r] = status[r] /\ (r \in effects' <=> r \in effects))
               PROVE  \E e \in DOMAIN Contract!transitions[status[r]] : Contract!Transition(r, e)
  BY <1>1, <1>2, ContractEvents DEF RunStep, Active, Contract!transitions
<1> USE DEF Contract!Transition, Contract!transitions, Contract!Recovered, RunStep,
            RecoverStatus, Active
<1>4. CASE status[r] = "queued"
  BY <1>3, <1>4
<1>5. CASE status[r] = "running"
  BY <1>3, <1>5
<1>6. CASE status[r] = "waiting_approval"
  BY <1>3, <1>6
<1>. QED
  BY <1>3, <1>4, <1>5, <1>6

(* The service implements the contract: whatever its dispatcher, decisions, *)
(* cancellations, timers, close() and restarts do, each run moves along the *)
(* transition table, several at once or none, and an interrupted run that   *)
(* had started is never recorded as one that had not.                       *)
THEOREM ImplementsContract == Spec => ContractSpec
<1>1. Init => Contract!Init
  BY DEF Init, Contract!Init
<1>2. TypeOK /\ [\A r \in Run : RunStep(r)]_vars => [Contract!Next]_(Contract!cvars)
  BY RunStepIsContractStep DEF Contract!Next, Contract!cvars, vars, store
<1>. QED
  BY <1>1, <1>2, StepsAreRunSteps, TypeCorrect, PTL DEF Spec, ContractSpec, Contract!Spec

-----------------------------------------------------------------------------
(* Which runs start, and in what order.                                     *)

(* Runs are numbered in the order of their submission, no two have the same *)
(* key, and a queued one is visible to listQueued.                          *)
OrderInv ==
  /\ \A r, s \in Run : s < r /\ status[r] # "absent" => status[s] # "absent"
  /\ \A r, s \in Run :
       status[r] # "absent" /\ status[s] # "absent" /\ request[r].key = request[s].key => r = s
  /\ \A r \in Run : status[r] = "queued" => r \in payloads

(* Nothing but submit creates a run or changes what it was asked, and only  *)
(* a claim or a cancellation takes a run's payload.                         *)
Kept ==
  /\ request' = request
  /\ \A r \in Run : /\ status[r] = "absent" <=> status'[r] = "absent"
                    /\ status'[r] = "queued" => status[r] = "queued"
                    /\ status'[r] = "queued" /\ r \in payloads => r \in payloads'

LEMMA OnlySubmitCreates ==
  ASSUME TypeOK, [Next]_vars, ~\E q \in Request : Submit(q)
  PROVE  Kept
<1> USE DEF Kept, TypeOK, store, Active, RecordStatus, RecoverStatus
<1>1. CASE Dispatch
  BY <1>1, ClaimableIsQueued DEF Dispatch, ClaimQueued
<1>2. ASSUME NEW r \in Run, Execution(r) \/ ExpireApproval(r) PROVE Kept
  BY <1>2 DEF Execution, WorkerSucceeds, WorkerAwaitsApproval,
     MarkWaitingApproval, WorkerFails, WorkerObservesAbort, WorkerSettles,
     AbortedStatus, ExpireApproval
<1>3. ASSUME NEW c \in Client, Cancellation(c) \/ \E r \in Run : CancelReads(c, r) PROVE Kept
  BY <1>3 DEF Cancellation, CancelReads, CancelQueued, WithdrawQueued,
     CancelAborts, CancelWaiting, CancelFindsNothing
<1>4. ASSUME NEW a \in Approver, NEW r \in Run, NEW execute \in BOOLEAN,
             BeginApproval(a, r, execute)
      PROVE  Kept
  BY <1>4 DEF BeginApproval, TakeOwnership, ResumeAfterApproval, AwaitsDecision
<1>5. ASSUME NEW a \in Approver, Decision(a) PROVE Kept
  <2>1. CASE ResumeBeginApproval(a) /\ UNCHANGED status
    BY <2>1 DEF ResumeBeginApproval
  <2>2. CASE /\ ResumeBeginApproval(a)
             /\ AwaitsDecision(deciders[a].run) /\ TakeOwnership(a, deciders[a].run, TRUE)
    BY <2>2 DEF ResumeBeginApproval, TakeOwnership, ResumeAfterApproval,
       AwaitsDecision
  <2>3. CASE CompleteApproval(a)
    BY <2>3 DEF CompleteApproval
  <2>4. CASE FailApproval(a)
    BY <2>4 DEF FailApproval, AbortedStatus
  <2>. QED
    BY <1>5, <2>1, <2>2, <2>3, <2>4 DEF Decision, ResumeBeginApproval
<1>6. CASE Close \/ CloseAdvances \/ CloseFinishes
  BY <1>6 DEF Close, CloseAdvances, CloseFinishes, InterruptVisited
<1>7. CASE Restart
  BY <1>7 DEF Restart
<1>8. CASE UNCHANGED vars
  BY <1>8 DEF vars
<1>. QED
  BY <1>1, <1>2, <1>3, <1>4, <1>5, <1>6, <1>7, <1>8 DEF Next

LEMMA OrderStep ==
  ASSUME TypeOK, OrderInv, [Next]_vars
  PROVE  OrderInv'
<1>1. ASSUME NEW q \in Request, Submit(q) PROVE OrderInv'
  <2>1. PICK r \in Run : /\ status[r] = "absent"
                         /\ \A s \in Run : s < r => status[s] # "absent"
                         /\ status' = [status EXCEPT ![r] = "queued"]
                         /\ request' = [request EXCEPT ![r] = q]
                         /\ payloads' = payloads \cup {r}
    BY <1>1 DEF Submit, Enqueue
  <2>2. \A s \in Run : status[s] # "absent" => request[s].key # q.key
    BY <1>1 DEF Submit, Enqueue, KnownKey, Created
  <2>3. \A s \in Run : s # r => status'[s] = status[s] /\ request'[s] = request[s]
    BY <2>1 DEF TypeOK
  <2>4. status'[r] = "queued" /\ request'[r] = q
    BY <2>1 DEF TypeOK
  <2>5. \A s, t \in Run : s < t /\ status'[t] # "absent" => status'[s] # "absent"
    BY <2>1, <2>3, <2>4 DEF OrderInv
  <2>. QED
    BY <2>1, <2>2, <2>3, <2>4, <2>5 DEF OrderInv
<1>2. CASE ~\E q \in Request : Submit(q)
  BY <1>2, OnlySubmitCreates DEF Kept, OrderInv
<1>. QED
  BY <1>1, <1>2

(* A run whose execution starts was queued, the oldest of its session, and  *)
(* its session was nobody's.                                                *)
LEMMA StartIsClaim ==
  ASSUME TypeOK, [Next]_vars, NEW r \in Run, Starts(r)
  PROVE  r \in Claimable
<1>1. CASE Dispatch
  BY <1>1 DEF Dispatch, ClaimQueued, Starts, TypeOK
<1>2. CASE \E s \in Run : Execution(s)
  BY <1>2 DEF Execution, WorkerSucceeds, WorkerAwaitsApproval,
     MarkWaitingApproval, WorkerFails, WorkerObservesAbort, WorkerSettles,
     WorkerFinally, Starts, TypeOK
<1>3. CASE ~Dispatch /\ ~\E s \in Run : Execution(s)
  <2>1. worker' = worker \/ worker' = [s \in Run |-> "none"]
    BY <1>3 DEF vars, slots, Next, Cancellation, Decision, Submit, Enqueue,
       Close, Restart, ExpireApproval, ReleaseApprovalRun, CancelReads,
       CancelQueued, WithdrawQueued, CancelAborts, CancelWaiting,
       CancelFindsNothing, BeginApproval, ResumeBeginApproval,
       CompleteApproval, FailApproval, CloseAdvances, CloseFinishes
  <2>. QED
    BY <2>1 DEF Starts
<1>. QED
  BY <1>1, <1>2, <1>3

LEMMA StartsAreClaims ==
  Spec => [](TypeOK /\ SerialInv /\ EffectsStarted /\ OrderInv)
<1>1. Init => OrderInv /\ EffectsStarted
  BY DEF Init, OrderInv, EffectsStarted
<1>. QED
  BY <1>1, EffectsStep, OrderStep, DecisionsAccounted, PTL DEF Spec

(* The runs of one conversation start in the order they were submitted in,  *)
(* each after the earlier ones have ended and let go of the session,        *)
(* although approvals, cancellation and expiry end runs out of order.       *)
THEOREM ConversationsAreOrdered == Spec => ConversationOrder
<1>1. ASSUME TypeOK, SerialInv, OrderInv, [Next]_vars, NEW r \in Run, Starts(r),
             NEW s \in Run, s < r, Session(s) = Session(r)
      PROVE  status[s] \in Terminal /\ worker[s] = "none"
  <2>1. r \in Eligible /\ Session(r) \notin activeBindings /\ status[r] = "queued"
    BY <1>1, StartIsClaim, ClaimableIsQueued DEF Claimable
  <2>2. status[s] # "absent"
    BY <1>1, <2>1 DEF OrderInv
  <2>3. status[s] # "queued"
    BY <1>1, <2>1 DEF OrderInv, Eligible, QueuedRuns, Run
  <2>4. ~Holds(s)
    BY <1>1, <2>1 DEF SerialInv, Reserved
  <2>. QED
    BY <1>1, <2>2, <2>3, <2>4 DEF Holds, Occupies, TypeOK, Status, Active
<1>2. TypeOK /\ SerialInv /\ OrderInv /\ [Next]_vars =>
        [\A r \in Run : Starts(r) =>
           \A s \in Run : s < r /\ Session(s) = Session(r) =>
             status[s] \in Terminal /\ worker[s] = "none"]_vars
  BY <1>1
<1>. QED
  BY <1>2, StartsAreClaims, PTL DEF Spec, ConversationOrder

(* An execution is started at most once for an idempotency key, across      *)
(* duplicates, lost claims, crashes and restarts.                           *)
THEOREM EffectsAreNotRepeated == Spec => ExecutedAtMostOnce
<1>1. ASSUME TypeOK, EffectsStarted, OrderInv, [Next]_vars, NEW r \in Run, Starts(r),
             NEW s \in effects
      PROVE  request[s].key # request[r].key
  <2>1. status[r] = "queued"
    BY <1>1, StartIsClaim, ClaimableIsQueued
  <2>. QED
    BY <1>1, <2>1 DEF EffectsStarted, OrderInv, TypeOK
<1>2. TypeOK /\ EffectsStarted /\ OrderInv /\ [Next]_vars =>
        [\A r \in Run : Starts(r) => \A s \in effects : request[s].key # request[r].key]_vars
  BY <1>1
<1>. QED
  BY <1>2, StartsAreClaims, PTL DEF Spec, ExecutedAtMostOnce

(* Every idempotency key is executed at most once and every conversation in *)
(* the order of submit(), across crashes.                                   *)
THEOREM ExecutionsAreOrdered == Spec => ExecutionOrder
  BY EffectsAreNotRepeated, ConversationsAreOrdered DEF ExecutionOrder

-----------------------------------------------------------------------------
(* The execution slots.                                                     *)

Workers == {r \in Run : worker[r] # "none"}

LEMMA RunIsFinite == IsFiniteSet(Run) /\ Run \subseteq Nat
BY FS_Interval, LimitsAssumption DEF Run

(* A non-empty set of runs has a latest one.                                *)
LEMMA LatestRun ==
  ASSUME NEW T \in SUBSET Run, T # {}
  PROVE  \E m \in T : \A r \in T : r <= m
<1> DEFINE rest == {MaxRuns - r : r \in T}
<1>1. rest \subseteq Nat /\ rest # {}
  <2>1. \A r \in T : MaxRuns - r \in Nat
    BY LimitsAssumption DEF Run
  <2>. QED
    BY <2>1
<1>2. PICK x \in rest : \A y \in rest : ~(<<y, x>> \in OpToRel(<, Nat))
  BY <1>1, NatLessThanWellFounded, WFMin
<1>3. \A y \in rest : ~(y < x)
  BY <1>1, <1>2 DEF OpToRel
<1>4. PICK m \in T : x = MaxRuns - m
  OBVIOUS
<1>5. \A r \in T : MaxRuns - r \in rest
  OBVIOUS
<1>6. \A r \in T : ~(MaxRuns - r < MaxRuns - m)
  BY <1>3, <1>4, <1>5
<1>7. T \subseteq Nat /\ MaxRuns \in Nat
  BY RunIsFinite, LimitsAssumption
<1>. QED
  BY <1>6, <1>7

(* ... and an earliest one.                                                 *)
LEMMA EarliestRun ==
  ASSUME NEW T \in SUBSET Run, T # {}
  PROVE  \E m \in T : \A r \in T : m <= r
<1>1. T \subseteq Nat
  BY RunIsFinite
<1>2. PICK m \in T : \A r \in T : ~(<<r, m>> \in OpToRel(<, Nat))
  BY <1>1, NatLessThanWellFounded, WFMin
<1>3. \A r \in T : ~(r < m)
  BY <1>1, <1>2 DEF OpToRel
<1>. QED
  BY <1>1, <1>3

LEMMA CountType ==
  ASSUME TypeOK
  PROVE  /\ IsFiniteSet(Workers) /\ IsFiniteSet(approvalExecutions)
         /\ Cardinality(Workers) \in Nat /\ Cardinality(approvalExecutions) \in Nat
         /\ ActiveExecutionCount = Cardinality(Workers) + Cardinality(approvalExecutions)
<1>1. IsFiniteSet(Workers) /\ IsFiniteSet(approvalExecutions)
  BY RunIsFinite, FS_Subset DEF Workers, TypeOK
<1>. QED
  BY <1>1, FS_CardinalityType DEF ActiveExecutionCount, Workers

(* The same of the next state.                                              *)
LEMMA CountTypeNext ==
  ASSUME TypeOK'
  PROVE  /\ Cardinality(Workers') \in Nat /\ Cardinality(approvalExecutions') \in Nat
         /\ ActiveExecutionCount' = Cardinality(Workers') + Cardinality(approvalExecutions')
<1>1. IsFiniteSet(Workers') /\ IsFiniteSet(approvalExecutions')
  BY RunIsFinite, FS_Subset DEF Workers, TypeOK
<1>. QED
  BY <1>1, FS_CardinalityType DEF ActiveExecutionCount, Workers

(* One dispatch claims no more runs than there are free slots.              *)
LEMMA ClaimsFit ==
  ASSUME TypeOK, Claimable # {}
  PROVE  /\ IsFiniteSet(Claimable)
         /\ ActiveExecutionCount + Cardinality(Claimable) <= MaximumConcurrentRuns
<1>1. Claimable \subseteq Run /\ Claimable \subseteq Eligible /\ Eligible \subseteq Run
  BY DEF Claimable, Eligible, QueuedRuns
<1>2. PICK m \in Claimable : \A r \in Claimable : r <= m
  BY <1>1, LatestRun
<1> DEFINE before == {s \in Eligible : s < m}
<1>3. IsFiniteSet(before) /\ IsFiniteSet(Claimable) /\ IsFiniteSet(Claimable \ {m})
  BY <1>1, RunIsFinite, FS_Subset
<1>4. Claimable \ {m} \subseteq before
  BY <1>1, <1>2, RunIsFinite
<1>5. Cardinality(Claimable \ {m}) <= Cardinality(before)
  BY <1>3, <1>4, FS_Subset
<1>6. Cardinality(Claimable) = Cardinality(Claimable \ {m}) + 1
  BY <1>2, <1>3, FS_RemoveElement, FS_CardinalityType
<1>7. ActiveExecutionCount + Cardinality(before) < MaximumConcurrentRuns
  BY <1>2 DEF Claimable
<1>8. /\ ActiveExecutionCount \in Nat
      /\ Cardinality(before) \in Nat /\ Cardinality(Claimable \ {m}) \in Nat
  BY <1>3, CountType, FS_CardinalityType
<1>. QED
  BY <1>3, <1>5, <1>6, <1>7, <1>8, LimitsAssumption

-----------------------------------------------------------------------------
(* What is inductive is just the two properties: a slot is only taken when  *)
(* it was free, and whoever lets one go wakes every waiter.                 *)

SlotInv == ConcurrencyBound /\ NoLostWakeup

(* Slots are let go and every waiter is woken.                              *)
LEMMA SlotsReleased ==
  ASSUME TypeOK, TypeOK', SlotInv, slotWaiters' = {}, Workers' \subseteq Workers,
         approvalExecutions' \subseteq approvalExecutions
  PROVE  SlotInv'
<1>1. /\ Cardinality(Workers') <= Cardinality(Workers)
      /\ Cardinality(approvalExecutions') <= Cardinality(approvalExecutions)
  BY CountType, FS_Subset
<1>2. /\ Cardinality(Workers') \in Nat /\ Cardinality(approvalExecutions') \in Nat
      /\ ActiveExecutionCount' = Cardinality(Workers') + Cardinality(approvalExecutions')
  BY CountTypeNext
<1>. QED
  BY <1>1, <1>2, CountType, LimitsAssumption DEF SlotInv, ConcurrencyBound, NoLostWakeup

(* No slot changes hands.                                                   *)
LEMMA SlotsKept ==
  ASSUME TypeOK, TypeOK', SlotInv, Workers' = Workers,
         approvalExecutions' = approvalExecutions,
         \/ slotWaiters' = slotWaiters /\ closePhase' = closePhase
         \/ slotWaiters' = {}
         \/ MustWait(TRUE) /\ closePhase' = "open"
  PROVE  SlotInv'
<1>1. ActiveExecutionCount' = ActiveExecutionCount
  BY CountType, CountTypeNext
<1>. QED
  BY <1>1 DEF SlotInv, ConcurrencyBound, NoLostWakeup, MustWait, closed

(* A decision takes a slot that is free.                                    *)
LEMMA SlotTaken ==
  ASSUME TypeOK, TypeOK', SlotInv, NEW r \in Run, ~MustWait(TRUE), Workers' = Workers,
         approvalExecutions' = approvalExecutions \cup {r}, slotWaiters' = slotWaiters
  PROVE  SlotInv'
<1>1. Cardinality(approvalExecutions') <= Cardinality(approvalExecutions) + 1
  <2>1. /\ IsFiniteSet(approvalExecutions) /\ Cardinality(approvalExecutions) \in Nat
    BY CountType
  <2>2. Cardinality(approvalExecutions') =
          IF r \in approvalExecutions THEN Cardinality(approvalExecutions)
                                      ELSE Cardinality(approvalExecutions) + 1
    BY <2>1, FS_AddElement
  <2>. QED
    BY <2>1, <2>2
<1>2. ActiveExecutionCount < MaximumConcurrentRuns
  BY CountType, LimitsAssumption DEF MustWait
<1>3. ActiveExecutionCount' <= MaximumConcurrentRuns
  BY <1>1, <1>2, CountType, CountTypeNext, LimitsAssumption
<1>. QED
  BY <1>2, <1>3, CountType, LimitsAssumption DEF SlotInv, ConcurrencyBound, NoLostWakeup

(* A dispatch takes as many as are free.                                    *)
LEMMA DispatchFits == TypeOK /\ TypeOK' /\ SlotInv /\ Dispatch => SlotInv'
<1> SUFFICES ASSUME TypeOK, TypeOK', SlotInv, Dispatch PROVE SlotInv'
  OBVIOUS
<1>1. CASE closed \/ Claimable = {}
  <2>1. worker' = worker
    BY <1>1 DEF Dispatch, ClaimQueued, TypeOK
  <2>. QED
    BY <2>1, SlotsKept DEF Dispatch, ClaimQueued, Workers, closing
<1>2. CASE ~closed /\ Claimable # {}
  <2>1. Workers' = Workers \cup Claimable
    BY <1>2, ClaimableIsQueued DEF Dispatch, ClaimQueued, Workers, TypeOK
  <2>2. /\ IsFiniteSet(Workers) /\ IsFiniteSet(Claimable)
        /\ Cardinality(Workers) \in Nat /\ Cardinality(Claimable) \in Nat
        /\ Cardinality(Workers \cap Claimable) \in Nat
    BY <1>2, CountType, ClaimsFit, FS_Subset, FS_CardinalityType
  <2>3. Cardinality(Workers') <= Cardinality(Workers) + Cardinality(Claimable)
    <3>1. Cardinality(Workers \cup Claimable) =
            Cardinality(Workers) + Cardinality(Claimable) - Cardinality(Workers \cap Claimable)
      BY <2>2, FS_Union
    <3>. QED
      BY <2>1, <2>2, <3>1
  <2>4. approvalExecutions' = approvalExecutions /\ slotWaiters' = slotWaiters
    BY DEF Dispatch, ClaimQueued
  <2>5. ActiveExecutionCount' <= MaximumConcurrentRuns
    BY <1>2, <2>2, <2>3, <2>4, CountType, CountTypeNext, ClaimsFit, LimitsAssumption
  <2>6. Cardinality(Claimable) # 0
    BY <1>2, <2>2, FS_EmptySet
  <2>7. slotWaiters = {}
    BY <1>2, <2>2, <2>6, CountType, ClaimsFit, LimitsAssumption DEF SlotInv, NoLostWakeup
  <2>. QED
    BY <2>4, <2>5, <2>7 DEF SlotInv, ConcurrencyBound, NoLostWakeup
<1>. QED
  BY <1>1, <1>2

LEMMA SlotStep == TypeOK /\ TypeOK' /\ SlotInv /\ [Next]_vars => SlotInv'
<1> SUFFICES ASSUME TypeOK, TypeOK', SlotInv, [Next]_vars PROVE SlotInv'
  OBVIOUS
<1> USE DEF Workers, TypeOK, slots, closing
<1>1. ASSUME NEW q \in Request, Submit(q) PROVE SlotInv'
  BY <1>1, SlotsKept DEF Submit, Enqueue
<1>2. CASE Dispatch
  BY <1>2, DispatchFits
<1>3. ASSUME NEW r \in Run, WorkerSucceeds(r) \/ WorkerAwaitsApproval(r) \/ WorkerSettles(r)
      PROVE  SlotInv'
  <2>1. /\ worker' = [worker EXCEPT ![r] = "none"]
        /\ approvalExecutions' = approvalExecutions /\ slotWaiters' = {}
    BY <1>3 DEF WorkerSucceeds, WorkerAwaitsApproval, MarkWaitingApproval,
       WorkerSettles, WorkerFinally, NotifySlotWaiters
  <2>. QED
    BY <2>1, SlotsReleased
<1>4. ASSUME NEW r \in Run, WorkerFails(r) \/ WorkerObservesAbort(r) PROVE SlotInv'
  <2>1. /\ worker[r] = "executing" /\ worker' = [worker EXCEPT ![r] = "settling"]
        /\ UNCHANGED <<approvalExecutions, slotWaiters, closing>>
    BY <1>4 DEF WorkerFails, WorkerObservesAbort, ReturnedLive, ReturnedAborted
  <2>2. Workers' = Workers
    BY <2>1
  <2>. QED
    BY <2>1, <2>2, SlotsKept
<1>5. ASSUME NEW r \in Run, ExpireApproval(r) PROVE SlotInv'
  BY <1>5, SlotsKept, SlotsReleased DEF ExpireApproval, ReleaseApprovalRun, NotifySlotWaiters
<1>6. ASSUME NEW c \in Client,
             \/ \E r \in Run : CancelReads(c, r)
             \/ CancelQueued(c) \/ CancelAborts(c) \/ CancelFindsNothing(c)
      PROVE  SlotInv'
  BY <1>6, SlotsKept DEF CancelReads, CancelQueued, WithdrawQueued,
     CancelAborts, CancelFindsNothing
<1>7. ASSUME NEW c \in Client, CancelWaiting(c) PROVE SlotInv'
  BY <1>7, SlotsKept, SlotsReleased DEF CancelWaiting, ReleaseApprovalRun, NotifySlotWaiters
<1>8. ASSUME NEW a \in Approver, NEW r \in Run, NEW execute \in BOOLEAN,
             BeginApproval(a, r, execute)
      PROVE  SlotInv'
  <2>1. Workers' = Workers /\ closePhase' = closePhase /\ closePhase = "open"
    BY <1>8 DEF BeginApproval, closed
  <2>2. CASE MustWait(execute)
    BY <1>8, <2>1, <2>2, SlotsKept DEF BeginApproval, MustWait
  <2>3. CASE ~MustWait(execute)
    BY <1>8, <2>1, <2>3, SlotsKept, SlotTaken DEF BeginApproval, TakeOwnership,
       ResumeAfterApproval, MustWait
  <2>. QED
    BY <2>2, <2>3
<1>9. ASSUME NEW a \in Approver, ResumeBeginApproval(a) PROVE SlotInv'
  <2>1. Workers' = Workers /\ closePhase' = closePhase
    BY <1>9 DEF ResumeBeginApproval
  <2>2. CASE ~closed /\ MustWait(TRUE)
    BY <1>9, <2>1, <2>2, SlotsKept DEF ResumeBeginApproval, closed
  <2>3. CASE ~closed /\ ~MustWait(TRUE) /\ AwaitsDecision(deciders[a].run)
    BY <1>9, <2>1, <2>3, SlotTaken DEF ResumeBeginApproval, TakeOwnership,
       ResumeAfterApproval, AwaitsDecision
  <2>4. CASE closed \/ (~MustWait(TRUE) /\ ~AwaitsDecision(deciders[a].run))
    BY <1>9, <2>1, <2>4, SlotsKept DEF ResumeBeginApproval
  <2>. QED
    BY <2>2, <2>3, <2>4
<1>10. ASSUME NEW a \in Approver, CompleteApproval(a) \/ FailApproval(a) PROVE SlotInv'
  BY <1>10, SlotsReleased
     DEF CompleteApproval, FailApproval, ReleaseApprovalRun, NotifySlotWaiters
<1>11. CASE Close
  BY <1>11, SlotsKept DEF Close
<1>12. CASE CloseAdvances
  BY <1>12, SlotsReleased DEF CloseAdvances, NotifySlotWaiters
<1>13. CASE CloseFinishes
  <2>1. slotWaiters = {} /\ slotWaiters' = {}
    BY <1>13 DEF CloseFinishes, SlotInv, NoLostWakeup, closed
  <2>. QED
    BY <1>13, <2>1, SlotsKept DEF CloseFinishes
<1>14. CASE Restart
  BY <1>14, SlotsReleased DEF Restart
<1>15. CASE UNCHANGED vars
  BY <1>15, SlotsKept DEF vars
<1>. QED
  BY <1>1, <1>2, <1>3, <1>4, <1>5, <1>6, <1>7, <1>8, <1>9, <1>10, <1>11, <1>12,
     <1>13, <1>14, <1>15 DEF Next, Execution, Cancellation, Decision

LEMMA SlotsAreCounted == Spec => []SlotInv
<1>1. Init => SlotInv
  <2>1. Init => Workers = {} /\ approvalExecutions = {} /\ slotWaiters = {}
    BY DEF Init, Workers
  <2>. QED
    BY <2>1, FS_EmptySet, LimitsAssumption
       DEF SlotInv, ConcurrencyBound, NoLostWakeup, ActiveExecutionCount, Workers
<1>. QED
  BY <1>1, SlotStep, TypeCorrect, PTL DEF Spec

(* Workers and approved capabilities together never exceed the limit,       *)
(* although a decision looks for a slot, waits and takes it later, beside a *)
(* dispatcher that fills slots as well.                                     *)
THEOREM SlotsAreBounded == Spec => []ConcurrencyBound
BY SlotsAreCounted, PTL DEF SlotInv

(* A decision is parked only while every slot is taken and the service is   *)
(* open, so that a release is still to come and will wake it.               *)
THEOREM NoDecisionIsForgotten == Spec => []NoLostWakeup
BY SlotsAreCounted, PTL DEF SlotInv

-----------------------------------------------------------------------------
(* The queue.  #dispatch can claim something exactly when a slot is free    *)
(* and some queued run's session is; that is easier to follow through a     *)
(* step than the choice it makes.                                           *)

Ready ==
  /\ ActiveExecutionCount < MaximumConcurrentRuns
  /\ \E r \in Run : status[r] = "queued" /\ r \in payloads /\ Session(r) \notin activeBindings

LEMMA EligibleExists ==
  ASSUME TypeOK, NEW r \in Run, status[r] = "queued", r \in payloads,
         Session(r) \notin activeBindings
  PROVE  \E e \in Eligible : Session(e) = Session(r)
<1> DEFINE rivals == {s \in QueuedRuns \cap payloads : Session(s) = Session(r)}
<1>1. r \in rivals /\ rivals \subseteq Run
  BY DEF QueuedRuns
<1>2. PICK e \in rivals : \A s \in rivals : e <= s
  BY <1>1, EarliestRun
<1>. QED
  BY <1>1, <1>2 DEF Eligible

LEMMA ClaimableIsReady == ASSUME TypeOK PROVE Claimable # {} <=> Ready
<1>0. ActiveExecutionCount \in Nat
  BY CountType
<1>1. ASSUME NEW r \in Claimable PROVE Ready
  <2>1. IsFiniteSet({s \in Eligible : s < r})
    BY RunIsFinite, FS_Subset DEF Eligible, QueuedRuns
  <2>2. Cardinality({s \in Eligible : s < r}) \in Nat
    BY <2>1, FS_CardinalityType
  <2>. QED
    BY <1>0, <1>1, <2>2, LimitsAssumption DEF Claimable, Eligible, QueuedRuns, Ready
<1>2. ASSUME Ready PROVE Claimable # {}
  <2>1. Eligible # {} /\ Eligible \subseteq Run
    BY <1>2, EligibleExists DEF Ready, Eligible, QueuedRuns
  <2>2. PICK m \in Eligible : \A r \in Eligible : m <= r
    BY <2>1, EarliestRun
  <2>3. {s \in Eligible : s < m} = {}
    <3>1. Eligible \subseteq Nat
      BY <2>1, RunIsFinite
    <3>2. ASSUME NEW s \in Eligible PROVE ~(s < m)
      BY <2>2, <3>1
    <3>. QED
      BY <3>2
  <2>4. m \in Claimable
    BY <1>0, <1>2, <2>3, FS_EmptySet DEF Claimable, Ready
  <2>. QED
    BY <2>4
<1>. QED
  BY <1>1, <1>2

QueueInv == ~closed /\ Ready => dispatchScheduled

(* A step after which no run that was not ready before can be claimed.      *)
LEMMA NothingNewToClaim ==
  ASSUME TypeOK, TypeOK', QueueInv, closed => closed', dispatchScheduled' = dispatchScheduled,
         Workers \subseteq Workers', approvalExecutions \subseteq approvalExecutions',
         activeBindings \subseteq activeBindings', payloads' \subseteq payloads,
         request' = request, \A r \in Run : status'[r] = "queued" => status[r] = "queued"
  PROVE  QueueInv'
<1>1. /\ Cardinality(Workers) <= Cardinality(Workers')
      /\ Cardinality(approvalExecutions) <= Cardinality(approvalExecutions')
  <2>1. Workers' \subseteq Run /\ approvalExecutions' \subseteq Run
    BY DEF Workers, TypeOK
  <2>2. IsFiniteSet(Workers') /\ IsFiniteSet(approvalExecutions')
    BY <2>1, RunIsFinite, FS_Subset
  <2>. QED
    BY <2>2, FS_Subset
<1>2. ActiveExecutionCount <= ActiveExecutionCount'
  BY <1>1, CountType, CountTypeNext
<1>3. ActiveExecutionCount \in Nat /\ ActiveExecutionCount' \in Nat
  BY CountType, CountTypeNext
<1>4. ActiveExecutionCount' < MaximumConcurrentRuns => ActiveExecutionCount < MaximumConcurrentRuns
  BY <1>2, <1>3, LimitsAssumption
<1>5. Ready' => Ready
  BY <1>4 DEF Ready, Session
<1>. QED
  BY <1>5 DEF QueueInv

(* A dispatch leaves nothing that could still be claimed: an eligible run   *)
(* it passed over found the slots filled by those before it.                *)
LEMMA DispatchEmptiesQueue ==
  ASSUME TypeOK, TypeOK', SerialInv, Dispatch, ~closed
  PROVE  ~Ready'
<1> SUFFICES ASSUME NEW r \in Run, status'[r] = "queued", r \in payloads',
                    Session(r)' \notin activeBindings',
                    ActiveExecutionCount' < MaximumConcurrentRuns
             PROVE  FALSE
  BY DEF Ready
<1>1. /\ status' = [s \in Run |-> IF s \in Claimable THEN "running" ELSE status[s]]
      /\ payloads' = payloads \ Claimable
      /\ activeBindings' = activeBindings \cup {Session(s) : s \in Claimable}
      /\ worker' = [s \in Run |-> IF s \in Claimable THEN "executing" ELSE worker[s]]
      /\ request' = request /\ approvalExecutions' = approvalExecutions
  BY DEF Dispatch, ClaimQueued
<1>2. PICK e \in Eligible : Session(e) = Session(r)
  BY <1>1, EligibleExists DEF Session
<1>3. e \notin Claimable
  BY <1>1, <1>2 DEF Session
<1> DEFINE passed == Eligible \ Claimable
<1>4. PICK m \in passed : \A s \in passed : m <= s
  BY <1>2, <1>3, EarliestRun DEF Eligible, QueuedRuns
<1> DEFINE before == {s \in Eligible : s < m}
<1>5. before \subseteq Claimable /\ Claimable \subseteq Run /\ Eligible \subseteq Run
  <2>1. Claimable \subseteq Run /\ Eligible \subseteq Run
    BY DEF Claimable, Eligible, QueuedRuns
  <2>2. ASSUME NEW s \in before PROVE s \in Claimable
    BY <1>4, <2>1, RunIsFinite
  <2>. QED
    BY <2>1, <2>2
<1>6. ~(ActiveExecutionCount + Cardinality(before) < MaximumConcurrentRuns)
  BY <1>4 DEF Claimable
<1>7. /\ IsFiniteSet(Workers) /\ IsFiniteSet(Claimable)
      /\ Cardinality(Workers) \in Nat /\ Cardinality(Claimable) \in Nat
      /\ Cardinality(before) \in Nat /\ Cardinality(before) <= Cardinality(Claimable)
  <2>1. IsFiniteSet(Claimable)
    BY <1>5, RunIsFinite, FS_Subset
  <2>2. IsFiniteSet(before) /\ Cardinality(before) <= Cardinality(Claimable)
    BY <1>5, <2>1, FS_Subset
  <2>. QED
    BY <2>1, <2>2, CountType, FS_CardinalityType
<1>8. Workers \cap Claimable = {}
  BY ClaimableIsQueued DEF Workers, SerialInv, Accounted, Holds, Occupies
<1>9. Workers' = Workers \cup Claimable
  BY <1>1, <1>5 DEF Workers, TypeOK
<1>10. Cardinality(Workers') = Cardinality(Workers) + Cardinality(Claimable)
  <2>1. Cardinality(Workers \cup Claimable) =
          Cardinality(Workers) + Cardinality(Claimable) - Cardinality(Workers \cap Claimable)
    BY <1>7, FS_Union
  <2>2. Cardinality(Workers \cap Claimable) = 0
    BY <1>8, FS_EmptySet
  <2>. QED
    BY <1>7, <1>9, <2>1, <2>2
<1>. QED
  BY <1>1, <1>6, <1>7, <1>10, CountType, CountTypeNext, LimitsAssumption

LEMMA QueueStep ==
  ASSUME TypeOK, TypeOK', SerialInv, QueueInv, [Next]_vars
  PROVE  QueueInv'
<1> USE DEF store, slots, closing, Workers
<1>1. CASE closed' \/ dispatchScheduled'
  BY <1>1 DEF QueueInv
<1>2. CASE Dispatch /\ ~closed
  BY <1>2, DispatchEmptiesQueue DEF QueueInv
<1>3. CASE UNCHANGED vars
  BY <1>3, NothingNewToClaim DEF vars, closed
<1>4. CASE ~closed' /\ ~dispatchScheduled' /\ Next
  <2> USE DEF TypeOK, closed
  <2>1. ASSUME NEW q \in Request, Submit(q) PROVE FALSE
    BY <1>4, <2>1 DEF Submit, Enqueue, ScheduleDispatch
  <2>2. ASSUME NEW r \in Run, WorkerSucceeds(r) \/ WorkerAwaitsApproval(r) \/ WorkerSettles(r)
        PROVE  FALSE
    BY <1>4, <2>2 DEF WorkerSucceeds, WorkerAwaitsApproval,
       MarkWaitingApproval, WorkerSettles, WorkerFinally, ScheduleDispatch
  <2>3. ASSUME NEW r \in Run, WorkerFails(r) \/ WorkerObservesAbort(r) PROVE QueueInv'
    <3>1. /\ Workers' = Workers /\ approvalExecutions' = approvalExecutions
          /\ activeBindings' = activeBindings /\ payloads' = payloads /\ request' = request
          /\ dispatchScheduled' = dispatchScheduled /\ closePhase' = closePhase
      BY <2>3 DEF WorkerFails, WorkerObservesAbort, ReturnedLive, ReturnedAborted
    <3>2. \A s \in Run : status'[s] = "queued" => status[s] = "queued"
      BY <2>3 DEF WorkerFails, WorkerObservesAbort, RecordStatus, AbortedStatus, RecoverStatus
    <3>. QED
      BY <3>1, <3>2, NothingNewToClaim
  <2>4. ASSUME NEW r \in Run, ExpireApproval(r) PROVE QueueInv'
    <3>1. UNCHANGED <<status, payloads, request, activeBindings, approvalExecutions, worker,
                      dispatchScheduled, closePhase>>
      BY <1>4, <2>4 DEF ExpireApproval, ReleaseApprovalRun, ScheduleDispatch
    <3>. QED
      BY <3>1, NothingNewToClaim
  <2>5. ASSUME NEW c \in Client, Cancellation(c) \/ \E r \in Run : CancelReads(c, r)
        PROVE  QueueInv'
    <3>1. /\ UNCHANGED <<request, activeBindings, approvalExecutions, worker,
                         dispatchScheduled, closePhase>>
          /\ payloads' \subseteq payloads
      BY <1>4, <2>5 DEF Cancellation, CancelReads, CancelQueued,
         WithdrawQueued, CancelAborts, CancelWaiting, CancelFindsNothing,
         ReleaseApprovalRun, ScheduleDispatch
    <3>2. \A s \in Run : status'[s] = "queued" => status[s] = "queued"
      BY <2>5 DEF Cancellation, CancelReads, CancelQueued, WithdrawQueued,
         CancelAborts, CancelWaiting, CancelFindsNothing, RecordStatus
    <3>. QED
      BY <3>1, <3>2, NothingNewToClaim
  <2>6. ASSUME NEW a \in Approver,
               \/ ResumeBeginApproval(a)
               \/ \E r \in Run, execute \in BOOLEAN : BeginApproval(a, r, execute)
        PROVE  QueueInv'
    <3>1. /\ UNCHANGED <<request, payloads, activeBindings, worker, dispatchScheduled, closePhase>>
          /\ approvalExecutions \subseteq approvalExecutions'
      BY <2>6 DEF ResumeBeginApproval, BeginApproval, TakeOwnership,
         ResumeAfterApproval
    <3>2. status' = status \/ \E r : status' = [status EXCEPT ![r] = "running"]
      BY <2>6 DEF ResumeBeginApproval, BeginApproval, TakeOwnership,
         ResumeAfterApproval
    <3>3. \A s \in Run : status'[s] = "queued" => status[s] = "queued"
      BY <3>2
    <3>. QED
      BY <3>1, <3>3, NothingNewToClaim
  <2>7. ASSUME NEW a \in Approver, CompleteApproval(a) \/ FailApproval(a) PROVE FALSE
    BY <1>4, <2>7 DEF CompleteApproval, FailApproval, ReleaseApprovalRun, ScheduleDispatch
  <2>8. ~Dispatch => QueueInv'
    <3>1. ~(Close \/ CloseAdvances \/ CloseFinishes \/ Restart)
      BY <1>4 DEF Close, CloseAdvances, CloseFinishes, Restart
    <3>. QED
      BY <1>4, <2>1, <2>2, <2>3, <2>4, <2>5, <2>6, <2>7, <3>1 DEF Next, Execution, Decision
  <2>9. Dispatch => ~closed
    BY <1>4 DEF Dispatch, ClaimQueued
  <2>. QED
    BY <1>2, <2>8, <2>9
<1>. QED
  BY <1>1, <1>3, <1>4

(* A queued run is never stranded: it keeps its payload, and whenever the   *)
(* open service could claim one a dispatch is already scheduled, so a       *)
(* dispatch claims all it can and every change that makes a run claimable   *)
(* schedules another.                                                       *)
THEOREM QueueIsNotStranded == Spec => []QueueNotStranded
<1>1. Init => QueueInv
  BY DEF Init, QueueInv
<1>2. Spec => [](TypeOK /\ QueueInv)
  BY <1>1, QueueStep, DecisionsAccounted, PTL DEF Spec
<1>3. TypeOK /\ QueueInv /\ OrderInv => QueueNotStranded
  BY ClaimableIsReady DEF QueueInv, OrderInv, QueueNotStranded
<1>. QED
  BY <1>2, <1>3, StartsAreClaims, PTL

-----------------------------------------------------------------------------
(* The reserved sessions.                                                   *)

(* Whoever ends a waiting run frees its session.                            *)
LEMMA BindingReleased ==
  ASSUME NoLeakedBinding, NEW r, ReleaseBinding(r), waitingBindings' = waitingBindings \ {r},
         worker' = worker, request' = request
  PROVE  NoLeakedBinding'
<1>1. ASSUME NEW c \in activeBindings'
      PROVE  \E s \in Run : (worker[s] # "none" \/ s \in waitingBindings') /\ request[s].conv = c
  <2>1. PICK s \in Run : (worker[s] # "none" \/ s \in waitingBindings) /\ request[s].conv = c
    BY DEF ReleaseBinding, NoLeakedBinding, Session
  <2>2. s = r => s \notin waitingBindings
    BY <2>1 DEF ReleaseBinding, Session
  <2>. QED
    BY <2>1, <2>2
<1>. QED
  BY <1>1 DEF NoLeakedBinding, Session

LEMMA BindingStep ==
  ASSUME TypeOK, TypeOK', SerialInv, NoLeakedBinding, [Next]_vars
  PROVE  NoLeakedBinding'
<1> USE DEF NoLeakedBinding, Session, TypeOK, store, slots
<1>1. ASSUME NEW q \in Request, Submit(q) PROVE NoLeakedBinding'
  <2>1. \A r \in Run : worker[r] # "none" \/ r \in waitingBindings => request'[r] = request[r]
    BY <1>1 DEF Submit, Enqueue, SerialInv, Accounted, Holds, Occupies
  <2>. QED
    BY <1>1, <2>1 DEF Submit, Enqueue
<1>2. CASE Dispatch
  <2>1. CASE closed
    BY <1>2, <2>1 DEF Dispatch, ClaimQueued
  <2>2. CASE ~closed
    BY <1>2, <2>2, ClaimableIsQueued DEF Dispatch, ClaimQueued
  <2>. QED
    BY <2>1, <2>2
<1>3. ASSUME NEW r \in Run, WorkerSucceeds(r) \/ WorkerAwaitsApproval(r) \/ WorkerSettles(r)
      PROVE  NoLeakedBinding'
  <2>1. /\ worker' = [worker EXCEPT ![r] = "none"] /\ request' = request
        /\ activeBindings' = IF r \in waitingBindings' THEN activeBindings
                                                       ELSE activeBindings \ {request[r].conv}
    BY <1>3 DEF WorkerSucceeds, WorkerAwaitsApproval, MarkWaitingApproval,
       WorkerSettles, WorkerFinally, KeepBindingIfWaiting
  <2>2. waitingBindings \subseteq waitingBindings'
    BY <1>3 DEF WorkerSucceeds, WorkerAwaitsApproval, MarkWaitingApproval,
       WorkerSettles
  <2>3. ASSUME NEW c \in activeBindings'
        PROVE  \E s \in Run : (worker'[s] # "none" \/ s \in waitingBindings') /\ request[s].conv = c
    <3>1. PICK s \in Run : (worker[s] # "none" \/ s \in waitingBindings) /\ request[s].conv = c
      BY <2>1
    <3>2. CASE s = r
      BY <2>1, <3>1, <3>2
    <3>3. CASE s # r
      BY <2>1, <2>2, <3>1, <3>3
    <3>. QED
      BY <3>2, <3>3
  <2>. QED
    BY <2>1, <2>3
<1>4. ASSUME NEW r \in Run, WorkerFails(r) \/ WorkerObservesAbort(r) PROVE NoLeakedBinding'
  BY <1>4 DEF WorkerFails, WorkerObservesAbort
<1> USE DEF ReleaseApprovalRun
<1>5. ASSUME NEW r \in Run, ExpireApproval(r) PROVE NoLeakedBinding'
  <2>1. CASE ReleaseApprovalRun(r)
    BY <1>5, <2>1, BindingReleased DEF ExpireApproval
  <2>2. CASE ~ReleaseApprovalRun(r)
    BY <1>5, <2>2 DEF ExpireApproval
  <2>. QED
    BY <2>1, <2>2
<1>6. ASSUME NEW c \in Client, Cancellation(c) \/ \E r \in Run : CancelReads(c, r)
      PROVE  NoLeakedBinding'
  <2>1. CASE CancelWaiting(c)
    <3>1. CASE ReleaseApprovalRun(cancels[c].run)
      BY <2>1, <3>1, BindingReleased DEF CancelWaiting
    <3>2. CASE ~ReleaseApprovalRun(cancels[c].run)
      BY <2>1, <3>2 DEF CancelWaiting
    <3>. QED
      BY <3>1, <3>2
  <2>2. CASE ~CancelWaiting(c)
    BY <1>6, <2>2 DEF Cancellation, CancelReads, CancelQueued, WithdrawQueued,
       CancelAborts, CancelFindsNothing
  <2>. QED
    BY <2>1, <2>2
<1>7. ASSUME NEW a \in Approver,
             \/ ResumeBeginApproval(a)
             \/ \E r \in Run, execute \in BOOLEAN : BeginApproval(a, r, execute)
      PROVE  NoLeakedBinding'
  <2>1. UNCHANGED <<activeBindings, worker, waitingBindings, request>>
    BY <1>7 DEF ResumeBeginApproval, BeginApproval
  <2>. QED
    BY <2>1
<1>8. ASSUME NEW a \in Approver, CompleteApproval(a) \/ FailApproval(a) PROVE NoLeakedBinding'
  <2>1. ReleaseApprovalRun(deciders[a].run) /\ request' = request
    BY <1>8 DEF CompleteApproval, FailApproval
  <2>. QED
    BY <2>1, BindingReleased
<1>9. CASE Close \/ CloseFinishes
  BY <1>9 DEF Close, CloseFinishes
<1>10. CASE CloseAdvances
  BY <1>10, BindingReleased DEF CloseAdvances
<1>11. CASE Restart
  BY <1>11 DEF Restart
<1>12. CASE UNCHANGED vars
  BY <1>12 DEF vars
<1>. QED
  BY <1>1, <1>2, <1>3, <1>4, <1>5, <1>6, <1>7, <1>8, <1>9, <1>10, <1>11, <1>12
     DEF Next, Execution, Decision

(* A session that is reserved is reserved by a run that executes, settles   *)
(* or waits, and will give it back: no conversation is blocked for ever by  *)
(* an entry nobody removes.                                                 *)
THEOREM BindingsAreGivenBack == Spec => []NoLeakedBinding
<1>1. Init => NoLeakedBinding
  BY DEF Init, NoLeakedBinding
<1>. QED
  BY <1>1, BindingStep, DecisionsAccounted, TypeCorrect, PTL DEF Spec

-----------------------------------------------------------------------------
(* The parts together, as the runs check them.                              *)

(* A session is held by one run at a time, and by one that gives it back:   *)
(* #activeBindings never blocks a conversation for ever.                    *)
THEOREM SessionLeasesHold == Spec => []SessionLeases
  BY SessionsAreSerial, BindingsAreGivenBack, PTL DEF SessionLeases

(* No run is left to nobody: a queued one is dispatched, an active one has  *)
(* its worker, its decision or its expiry timer.                            *)
THEOREM NothingIsForgotten == Spec => []NoRunForgotten
  BY EveryRunHasAnOwner, QueueIsNotStranded, PTL DEF NoRunForgotten

(* The limit of #activeExecutionCount holds and nobody waits for a slot     *)
(* that is free.                                                            *)
THEOREM SlotsAreKept == Spec => []SlotDiscipline
  BY SlotsAreBounded, NoDecisionIsForgotten, PTL DEF SlotDiscipline
=============================================================================
