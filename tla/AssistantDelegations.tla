------------------------ MODULE AssistantDelegations ------------------------
(***************************************************************************)
(* Professional tasks the Assistant delegates, and the effects the user     *)
(* approves for them: AssistantDelegationService                            *)
(* (apps/runtime/src/assistant-delegation-service.ts), its adapter          *)
(* (assistant-delegation-local.ts) behind the grant check of                *)
(* assistant-delegation-host.ts, and the route of apps/runtime/src/index.ts *)
(* that carries a signed decision to them and to the approval store.        *)
(*                                                                         *)
(* Operations on a task run one at a time, in the order they were queued    *)
(* (exclusive); everything else interleaves with them: the job dispatch     *)
(* started, the adapter's run, which outlives a job that was interrupted,   *)
(* and the decisions.  A write may fail, and the process may die anywhere.  *)
(***************************************************************************)
EXTENDS CapabilityApprovals, Naturals, Sequences, FiniteSets

CONSTANTS
  Task,
  FollowUp,        \* requestIds of followUp
  Handler,         \* decision requests the route serves at a time
  Nil,
  Overtaken,       \* bound: operations a cancellation may wait behind
  MaxFaults,       \* bound: writes that fail
  MaxRestarts      \* bound: crashes or restarts

ASSUME BoundsAssumption ==
  /\ MaxFaults \in Nat /\ MaxRestarts \in Nat
  /\ IsFiniteSet(FollowUp)
  /\ Nil \notin Request \cup Task \cup {"run"} /\ "run" \notin Task

(* A task is at turn n once n follow-ups were accepted.  The id of the task *)
(* grant is made when a turn needs one, and names it.                       *)
Turn  == 0..Cardinality(FollowUp)
Grant == Task \X Turn
Id    == Request \cup Grant

(* Both kinds of id are random UUIDs.                                       *)
ASSUME IdsAssumption == Nil \notin Id /\ Request \cap Grant = {}

Record == [status : {"absent", "waiting_approval", "accepted", "running",
                     "completed", "failed", "unknown", "cancelled"},
           asks   : Id \cup {Nil},        \* result.approvalRequestId
           grant  : Grant \cup {Nil},     \* approvedGrantId
           effect : Request \cup {Nil},   \* effectInFlightApprovalId
           seen   : SUBSET FollowUp,      \* followUpRequests
           needs  : BOOLEAN]              \* needsTaskGrant
NoRecord == [status |-> "absent", asks |-> Nil, grant |-> Nil, effect |-> Nil,
             seen |-> {}, needs |-> FALSE]
TurnAfter(r) == Cardinality(r.seen) + 1                              \* mutant
TurnOf(r) == Cardinality(r.seen)

Result == [status : {"waiting_approval", "completed", "failed", "unknown"},
           asks   : Request \cup {Nil}]
NoResult == [status |-> "thrown", asks |-> Nil]   \* the job, or its run, threw
Plain(s) == [status |-> s, asks |-> Nil]

Job == [at      : {"none", "queued", "racing", "settling"},
        aborted : BOOLEAN,                \* the signal of its controller
        rec     : Record,                 \* the record dispatch captured
        result  : Result \cup {NoResult}]
NoJob == [at |-> "none", aborted |-> FALSE, rec |-> NoRecord, result |-> NoResult]

Run == [at : {"none", "authorizing", "opening", "prompting", "asking", "closing"},
        aborted : BOOLEAN, turn : Turn, grant : Grant \cup {Nil},
        asked : Request \cup {Nil}]
NoRun == [at |-> "none", aborted |-> FALSE, turn |-> 0, grant |-> Nil, asked |-> Nil]

State == [status : {"absent", "running", "waiting_approval", "completed", "failed", "unknown"},
          asks : Request \cup {Nil},
          turn : Turn]                    \* observed: whose result it is
NoState == [status |-> "absent", asks |-> Nil, turn |-> 0]

Queued == [op : {"start", "followUp", "cancel", "status", "running", "end",
                 "expire", "decide", "look", "begin", "settle"},
           by : FollowUp \cup Id \cup Handler \cup {Nil}]

Decision == [at : {"none", "granting", "looking", "beginning", "deciding", "executing",
                   "calling", "settling", "catching"},
             id : Id \cup {Nil}, decision : {"approved", "denied"},
             started : BOOLEAN,           \* delegatedEffectStarted
             outcome : {"completed", "failed", "unknown"}]
Handling(id, decision, at) ==
  [at |-> at, id |-> id, decision |-> decision, started |-> FALSE, outcome |-> "failed"]
Idle == Handling(Nil, "denied", "none")

VARIABLES
  ledger,      \* <task>.json of the ledger, if there is one
  state,       \* adapter-state.json of the task, if there is one
  queue,       \* operations: the running operation of a task and those behind it
  job,         \* active: what dispatch started for a task, if anything
  run,         \* the adapter's run of a task, if there is one
  handler,     \* the decision each route handler is serving, if any
  closed,
  overdue,     \* tasks whose deadlineAt has passed
  owner,       \* who asked for each request: a task, "run" (an Agent run) or Nil
  (* observed, not stored by the program *)
  prompts,     \* how often each turn of a task was given to the model
  performed,   \* how often the call of each request was made
  inFlight,    \* requests whose call is being made
  answers,     \* the turn whose result each record of the ledger shows, or Nil
  revoked,     \* requests cancelRun returned for
  decisions,   \* decisions about each request its handlers took up: 2 is many
  faults, restarts

tasks    == <<ledger, state, queue, job, run, overdue>>
observed == <<prompts, performed, inFlight, answers, revoked, decisions>>
bounds   == <<faults, restarts>>
vars == <<approvals, tasks, handler, closed, owner, observed, bounds>>

TypeOK ==
  /\ ApprovalsTypeOK
  /\ ledger \in [Task -> Record] /\ state \in [Task -> State]
  /\ queue \in [Task -> Seq(Queued)]
  /\ job \in [Task -> Job] /\ run \in [Task -> Run]
  /\ handler \in [Handler -> Decision]
  /\ closed \in BOOLEAN /\ overdue \subseteq Task
  /\ owner \in [Request -> Task \cup {"run", Nil}]
  /\ prompts \in [Task -> [Turn -> Nat]] /\ performed \in [Request -> Nat]
  /\ inFlight \subseteq Request /\ answers \in [Task -> Turn \cup {Nil}]
  /\ revoked \subseteq Request
  /\ decisions \in [Request -> 0..2]
  /\ faults \in 0..MaxFaults /\ restarts \in 0..MaxRestarts

Init ==
  /\ ApprovalsInit
  /\ ledger = [t \in Task |-> NoRecord] /\ state = [t \in Task |-> NoState]
  /\ queue = [t \in Task |-> <<>>]
  /\ job = [t \in Task |-> NoJob] /\ run = [t \in Task |-> NoRun]
  /\ handler = [h \in Handler |-> Idle]
  /\ closed = FALSE /\ overdue = {} /\ owner = [r \in Request |-> Nil]
  /\ prompts = [t \in Task |-> [n \in Turn |-> 0]]
  /\ performed = [r \in Request |-> 0] /\ inFlight = {}
  /\ answers = [t \in Task |-> Nil] /\ revoked = {}
  /\ decisions = [r \in Request |-> 0]
  /\ faults = 0 /\ restarts = 0

-----------------------------------------------------------------------------
(* exclusive: a caller joins the queue of the task and its operation runs   *)
(* when those before it have.                                               *)

Op(op, by) == [op |-> op, by |-> by]
At(t, op) == queue[t] # <<>> /\ Head(queue[t]).op = op
By(t) == Head(queue[t]).by

Leaves(t)        == queue' = [queue EXCEPT ![t] = Tail(@)]
LeavesThen(t, q) == queue' = [queue EXCEPT ![t] = Append(Tail(@), q)]
Joins(t, q)      == queue' = [queue EXCEPT ![t] = Append(@, q)]

Faulty == faults < MaxFaults /\ faults' = faults + 1
Writes(written) == IF written THEN UNCHANGED faults ELSE Faulty

Cancellable == {"accepted", "running", "waiting_approval", "unknown"}

Ends(h) == handler' = [handler EXCEPT ![h] = Idle]

(* Bounds: a call that would change nothing is left out, but for the retry  *)
(* of a submission; calls find the queue empty, except that a cancellation  *)
(* may wait behind an operation whose caller queues another one next.       *)
Ready(t, statuses) == /\ queue[t] = <<>> /\ ledger[t].status \in statuses
Known(t) == ledger[t].status # "absent"
Worthwhile(t, op) ==
  CASE op = "start"    -> /\ ~closed
                          /\ \/ queue[t] = <<>> /\ ~Known(t)
                             \/ Ready(t, {"unknown"})
    [] op = "followUp" -> ~closed /\ Ready(t, {"completed", "failed"})
    [] op = "status"   -> Ready(t, {"unknown"})
    [] op = "cancel"   -> \/ Len(queue[t]) = 1 /\ Head(queue[t]).op \in Overtaken
                          \/ Ready(t, Cancellable)

Calls(t, op, by) ==
  /\ Worthwhile(t, op) /\ Joins(t, Op(op, by))
  /\ UNCHANGED <<approvals, ledger, state, job, run, overdue, handler, closed,
                 owner, observed, bounds>>

-----------------------------------------------------------------------------
(* start, followUp, decideApproval and dispatch.                            *)

(* dispatch: its job queues the write of "running" behind whatever waits.   *)
Dispatches(t, r) ==
  /\ job' = [job EXCEPT ![t] = [at |-> "queued", aborted |-> FALSE, rec |-> r,
                                result |-> NoResult]]
  /\ LeavesThen(t, Op("running", Nil))

Submits(t, r) ==
  /\ ledger' = [ledger EXCEPT ![t] =
       IF r.needs THEN [r EXCEPT !.status = "waiting_approval",
                                 !.asks = <<t, TurnOf(r)>>]
                  ELSE r]
  /\ IF r.needs THEN Leaves(t) /\ UNCHANGED job ELSE Dispatches(t, r)

Start(t) ==
  /\ At(t, "start")
  /\ IF Known(t)
     THEN Leaves(t) /\ UNCHANGED <<ledger, job>>
     ELSE \E needs \in BOOLEAN :
            Submits(t, [NoRecord EXCEPT !.status = "accepted", !.needs = needs])
  /\ UNCHANGED <<approvals, state, run, overdue, handler, closed, owner,
                 observed, bounds>>

FollowsTwice(t) == ledger[t].status \in {"completed", "failed"}      \* mutant
CanFollow(t) == /\ By(t) \notin ledger[t].seen
                /\ ledger[t].status \in {"completed", "failed"}

Follow(t) ==
  /\ At(t, "followUp")
  /\ IF CanFollow(t)
     THEN /\ Submits(t, [ledger[t] EXCEPT !.status = "accepted", !.asks = Nil,
                           !.grant = Nil, !.effect = Nil, !.seen = @ \cup {By(t)}])
          /\ answers' = [answers EXCEPT ![t] = Nil]
     ELSE Leaves(t) /\ UNCHANGED <<ledger, job, answers>>
  /\ UNCHANGED <<approvals, state, run, overdue, handler, closed, owner, prompts,
                 performed, inFlight, revoked, decisions, bounds>>

WaitsFor(t, id) == ledger[t].status = "waiting_approval" /\ ledger[t].asks = id

Decide(t) == LET h == By(t) IN
  /\ At(t, "decide")
  /\ LET d == handler[h] IN
     IF WaitsFor(t, d.id) /\ ledger[t].grant = Nil /\ t \notin overdue
     THEN IF d.decision = "denied"
          THEN /\ ledger' = [ledger EXCEPT ![t].status = "failed", ![t].asks = Nil]
               /\ Leaves(t) /\ UNCHANGED job
          ELSE LET r == [ledger[t] EXCEPT !.status = "accepted", !.asks = Nil,
                                          !.grant = d.id]
               IN ledger' = [ledger EXCEPT ![t] = r] /\ Dispatches(t, r)
     ELSE Leaves(t) /\ UNCHANGED <<ledger, job>>
  /\ Ends(h)
  /\ UNCHANGED <<approvals, state, run, overdue, closed, owner, observed, bounds>>

-----------------------------------------------------------------------------
(* The job of dispatch: "running", the race of the run with the abort       *)
(* signal, and the result, written only over "running".                     *)

Launched(j) == [at |-> "authorizing", aborted |-> FALSE, turn |-> TurnOf(j.rec),
                grant |-> j.rec.grant, asked |-> Nil]

(* The captured record is written whatever was written since.  The adapter  *)
(* refuses a task it still runs, and a signal that is already aborted.      *)
Running(t) ==
  /\ At(t, "running")
  /\ ledger' = [ledger EXCEPT ![t] = [job[t].rec EXCEPT !.status = "running"]]
  /\ IF job[t].aborted \/ run[t].at # "none"
     THEN /\ job' = [job EXCEPT ![t].at = "settling"]
          /\ LeavesThen(t, Op("end", Nil)) /\ UNCHANGED run
     ELSE /\ job' = [job EXCEPT ![t].at = "racing"]
          /\ run' = [run EXCEPT ![t] = Launched(job[t])] /\ Leaves(t)
  /\ UNCHANGED <<approvals, state, overdue, handler, closed, owner, observed, bounds>>

(* What aborting the controller of t does to its job, run and queue.        *)
JobAborted(t) ==
  CASE job[t].at = "none" -> job[t]
    [] job[t].at = "racing" ->
         [job[t] EXCEPT !.aborted = TRUE, !.at = "settling", !.result = Plain("unknown")]
    [] OTHER -> [job[t] EXCEPT !.aborted = TRUE]
Racing(t) == job[t].at = "racing"
RunAborted(t) ==
  IF ~Racing(t) THEN run[t]
  ELSE IF run[t].at = "authorizing" THEN NoRun ELSE [run[t] EXCEPT !.aborted = TRUE]
EndNotQueued(t, q) == q                                              \* mutant
QueueAborted(t, q) == IF Racing(t) THEN Append(q, Op("end", Nil)) ELSE q

(* The timer of dispatch: deadlineAt for the first turn, else five minutes. *)
DeadlinePasses(t) ==
  /\ t \notin overdue /\ Known(t) /\ overdue' = overdue \cup {t}
  /\ UNCHANGED <<approvals, ledger, state, queue, job, run, handler, closed, owner,
                 observed, bounds>>

TimesOut(t) ==
  /\ job[t].at # "none" /\ ~job[t].aborted /\ (TurnOf(job[t].rec) = 0 => t \in overdue)
  /\ job' = [job EXCEPT ![t] = JobAborted(t)]
  /\ run' = [run EXCEPT ![t] = RunAborted(t)]
  /\ queue' = [queue EXCEPT ![t] = QueueAborted(t, @)]
  /\ UNCHANGED <<approvals, ledger, state, overdue, handler, closed, owner,
                 observed, bounds>>

Thrown(j) == j.result = NoResult
Outcome(t) == IF ~Thrown(job[t]) THEN job[t].result
              ELSE Plain(IF job[t].aborted THEN "unknown" ELSE "failed")

EndsAnyway(t) == ledger[t].status \in {"running", "cancelled"}        \* mutant
StillRunning(t) == ledger[t].status = "running"

End(t) ==
  /\ At(t, "end")
  /\ IF StillRunning(t)
     THEN /\ ledger' = [ledger EXCEPT ![t].status = Outcome(t).status,
                                      ![t].asks = Outcome(t).asks]
          /\ answers' = [answers EXCEPT ![t] = TurnOf(job[t].rec)]
     ELSE UNCHANGED <<ledger, answers>>
  /\ job' = [job EXCEPT ![t] = NoJob] /\ Leaves(t)
  /\ UNCHANGED <<approvals, state, run, overdue, handler, closed, owner, prompts,
                 performed, inFlight, revoked, decisions, bounds>>

-----------------------------------------------------------------------------
(* The adapter's run, which the task's grant lets use the sources and the   *)
(* capabilities.  It works under the signal of the job that started it.     *)

GrantHolds(t) ==           \* verifyApprovedGrant
  ledger[t].status = "running" /\ ledger[t].grant = run[t].grant

RunAt(t, at) == run[t].at = at
NothingElse == UNCHANGED <<handler, closed, restarts, overdue>>

RunThrows(t) ==            \* authorizeTask or resolveModel
  /\ RunAt(t, "authorizing")
  /\ run' = [run EXCEPT ![t] = NoRun]
  /\ job' = [job EXCEPT ![t].at = "settling"] /\ Joins(t, Op("end", Nil))
  /\ UNCHANGED <<approvals, ledger, state, owner, observed, faults>> /\ NothingElse

RunOpens(t) ==
  /\ RunAt(t, "authorizing") /\ (ledger[t].needs => GrantHolds(t))
  /\ run' = [run EXCEPT ![t].at = "opening"]
  /\ UNCHANGED <<approvals, ledger, state, queue, job, owner, observed, faults>>
  /\ NothingElse

(* saveState "running", then the prompt, also when the abort came between.  *)
PromptedUnsaved(t) == state[t]                                       \* mutant
Prompted(t) == [status |-> "running", asks |-> Nil, turn |-> run[t].turn]

RunPrompts(t) ==
  /\ RunAt(t, "opening")
  /\ state' = [state EXCEPT ![t] = Prompted(t)]
  /\ run' = [run EXCEPT ![t].at = "prompting"]
  /\ prompts' = [prompts EXCEPT ![t][run[t].turn] = @ + 1]
  /\ UNCHANGED <<approvals, ledger, queue, job, owner, performed, inFlight, answers,
                 revoked, decisions, faults>>
  /\ NothingElse

(* executeCapability: the grant is verified, then the approval asked for.   *)
RunVerifies(t) ==
  /\ RunAt(t, "prompting") /\ run[t].grant # Nil /\ run[t].asked = Nil
  /\ ~run[t].aborted /\ GrantHolds(t)
  /\ run' = [run EXCEPT ![t].at = "asking"]
  /\ UNCHANGED <<approvals, ledger, state, queue, job, owner, observed, faults>>
  /\ NothingElse

RunAsks(t) ==
  /\ RunAt(t, "asking")
  /\ \/ \E r \in Request, written \in BOOLEAN :
          /\ owner[r] = Nil /\ owner' = [owner EXCEPT ![r] = t]
          /\ AsksApproval(r, written) /\ Writes(written)
          /\ run' = [run EXCEPT ![t].at = "prompting",
                                ![t].asked = IF written THEN r ELSE Nil]
     \/ /\ run' = [run EXCEPT ![t].at = "prompting"]      \* the call is refused
        /\ UNCHANGED <<approvals, owner, faults>>
  /\ UNCHANGED <<ledger, state, queue, job, observed>> /\ NothingElse

Answers(t) ==
  IF run[t].asked # Nil THEN {[status |-> "waiting_approval", asks |-> run[t].asked]}
  ELSE IF run[t].aborted THEN {Plain("unknown")}
  ELSE {Plain("completed"), Plain("failed"), Plain("unknown")}

RunAnswers(t) ==
  /\ RunAt(t, "prompting")
  /\ \E a \in Answers(t) :
       state' = [state EXCEPT ![t] = [status |-> a.status, asks |-> a.asks,
                                      turn |-> run[t].turn]]
  /\ run' = [run EXCEPT ![t].at = "closing"]
  /\ UNCHANGED <<approvals, ledger, queue, job, owner, observed, faults>> /\ NothingElse

RunCloses(t) ==
  /\ RunAt(t, "closing")
  /\ run' = [run EXCEPT ![t] = NoRun]
  /\ IF Racing(t)
     THEN /\ job' = [job EXCEPT ![t].at = "settling",
                       ![t].result = [status |-> state[t].status, asks |-> state[t].asks]]
          /\ Joins(t, Op("end", Nil))
     ELSE UNCHANGED <<job, queue>>
  /\ UNCHANGED <<approvals, ledger, state, owner, observed, faults>> /\ NothingElse

-----------------------------------------------------------------------------
(* cancel and status.                                                       *)

(* The abort precedes the write, so it happens also when the write fails.   *)
(* An effect in flight cannot be called back: its outcome is unknown.       *)
CancelsEffect(t) == FALSE                                            \* mutant
InEffect(t) == ledger[t].effect # Nil

Cancel(t) ==
  /\ At(t, "cancel")
  /\ IF ledger[t].status \notin Cancellable
     THEN Leaves(t) /\ UNCHANGED <<ledger, job, run, faults>>
     ELSE IF InEffect(t)
     THEN /\ ledger' = [ledger EXCEPT ![t].status = "unknown", ![t].asks = Nil]
          /\ Leaves(t) /\ UNCHANGED <<job, run, faults>>
     ELSE \E written \in BOOLEAN :
          /\ Writes(written)
          /\ job' = [job EXCEPT ![t] = JobAborted(t)]
          /\ run' = [run EXCEPT ![t] = RunAborted(t)]
          /\ queue' = [queue EXCEPT ![t] = QueueAborted(t, Tail(@))]
          /\ ledger' = IF written THEN [ledger EXCEPT ![t].status = "cancelled"]
                                  ELSE ledger
  /\ UNCHANGED <<approvals, state, overdue, handler, closed, owner, observed, restarts>>

(* An unknown outcome is looked up in the adapter's file, except that of an *)
(* effect in flight.                                                        *)
AlsoInFlight(t) == /\ ledger[t].status = "unknown"                  \* mutant
                   /\ state[t].status \notin {"absent", "running", "unknown"}
Resolvable(t) ==
  /\ ledger[t].status = "unknown" /\ ledger[t].effect = Nil
  /\ state[t].status \notin {"absent", "running", "unknown"}

Resolved(t) == IF Resolvable(t) THEN [ledger[t] EXCEPT !.status = state[t].status,
                                                       !.asks = state[t].asks]
                                ELSE ledger[t]

Resolves(t) ==
  /\ ledger' = [ledger EXCEPT ![t] = Resolved(t)]
  /\ answers' = [answers EXCEPT ![t] = IF Resolvable(t) THEN state[t].turn ELSE @]
  /\ UNCHANGED <<approvals, state, job, run, overdue, closed, owner, prompts,
                 performed, inFlight, revoked, decisions, bounds>>

Status(t) ==
  /\ At(t, "status") /\ Resolves(t) /\ Leaves(t) /\ UNCHANGED handler

-----------------------------------------------------------------------------
(* settleApproval.                                                          *)

Settled(t, outcome) ==
  [ledger[t] EXCEPT !.status = outcome, !.asks = Nil,
                    !.effect = IF outcome = "unknown" THEN @ ELSE Nil]

(* pendingApprovals settles the task grants nobody decided in time.         *)
Expirable(t) == /\ ledger[t].status = "waiting_approval"
                /\ ledger[t].effect = Nil /\ ledger[t].asks # Nil
                /\ ledger[t].grant = Nil /\ t \in overdue
ListsApprovals(t) ==
  /\ Expirable(t) /\ \A i \in DOMAIN queue[t] : queue[t][i].op # "expire"
  /\ Joins(t, Op("expire", ledger[t].asks))
  /\ UNCHANGED <<approvals, ledger, state, job, run, overdue, handler, closed, owner,
                 observed, bounds>>

Expire(t) ==
  /\ At(t, "expire") /\ Leaves(t)
  /\ ledger' = IF WaitsFor(t, By(t))
               THEN [ledger EXCEPT ![t] = Settled(t, "failed")] ELSE ledger
  /\ UNCHANGED <<approvals, state, job, run, overdue, handler, closed, owner,
                 observed, bounds>>

-----------------------------------------------------------------------------
(* The route of a signed decision (index.ts).  Its catch settles the task   *)
(* too: "unknown" if the effect was recorded as begun, else "failed".       *)

Catches(h, t) ==     \* with t's queue as the caller leaves it
  handler' = [handler EXCEPT ![h].at = "catching",
                ![h].outcome = IF handler[h].started THEN "unknown" ELSE "failed"]

(* What happens when a step of the route outside the ledger throws.         *)
Throws(h) ==
  LET t == owner[handler[h].id] IN
  IF t \in Task THEN Catches(h, t) /\ Joins(t, Op("settle", h))
                ELSE Ends(h) /\ UNCHANGED queue

(* The decision is for a task's grant, for the effect of a task, or for the *)
(* call of an Agent run, whose beginApproval the Agent service decides.     *)
Receives(h, id, decision) ==
  /\ handler[h].at = "none"
  /\ \/ \E t \in Task :
          /\ WaitsFor(t, id) /\ ledger[t].effect = Nil /\ ledger[t].grant = Nil
          /\ t \notin overdue
          /\ handler' = [handler EXCEPT ![h] = Handling(id, decision, "granting")]
          /\ Joins(t, Op("decide", h)) /\ UNCHANGED decisions
     \/ /\ id \in execution
        /\ decisions' = [decisions EXCEPT ![id] = IF @ = 0 THEN 1 ELSE 2]
        /\ IF owner[id] \in Task
           THEN /\ handler' = [handler EXCEPT ![h] = Handling(id, decision, "looking")]
                /\ Joins(owner[id], Op("look", h))
           ELSE /\ handler' = [handler EXCEPT ![h] = Handling(id, decision, "deciding")]
                /\ UNCHANGED queue
  /\ UNCHANGED <<approvals, ledger, state, job, run, overdue, closed, owner, prompts,
                 performed, inFlight, answers, revoked, faults, restarts>>

Look(t) == LET h == By(t) IN
  /\ At(t, "look") /\ Resolves(t)
  /\ IF /\ Resolved(t).status = "waiting_approval" /\ Resolved(t).asks = handler[h].id
        /\ t \notin overdue
     THEN IF handler[h].decision = "approved"
          THEN /\ handler' = [handler EXCEPT ![h].at = "beginning"]
               /\ LeavesThen(t, Op("begin", h))
          ELSE handler' = [handler EXCEPT ![h].at = "deciding"] /\ Leaves(t)
     ELSE Catches(h, t) /\ LeavesThen(t, Op("settle", h))

CanBegin(t, id) == /\ WaitsFor(t, id) /\ ledger[t].grant # Nil
                   /\ ledger[t].effect = Nil /\ t \notin overdue

Begin(t) == LET h == By(t) IN            \* beginEffectApproval
  /\ At(t, "begin")
  /\ IF CanBegin(t, handler[h].id)
     THEN /\ ledger' = [ledger EXCEPT ![t].effect = handler[h].id]
          /\ handler' = [handler EXCEPT ![h].at = "deciding", ![h].started = TRUE]
          /\ Leaves(t)
     ELSE /\ Catches(h, t) /\ LeavesThen(t, Op("settle", h)) /\ UNCHANGED ledger
  /\ UNCHANGED <<approvals, state, job, run, overdue, closed, owner, observed, bounds>>

ToSettle(h, outcome) ==
  LET t == owner[handler[h].id] IN
  IF t \in Task
  THEN /\ handler' = [handler EXCEPT ![h].at = "settling", ![h].outcome = outcome]
       /\ Joins(t, Op("settle", h))
  ELSE Ends(h) /\ UNCHANGED queue

HandlerAt(h, at) == handler[h].at = at
RouteOnly == UNCHANGED <<ledger, state, job, run, overdue, closed, owner, prompts,
                         answers, revoked, decisions, restarts>>

Approves(h) ==                           \* approvals.decide
  /\ HandlerAt(h, "deciding")
  /\ LET d == handler[h] IN
     \/ /\ Decides(d.id, d.decision, TRUE) /\ UNCHANGED faults
        /\ IF d.decision = "denied" THEN ToSettle(h, "failed")
           ELSE handler' = [handler EXCEPT ![h].at = "executing"] /\ UNCHANGED queue
     \/ Decides(d.id, d.decision, FALSE) /\ Faulty /\ Throws(h)
     \/ RefusesDecision(d.id) /\ Throws(h) /\ UNCHANGED faults
  /\ RouteOnly /\ UNCHANGED <<performed, inFlight>>

(* mcp.execute spends the approval, then calls; or throws before the call.  *)
Executes(h) ==
  /\ HandlerAt(h, "executing")
  /\ LET r == handler[h].id IN
     \/ /\ Consumes(r, TRUE)
        /\ handler' = [handler EXCEPT ![h].at = "calling"] /\ UNCHANGED <<queue, faults>>
        /\ inFlight' = inFlight \cup {r} /\ performed' = [performed EXCEPT ![r] = @ + 1]
     \/ /\ \/ Consumes(r, FALSE) /\ Faulty
           \/ \E written \in BOOLEAN : RefusesLapsed(r, written) /\ Writes(written)
           \/ RefusesUse(r) /\ UNCHANGED faults
           \/ UNCHANGED <<approvals, faults>>           \* no such capability
        /\ Throws(h) /\ UNCHANGED <<performed, inFlight>>
  /\ RouteOnly

CallEnds(h) ==
  /\ HandlerAt(h, "calling") /\ inFlight' = inFlight \ {handler[h].id}
  /\ \/ \E outcome \in {"completed", "failed"} : ToSettle(h, outcome)
     \/ Throws(h)
  /\ RouteOnly /\ UNCHANGED <<approvals, performed, faults>>

Settle(t) == LET h == By(t) IN
  /\ At(t, "settle")
  /\ IF ledger[t].status = "unknown" /\ ledger[t].effect = handler[h].id
     THEN Ends(h) /\ Leaves(t) /\ UNCHANGED <<ledger, answers>>
     ELSE IF WaitsFor(t, handler[h].id)
     THEN /\ ledger' = [ledger EXCEPT ![t] = Settled(t, handler[h].outcome)]
          /\ answers' = [answers EXCEPT ![t] = TurnOf(ledger[t])]
          /\ Ends(h) /\ Leaves(t)
     ELSE /\ IF handler[h].at = "settling"
             THEN Catches(h, t) /\ LeavesThen(t, Op("settle", h))
             ELSE Ends(h) /\ Leaves(t)
          /\ UNCHANGED <<ledger, answers>>
  /\ UNCHANGED <<approvals, state, job, run, overdue, closed, owner, prompts, performed,
                 inFlight, revoked, decisions, bounds>>

-----------------------------------------------------------------------------
(* A read or write of the running operation fails, and it throws.           *)
OperationFails(t) ==
  /\ queue[t] # <<>> /\ Head(queue[t]).op # "cancel" /\ Faulty
  /\ LET op == Head(queue[t]).op
         h  == By(t)
     IN \/ /\ op \in {"start", "followUp", "status", "expire"}
           /\ Leaves(t) /\ UNCHANGED <<job, handler>>
        \/ /\ op = "running" \/ (op = "end" /\ ~Thrown(job[t]))
           /\ job' = [job EXCEPT ![t].at = "settling", ![t].result = NoResult]
           /\ LeavesThen(t, Op("end", Nil)) /\ UNCHANGED handler
        \/ /\ op = "end" /\ Thrown(job[t])
           /\ job' = [job EXCEPT ![t] = NoJob] /\ Leaves(t) /\ UNCHANGED handler
        \/ /\ op = "decide" \/ (op = "settle" /\ handler[h].at = "catching")
           /\ Ends(h) /\ Leaves(t) /\ UNCHANGED job
        \/ /\ op \in {"look", "begin"} \/ (op = "settle" /\ handler[h].at = "settling")
           /\ Catches(h, t) /\ LeavesThen(t, Op("settle", h)) /\ UNCHANGED job
  /\ UNCHANGED <<approvals, ledger, state, run, overdue, closed, owner, observed,
                 restarts>>

-----------------------------------------------------------------------------
(* The other user of the store: an Agent run asks, and its cancellation     *)
(* waits for cancelRun.                                                     *)

OfRun == {r \in Request : owner[r] = "run"}

AgentRunAsks(r, written) ==
  /\ owner[r] = Nil /\ owner' = [owner EXCEPT ![r] = "run"]
  /\ AsksApproval(r, written) /\ Writes(written)
  /\ UNCHANGED <<tasks, handler, closed, observed, restarts>>

AgentRunCancelled(written) ==
  /\ OfRun \ revoked # {}
  /\ CancelsRun(OfRun, written) /\ Writes(written)
  /\ ~written => approval' # approval
  /\ revoked' = IF written THEN revoked \cup OfRun ELSE revoked
  /\ UNCHANGED <<tasks, handler, closed, owner, prompts, performed, inFlight, answers,
                 decisions, restarts>>

ListsRequests(written) ==                \* listPending
  /\ ListsPending(written) /\ Writes(written)
  /\ UNCHANGED <<tasks, handler, closed, owner, observed, restarts>>

TimePasses(r) ==
  Lapses(r) /\ UNCHANGED <<tasks, handler, closed, owner, observed, bounds>>

-----------------------------------------------------------------------------
(* close, and the next process: open of the two stores, and                 *)
(* reconcileEffectApprovals over what it left.                              *)

Close ==                      \* bound: only where the next process is modelled
  /\ ~closed /\ closed' = TRUE /\ restarts < MaxRestarts
  /\ job' = [t \in Task |-> JobAborted(t)]
  /\ run' = [t \in Task |-> RunAborted(t)]
  /\ queue' = [t \in Task |-> QueueAborted(t, queue[t])]
  /\ UNCHANGED <<approvals, ledger, state, overdue, handler, owner, observed, bounds>>

Reopened(r) == IF r.status \in {"accepted", "running"}
               THEN [r EXCEPT !.status = "unknown"] ELSE r

Reconciled(r) ==
  IF /\ r.grant # Nil /\ r.status = "waiting_approval" /\ r.asks # Nil
     /\ ~(r.effect = Nil /\ r.asks \in Request /\ approval'[r.asks] = "pending")
  THEN [r EXCEPT !.status = "unknown", !.asks = Nil] ELSE r

Restart ==
  /\ restarts < MaxRestarts /\ restarts' = restarts + 1
  /\ Opens
  /\ ledger' = [t \in Task |-> Reconciled(Reopened(ledger[t]))]
  /\ queue' = [t \in Task |-> <<>>]
  /\ job' = [t \in Task |-> NoJob] /\ run' = [t \in Task |-> NoRun]
  /\ handler' = [h \in Handler |-> Idle] /\ closed' = FALSE /\ inFlight' = {}
  /\ UNCHANGED <<state, overdue, owner, prompts, performed, answers, revoked,
                 decisions, faults>>

-----------------------------------------------------------------------------
CallsAny(t) == \/ Calls(t, "start", Nil) \/ Calls(t, "cancel", Nil)
               \/ Calls(t, "status", Nil)
               \/ \E f \in FollowUp : Calls(t, "followUp", f)

Operates(t) == \/ Start(t) \/ Follow(t) \/ Decide(t) \/ Running(t) \/ End(t)
               \/ Cancel(t) \/ Status(t) \/ Expire(t) \/ Look(t) \/ Begin(t)
               \/ Settle(t) \/ OperationFails(t)

Runs(t) == \/ RunThrows(t) \/ RunOpens(t) \/ RunPrompts(t) \/ RunVerifies(t)
           \/ RunAsks(t) \/ RunAnswers(t) \/ RunCloses(t)

Routes(h) == Approves(h) \/ Executes(h) \/ CallEnds(h)

Next ==
  \/ \E t \in Task : \/ CallsAny(t) \/ Operates(t) \/ Runs(t)
                     \/ DeadlinePasses(t) \/ TimesOut(t) \/ ListsApprovals(t)
  \/ \E h \in Handler, id \in Id, d \in {"approved", "denied"} : Receives(h, id, d)
  \/ \E h \in Handler : Routes(h)
  \/ \E r \in Request, written \in BOOLEAN : AgentRunAsks(r, written)
  \/ \E written \in BOOLEAN : AgentRunCancelled(written) \/ ListsRequests(written)
  \/ \E r \in Request : TimePasses(r)
  \/ Close \/ Restart

Spec == Init /\ [][Next]_vars

(* Operations, timers and the event loop run, and a capability answers or   *)
(* is timed out; a model need not answer.                                   *)
RunsOn(t) == \/ RunThrows(t) \/ RunOpens(t) \/ RunPrompts(t)
             \/ RunVerifies(t) \/ RunCloses(t)
Fairness ==
  /\ \A t \in Task : /\ WF_vars(Operates(t)) /\ WF_vars(RunsOn(t))
                     /\ WF_vars(DeadlinePasses(t)) /\ WF_vars(TimesOut(t))
  /\ \A h \in Handler : WF_vars(Routes(h))

LiveSpec == Spec /\ Fairness

-----------------------------------------------------------------------------
(* The call of a request is made at most once, whoever decides it twice,    *)
(* whichever write fails and wherever the process dies.                     *)
EffectAtMostOnce == \A r \in Request : performed[r] <= 1

(* "Accepted task IDs are never submitted twice after a lost response or    *)
(* restart": no turn of a task is given to the model twice.                 *)
SubmittedOnce == \A t \in Task, n \in Turn : prompts[t][n] <= 1

(* A request that was refused, spent, cancelled or left to expire stays so, *)
(* across the writes of the document that failed and the restarts that read *)
(* it; a cancelled run's requests are never called afterwards.              *)
FinalStaysFinal ==
  [][\A r \in Request : /\ approval[r] \in Final => approval'[r] \notin Live
                        /\ r \in revoked => performed'[r] = performed[r]]_vars

(* The outcome of an effect that was interrupted stays unknown: no lookup,  *)
(* cancellation, late answer or restart reports it otherwise.               *)
InterruptedEffectStaysUnknown ==
  [][\A t \in Task :
       ledger[t].status = "unknown" /\ ledger[t].effect # Nil =>
         ledger'[t].status = "unknown" /\ ledger'[t].effect = ledger[t].effect]_vars

(* A task reported cancelled stays cancelled whatever its run, a decision or *)
(* a lookup answers later; except one whose job has yet to write "running": *)
(* it was started, or its grant approved, while the cancellation waited.    *)
StartsLate(t) == job[t].at = "queued"
CancelledIsFinal ==
  [][\A t \in Task : ledger[t].status = "cancelled" /\ ~StartsLate(t)
                     => ledger'[t].status = "cancelled"]_vars

(* While the effect of a task is being made the ledger says so, so that a   *)
(* restart leaves it unknown; provided its decision was not sent twice.     *)
OnRecord(r) ==
  LET t == owner[r] IN
  t \in Task => /\ ledger[t].effect = r
                /\ ledger[t].status \in {"waiting_approval", "unknown"}
EffectOnRecord == \A r \in inFlight : decisions[r] = 1 => OnRecord(r)

(* The same without the proviso, as settleApproval's comment has it:        *)
(* "called only ... after it executed or rejected the original request".    *)
EffectSettledOnce == \A r \in inFlight : OnRecord(r)

(* A turn that reached the model is never answered with an older result.    *)
AnswerOfItsTurn ==
  [][\A t \in Task :
       answers'[t] # answers[t] /\ answers'[t] # Nil
         /\ prompts[t][TurnOf(ledger[t])] > 0 =>
       answers'[t] = TurnOf(ledger[t])]_vars

(* Jobs and decisions end, also when the model never answers: the timer of  *)
(* a turn, or an abort, settles its job, and every queued operation gets    *)
(* its turn.                                                                *)
DelegationsSettle ==
  /\ \A t \in Task : job[t].at # "none" ~> job[t].at = "none"
  /\ \A h \in Handler : handler[h].at # "none" ~> handler[h].at = "none"
=============================================================================
