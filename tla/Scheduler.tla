----------------------------- MODULE Scheduler -----------------------------
(***************************************************************************)
(* PersistentScheduler (yuanpu-runtime/src/scheduler/service.ts) over       *)
(* SchedulerStore (scheduler/store.ts): schedules become due, a tick        *)
(* reserves one trigger for each, submits it to the Agent service, follows  *)
(* the run and delivers its output through a channel.                       *)
(*                                                                         *)
(* The Agent service is its contract (AgentRunContract): a run is named by  *)
(* the trigger key it was submitted under, its idempotency key.  The        *)
(* channel is a delivery that may or may not reach its reader whatever it   *)
(* answers.  Both go on while the scheduler awaits them, and the process    *)
(* may die at any point.                                                    *)
(***************************************************************************)
EXTENDS ScheduleTime

CONSTANTS
  Schedule,
  Definition,             \* what a user may save: a schedule's input
  MaxTime,                \* bound: the clock
  MaxRevision,            \* bound: revisions of a schedule
  MaxRestarts,            \* bound: crashes or restarts of the process
  MaximumDeliveryAttempts,
  Channel,                \* delivery targets of kind "channel"
  IdempotentChannel       \* those whose adapter supports idempotency

ASSUME SchedulerAssumption ==
  /\ MaxTime \in Nat /\ MaxRestarts \in Nat
  /\ MaxRevision \in Nat \ {0} /\ MaximumDeliveryAttempts \in Nat \ {0}
  /\ IdempotentChannel \subseteq Channel /\ Nil \notin Channel

ASSUME DefinitionAssumption ==
  \A d \in Definition : /\ ValidInput(d)
                        /\ d.allowOverlap \in BOOLEAN /\ d.enabled \in BOOLEAN
                        /\ d.delivery \in Channel \cup {Nil}

(* schedule id, revision and scheduled time: the trigger key.               *)
Key == [s : Schedule, rev : 1..MaxRevision, at : 0..MaxTime]

(* A row of yp_schedules, and what an await of the tick is about.           *)
Row   == [revision : 1..MaxRevision, def : Definition, enabled : BOOLEAN,
          next : Nat \cup {Nil}]
Await == [key : Key, stage : {"submitted", "looking", "sending", "sent"}]

ASSUME NilAssumption == Nil \notin Row /\ Nil \notin Await

VARIABLES
  now,
  (* automation.sqlite *)
  schedule,     \* yp_schedules: revision, definition, nextTriggerAt; or Nil
  trigger,      \* yp_schedule_triggers.status, "absent" before reservation
  target,       \* the channel of each trigger's request, or Nil
  mayOverlap,   \* triggers reserved while their schedule allowed overlaps
  delivery,     \* yp_delivery_attempts.status, "absent" before preparation
  attempts,     \* yp_delivery_attempts.attempts
  (* the Agent service *)
  run,          \* status of the run submitted under each key
  effects,      \* runs that have started
  (* the reader of the channel *)
  shown,        \* how often the output of a run reached the reader
  (* the scheduler's memory *)
  closed,
  phase,        \* of #runTick: "idle" when there is no #tickPromise
  todo,         \* what is left of the list the phase iterates over
  current,      \* the item an await of the tick is about, or Nil
  watchers,     \* #watchers
  restarts

store  == <<schedule, trigger, target, mayOverlap>>
outbox == <<delivery, attempts>>
agent  == <<run, effects>>
ticker == <<phase, todo, current>>
vars == <<now, store, outbox, agent, shown, closed, ticker, watchers, restarts>>

Contract == INSTANCE AgentRunContract WITH Run <- Key, status <- run

TriggerStatus == {"absent", "pending_submission", "submitted", "skipped_overlap",
                  "skipped_misfire", "submission_failed"}
DeliveryStatus == {"absent", "pending", "delivering", "delivered", "failed",
                   "result_unknown"}
RunActive(k) == run[k] \in {"queued", "running", "waiting_approval"}

TypeOK ==
  /\ now \in 0..MaxTime
  /\ schedule \in [Schedule -> Row \cup {Nil}]
  /\ trigger \in [Key -> TriggerStatus]
  /\ target \in [Key -> Channel \cup {Nil}] /\ mayOverlap \subseteq Key
  /\ delivery \in [Key -> DeliveryStatus]
  /\ attempts \in [Key -> 0..MaximumDeliveryAttempts]
  /\ run \in [Key -> Contract!Status] /\ effects \subseteq Key
  /\ shown \in [Key -> Nat]
  /\ closed \in BOOLEAN
  /\ phase \in {"idle", "submitting", "reconciling", "delivering"}
  /\ todo \subseteq Key
  /\ current \in Await \cup {Nil}
  /\ watchers \subseteq Key
  /\ restarts \in 0..MaxRestarts

Init ==
  /\ now = 0
  /\ schedule = [s \in Schedule |-> Nil]
  /\ trigger = [k \in Key |-> "absent"]
  /\ delivery = [k \in Key |-> "absent"] /\ attempts = [k \in Key |-> 0]
  /\ target = [k \in Key |-> Nil] /\ mayOverlap = {}
  /\ run = [k \in Key |-> "absent"] /\ effects = {}
  /\ shown = [k \in Key |-> 0]
  /\ closed = FALSE
  /\ phase = "idle" /\ todo = {} /\ current = Nil
  /\ watchers = {} /\ restarts = 0

-----------------------------------------------------------------------------
(* create, update and setEnabled: synchronous, so the compare-and-set of    *)
(* the revision in store.update always finds the revision just read.        *)

Revised(s) == schedule[s].revision + 1

Save(s, d) ==
  /\ ~closed
  /\ schedule[s] # Nil => schedule[s].revision < MaxRevision
  /\ schedule' = [schedule EXCEPT ![s] =
       [ revision |-> IF schedule[s] = Nil THEN 1 ELSE Revised(s),
         def |-> d, enabled |-> d.enabled,
         next |-> IF d.enabled THEN firstOccurrence(d.timing, now) ELSE Nil ]]
  /\ UNCHANGED <<now, trigger, target, mayOverlap, outbox, agent, shown,
                 closed, ticker, watchers, restarts>>

-----------------------------------------------------------------------------
(* #reserveDue and store.reserveTrigger.                                    *)

Due == {s \in Schedule : /\ schedule[s] # Nil
                         /\ schedule[s].enabled
                         /\ schedule[s].next # Nil /\ schedule[s].next <= now}

Reserved(s) == Reservation(schedule[s].def, schedule[s].next, now)

KeyOf(s) == [s |-> s, rev |-> schedule[s].revision, at |-> Reserved(s).at]

OverlapsRunning(s) ==                                 \* mutant
  \E k \in Key : k.s = s /\ trigger[k] = "submitted" /\ RunActive(k)
Overlaps(s) ==
  \E k \in Key : /\ k.s = s
                 /\ \/ trigger[k] = "pending_submission"
                    \/ trigger[k] = "submitted" /\ RunActive(k)

Outcome(s) ==
  CASE Reserved(s).misfire -> "skipped_misfire"
    [] ~Reserved(s).misfire /\ ~schedule[s].def.allowOverlap /\ Overlaps(s) ->
         "skipped_overlap"
    [] OTHER -> "pending_submission"

(* store.reserveTrigger for each due schedule, one transaction each, no     *)
(* await between them.  A key reserved before would leave its schedule as   *)
(* it is.  A schedule gives its only reservation of the tick.               *)
ReserveTriggers ==
  LET fresh == {s \in Due : trigger[KeyOf(s)] = "absent"}
      Reserves(k) == k.s \in fresh /\ k = KeyOf(k.s)
  IN /\ trigger' = [k \in Key |-> IF Reserves(k) THEN Outcome(k.s) ELSE trigger[k]]
     /\ target' = [k \in Key |->
          IF Reserves(k) THEN schedule[k.s].def.delivery ELSE target[k]]
     /\ mayOverlap' = mayOverlap \cup
          {k \in Key : Reserves(k) /\ schedule[k.s].def.allowOverlap}
     /\ schedule' = [s \in Schedule |->
          IF s \in fresh
            THEN [schedule[s] EXCEPT !.next = Reserved(s).next,
                    !.enabled = @ /\ Reserved(s).next # Nil]
            ELSE schedule[s]]

(* The synchronous start of #runTick: reserve what is due and list what     *)
(* waits for submission.                                                    *)
TickStarts ==
  /\ ~closed /\ phase = "idle"
  /\ ReserveTriggers
  /\ phase' = "submitting"
  /\ todo' = {k \in Key : trigger'[k] = "pending_submission"}
  /\ UNCHANGED <<now, outbox, agent, shown, closed, current, watchers, restarts>>

-----------------------------------------------------------------------------
(* #submitTrigger and #reconcileTrigger, for the items of a list in turn.   *)
(* The lists are ordered by creation; any order is allowed here.            *)

Takes(k, p) == ~closed /\ phase = p /\ current = Nil /\ k \in todo

(* agent.submit commits the run, or answers for the one it has; attachRun   *)
(* is a transaction of its own.                                             *)
SubmitAccepted(k) ==
  /\ Takes(k, "submitting")
  /\ run' = IF run[k] = "absent" THEN [run EXCEPT ![k] = "queued"] ELSE run
  /\ todo' = todo \ {k}
  /\ current' = [key |-> k, stage |-> "submitted"]
  /\ UNCHANGED <<now, store, outbox, effects, shown, closed, phase, watchers, restarts>>

(* The queue is full: the trigger waits for the next tick.                  *)
SubmitDeferred(k) ==
  /\ Takes(k, "submitting")
  /\ run[k] = "absent"
  /\ todo' = todo \ {k}
  /\ UNCHANGED <<now, store, outbox, agent, shown, closed, phase, current,
                 watchers, restarts>>

(* Any other refusal; the caller's authority over the workspace and the     *)
(* delivery route is tested before the idempotency key is looked up.        *)
SubmitRefused(k) ==
  /\ Takes(k, "submitting")
  /\ trigger' = [trigger EXCEPT ![k] = "submission_failed"]
  /\ todo' = todo \ {k}
  /\ UNCHANGED <<now, schedule, target, mayOverlap, outbox, agent, shown,
                 closed, phase, current, watchers, restarts>>

AttachRun ==
  /\ current # Nil /\ current.stage = "submitted"
  /\ trigger' = [trigger EXCEPT ![current.key] = "submitted"]
  /\ current' = [current EXCEPT !.stage = "looking"]
  /\ UNCHANGED <<now, schedule, target, mayOverlap, outbox, agent, shown,
                 closed, phase, todo, watchers, restarts>>

LooksUpRun(k) ==
  /\ Takes(k, "reconciling")
  /\ todo' = todo \ {k}
  /\ current' = [key |-> k, stage |-> "looking"]
  /\ UNCHANGED <<now, store, outbox, agent, shown, closed, phase, watchers, restarts>>

(* prepareDelivery: ON CONFLICT DO NOTHING.                                 *)
Prepared(k) ==
  IF delivery[k] # "absent" THEN delivery
  ELSE [delivery EXCEPT ![k] = IF target[k] \in Channel THEN "pending" ELSE "delivered"]

(* The output of a scheduler's run is committed with its success, so a run  *)
(* that succeeded has one.                                                  *)
Reconcile ==
  /\ current # Nil /\ current.stage = "looking" /\ phase # "delivering"
  /\ LET k == current.key IN
       /\ delivery' = IF ~closed /\ run[k] = "succeeded" THEN Prepared(k) ELSE delivery
       /\ watchers' = IF ~closed /\ RunActive(k) THEN watchers \cup {k} ELSE watchers
  /\ current' = Nil
  /\ UNCHANGED <<now, store, attempts, agent, shown, closed, phase, todo, restarts>>

(* A watcher is told of its run's end.                                      *)
WatcherReconciles(k) ==
  /\ k \in watchers
  /\ run[k] \in Contract!Terminal
  /\ delivery' = IF ~closed /\ run[k] = "succeeded" THEN Prepared(k) ELSE delivery
  /\ watchers' = watchers \ {k}
  /\ UNCHANGED <<now, store, attempts, agent, shown, closed, ticker, restarts>>

-----------------------------------------------------------------------------
(* #retryDeliveries.                                                        *)

Retryable == {k \in Key : delivery[k] \in {"pending", "failed", "result_unknown"}}

UnlimitedAttempts(k) ==                               \* mutant
  /\ delivery[k] # "pending" => target[k] \in IdempotentChannel
  /\ trigger[k] = "submitted"
MaySend(k) ==
  /\ attempts[k] < MaximumDeliveryAttempts
  /\ delivery[k] # "pending" => target[k] \in IdempotentChannel
  /\ trigger[k] = "submitted"

NothingToReconcile == {}                              \* mutant
Submitted == {k \in Key : trigger[k] = "submitted"}

(* One list is done and the next is read.                                   *)
NextPhase ==
  /\ ~closed /\ current = Nil /\ todo = {}
  /\ \/ /\ phase = "submitting" /\ phase' = "reconciling"
        /\ todo' = Submitted
     \/ /\ phase = "reconciling" /\ phase' = "delivering"
        /\ todo' = Retryable
     \/ /\ phase = "delivering" /\ phase' = "idle"
        /\ UNCHANGED todo
  /\ UNCHANGED <<now, store, outbox, agent, shown, closed, current, watchers, restarts>>

(* Every loop of the tick returns when it finds the scheduler closed.       *)
TickReturns ==
  /\ closed /\ current = Nil /\ phase # "idle"
  /\ phase' = "idle" /\ todo' = {}
  /\ UNCHANGED <<now, store, outbox, agent, shown, closed, current, watchers, restarts>>

SkipsDelivery(k) ==
  /\ Takes(k, "delivering") /\ ~MaySend(k)
  /\ todo' = todo \ {k}
  /\ UNCHANGED <<now, store, outbox, agent, shown, closed, phase, current,
                 watchers, restarts>>

LooksUpOutput(k) ==
  /\ Takes(k, "delivering") /\ MaySend(k)
  /\ todo' = todo \ {k}
  /\ current' = [key |-> k, stage |-> "looking"]
  /\ UNCHANGED <<now, store, outbox, agent, shown, closed, phase, watchers, restarts>>

SendsAnyway == TRUE                                   \* mutant
StillOpen == ~closed

ClaimsDelivery ==
  /\ phase = "delivering" /\ current # Nil /\ current.stage = "looking"
  /\ LET k == current.key IN
       \/ /\ StillOpen
          /\ delivery' = [delivery EXCEPT ![k] = "delivering"]
          /\ attempts' = [attempts EXCEPT ![k] = @ + 1]
          /\ current' = [current EXCEPT !.stage = "sending"]
       \/ ~StillOpen /\ current' = Nil /\ UNCHANGED outbox
  /\ UNCHANGED <<now, store, agent, shown, closed, phase, todo, watchers, restarts>>

(* The message reaches its reader, before the adapter knows.                *)
MessageShown ==
  /\ current # Nil /\ current.stage = "sending"
  /\ shown' = [shown EXCEPT ![current.key] = @ + 1]
  /\ current' = [current EXCEPT !.stage = "sent"]
  /\ UNCHANGED <<now, store, outbox, agent, closed, phase, todo, watchers, restarts>>

Finishes(s, n) ==
  /\ delivery' = [delivery EXCEPT ![current.key] = s]
  /\ attempts' = [attempts EXCEPT ![current.key] = n]
  /\ current' = Nil
  /\ UNCHANGED <<now, store, agent, shown, closed, phase, todo, watchers, restarts>>

(* The adapter answers.  It defers only what it has not written; whatever   *)
(* else it answers or throws, also under an aborted signal, the message may *)
(* have been shown.                                                         *)
AttemptReturned(k) == attempts[k] - 1

SendingWhileOpen == ~closed /\ current # Nil /\ current.stage \in {"sending", "sent"}  \* mutant
Sending == current # Nil /\ current.stage \in {"sending", "sent"}

DeliveryAnswered ==
  /\ Sending
  /\ \/ current.stage = "sent" /\ Finishes("delivered", attempts[current.key])
     \/ \E s \in {"failed", "result_unknown"} : Finishes(s, attempts[current.key])
     \/ current.stage = "sending" /\ Finishes("pending", AttemptReturned(current.key))

-----------------------------------------------------------------------------
(* The environment.                                                         *)

(* A step of the Agent service for one run.                                 *)
AgentMoves(k) ==
  /\ run[k] \in DOMAIN Contract!transitions
  /\ \E e \in DOMAIN Contract!transitions[run[k]] :
       /\ run' = [run EXCEPT ![k] = Contract!transitions[run[k]][e]]
       /\ effects' = IF e = "start" THEN effects \cup {k} ELSE effects
       /\ Contract!Transition(k, e)
  /\ UNCHANGED <<now, store, outbox, shown, closed, ticker, watchers, restarts>>

ClockTicks ==
  /\ now < MaxTime
  /\ now' = now + 1
  /\ UNCHANGED <<store, outbox, agent, shown, closed, ticker, watchers, restarts>>

(* close() stops the timer, aborts the delivery in flight and awaits the    *)
(* tick.                                                                    *)
Close ==
  /\ ~closed /\ closed' = TRUE
  /\ UNCHANGED <<now, store, outbox, agent, shown, ticker, watchers, restarts>>

ForgottenSend(s) == IF s = "delivering" THEN "pending" ELSE s   \* mutant
RecoveredDelivery(s) == IF s = "delivering" THEN "result_unknown" ELSE s

(* The process ends, closed or not, and starts again: open() of both        *)
(* services.                                                                *)
Restart ==
  /\ restarts < MaxRestarts
  /\ restarts' = restarts + 1
  /\ run' = [k \in Key |-> IF run[k] \in Contract!Active
                             THEN Contract!Recovered(k \in effects) ELSE run[k]]
  /\ delivery' = [k \in Key |-> RecoveredDelivery(delivery[k])]
  /\ closed' = FALSE
  /\ phase' = "idle" /\ todo' = {} /\ current' = Nil /\ watchers' = {}
  /\ UNCHANGED <<now, store, attempts, effects, shown>>

-----------------------------------------------------------------------------
TickStep ==
  \/ \E k \in Key : \/ SubmitAccepted(k) \/ SubmitDeferred(k) \/ SubmitRefused(k)
                    \/ LooksUpRun(k) \/ SkipsDelivery(k) \/ LooksUpOutput(k)
  \/ AttachRun \/ Reconcile \/ NextPhase \/ TickReturns
  \/ ClaimsDelivery \/ DeliveryAnswered

Next ==
  \/ \E s \in Schedule, d \in Definition : Save(s, d)
  \/ TickStarts \/ TickStep
  \/ \E k \in Key : WatcherReconciles(k) \/ AgentMoves(k)
  \/ MessageShown
  \/ ClockTicks \/ Close \/ Restart

Spec == Init /\ [][Next]_vars

(* The timer is armed again after every tick and save, and the channel      *)
(* answers at last; nothing is assumed of the Agent service, the users, the *)
(* clock or the shutdown.                                                   *)
Fairness ==
  /\ WF_vars(TickStarts) /\ WF_vars(TickStep)
  /\ \A k \in Key : WF_vars(WatcherReconciles(k))

LiveSpec == Spec /\ Fairness

-----------------------------------------------------------------------------
(* Safety.                                                                  *)

(* An execution of a schedule lives while its trigger waits for submission  *)
(* and while its run is not over, whatever became of the trigger.           *)
Live(k) == trigger[k] = "pending_submission" \/ RunActive(k)

Earlier(j, k) == j.s = k.s /\ (j.rev < k.rev \/ (j.rev = k.rev /\ j.at < k.at))

(* A crash cut off attachRun from the submission, and the next submission   *)
(* was refused: the trigger is recorded as failed, but it has a run.        *)
Orphaned(k) == trigger[k] = "submission_failed"

(* docs/application-architecture.md:124: executions do not overlap by       *)
(* default.  Of two live ones of a schedule the later was reserved while    *)
(* the schedule allowed it.  The code breaks it: a reservation does not see *)
(* an orphan (scheduler/store.ts:262-270).                                  *)
ExecutionsDoNotOverlap ==
  \A j, k \in Key : Earlier(j, k) /\ Live(j) /\ Live(k) => k \in mayOverlap

(* The same of every execution but the orphans, whatever a full queue, an   *)
(* edit of the schedule, a slow run or a restart does in between.           *)
NoOverlap ==
  \A j, k \in Key : Earlier(j, k) /\ Live(j) /\ Live(k) /\ ~Orphaned(j) => k \in mayOverlap

(* A revision only moves forward: it is next due after everything it has    *)
(* reserved.  So no occurrence is reserved twice, and a due schedule never  *)
(* finds its key taken, which would leave it due for ever.                  *)
ScheduleAdvances ==
  \A k \in Key : trigger[k] # "absent" /\ schedule[k.s].revision = k.rev =>
    schedule[k.s].next = Nil \/ schedule[k.s].next > k.at

(* Every message the reader got is counted as an attempt, across deferrals, *)
(* shutdown and restart; without idempotency there is never a second one.   *)
DeliveryCounted ==
  \A k \in Key : shown[k] <= attempts[k] /\ (target[k] \notin IdempotentChannel => attempts[k] <= 1)

-----------------------------------------------------------------------------
(* What a step may never do.                                                *)

(* Once close() has been called no delivery is started, although the tick   *)
(* it waits for may be between a lookup and a claim.                        *)
NoSendAfterClose ==
  [][closed => \A k \in Key : delivery'[k] = "delivering" => delivery[k] = "delivering"]_vars

-----------------------------------------------------------------------------
(* Liveness.                                                                *)

(* The output of a submitted run is handed to delivery, also when the       *)
(* process that watched the run is gone.                                    *)
ResultReachesDelivery ==
  \A k \in Key :
    trigger[k] = "submitted" /\ run[k] = "succeeded" ~> (delivery[k] # "absent" \/ closed)

(* close() resolves, unless the process dies first.                         *)
CloseSettles == closed ~> (phase = "idle" \/ ~closed)

(* Both: results and shutdown make progress beside each other.              *)
DeliveryProgresses == ResultReachesDelivery /\ CloseSettles
=============================================================================
