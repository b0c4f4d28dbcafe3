# Yuanpu agent: a TLA+ verification of its runtime

Yuanpu is a desktop assistant. An Electron shell supervises one runtime
process; the runtime queues and executes agent runs, asks a person before a
capability with an external effect is called, starts runs on a schedule,
answers instant messages, and drives a model through vendored Pi packages.
This directory specifies the parts of the runtime in which several actors
share state across awaits, crashes and restarts, model-checks them on small
instances with TLC and proves some of their invariants for every instance
with TLAPS. `PROJECT.json` lists the runs, what each definition translates
(`map`), the hazards of the code and the theorems.

Paths below are relative to the repository; `runtime/` stands for
`packages/yuanpu-runtime/src/`, `app/` for `apps/runtime/src/`, `desktop/` for
`apps/desktop/src/`.

Contents: [inventory](#1-inventory) - [plan](#2-plan) -
[modules](#3-modules-and-how-they-correspond-to-the-code) -
[runs](#4-runs-bounds-and-what-they-show) - [fairness](#5-fairness) -
[proofs](#6-proofs) - [findings](#7-findings) -
[limits](#8-what-is-only-model-checked-and-what-is-not-modelled) -
[running it](#9-running-it)

## 1. Inventory

The runtime is one Node.js process. Its JavaScript runs on one thread, so two
callers interleave only where one of them awaits; what it may not lose is in
SQLite databases, above all `workflows/automation.sqlite`, written in
synchronous transactions. The hard behaviours come from four sources: awaits
between a read and the act it decides, the process dying between two
transactions, effects outside the process (a capability, a message) whose
outcome may be unknown, and `close()` running beside everything else.

### Parts that keep a protocol

| Component | State | Operations | Hard behaviour | Correct when |
|---|---|---|---|---|
| **Agent service** `runtime/agent/service.ts`, `persistence/agent-run-store.ts` | rows of `yp_agent_runs` (status, effect checkpoint, approval id), queue payloads, outputs, session bindings; in memory workers, reserved and waiting bindings, abort controllers, approval owners, expiry timers, live outputs, parked slot waiters | submit, dispatch, execute, cancel, begin/complete/fail approval, expire, close, recover | every operation reads, awaits and acts; five of them may free the same session; a crash after a claim | a Pi session is serial, slots are bounded, a run is executed at most once and in order, someone in memory will end every active run, an abort sticks, `close()` leaves nothing running |
| **Agent run contract** `runtime/agent/contracts.ts` | status of a run and whether it may have had an effect | one transition per event | - | every step of every caller is in the table; after a crash a started run is never called harmless |
| **Scheduler** `runtime/scheduler/service.ts`, `store.ts` | schedules with a revision, triggers by (schedule, revision, time), delivery attempts; in memory the tick in progress and watchers | create, update, enable, tick (reserve, submit, reconcile, deliver), watch, close, recover | a run and its trigger are two transactions; a message may be shown although its adapter failed; a schedule edited between two steps | nothing fires twice or overlaps, whatever is due is reserved, a result reaches delivery, a message is never repeated without idempotency |
| **Schedule time** `runtime/scheduler/time.ts` and `#reserveDue` | none | first and following occurrence, choice of what to catch up | misfires, the lateness bound, the limit of the catch-up loop | a scan leaves nothing due, fires the latest occurrence, within the lateness |
| **Channel router** `runtime/channels/router.ts`, `store.ts` | inbound rows (input, run id), outbound rows (receipt); in memory recovery, watchers, replies in flight | start, recover, text, `/cancel`, unsupported message, reply, close | the provider replays; row, run and link are three transactions; the receipt may come after `close()` recorded it as unknown | one message, one reply; a run is followed over routers and processes |
| **WeCom transport, connection settings, scheduled sends** `runtime/channels/adapters/wecom.ts`, `app/wecom-channel.ts`, `app/scheduled-im-delivery.ts` | connection document, the current router, sends in flight per target | connect, test, replace, send, revoke a target | a router replaced while the scheduler is sending; a revocation against a send | one live router; no send to a target whose revocation has returned |
| **Capability approvals** `runtime/capabilities/approval.ts`, `index.ts` | approval records with a digest and an expiry, a document written after each change, pending executions | request, approve, deny, consume, cancel of a run or a session, expire | memory changes before the write; expiry between the decision and the use | an approval is consumed at most once, by the call it was given for |
| **Assistant delegations** `app/assistant-delegation-*.ts` | a ledger row per task, a queue of operations per task, jobs with a deadline, the adapter's own state file, effects in flight | start, follow up, cancel, status, decide, settle, close, recover | saves of captured records, an adapter that answers from its own file, two decisions on one effect | a turn is run once, a cancelled turn does nothing more, "completed" is about the current turn |
| **Host notifications** `runtime/notifications/index.ts`, `desktop/host-event-client.ts`, `notification-host.ts` | pending events by id, the replay buffer of the event stream, receipts of the native host | publish, connect, replay, acknowledge, expire | a reconnection between showing and acknowledging | shown at most once, answered with what happened |
| **Runtime lifecycle** `app/runtime-host.ts`, `process-lifecycle.ts`, `index.ts` | which services are open, the exit deadline | start, ordered close, forced exit | closing A waits for B which still uses A | `close()` of all returns, the database is closed last |
| **Assistant worker supervision** `app/assistant-worker-manager.ts` | child process, readiness, restart budget, requests in flight | start, request, stop, restart with back-off | a stop while a start is in flight, an exit with requests open | one child, every request answered |
| **Work directory move** `app/work-directory-move.ts` | a journal, directories, session headers, database rows | prepare, rename, commit, roll back, recover | a crash between two renames | after recovery all of it moved or none |
| **Assistant host and automation** `app/assistant-host.ts`, `packages/yuanpu-assistant/src/automation.ts` | diverted messages, an automation queue with leases | accept, prompt, answer; lease, retry, pre-empt | as the router and the agent queue | one answer; one lease holder |
| **Runtime update** `desktop/runtime-manager.ts`, `runtime-updater.ts` | staged and active version, activation record, copy of the database with its log | stage, promote, launch, confirm, roll back, recover | each operation on the disk may fail or be the last one before a crash, and a read that fails is answered like a missing file; the new version migrates the database the old one may have to read again | what runs opens its own data, an unconfirmed version is tried once, a failed one is rolled back with its database, until a record or the pointer is lost |

How they interact: the scheduler, the router and the HTTP API submit to the
Agent service under an idempotency key and subscribe to the run's end. The
Agent service calls an executor (`app/agent-runtime.ts`, a Pi session), which
asks the capability broker; a call that needs a person ends the execution
with an approval request, and the decision route of the HTTP API later takes
the run over with `beginApproval`, calls the capability and settles the run.
The Agent service and the approval store call each other's cancellation. The
scheduler delivers through the router's scheduled sends and through host
notifications. The lifecycle closes the scheduler, then the channels, then the
rest, then the database.

### Parts without a protocol of their own

The database wrapper and its migrations, packages and artifacts, MCP sources,
configuration and model settings, builtin capabilities, work evidence, titles
and search, protocol types, the sandbox, the desktop shell and interface, the
catalog server, the Python example, the Tailscale connection and the vendored
Pi packages: sequential code, single transactions, user interface, operating
system calls or another project. `PROJECT.json` gives the reason for each.

### Hazards

`PROJECT.json` lists forty, each at its line with the properties that would
catch it. They are of the kinds above: decisions on a record read before an
await (`agent/service.ts:190`), a resource freed by several parties (`:452`),
a counted slot taken after a wait (`:354`), a level-triggered dispatcher
(`:434`), a crash between two transactions (`scheduler/service.ts:405`,
`channels/router.ts:348`), a message that may have been shown
(`scheduler/store.ts:363`, `channels/store.ts:391`,
`desktop/notification-host.ts:124`), an answer that comes late
(`channels/store.ts:403`, `app/assistant-delegation-service.ts:155`), memory
changed before the document that should say so (`capabilities/approval.ts:259`),
a crash between two renames (`app/work-directory-move.ts:104`) or two steps of
an update (`desktop/runtime-updater.ts:177`), `close()` beside all of it, and
the limits of time arithmetic. A property that holds only with an exception
names it; the exceptions are the subject of section 7.

## 2. Plan

Order: what the rest of the system rests on first.

| # | Module | What | State |
|---|---|---|---|
| 1 | `AgentRunContract` | abstract: what a run may do | done |
| 2 | `AgentService` | the queue, approvals, cancel, close, crash; refines 1 | done, proved |
| 3 | `ScheduleTime` | occurrences and misfires as operators | done, proved |
| 4 | `Scheduler` | extends 3, uses 1 as its Agent service | done, proved |
| 5 | `ChannelRouter` | uses 1 as its Agent service | done, proved |
| 6 | `CapabilityApprovals` | the store and its document, consumption, expiry, failed writes | done |
| 7 | `AssistantDelegations` | extends 6: the ledger, its queues, jobs, the adapter's file, deadlines, the decision route | done, proved |
| 8 | `AtomicMove`, `WorkDirectoryMove` | an atomic move, and the journal, renames and recovery that refine it | done, proved |
| 9 | `HostNotifications` | events, replay, receipts, the native host | done, proved |
| 10 | `RuntimeUpdate` | staging, activation, confirmation, rollback | done, proved |
| 11 | `ChannelRouter` extended | scheduled sends, targets and their revocation | done, proved |
| 12 | `RuntimeShutdown` | the order of the close() calls and the forced exit over abstractions of 2, 4, 5 | not done |
| 13 | `AssistantWorker` | supervision of the worker process | not done |

Abstract specifications: the run contract (1) is the target of a refinement
(2) and the environment of others (4, 5); the atomic move is the target of 8.

Runs: one per question. A module has one passing run with its safety and
action properties, and a second, smaller one where its liveness properties or
a question of their own need another instance.

## 3. Modules and how they correspond to the code

An action is what the code does between two awaits at which another caller
can be let in. When a handler awaits something that only resumes it in the
next microtask, before any other callback can run, the two halves are one
action. A crash is an action of its own that may come between any two others;
where the code makes two writes without an await, a crash between them is an
extra action. SQLite transactions are single steps that survive a crash; those
with guards or several writes are operators of their own (`Enqueue`,
`ClaimQueued`, `MarkWaitingApproval`, `ReserveTriggers`, `AcceptInbound`, ...).
A definition marked `\* mutant` is a wrong form of the next one, used to show
that the properties can fail; nothing else refers to it.

### AgentRunContract

`status` of each run and `effects`, the runs whose `external_effect_state` is
'possible', the transition table of `agent/contracts.ts` as a function, and
the recovery rule: a run that started is `result_unknown` after an
interruption, one that never did is `interrupted`. Several runs may move in a
step, because a dispatch claims several and a recovery ends all.

### AgentService

| Variables | Code |
|---|---|
| `status, effects, approvals, request` | columns of `yp_agent_runs` |
| `bindings, payloads, outputs` | `yp_conversation_bindings`, `yp_agent_run_queue_payloads`, `yp_agent_run_outputs` |
| `worker` | `#activeWorkers`, with whether `#execute` awaits the executor or `approvals.cancelRun` |
| `activeBindings, waitingBindings, controller` | `#activeBindings`, `#waitingBindings`, `#abortControllers` and their signals |
| `approvalRuns, approvalExecutions, expiryTimers, liveOutputs, slotWaiters, dispatchScheduled` | the fields of those names |
| `closePhase, closeTodo, closeRun` | `#closed`, `#closePromise` and where `close()` is |
| `cancels, deciders` | calls of `cancel` between their read and their act; decisions between `beginApproval` and its settlement |

| Actions | Code |
|---|---|
| `Submit` | `submit` for an admitted request; duplicates and refusals change nothing |
| `Dispatch` | `#scheduleDispatch`, `#dispatch`, `listQueued`, `claimQueued` |
| `WorkerSucceeds`, `WorkerAwaitsApproval`, `WorkerFails`, `WorkerObservesAbort`, `WorkerSettles` | the exits of `#execute` with the `finally` of its caller |
| `CancelReads`; `CancelQueued`, `CancelAborts`, `CancelWaiting`, `CancelFindsNothing` | `cancel` before and after its awaited read |
| `BeginApproval`, `ResumeBeginApproval`, `CompleteApproval`, `FailApproval` | the same names, driven by the decision route of `app/index.ts` |
| `ExpireApproval` | `#expireApproval` and its timer |
| `Close`, `CloseAdvances`, `CloseFinishes` | `close` up to its first await, after each `cancelRun`, at its end |
| `Restart` | the process dies; `open` and `recoverActiveRuns` |

Abstractions. A run's number is its place in `(created_at, rowid)` order, the
wall clock not stepping back. A session is named by the conversation bound to
it. `RecordStatus` is guarded as the `UPDATE` is by its `WHERE`. `close()`
visits the waiting runs in any order (a superset of the map's order). An
executor may return at any moment, or late, whatever its signal. An
`approvals.cancelRun` that throws would be an unhandled rejection, which ends
the process: that is `Restart`.

### ScheduleTime and Scheduler

`ScheduleTime` is the arithmetic: `NextCron` for `nextCronOccurrence`,
`Reservation` for what `#reserveDue` decides, over a cron expression
abstracted to the minutes it selects (every `period`-th from `phase`) and
time counted in units, `Minute` of them to a minute, so that a scan can fall
between two minutes. `MCScheduleTime` drives it with a clock and a scan that
comes whenever it likes.

`Scheduler` extends it. `schedule` is `yp_schedules`, `trigger`, `target` and
`mayOverlap` the triggers with the parts of their request snapshot that
matter, `delivery` and `attempts` `yp_delivery_attempts`; `phase`, `todo` and
`current` are where the promise of the tick is (`#tickPromise`), `watchers`
is `#watchers`. `Save` is create, update and setEnabled (synchronous).
`TickStarts` is the synchronous start of `#runTick` with all the reservations;
`SubmitAccepted`, `SubmitDeferred`, `SubmitRefused` and `AttachRun` are
`#submitTrigger`; `LooksUpRun`, `Reconcile` and `WatcherReconciles` are
`#reconcileTrigger` and `#watch`; `SkipsDelivery`, `LooksUpOutput`,
`ClaimsDelivery`, `MessageShown` and `DeliveryAnswered` are
`#retryDeliveries`; `NextPhase` and `TickReturns` its loops; `Restart` is the
crash with `recover`.

The Agent service is `AgentRunContract`, a run named by the trigger key it
was submitted under; it moves at any time. The lists of a tick are worked off
in any order. An adapter may show the message or not and then answer
anything, except that it defers only what it has not written. `IdempotentChannel`
are the channels whose adapter can repeat a send safely; WeCom is not one.
A scheduler's run that succeeded has a persisted output (`AgentService`'s
`PersistOutput`). The catch-up loop's error is left out of `Scheduler`
because `CatchUpBounded` shows it cannot be reached.

### ChannelRouter

`row` is `yp_channel_inbound` by which of its columns are set, `out` is
`yp_channel_outbound.status`; `router`, `todo` follow `start` and
`#recoverAfterReady`, `closing` follows `close`, `handler` is the await a
message's handler is at, `reply` is `#watching` together with the reply in
flight, `written` counts the replies handed to the transport. Routers follow
each other: `Start` after `CloseReturns` is a new router over the same
database (a settings change), after `Restart` a new process.

`ReceiveNew`, `ReceiveKnown`, `ReceiveUnsupported` are `handleInbound`;
`Dispatches`, `AttachRun`, `ClearInput`, `CancelThrows` are
`#submitPersistedInbound` and `#cancelPersistedInbound`; `WatcherTold`,
`WatcherReplies`, `WatcherAborted` are `#deliverWhenTerminal` over
`subscribe`; `ClaimReply` is `#reply` up to the transport's await, which is
createOutbound, claimOutbound, the test of `#closed` and the call;
`ReplyAnswered` is the rest. `Ready`, `RecoverUnsupported`, `RecoverWatches`,
`RecoverInput`, `RecoveryEnds` are the recovery, `Close`, `Drained`,
`CloseReturns` is `close`. `DiesInReply` is a crash between the writes that
`ClaimReply` makes without an await.

A run is named by the message it was submitted for. A message turned away
without a write is no step. A watcher that was told of a run's end may still
meet `close()` before it replies. A recovery that throws rejects the promise
every later message awaits: the router is `"broken"` until it is replaced. A
success's output is not empty and fewer than a hundred follow it before the
reply (`#liveOutputs` keeps a hundred).

Scheduled sends go beside the replies: `bound` is the target column of the
contact's row, `sends` the keys of `#scheduledSends`, `revoking` the DELETE
requests that wait in `waitForScheduledTarget`. `Bind` and `Revoke` are the
handlers of `scheduled-im-delivery.ts` with the statements of the store they
run, `SendScheduled` and `SendEnds` the two halves of `sendScheduled`. The
answer to a revocation follows the end of the send it awaits with nothing but
promise callbacks between, so `SendEnds` is both. One contact is modelled,
and several sends to one target at once are one, until the last has ended. A
contact may be bound again at once after its revocation, where the code waits
for its next message; a fresh id takes the name of one that was answered for,
since nothing remembers that one.

### CapabilityApprovals and AssistantDelegations

`CapabilityApprovals` is the approval store: `approval` is `#records` by the
status of each request, `document` the same in the file (`#persist` may fail
after the memory has changed), `execution` is `#pendingExecutions`, `lapsed`
the requests whose `expiresAt` has passed. Its operators are the operations of
the store; they become actions in `AssistantDelegations`, which extends it.

| Variables | Code |
|---|---|
| `ledger` | the task's file in the ledger of `app/assistant-delegation-service.ts`; a status "absent" is no file |
| `queue` | `operations`: what `exclusive` runs for a task, one at a time |
| `job` | `active`: the job `dispatch` started, with its signal, the record it captured and its result |
| `run`, `state` | the adapter's run of the task (`assistant-delegation-local.ts`) and its `adapter-state.json` |
| `handler` | where each call of the decision route of `app/index.ts` is |
| `closed`, `overdue`, `owner` | the flag, the tasks past `deadlineAt`, who asked for each request |
| `prompts, performed, inFlight, answers, revoked, decisions` | observed: what the model, the capability and the user saw |

| Actions | Code |
|---|---|
| `CallsAny` | the public operations, up to joining the queue |
| `Start`, `Follow`, `Decide`, `Cancel`, `Status`, `Expire`, `Begin`, `Settle`, `Running`, `End` | the queued operations, each up to its last write; `OperationFails` is one whose read or write throws |
| `DeadlinePasses`, `TimesOut` | the timer of `dispatch` and its abort |
| `RunOpens`, `RunPrompts`, `RunAnswers`, `RunVerifies`, `RunAsks`, `RunThrows`, `RunCloses` | the adapter's `run` between its awaits, with the grant check of `assistant-delegation-host.ts` and `execute` of `capabilities/index.ts` |
| `Receives`, `Look`, `ToSettle`, `Approves`, `CallEnds` | the decision route, with its catch |
| `AgentRunAsks`, `AgentRunCancelled`, `ListsRequests`, `TimePasses` | the other users of the store and the clock |
| `Close`, `Restart` | `close`, and the death of the process with `open` of both services and `reconcileEffectApprovals` |

A task is at turn `n` after `n` accepted follow-ups; the fields of a brief and
the texts of results are left out. A turn's first deadline passes at any time;
that a follow-up made after the original deadline can get no grant follows
from `overdue` never being reset. A run outlives the job that was aborted and
may answer late or never.

### AtomicMove and WorkDirectoryMove

`AtomicMove` is what a move promises its readers: the tree is in one place
whenever it can be read, and a request moves it once. `WorkDirectoryMove` is
`app/work-directory-move.ts` with `commitMove` of the conversation store: `at`
is the place of each directory and the `cwd` each session header names, `row`
the paths in the database, `journal` its records, `task` the move or recovery
in progress with its phase and step, `mode` the state of the process, `users`
the lease and the run that outlives it. `Move`, `Prepare`, `SaveJournal`,
`MoveStep`, `Commit`, `Throws`, `ReconcileStep`, `Settle` follow `move` and
`#reconcile`; `Boot` and `Recover` the next start. `Meddle` is another program
that occupies a name or appends to a session file. A rename may take effect
and then fail (its directory cannot be synced), so a failing step has both
outcomes. Reading the database is assumed to succeed.

The refinement mapping (`PlaceRead`, `Taken`, `Open`): a reader finds the tree
where the database says, or nowhere if it is let in while a file is elsewhere;
a request is taken once its record is committed.

### HostNotifications

`pending`, `answer` and `record` are `#pending`, the promises and the durable
receipts of `runtime/notifications/index.ts` and `scheduler/store.ts`;
`connected`, `stream`, `peer` the event stream of `app/index.ts`; `client`,
`current`, `receipt` where the loop of `desktop/host-event-client.ts` is;
`memory`, `active` the remembered receipts and held notifications of
`desktop/notification-host.ts`; `shows` and `displayed` what the system was
given and has put on the screen. `RequestNotification`, `Acknowledge`,
`Close`, `Exit`, `Start` are the Runtime's side, `Connect` to `PostRefused`
the client's, `Submit`, `Display`, `ShowEvent`, `FailedEvent`, `Timeout`,
`CloseNative` the host's; `Break` and `PostLost` are the faults of the
connection, `Quit` the App's end. `Without` is the deletion of a map's key. The Runtime sets no receipt timeout, so none
is modelled.

### RuntimeUpdate

`current`, `activation`, `staging`, `backup` are the files of
`desktop/runtime-updater.ts`, `database` the metadata database as a main file
and a log that belongs to one; `pc`, `doing`, `after` say which step of
`start()` (`desktop/runtime-manager.ts`) is under way, `launched` is the
command of the child with its pending flag, `confirming` the calls of
`confirmActivation` under way and `download` that of `stage`. `good`, `trial`,
`tries` and `lapses` observe.

| Actions | Code |
|---|---|
| `Start`, `Recover` | `prepareActivation` up to the read of the record in `recoverUnconfirmedActivation` |
| `RestoreStep`, `RestoreFails` | the restoring and the three writes after it, one operation at a time |
| `PromoteStep`, `Install`, `PromoteFails` | `promoteStaged` one operation at a time; `giveUp` is the removal of the staged files after it found nothing to promote or failed |
| `Decide`, `Launches` | the reads of the pointer and of the record that choose the command |
| `Migrate`, `Healthy`, `LaunchFails`, `Work`, `RuntimeEnds`, `AppEnds` | the child, its launch and its end |
| `Rollback`, `Fallback` | `rollbackActivation` after a failed launch, and what it launches when it finds no record of it |
| `Confirm`, `ConfirmStep`, `ConfirmFails` | the timer of `scheduleActivationConfirmation` and the removals of `confirmActivation`, which nothing stops when the Runtime ends: they may go on beside the next start |
| `Download`, `Publish` | `stage` |

`pendingActivation` and `currentRuntime` answer every error with `undefined`.
So each read of the record or of the pointer has a second outcome, in which the
code goes on as if there were no such file, and `lapses` notes which of them
has happened:

| Lapse | What happened | Source |
|---|---|---|
| `dropped` | `Recover` did not read the record and removed it | `runtime-updater.ts:223-225`, `:230-232` |
| `retried` | `Rollback` did not read it and launches the version that failed | `:311-313` |
| `packaged` | `Decide` or `Fallback` did not read the pointer and launches the packaged Runtime, or `Install` records that as the previous one | `:205-207`, `:274`, `:294-297` |
| `beside` | a confirmation was under way while `Recover` read the record | `:306-307`, `runtime-manager.ts:258` |

A failed read of the record in `Decide` or `Confirm` only leaves the version
unconfirmed and is a fault without a lapse.

A snapshot is always taken, because only a running Runtime stages an update
and it has made the database. The timer and its read of the record are one
step, and so is the removal of the copies by a confirmation; the record goes
before them, so nobody needs the copies in between. The old Runtime is gone
when a restarted App looks: it ends itself within half a second of its parent
(`app/process-lifecycle.ts`), and the model does not follow it through that
time.

## 4. Runs, bounds and what they show

`CHECK_DEADLOCK FALSE` stands in every configuration: each of these services
may rightly have nothing to do, and a bounded instance stops when its bounds
are used up. That nothing waits for ever is stated by the liveness properties
and by `NoRunForgotten` and `NothingForgotten`.

| Run | Instance | Shows |
|---|---|---|
| `agent_sessions` | 3 runs, 2 conversations (one IM), 2 slots, queue of 2, 1 decision, 1 cancel, 1 restart | `SessionLeases`: sessions are serial and no binding leaks; `NoRunForgotten`: every active run has an owner and the queue is not stranded; `ClosedIsQuiet`; `ContractSpec`: each step is in the contract (refinement); `ExecutionOrder`: at most one execution per key, in order within a conversation; `AbortSticks` |
| `agent_liveness` | 2 runs, 1 slot, 2 decisions, 1 cancel, no restart | `SlotDiscipline`: the slot bound and no lost wake-up; `SingleDecision`; `RunsEnd`: queued and aborted runs end; `CloseCompletes` |
| `agent_cancel_lost` | as the first | the finding of section 7 |
| `schedule_time` | a minute of 3 units, periods to 4 minutes, 9 minutes, every policy and lateness | `CatchUpSettles`: the loop stays within its limit and a scan leaves nothing due; `FiresWithinBound`: the latest occurrence fires, at most a minute over the bound |
| `scheduler_triggers` | 1 schedule, 2 revisions, 4 cron definitions, 4 units of time, 1 restart | `NoOverlap`: of two executions that are not over the later was allowed to overlap, or the earlier is an orphan; `ScheduleAdvances`: a schedule and its revisions only advance |
| `scheduler_delivery` | 1 schedule, 2 channels, 2 attempts, 2 minutes, 1 restart, close | `DeliveryCounted`: attempts counted and not repeated; `NoSendAfterClose`; `DeliveryProgresses`: due schedules, results and close progress |
| `channel_replies` | 1 text, its `/cancel`, 1 unsupported message, 1 target, 2 routers, 1 restart | `ReplyAtMostOnce`; `DecidedIsFinal`; `StoppedIsQuiet`: no reply after close, no send to a revoked target or by a closed router; `NothingForgotten`: runs followed, input not stranded; `RepliesSettle`: replies decided, close and revocations resolve |
| `delegation_tasks` | 1 task, 1 follow-up, 1 request, 1 decision handler, 1 failed write, 1 close or crash | `SubmittedOnce`: no turn reaches the model twice; `FinalStaysFinal`: refused, spent, cancelled and expired requests stay so; `InterruptedEffectStaysUnknown`; `CancelledIsFinal`; `AnswerOfItsTurn`: no turn the model saw is answered with an older result |
| `delegation_decisions` | 1 task, 1 request, 2 decision handlers, no faults | `EffectAtMostOnce`; `EffectOnRecord`: the ledger says so while an effect is made; `DelegationsSettle`: jobs and decisions end |
| `work_move` | a move away and one back; 1 work directory, 1 tool state, 2 sessions; 2 failing steps, 3 changes by others, 3 crashes | `MovesAtomically` (refinement of `AtomicMove`); `LeasesHonoured`; `SettlesUnaided` |
| `notifications` | 3 requests (1 of a scheduled run), a table of 2, 1 remembered receipt, 1 held notification, 1 fault, 1 restart | `ShownOnce`; `AnswersMatchTheScreen`; `RequestsAnswered` |
| `runtime_update` | the packaged version and 2 published ones, the second bad; 2 changes, 3 faults, 3 crashes | `RunsOnItsOwnData`: what is launched can open the database; `KnownGoodOrProvisional`: what runs was confirmed or has a record that leads back; `TriedOnce`; `RuntimeComesBack`, each up to the losses it names |

Why the bounds are enough to be of interest. Agent: two runs of one
conversation and one of another make a session contended while a slot is
free, and a queue of two can be full; one decision, one cancel and `close()`
are three parties that may end the same run besides its worker and its timer;
one crash reaches every recovery, since recovery keeps nothing of the
process. The slot contention needs two decisions and a dispatcher for one
slot, which is the second instance. Scheduler: four units of time are two
minutes, so a catch-up, a misfire of either policy and a late scan within a
minute all happen with `CatchUpLimit = 1`, and the second revision can
reserve while a run of the first is active. Delivery: two attempts are a
first and a last one. Router: a message is independent of the others but for
`/cancel` and the recovery's lists; two openings and a crash give a run
submitted under one router and answered under another, in the same process
and in the next one. Delegations: tasks share nothing but the approval store
and the route's handlers, so one task suffices; a follow-up is a second turn
with an older result on disk, and one failed write and one crash can fall into
any step of either turn. The decisions run trades the follow-up, the faults
and the restart for a second handler, so that two decisions meet in every
order; `EffectAtMostOnce` with faults and restarts is the theorem's. Move: two
headers behind two directories put a failing step first, in the middle and
last; one fault in the move and one in its recovery, and a crash in each.
Notifications: a third request finds the table of two full, and one remembered
receipt is the smallest memory the claim is made for. Update: the bad version
may follow a good one or not; three crashes are one in the activation, one in
its recovery and one in the next, and three faults a read that fails after two
failed writes. Every lapse happens at these bounds and each property fails
without the exceptions it names.

`MaxRuns`, `MaxRestarts`, `MaxTime`, `MaxRevision`, `MaxOpenings`, `MaxFaults`,
`MaxMeddling`, `MaxCrashes`, `MaxWork` and `MaxVersion` are bounds of the
instances alone and stand in guards; so is `Overtaken`, the operations a
cancellation may be queued behind (otherwise the operations of a task are
called when its queue is empty). The others are limits of the code or its
inputs.

Each property of a passing run has a mutant in `PROJECT.json`: a plausible
wrong form of a definition under which the run finds the property violated.

## 5. Fairness

Weak fairness only, of steps the event loop itself will take: a scheduled
dispatch, a resumed await, a timer that is due, the next step of a `close()`
in progress, a woken waiter or subscriber, a queued operation of a task. It
includes that calls out of the component return at last. For the Agent service
these are the executor, an approved capability and `approvals.cancelRun`:
`#execute` has no timeout of its own, it relies on the executor to end and,
when the signal is raised, on the session's abort (`runtime/pi/index.ts`), so
`RunsEnd` is a promise of the service to the extent that executors keep
theirs. A run that waits for a person needs no such assumption, since its
expiry timer is armed. For the scheduler it is the adapter's answer, to which
`close()` passes an abort, and for the router the transport's answer (the
WeCom client times out after ten seconds) and its `ready()`, which `close()`
resolves.

Delegations: the queued operations, the adapter's own awaits, the timer of a
turn and the steps of the decision route, whose capability is timed out. The
model is left out: `RunAnswers` has no fairness, and `DelegationsSettle` holds
because the timer aborts the job. Work move: the awaited steps of a move or
recovery and the next start of a dead process; `SettlesUnaided` excuses a
failing step and other users of the files. Notifications: the loop of a running
App, the two-second timer of a submission, the Runtime's answers to posts, its being started
again by the App, and its ending after the App. Update: a start goes on, and is
made again after it failed, since the loop of the host event client calls
`start()` until it succeeds.

Nothing is assumed of users (a decision or a cancel may never come), of the
provider and the network, of the model run behind the contract in `Scheduler`
and `ChannelRouter`, of `close()` being called or of the process dying: the
liveness properties that need a run to end start from its having ended.

## 6. Proofs

One module of theorems for each of the Agent service, the schedule's time, the
scheduler, the router, the delegations with the approval store, the work move,
the update and the notifications, checked leaf by leaf. Every safety invariant
and every action property of the runs is stated by a theorem.
The theorems hold for any sets of conversations, requests, schedules, definitions,
messages, tasks, trees, versions and callers and any bounds, from the
assumptions the modules name: `LimitsAssumption`, `RequestAssumption`,
`MinuteAssumption`, `ClockAssumption` (the sentinel is no instant),
`SchedulerAssumption`, `DefinitionAssumption` (a
definition is one `readInput` admits), `NilAssumption` (the sentinel is none
of the values), `ChannelAssumption` (message kinds are disjoint, `/cancel`
names a text), `BoundsAssumption` of the delegations (follow-ups are finitely
many, the names of requests, tasks and "run" differ), `IdsAssumption` (the
identifiers of requests and grants, random UUIDs in the code, differ from each
other and from the sentinel), `NotificationAssumption` (the sentinel is no
request, the table, the memory and the host hold at least one),
`MoveAssumption`
(directories and headers are two sequences without common members) and
`UpdateAssumption` (the packaged version is not a bad one).

Several properties of the runs are conjunctions; each conjunct is a theorem
and the conjunction one more: `SessionLeasesHold`, `NothingIsForgotten`,
`SlotsAreKept`, `ExecutionsAreOrdered` of the Agent service, and
`NothingIsForgotten` of the router.

Agent service:

- **Type correctness** (`TypeCorrect`), inductive as it stands.
- **`SessionsAreSerial`**: two runs of one Pi session never execute, wait or
  settle together. Not inductive: it says nothing of the reservation that
  keeps the dispatcher away. `SerialInv` is: a run holds its session from its
  claim until its worker and its waiting entry are both gone, a held session
  is reserved (`Reserved`) and has one holder (`OneHolder`), every active run
  is executed by its worker or registered as waiting but not both
  (`Accounted`), and the run `close()` is awaiting has been recorded and has no
  worker (`CloseVisits`). Then every release of a reservation is by its only
  holder, and a dispatch reserves what nobody holds. The step has one case per
  action.
- **`EveryRunHasAnOwner`**, **`OneDecisionOwns`**: who will end an active run,
  and that one decision does. `DecisionInv` adds to `SerialInv` that the owner
  of an approval has its run running under a controller and without a worker
  (`OneOwner`), that a waiting run has no controller and an armed timer, and
  that every controller is a worker's or an owner's (`Accompanied`). The step
  that matters is `OwnershipTaken`: a decision takes only a run that waits,
  and no one owns one that waits.
- **`ClosedServiceIsQuiet`**: `QuietInv` holds when `close()` resolves, and
  nothing starts a worker or takes an approval after it; with `DecisionInv`
  no controller or running run is left.
- **`AbortsStick`**, **`ImplementsContract`**: `NextIsRunStep` says what any
  step does to one run (`RunStep`), under `SerialInv`, `DecisionInv` and
  `EffectsStarted` (only a run that was started may have had an effect). Both
  follow: every `RunStep` is an event of the contract's table or a stutter,
  and the recovery rule of the contract is the one the service applies.
- **`ConversationsAreOrdered`**, **`EffectsAreNotRepeated`**: a run starts
  only by being claimed (`StartIsClaim`); `OrderInv` says that runs are
  numbered in the order of their submission, have different keys and keep
  their payload while queued. An earlier run of the conversation that had not
  ended would be claimed first or would hold the session.
- **`SlotsAreBounded`**, **`NoDecisionIsForgotten`**: inductive together
  (`SlotInv`). `ClaimsFit` counts a dispatch: the latest run it claims had
  room behind all the others. A decision takes a slot it has just seen free;
  whoever gives one back wakes every waiter.
- **`QueueIsNotStranded`**: `Ready` says that something can be claimed without
  choosing what (`ClaimableIsReady`); a step that schedules no dispatch makes
  nothing ready (`NothingNewToClaim`), and a dispatch leaves nothing ready
  (`DispatchEmptiesQueue`): the earliest run it passed over found the slots
  filled by those before it.
- **`BindingsAreGivenBack`**: inductive beside `SerialInv`.

Schedule time:

- **`CatchUpAlwaysSettles`** and **`SchedulesFireWithinBound`**, for any length
  of a minute, limit of the loop, period and phase, and a scan that comes at any
  delay. Every definition the clock drives is one input validation admits
  (`DefinitionsAreValid`). `Division` and `DivisionIsUnique` give quotients and remainders by a
  symbolic period; with them `NextCronIsFirst`: the next occurrence is one, lies
  later, and nothing that occurs in a later minute comes before it. The invariant (`ClockInv`) is
  that a cron schedule is always due on an occurrence. `FirstKeptIsFirst` is the
  slack of a minute: the search from a minute before the oldest allowed instant
  can pass over no allowed occurrence (`CoalescingFires`), and ends less than a
  minute before the bound. `CatchUpIsShort` maps what the loop walks through to
  the minutes from there, of which the largest lateness leaves `CatchUpLimit`
  and the first. `SelectedIsLatest` and `ReservationSettles`: the loop ends on
  the last occurrence up to now, so the one after it is in the future.

Scheduler:

- **Arithmetic.** `NextCronIsLater`: the next occurrence after any instant
  exists, is a minute and lies after it. `LatestInstant`: a non-empty set of
  instants up to now has a greatest. `FirstKeptIsLater`: what the lateness
  bound lets through is not before what was due; the search starts a minute
  before the oldest allowed instant and must not step back past the
  occurrence it started from. `ReservationAdvances` puts them together: what
  `#reserveDue` reserves is not before what was due, and what it leaves next
  due is after that.
- **`TypeCorrect`** and **`AttemptsAreCounted`**, from `SchedulerInv`. `TypeOK`
  alone is not inductive: an attempt stays within its limit because the test
  made before the run was looked up still holds after the await
  (`AttemptInv`), which needs to know what the tick is in the middle of
  (`TickInv`), and an occurrence is an instant only if the one before it lies
  on a minute (`RowInv`).
- **`RunsDoNotOverlap`**: an execution is live while its trigger waits to be
  submitted or its run is active, whatever the trigger says. Only a reservation
  makes one live (`OnlyReservationsLive`): a trigger that failed or was skipped
  has a run only if it is an orphan (`RunInv`, `RunStep`), and nothing brings a
  run that is over back. Two reservations of one tick belong to two schedules,
  so each has seen every live execution of its own but the orphans
  (`ReservationsDoNotOverlap`), and what it reserves is later than all of them.
- **`SchedulesAdvance`**: with `AdvanceInv`, that no trigger is of a revision
  yet to come; an edit begins a revision under which nothing was reserved.
- **`NothingSentAfterClose`**: the test after the await is the one that
  matters, and nothing else moves a delivery to 'delivering'.

Channel router:

- **`TypeCorrect`**, inductive as it stands, given that the contract's table
  leads to statuses.
- **`RepliesAtMostOnce`**: a message is handed to the transport at most once.
  `ReplyInv` ties the count to the durable row: a reply that can still be
  claimed was never written. `NextIsReplyStep` says what any step of the
  system can do to a row and its count: nothing, claim a claimable row and
  write at most once, or move an undecided row without writing.
- **`DecisionsAreFinal`** and **`ClosedWritesNothing`**, action properties,
  from the same lemma.
- **`StoppedStaysQuiet`**: the last one, and that a send in flight goes to a
  target that is bound or whose revocation still waits, and through a router
  that has not closed. Inductive as it stands (`SendStep`): `close()` waits
  for the sends last of all, and a revocation clears the column before it
  waits, so no send can be added to the ones it has seen.
- **`InputIsSubmitted`**: `InputInv` says that a pending text of an open
  router was refused, has a handler, or is still among what the recovery will
  go through; the recovery starts from the durable rows, so a crash between
  the row and the run ends in the last case.
- **`RunsAreFollowed`**: `FollowInv` says the same of watchers, and that a
  watcher with a reply in flight has claimed its row. A watcher leaves only a
  decided reply, and a decided one never becomes claimable
  (`ClaimedStaysClaimed`).

Delegations:

- **`EffectsAreMadeOnce`** and **`FinalIsForGood`**, from `EffectsInv`, which
  is about the approval store alone: a call that was made is spent both in
  memory and in the file, so no failed write and no restart offers it again
  (`MadeOnce`), and the requests of a cancelled run can no longer be approved
  (`Revoked`). The operation that matters writes the document before the call
  is made; the others keep what is final final (`Writing`).
- **`InterruptedStaysUnknown`** and **`CancelledStaysCancelled`**, from
  `JobsInv`: the job of a task has at most one operation in the queue, the
  write of "running" while it is queued and its end once it settles
  (`GoodQueue`), its run waits for the grant check only while the job races
  (`GoodRun`), and a task with a job has no effect in flight (`GoodJob`). So
  whatever is left to write over a record belongs to a job, and when an effect
  begins there is none. The step (`JobsStep`) has one case per operation
  (`OperationKeeps`), per step of a run (`RunKeeps`) and of the route
  (`RouteKeeps`), over lemmas for what joins or leaves a queue.
- **`SubmittedOnce`**, **`AnswerOfItsTurn`**, **`EffectOnRecord`** and type
  correctness need four invariants more, each used by the next. `RoutesInv` pairs every handler of the decision route with the
  one operation it waits for, which is queued once and for the task that owns
  the handler's request (`Serves`, `Paired`), counts the handlers at work on a
  request, and says what an approved one has behind it (`Owned`, `Counted`): so
  an operation answers the handler that made it, whatever was queued in
  between. `GrantsInv` says which grant a record, its job, its adapter's file
  and its run work under, and with it that the variables have their types:
  what is written over a record is what a job captured before its awaits.
  `TurnsInv` relates the turn of a record to that of the adapter's file, to
  that of the run and to what the model was given: the file names the last
  turn that was given, no turn was given twice and none after that one, and a
  run that is yet to prompt is of a turn that was not given (`Given`); while
  the record's turn was not submitted, a run that is left over is of an earlier
  one (`Ungiven`). So a timeout, a crash or a follow-up between the prompt and
  its answer leaves nobody who could give the turn again, and a file that is
  read as the answer names the right turn. `RecordsInv` says that from its
  "begin" to the end of its call an approved handler has its task on record as
  waiting for that request, or as unknown (`Marked`); what takes the mark away
  is the settlement of that request only. A second decision on the request
  is excepted, as in the property (section 7).

Work move:

- **`TypeCorrect`**, **`LeasesAreHonoured`** and **`MovesAreAtomic`**, the
  refinement of `AtomicMove`. The invariant is `TypeOK` with four parts: files
  are apart only while one record, and only one, says where they belong
  (`FilesInv`); nobody is let in before that record is settled (`DoorInv`); a
  move past its preparation has the tree to itself (`AloneInv`); and the move
  in progress has put the first `step` items where it says (`MoveInv`, before
  the journal, moving, reconciling), so its last step has put all of them.
  Then every step is a stutter of `AtomicMove` but for those that let readers
  in or out and the commit.

Notifications:

- **`ShownOnce`**, **`AnswersMatchTheScreen`** and type correctness, from one
  invariant of seven parts. `ShownOnce` says nothing of why a memory of one
  receipt is enough. It is, because a client of the present Runtime is in step
  with the table (`StepInv`): the event in hand is the oldest pending one and
  the stream is what follows it, even if part of it was lost; a client of an
  earlier Runtime holds nothing the table holds. So among the events that may
  come again (pending or on the stream) only the oldest can have been handed
  over, and it is either in hand or the last thing the host remembers
  (`ShownInv`): its replay is a duplicate that is recognised, and whatever is
  not recognised was never shown (`NextIsNew`). An acknowledgement takes the
  oldest from the table (`OldestIsTaken`), the next one is new again.
  `AskedInv` says that an event on its way has no receipt yet unless
  `close()` answered it, and `ReceiptsInv` that a receipt is true of the screen
  wherever it is: in the memory, in hand, in an answer, in a record. Both
  hold for any sizes of the table, the memory and the native host.

Update:

- **`TypeCorrect`**, **`DatabaseFitsTheRuntime`**, **`NothingUnconfirmedStays`**,
  **`UnconfirmedIsTriedOnce`**, from one invariant of six parts. Two hold
  whatever is lost: `TypeOK`, and what the start, confirmation and download
  under way know (`MemoryInv`: while restoring, the record is the one that was
  read, or gone). The others stand each until a lapse that breaks it, so that
  a property is excepted only where the code gives it up. `SchemaInv`, until
  the pointer is lost: nothing was migrated beyond the current version,
  and a copy whose record is on disk not beyond the version it goes back to.
  `SoundInv`, until a record is lost: the log belongs to its main file unless a
  record asks for both to be restored, and no confirmation runs beside a
  start. `KnownInv`, until either is lost: without a record the pointer is at the
  confirmed version, with one the record leads back to it. `TriesInv`,
  until a record is lost or could not be read at a rollback: what was announced
  is on record until it is confirmed or no longer current, and the one
  launch under that record comes before anything could read it again; an
  unread pointer does not break it, since the packaged version was never
  announced. `FoldLogKeeps` and `ChildWrites` say what the end of a Runtime and
  its writes leave of the database.

## 7. Findings

One run shows a disagreement with the repository's own words. *A cancellation
is acknowledged and lost* (`agent/service.ts:190`, `agent_cancel_lost`):
`cancel` reads the run, awaits, and decides on what it read. If the worker
recorded `waiting_approval` meanwhile, no controller is found, the stale status
says running, and the caller is told `cancellation_requested`; the run waits on
and can still be approved. `PROJECT.json` quotes the line it contradicts.

### What the code does not keep

The modules state more than the runs check. These claims were refuted by TLC
while the modules were written, or are excepted by name in a property that
holds; the definitions stay beside the others as a record.

Agent service, scheduler, router:

- `ShutdownRecordsActiveRuns`: `close()` reads the waiting runs once
  (`agent/service.ts:391`, `:400`); a worker that returns an approval request
  while `close()` awaits the approval store is left waiting, where
  `docs/application-architecture.md:83` has the rest cancelled and recorded.
  The next start recovers it.
- `NeverLaterThanMaximum`: a schedule fires up to a minute later than its
  maximum lateness (`scheduler/service.ts:346`), because the search starts a
  minute before the oldest instant allowed.
- `ExecutionsDoNotOverlap`: two executions of a schedule may overlap, which
  `docs/application-architecture.md:124` says they do not by default. The
  process dies between the commit of a run and `attachRun`
  (`scheduler/service.ts:405`); recovery queues the run again, its
  resubmission is refused, and `submission_failed` is recorded over a run that
  is still active (`:401`). The next reservation looks for runs of submitted
  triggers only (`scheduler/store.ts:262-270`), so a second one starts beside
  it. `NoOverlap` excepts the earlier run (`Orphaned`) and no other. Line 120 of
  the same document asks for one transaction of the run and the trigger.
- `FinishedRunHasReply`: the text of an IM answer is only in memory
  (`channels/router.ts:425`); after a restart a success without a reply is
  skipped at every start, where `docs/application-architecture.md:126` has the
  reply persisted. `NothingForgotten` excepts it.
- An error thrown by the recovery of a router (`channels/router.ts:92`) rejects
  the promise every later message awaits, until the router is replaced.

Delegations:

- `StartsLate`: a cancellation that waits in the queue behind `start` or
  `decideApproval` is overwritten by the "running" their `dispatch` queues
  behind it, from the record it captured
  (`app/assistant-delegation-service.ts:162`); excepted by `CancelledIsFinal`.
- A follow-up whose turn died before it reached the model is answered with the
  result of the turn before it (`:208`); `AnswerOfItsTurn` is about turns that
  reached it.
- `EffectSettledOnce`: a second decision on a delegated effect fails in
  `beginEffectApproval`, and its catch (`app/index.ts:2121`) settles the task
  as failed while the first one's effect is executing; the comment at
  `assistant-delegation-service.ts:361` says it is called after the effect
  executed. `EffectOnRecord` excepts it.
- The same catch may settle a task as unknown with no effect recorded as in
  flight; a later `status` then reads the adapter's file and may bring back
  "waiting_approval" for a request that can no longer be used.
- An abort between the opening of the professional session and its prompt does
  not stop the prompt.
- A follow-up that needs a grant after the original deadline can never get
  one: `deadlineAt` is not renewed.

Update:

- `RollbackStaysPossible`: the copy of the database is removed
  (`desktop/runtime-updater.ts:177`) before the pointer (`:235`) and the record
  (`:237`) are rewritten. After a crash or a failed write in between, every
  start throws "Runtime rollback database backup is unavailable." (`:159`),
  where `docs/agent-runtime-contracts.md:172-173` promises that both are
  restored. `RuntimeComesBack` excepts it (`Stuck`).
- `NotTriedAgain`: a record that cannot be read is a missing one (`:223-225`),
  so `rollbackActivation` returns the version that has just failed (`:312-314`),
  which is launched again, and `recoverUnconfirmedActivation` removes the record
  (`:230-231`), after which that version is launched at every start. The
  comment at `:289-291` says that an unconfirmed binary is not retried.
  `TriedOnce` excepts both.
- What a failed read costs. `RecordLost`: a record was removed unread, or a
  confirmation that outlived its Runtime removed it beside the next start. The
  version launched may then be one that was never confirmed and that nothing
  takes back, and a restoring that was cut off is never finished, so the log
  may belong to another main file. `PointerLost`: the packaged Runtime is
  launched on a database a newer one has migrated, or recorded as the
  previous version, so that a rollback goes past the confirmed one.
  `RunsOnItsOwnData`, `KnownGoodOrProvisional` and `TriedOnce` except exactly
  the losses that break them, and hold under all the others.
- `Stranded`: after a loss the pointer may be at a version that cannot run on
  the database, with no record to lead back. No start can then succeed;
  `RuntimeComesBack` excepts it.
- When `current.json` cannot be written after the activation was recorded
  (`:277-285`), the old Runtime goes on under a record that is not its own, and
  the next start puts the older copy over what it wrote. The repository
  promises nothing here, and no property does.
- `start()` asks neither the restart timer nor its budget
  (`desktop/runtime-manager.ts:429`), and the host event client's loop calls it
  again and again: the budget that `runtime-manager.test.mjs:117` is about
  bounds the restarts of the exit handler alone.

Notifications: `close()` of the router answers "unavailable" also for a
notification that was shown; `AnswersMatchTheScreen` excepts what `close()`
answered (`closedOut`).

## 8. What is only model-checked, and what is not modelled

Only model-checked: every liveness property (TLAPS has no rules for fairness
and ENABLED here). The type invariant of every module that states one is proved.

Not modelled within the modelled components: the validation of requests and
of schedules (pure, before any state), the authority of callers, observers
(`subscribe` of the Agent service as a stream, `waitForIdle`, `preview`,
history), the eviction of live outputs past a hundred, redaction, the cron
grammar and daylight saving, pairing of contacts, the diversion of a message
to the Assistant, what a scheduled send answers the scheduler (`Scheduler`
takes any answer), the binding of an approval to the arguments of its
call, the creation of Work folders with its own intents, the download of an
update with its signature, the health probe's attempts and the restart timer
of the Runtime manager, and the insides of an executor.

Not modelled, and within reach of a module: the ordered shutdown
(`app/runtime-host.ts:73`) with a settings change that pushes a router while
it runs (`app/index.ts:821`); a delivery tried while its channel is replaced
(`scheduler/service.ts:455`); the Assistant worker, whose restart budget is
never refilled (`app/assistant-worker-manager.ts:214`); the Assistant host and
its automation queue. Not to be modelled: the parts without a protocol, listed
in section 1. The vendored Pi packages, which are most of the repository's
lines, are another project's.

## 9. Running it

With the TLA+ tools and the community modules on the path:

    tlc -workers 2 -config AgentServiceSessions.cfg MCAgentService
    tlapm AgentService_proofs.tla

`PROJECT.json` names the module and configuration of each run. The two Agent
instances, the two of the delegations, the router's and the update's take a few
minutes, the others less than one; of the proofs `AssistantDelegations_proofs` takes longest,
six minutes.
