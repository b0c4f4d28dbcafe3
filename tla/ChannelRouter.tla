--------------------------- MODULE ChannelRouter ---------------------------
(***************************************************************************)
(* ChannelRouter (yuanpu-runtime/src/channels/router.ts) over ChannelStore  *)
(* (channels/store.ts): messages of one Enterprise WeChat connection become *)
(* rows of yp_channel_inbound, runs of the Agent service and at last one    *)
(* reply each, while the connection is closed and opened again (settings,   *)
(* connection test) and the process dies and restarts.                      *)
(*                                                                         *)
(* The Agent service is its contract (AgentRunContract): a run is named by  *)
(* the message it was submitted for, its idempotency key.  The provider     *)
(* delivers a message any number of times.  A message the router turns away *)
(* without a write (wrong connection or bot, unpaired sender, a replay that *)
(* differs from the recorded message) changes nothing and is no step.       *)
(*                                                                         *)
(* A private contact can be bound as the target of scheduled results, which *)
(* the scheduler sends through the router that is open at the time          *)
(* (apps/runtime/src/scheduled-im-delivery.ts).                             *)
(***************************************************************************)
EXTENDS Naturals

CONSTANTS
  Text, Cancel, Unsupported,  \* messages by the action they ask for
  CancelTarget,               \* the message whose run each "/cancel" names
  Target,                     \* ids for the target of a bound contact
  MaxOpenings,                \* bound: start() of a router
  MaxRestarts                 \* bound: crashes or restarts of the process

Message == Text \cup Cancel \cup Unsupported

ASSUME ChannelAssumption ==
  /\ Text \cap Cancel = {} /\ Text \cap Unsupported = {} /\ Cancel \cap Unsupported = {}
  /\ CancelTarget \in [Cancel -> Text]
  /\ MaxOpenings \in Nat /\ MaxRestarts \in Nat

VARIABLES
  (* automation.sqlite *)
  row,       \* yp_channel_inbound: "pending" has input and no run id,
             \* "attached" a run id, "cleared" neither, "noted" is unsupported
  out,       \* yp_channel_outbound.status, "absent" before createOutbound
  bound,     \* targets in yp_channel_private_contacts.bound_target_id
  (* the Agent service *)
  run,       \* status of the run submitted for each text message
  effects,   \* runs that have started
  outputs,   \* runs with a live output (#liveOutputs)
  (* the router's memory *)
  router,    \* progress of start() and #recoverAfterReady
  closing,   \* progress of close(); the router is #closed unless "no"
  todo,      \* what is left of the list the recovery iterates over
  handler,   \* the await a message's handler is at
  reply,     \* #watching, and the reply in flight
  refused,   \* messages this router's submissions were refused for
  sends,     \* targets with a send in flight (#scheduledSends)
  revoking,  \* revocations that wait for a send
  (* the provider, and the bounds *)
  written,   \* how many replies to each message were written
  openings, restarts

db     == <<row, out>>
agent  == <<run, effects, outputs>>
phase  == <<router, closing, todo>>
scheduled == <<bound, sends, revoking>>
bounds == <<openings, restarts>>
vars == <<db, agent, phase, handler, reply, refused, written, scheduled, bounds>>

Contract == INSTANCE AgentRunContract WITH Run <- Text, status <- run

Final == {"accepted", "failed", "unknown"}

TypeOK ==
  /\ row \in [Message -> {"absent", "pending", "attached", "cleared", "noted"}]
  /\ out \in [Message -> {"absent", "pending", "delivering"} \cup Final]
  /\ run \in [Text -> Contract!Status]
  /\ effects \subseteq Text /\ outputs \subseteq Text
  /\ router \in {"down", "connecting", "replying", "resuming", "open", "broken"}
  /\ closing \in {"no", "draining", "settling"}
  /\ todo \subseteq Message /\ refused \subseteq Message
  /\ handler \in [Message -> {"none", "attaching", "cancelling"}]
  /\ reply \in [Message -> {"none", "waiting", "told", "written", "unwritten"}]
  /\ written \in [Message -> Nat]
  /\ bound \subseteq Target /\ sends \subseteq Target /\ revoking \subseteq Target
  /\ openings \in 0..MaxOpenings /\ restarts \in 0..MaxRestarts

Init ==
  /\ row = [m \in Message |-> "absent"] /\ out = [m \in Message |-> "absent"]
  /\ run = [m \in Text |-> "absent"] /\ effects = {} /\ outputs = {}
  /\ router = "down" /\ closing = "no" /\ todo = {}
  /\ handler = [m \in Message |-> "none"] /\ reply = [m \in Message |-> "none"]
  /\ refused = {}
  /\ written = [m \in Message |-> 0]
  /\ bound = {} /\ sends = {} /\ revoking = {}
  /\ openings = 0 /\ restarts = 0

-----------------------------------------------------------------------------
(* Replying: createOutbound (one row per message), claimOutbound (an UPDATE *)
(* of a pending row), the test of #closed and the call of transport.reply   *)
(* run without an await between them.                                       *)

AnyUnaccepted(m) == out[m] \notin {"delivering", "accepted"}      \* mutant
Claimable(m) == out[m] \in {"absent", "pending"}

SendsAnyway == TRUE                                               \* mutant
StillOpen == closing = "no"

(* A transport that is not connected answers without writing.               *)
ClaimReply(m) ==
  \/ /\ ~Claimable(m)
     /\ reply' = [reply EXCEPT ![m] = "none"]
     /\ UNCHANGED <<out, written>>
  \/ /\ Claimable(m) /\ ~StillOpen
     /\ out' = [out EXCEPT ![m] = "unknown"]
     /\ reply' = [reply EXCEPT ![m] = "none"]
     /\ UNCHANGED written
  \/ /\ Claimable(m) /\ StillOpen
     /\ out' = [out EXCEPT ![m] = "delivering"]
     /\ \/ reply' = [reply EXCEPT ![m] = "written"] /\ written' = [written EXCEPT ![m] = @ + 1]
        \/ reply' = [reply EXCEPT ![m] = "unwritten"] /\ UNCHANGED written

(* finishOutbound records a receipt only over "delivering".                 *)
LateReceipt(m, s) == s                                            \* mutant
Finished(m, s) == IF out[m] = "delivering" THEN s ELSE out[m]

ReplyAnswered(m) ==
  /\ \/ reply[m] = "written"   /\ \E s \in Final : out' = [out EXCEPT ![m] = Finished(m, s)]
     \/ reply[m] = "unwritten" /\ out' = [out EXCEPT ![m] = Finished(m, "failed")]
  /\ reply' = [reply EXCEPT ![m] = "none"]
  /\ UNCHANGED <<row, agent, phase, handler, refused, written, scheduled, bounds>>

-----------------------------------------------------------------------------
(* #deliverWhenTerminal, over the Agent service's subscribe.                *)

(* terminalContent: a succeeded run is told by its output alone.            *)
HasContent(m) == run[m] # "succeeded" \/ m \in outputs

(* The generator ends with a terminal run whether or not it has content.    *)
WatcherTold(m) ==
  /\ reply[m] = "waiting" /\ run[m] \in Contract!Terminal
  /\ reply' = [reply EXCEPT ![m] = IF HasContent(m) THEN "told" ELSE "none"]
  /\ UNCHANGED <<db, agent, phase, handler, refused, written, scheduled, bounds>>

WatcherReplies(m) ==
  /\ reply[m] = "told" /\ ClaimReply(m)
  /\ UNCHANGED <<row, agent, phase, handler, refused, scheduled, bounds>>

NeverAborted(m) == FALSE                                          \* mutant
Aborted(m) == closing # "no"

(* An aborted subscription ends once its queue is empty.                    *)
WatcherAborted(m) ==
  /\ reply[m] = "waiting" /\ Aborted(m)
  /\ reply' = [reply EXCEPT ![m] = "none"]
  /\ UNCHANGED <<db, agent, phase, handler, refused, written, scheduled, bounds>>

(* #watch: one watcher for a run; subscribe returns at once when aborted.   *)
Watched(r, m) ==
  IF r[m] = "none" /\ ~Aborted(m) THEN [r EXCEPT ![m] = "waiting"] ELSE r

-----------------------------------------------------------------------------
(* #submitPersistedInbound and #cancelPersistedInbound.                     *)

(* The Agent service commits the run, or answers for the one it has; or it  *)
(* refuses: its queue is full, or the workspace is not the one it was.      *)
Submits(m) ==
  \/ /\ run' = IF run[m] = "absent" THEN [run EXCEPT ![m] = "queued"] ELSE run
     /\ handler' = [handler EXCEPT ![m] = "attaching"]
     /\ UNCHANGED refused
  \/ /\ refused' = refused \cup {m}
     /\ UNCHANGED <<run, handler>>

(* A queued run is cancelled at once, an active one is asked to stop.       *)
AsksToCancel(m) ==
  /\ run' = IF run[CancelTarget[m]] = "queued"
              THEN [run EXCEPT ![CancelTarget[m]] = "cancelled"] ELSE run
  /\ handler' = [handler EXCEPT ![m] = "cancelling"]
  /\ UNCHANGED refused

Dispatches(m) ==
  /\ handler[m] = "none"
  /\ \/ m \in Text /\ Submits(m)
     \/ m \in Cancel /\ AsksToCancel(m)

AttachRun(m) ==
  /\ handler[m] = "attaching"
  /\ row' = [row EXCEPT ![m] = "attached"]
  /\ handler' = [handler EXCEPT ![m] = "none"]
  /\ reply' = Watched(reply, m)
  /\ UNCHANGED <<out, agent, phase, refused, written, scheduled, bounds>>

ClearInput(m) ==
  /\ handler[m] = "cancelling"
  /\ row' = [row EXCEPT ![m] = "cleared"]
  /\ handler' = [handler EXCEPT ![m] = "none"]
  /\ UNCHANGED <<out, agent, phase, reply, refused, written, scheduled, bounds>>

(* The approvals of the run could not be saved.  Thrown from the recovery,  *)
(* it rejects the promise every later message awaits.                       *)
CancelThrows(m) ==
  /\ handler[m] = "cancelling"
  /\ handler' = [handler EXCEPT ![m] = "none"]
  /\ router' = IF router = "resuming" THEN "broken" ELSE router
  /\ todo' = {}
  /\ UNCHANGED <<db, agent, closing, reply, refused, written, scheduled, bounds>>

-----------------------------------------------------------------------------
(* handleInbound, once the recovery is over.                                *)

Receives(m) == router = "open" /\ closing = "no"

(* store.acceptInbound: INSERT OR IGNORE.                                   *)
AcceptInbound(m) == row' = [row EXCEPT ![m] = IF @ = "absent" THEN "pending" ELSE @]

ReceiveNew(m) ==
  /\ Receives(m) /\ row[m] \in {"absent", "pending", "cleared"} /\ Dispatches(m)
  /\ AcceptInbound(m)
  /\ UNCHANGED <<out, effects, outputs, phase, reply, written, scheduled, bounds>>

ReceiveKnown(m) ==
  /\ Receives(m) /\ row[m] = "attached" /\ reply[m] = "none"
  /\ reply' = Watched(reply, m)
  /\ UNCHANGED <<db, agent, phase, handler, refused, written, scheduled, bounds>>

ReceiveUnsupported(m) ==
  /\ Receives(m) /\ m \in Unsupported /\ reply[m] = "none" /\ ClaimReply(m)
  /\ row' = [row EXCEPT ![m] = "noted"]
  /\ UNCHANGED <<agent, phase, handler, refused, scheduled, bounds>>

-----------------------------------------------------------------------------
(* start and #recoverAfterReady.                                            *)

InterruptedStatus(s) == IF s = "delivering" THEN "process_interrupted" ELSE s   \* mutant
MarkedUnknown(s) == IF s = "delivering" THEN "unknown" ELSE s

Start ==
  /\ router = "down" /\ openings < MaxOpenings
  /\ openings' = openings + 1
  /\ out' = [m \in Message |-> MarkedUnknown(out[m])]
  /\ router' = "connecting" /\ refused' = {}
  /\ UNCHANGED <<row, agent, closing, todo, handler, reply, written, scheduled, restarts>>

RecoverableUnsupported == {m \in Unsupported : row[m] = "noted" /\ Claimable(m)}

PreparedReplies == {m \in Text : row[m] = "attached" /\ out[m] = "pending"}     \* mutant
RecoverableInbound == {m \in Text : row[m] = "attached" /\ Claimable(m)}

UnsubmittedInput ==                                                             \* mutant
  {m \in Text \cup Cancel : row[m] = "pending" /\ (m \in Text => run[m] = "absent")}
PendingInbound == {m \in Text \cup Cancel : row[m] = "pending"}

(* close() of the transport resolves ready() as well.                       *)
Ready ==
  /\ router = "connecting"
  /\ \/ closing = "no" /\ router' = "replying" /\ todo' = RecoverableUnsupported
     \/ closing # "no" /\ router' = "open" /\ UNCHANGED todo
  /\ UNCHANGED <<db, agent, closing, handler, reply, refused, written, scheduled, bounds>>

(* The recovery awaits each reply and each submission in turn; the lists    *)
(* are ordered by receipt, any order is allowed here.                       *)
Awaiting == \E m \in Message : handler[m] # "none" \/ (m \in Unsupported /\ reply[m] # "none")

RecoverUnsupported(m) ==
  /\ router = "replying" /\ ~Awaiting /\ m \in todo /\ ClaimReply(m)
  /\ todo' = todo \ {m}
  /\ UNCHANGED <<row, agent, router, closing, handler, refused, scheduled, bounds>>

RecoverWatches ==
  /\ router = "replying" /\ ~Awaiting /\ todo = {}
  /\ router' = "resuming" /\ todo' = PendingInbound
  /\ reply' = [m \in Message |->
       IF m \in RecoverableInbound THEN Watched(reply, m)[m] ELSE reply[m]]
  /\ UNCHANGED <<db, agent, closing, handler, refused, written, scheduled, bounds>>

RecoverInput(m) ==
  /\ router = "resuming" /\ closing = "no" /\ ~Awaiting /\ m \in todo /\ Dispatches(m)
  /\ todo' = todo \ {m}
  /\ UNCHANGED <<db, effects, outputs, router, closing, reply, written, scheduled, bounds>>

RecoveryEnds ==
  /\ router = "resuming" /\ ~Awaiting /\ (todo = {} \/ closing # "no")
  /\ router' = "open" /\ todo' = {}
  /\ UNCHANGED <<db, agent, closing, handler, reply, refused, written, scheduled, bounds>>

-----------------------------------------------------------------------------
(* close, and the replacement of a router: close() and start() of another.  *)

Close ==
  /\ router # "down" /\ closing = "no"
  /\ closing' = "draining"
  /\ UNCHANGED <<db, agent, router, todo, handler, reply, refused, written, scheduled, bounds>>

(* The transport has ended its handlers and the recovery is over.           *)
Drained ==
  /\ closing = "draining" /\ router \in {"open", "broken"} /\ ~Awaiting
  /\ out' = [m \in Message |-> MarkedUnknown(out[m])]
  /\ closing' = "settling"
  /\ UNCHANGED <<row, agent, router, todo, handler, reply, refused, written, scheduled, bounds>>

CloseReturns ==
  /\ closing = "settling" /\ (\A m \in Message : reply[m] = "none") /\ sends = {}
  /\ closing' = "no" /\ router' = "down"
  /\ UNCHANGED <<db, agent, todo, handler, reply, refused, written, scheduled, bounds>>

-----------------------------------------------------------------------------
(* Scheduled sends and their targets.  The messages come from one contact,  *)
(* which has one target at a time.  A revoked contact can be bound again,   *)
(* under a fresh id, after its next message; here, at once, and a name is   *)
(* used again once its revocation was answered.                             *)

Listed == router # "down" /\ closing = "no"

(* observePrivateSender, at an accepted text or "/cancel".                  *)
Observed == \E m \in Text \cup Cancel : row[m] # "absent"

Bind(g) ==
  /\ Listed /\ Observed /\ bound = {} /\ g \notin revoking
  /\ bound' = {g}
  /\ UNCHANGED <<db, agent, phase, handler, reply, refused, written, sends, revoking, bounds>>

(* Anything else the scheduler is told (deferred while the transport is not *)
(* ready, failed without a target) changes nothing.                         *)
SendScheduled(g) ==
  /\ Listed /\ router # "connecting" /\ g \in bound \ sends
  /\ sends' = sends \cup {g}
  /\ UNCHANGED <<db, agent, phase, handler, reply, refused, written, bound, revoking, bounds>>

(* The last send to a target has its answer; so has a revocation that       *)
(* awaited it (waitForScheduledTarget).                                     *)
SendEnds(g) ==
  /\ g \in sends
  /\ sends' = sends \ {g} /\ revoking' = revoking \ {g}
  /\ UNCHANGED <<db, agent, phase, handler, reply, refused, written, bound, bounds>>

(* The answer waits for the sends of every router still listed; one that is *)
(* being closed is, until its close() has returned.                         *)
AwaitsOpenOnly(g) == g \in sends /\ closing = "no"                 \* mutant
Awaited(g) == g \in sends

Revoke(g) ==
  /\ g \in bound /\ bound' = bound \ {g}
  /\ revoking' = IF Awaited(g) THEN revoking \cup {g} ELSE revoking
  /\ UNCHANGED <<db, agent, phase, handler, reply, refused, written, sends, bounds>>

-----------------------------------------------------------------------------
(* The environment.                                                         *)

(* A step of the Agent service for one run.  The output of a success is not *)
(* empty, and fewer than a hundred follow it.                               *)
AgentMoves(m) ==
  /\ run[m] \in DOMAIN Contract!transitions
  /\ \E e \in DOMAIN Contract!transitions[run[m]] :
       /\ run' = [run EXCEPT ![m] = Contract!transitions[run[m]][e]]
       /\ effects' = IF e = "start" THEN effects \cup {m} ELSE effects
       /\ outputs' = IF e = "succeed" THEN outputs \cup {m} ELSE outputs
       /\ Contract!Transition(m, e)
  /\ UNCHANGED <<db, phase, handler, reply, refused, written, scheduled, bounds>>

(* The process dies and both services open again; only the database is left. *)
Dies ==
  /\ restarts < MaxRestarts
  /\ restarts' = restarts + 1
  /\ run' = [m \in Text |-> IF run[m] \in Contract!Active
                              THEN Contract!Recovered(m \in effects) ELSE run[m]]
  /\ outputs' = {} /\ refused' = {}
  /\ router' = "down" /\ closing' = "no" /\ todo' = {}
  /\ handler' = [m \in Message |-> "none"] /\ reply' = [m \in Message |-> "none"]
  /\ sends' = {} /\ revoking' = {}
  /\ UNCHANGED <<effects, written, bound, openings>>

Restart == Dies /\ UNCHANGED db

(* It may die between the inbound row, createOutbound and claimOutbound.    *)
DiesInReply(m) ==
  /\ out[m] = "absent"
  /\ \/ reply[m] = "told"
     \/ Receives(m) /\ m \in Unsupported /\ reply[m] = "none"
  /\ Dies
  /\ row' = IF m \in Unsupported THEN [row EXCEPT ![m] = "noted"] ELSE row
  /\ \/ out' = [out EXCEPT ![m] = "pending"]
     \/ m \in Unsupported /\ UNCHANGED out

-----------------------------------------------------------------------------
(* A step of a watcher, a reply or a handler that someone awaits.           *)
Continues(m) ==
  \/ WatcherTold(m) \/ WatcherReplies(m) \/ WatcherAborted(m) \/ ReplyAnswered(m)
  \/ AttachRun(m) \/ ClearInput(m) \/ CancelThrows(m)

Recovers ==
  \/ \E m \in Message : RecoverUnsupported(m) \/ RecoverInput(m)
  \/ RecoverWatches \/ RecoveryEnds

Schedules(g) == Bind(g) \/ Revoke(g) \/ SendScheduled(g) \/ SendEnds(g)

Closes == (closing # "no" /\ Ready) \/ Drained \/ CloseReturns

Next ==
  \/ Start \/ Ready \/ Recovers \/ Close \/ Drained \/ CloseReturns
  \/ \E m \in Message : \/ Continues(m)
                        \/ ReceiveNew(m) \/ ReceiveKnown(m) \/ ReceiveUnsupported(m)
                        \/ DiesInReply(m)
  \/ \E m \in Text : AgentMoves(m)
  \/ \E g \in Target : Schedules(g)
  \/ Restart

Spec == Init /\ [][Next]_vars

(* Promises settle: a terminal run wakes its subscriber, the transport      *)
(* answers or rejects, close() resolves ready().  Nothing is assumed of the *)
(* provider, the network or the users while the router is open.             *)
Fairness ==
  /\ \A m \in Message : WF_vars(Continues(m))
  /\ WF_vars(Recovers) /\ WF_vars(Closes)
  /\ \A g \in Target : WF_vars(SendEnds(g))

LiveSpec == Spec /\ Fairness

-----------------------------------------------------------------------------
(* Safety.                                                                  *)

(* A message is answered at most once, whatever is replayed, recovered,     *)
(* watched twice, closed or interrupted in between.                         *)
ReplyAtMostOnce == \A m \in Message : written[m] <= 1

(* While the router is open, every message whose run has no decided reply   *)
(* is watched, also when its run was submitted or finished under another    *)
(* router or another process; except a success whose output is gone.        *)
RunFollowed ==
  router = "open" /\ closing = "no" =>
    \A m \in Text : row[m] = "attached" /\ Claimable(m) =>
      reply[m] # "none" \/ ~HasContent(m)

(* Input that an open router leaves unsubmitted was refused by the Agent    *)
(* service under this very router: no crash between the row, the run and    *)
(* their link, and no close(), strands it.                                  *)
NoInputStranded ==
  router = "open" /\ closing = "no" =>
    \A m \in Text : row[m] = "pending" => m \in refused \/ handler[m] # "none"

(* Whatever a message is waiting for, its run or its reply, an open router  *)
(* has hold of it.                                                          *)
NothingForgotten == RunFollowed /\ NoInputStranded

(* docs/application-architecture.md: a reply is persisted on its own once   *)
(* the model has succeeded.  So an open router still owes or has decided a  *)
(* reply for every finished run.                                            *)
FinishedRunHasReply ==
  router = "open" /\ closing = "no" =>
    \A m \in Text : row[m] = "attached" /\ run[m] \in Contract!Terminal =>
      reply[m] # "none" \/ out[m] \in Final

-----------------------------------------------------------------------------
(* What a step may never do.                                                *)

(* A decided reply is never written again and never reconsidered: not when  *)
(* its receipt comes after close() has recorded it as unknown, and not when *)
(* the provider replays the message.                                        *)
DecidedIsFinal ==
  [][\A m \in Message : out[m] \in Final =>
       out'[m] = out[m] /\ written'[m] = written[m]]_vars

(* Once close() has been called nothing is written, although watchers and   *)
(* the recovery may be about to reply.                                      *)
NoReplyAfterClose == [][closing # "no" => written' = written]_vars

(* A revoked target is left alone: a send in flight goes to a target that   *)
(* is bound or whose revocation is not answered yet, also while the router  *)
(* that sends is closed or replaced; and a closed router leaves none behind. *)
RevokedIsQuiet == /\ sends \subseteq bound \cup revoking
                  /\ router = "down" => sends = {}

(* What was told to stop has stopped: a router by close(), a target by its  *)
(* revocation.                                                              *)
StoppedIsQuiet == NoReplyAfterClose /\ []RevokedIsQuiet

-----------------------------------------------------------------------------
(* Liveness.                                                                *)

(* A finished run is answered while its router stays open.                  *)
ReplyIsDecided ==
  \A m \in Text :
    router = "open" /\ row[m] = "attached" /\ run[m] \in Contract!Terminal /\ HasContent(m)
      ~> (out[m] \in Final \/ router # "open" \/ closing # "no")

(* close() resolves, unless the process dies first.                         *)
CloseSettles == closing # "no" ~> closing = "no"

(* A revocation is answered, also while the router it waits for closes.     *)
RevocationSettles == \A g \in Target : g \in revoking ~> g \notin revoking

(* All three: replies, shutdown and revocations progress beside each other. *)
RepliesSettle == ReplyIsDecided /\ CloseSettles /\ RevocationSettles
=============================================================================
