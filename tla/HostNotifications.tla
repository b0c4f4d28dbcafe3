-------------------------- MODULE HostNotifications --------------------------
(***************************************************************************)
(* Native notifications, from a request in the Runtime to the screen and    *)
(* back to the durable receipt: HostNotificationRouter and                  *)
(* requestRecordedTerminalRunNotification                                   *)
(* (packages/yuanpu-runtime/src/notifications/index.ts), the receipts of    *)
(* scheduler/store.ts, the event stream of apps/runtime/src/index.ts,       *)
(* AuthenticatedHostEventClient (apps/desktop/src/host-event-client.ts) and *)
(* ElectronNotificationHost (apps/desktop/src/notification-host.ts).        *)
(*                                                                         *)
(* The App reads the Runtime's events one at a time and posts a receipt for *)
(* each; what has no receipt is sent again on the next connection.  The     *)
(* connection breaks, posts and their answers are lost, the Runtime crashes *)
(* or is replaced under a client that still holds its events, and the App   *)
(* quits at any time.                                                       *)
(*                                                                         *)
(* The Runtime passes no receiptTimeoutMs, so no timer is modelled.  Reply  *)
(* delays and texts are left out; a click changes nothing modelled here.    *)
(***************************************************************************)
EXTENDS Naturals, Sequences, SequencesExt, FiniteSets

CONSTANTS
  Request,         \* requests, each with one event
  Scheduled,       \* those for a scheduled run, which have a durable receipt
  Nil,
  MaxPending,      \* maximumPendingEvents
  MaxRemembered,   \* maximumRememberedEvents
  MaxActive,       \* maximumActiveNotifications
  MaxFaults,       \* bound: breaks, lost posts and failed writes
  MaxRestarts      \* bound: ends of the Runtime

ASSUME NotificationAssumption ==
  /\ IsFiniteSet(Request) /\ Scheduled \subseteq Request /\ Nil \notin Request
  /\ MaxPending \in Nat \ {0} /\ MaxRemembered \in Nat \ {0}
  /\ MaxActive \in Nat \ {0} /\ MaxFaults \in Nat /\ MaxRestarts \in Nat

Status == {"submitted", "suppressed", "unavailable", "failed"}

VARIABLES
  router,      \* "open", "closed", or "down" with its process
  pending,     \* #pending, in order of insertion
  answer,      \* what the promise of each request has come to
  record,      \* yp_schedule_notification_receipts
  connected,   \* the Runtime holds the response of the client's stream
  stream,      \* events written to it and not yet consumed
  client,      \* what the loop of the client waits for
  current,     \* the event being consumed, or Nil
  receipt,     \* of the current event, or Nil while it is submitted
  peer,        \* the Runtime the client talks to is the present one
  app,         \* "running" or "stopped"
  memory,      \* receipts the host remembers, oldest first
  active,      \* native notifications it holds, oldest first
  shows,       \* times each notification was handed to the system
  displayed,   \* those the system has put on the screen
  closedOut,   \* requests answered by close()
  faults, restarts

runtime == <<router, pending, answer, record, closedOut>>
wire    == <<connected, stream, peer>>
loop    == <<client, current, receipt>>
host    == <<memory, active, shows, displayed>>
vars    == <<runtime, wire, loop, host, app, faults, restarts>>

RuntimeTypes ==
  /\ router \in {"open", "closed", "down"}
  /\ pending \in Seq(Request) /\ Len(pending) <= MaxPending
  /\ answer \in [Request -> Status \cup {"unasked", "waiting", "lost"}]
  /\ record \in [Request -> Status \cup {"none", "pending", "result_unknown"}]
  /\ closedOut \subseteq Request

ClientTypes ==
  /\ stream \in Seq(Request)
  /\ client \in {"idle", "reading", "handling", "posting", "acknowledged", "refused"}
  /\ current \in Request \cup {Nil} /\ receipt \in Status \cup {Nil}
  /\ memory \in Seq([event : Request, receipt : Status]) /\ Len(memory) <= MaxRemembered
  /\ active \in Seq(Request) /\ Len(active) <= MaxActive
  /\ shows \in [Request -> Nat] /\ displayed \subseteq Request

TypeOK ==
  /\ RuntimeTypes /\ ClientTypes
  /\ connected \in BOOLEAN /\ peer \in BOOLEAN /\ app \in {"running", "stopped"}
  /\ faults \in 0..MaxFaults /\ restarts \in 0..MaxRestarts

Init ==
  /\ router = "open" /\ pending = <<>> /\ answer = [r \in Request |-> "unasked"]
  /\ record = [r \in Request |-> "none"] /\ closedOut = {}
  /\ connected = FALSE /\ stream = <<>> /\ peer = TRUE
  /\ client = "idle" /\ current = Nil /\ receipt = Nil
  /\ app = "running" /\ memory = <<>> /\ active = <<>>
  /\ shows = [r \in Request |-> 0] /\ displayed = {}
  /\ faults = 0 /\ restarts = 0

Faulty == faults < MaxFaults /\ faults' = faults + 1

(* A map without a key, in order of insertion: each key is in it once.      *)
Without(s, e) ==
  IF e \in Range(s) THEN RemoveAt(s, CHOOSE i \in DOMAIN s : s[i] = e) ELSE s

-----------------------------------------------------------------------------
(* The Runtime: requests, receipts and the durable record.                  *)

(* Promises resolved with a status: the callback of each writes the record  *)
(* that was begun; a write that fails, or is cut off by a crash, leaves it  *)
(* pending for the next start.                                              *)
Resolve(rs, status) ==
  /\ answer' = [r \in Request |-> IF r \in rs THEN status ELSE answer[r]]
  /\ LET begun == {r \in rs : record[r] = "pending"} IN
     \E written \in SUBSET begun :
       /\ record' = [r \in Request |-> IF r \in written THEN status ELSE record[r]]
       /\ IF written = begun THEN UNCHANGED faults ELSE Faulty

(* A request is refused when the router is closed or full; otherwise it is  *)
(* pending, and written to the stream.  The record of a scheduled run is    *)
(* begun first; if that fails, its end is not written either.               *)
AcceptsOneMore == router = "open" /\ Len(pending) <= MaxPending      \* mutant
Accepts == router = "open" /\ Len(pending) < MaxPending

RequestNotification(r) ==
  /\ answer[r] = "unasked" /\ Accepts
  /\ answer' = [answer EXCEPT ![r] = "waiting"] /\ pending' = Append(pending, r)
  /\ stream' = IF connected THEN Append(stream, r) ELSE stream
  /\ \/ /\ record' = [record EXCEPT ![r] = IF r \in Scheduled THEN "pending" ELSE @]
        /\ UNCHANGED faults
     \/ r \in Scheduled /\ Faulty /\ UNCHANGED record
  /\ UNCHANGED <<router, closedOut, connected, peer, loop, host, app, restarts>>

RefuseNotification(r) ==
  /\ answer[r] = "unasked" /\ router # "down" /\ ~Accepts
  /\ answer' = [answer EXCEPT ![r] = "unavailable"]
  /\ \/ /\ record' = [record EXCEPT ![r] = IF r \in Scheduled THEN "unavailable" ELSE @]
        /\ UNCHANGED faults
     \/ /\ r \in Scheduled /\ Faulty
        /\ record' \in {record, [record EXCEPT ![r] = "pending"]}
  /\ UNCHANGED <<router, pending, closedOut, wire, loop, host, app, restarts>>

Acknowledge ==
  /\ client = "posting" /\ peer /\ router # "down"
  /\ IF current \in Range(pending)
     THEN /\ pending' = Without(pending, current)
          /\ Resolve({current}, receipt) /\ client' = "acknowledged"
     ELSE client' = "refused" /\ UNCHANGED <<pending, answer, record, faults>>
  /\ UNCHANGED <<router, closedOut, wire, current, receipt, host, app, restarts>>

(* close(): everything pending is answered, whatever became of it.          *)
Close ==
  /\ router = "open" /\ router' = "closed"
  /\ Resolve(Range(pending), "unavailable")
  /\ closedOut' = closedOut \cup Range(pending) /\ pending' = <<>>
  /\ UNCHANGED <<wire, loop, host, app, restarts>>

(* The process ends, with or without close(): its promises are gone.  The   *)
(* client keeps what it has read of the stream.                             *)
Exit ==
  /\ router # "down" /\ restarts < MaxRestarts /\ restarts' = restarts + 1
  /\ router' = "down" /\ pending' = <<>>
  /\ answer' = [r \in Request |-> IF answer[r] = "waiting" THEN "lost" ELSE answer[r]]
  /\ connected' = FALSE /\ peer' = FALSE
  /\ \E n \in 0..Len(stream) : stream' = SubSeq(stream, 1, n)
  /\ UNCHANGED <<record, closedOut, loop, host, app, faults>>

(* The next process settles the records the last one left; a stopped App is *)
(* started with it, and remembers nothing.                                  *)
RecoveredAsFailed(r) == IF record[r] = "pending" THEN "failed" ELSE record[r]  \* mutant
Recovered(r) == IF record[r] = "pending" THEN "result_unknown" ELSE record[r]

Start ==
  /\ router = "down" /\ router' = "open"
  /\ record' = [r \in Request |-> Recovered(r)]
  /\ IF app = "running"
     THEN UNCHANGED <<app, wire, loop, memory, active>>
     ELSE /\ app' = "running" /\ stream' = <<>> /\ connected' = FALSE /\ peer' = FALSE
          /\ client' = "idle" /\ current' = Nil /\ receipt' = Nil
          /\ memory' = <<>> /\ active' = <<>>
  /\ UNCHANGED <<pending, answer, closedOut, shows, displayed, faults, restarts>>

-----------------------------------------------------------------------------
(* The client's loop.                                                       *)

(* subscribe: everything pending again, then what is requested later.       *)
NoReplay  == <<>>                                                    \* mutant
Replayed  == pending

Connect ==
  /\ app = "running" /\ client = "idle" /\ router # "down"
  /\ client' = "reading" /\ connected' = TRUE /\ peer' = TRUE /\ stream' = Replayed
  /\ UNCHANGED <<runtime, current, receipt, host, app, faults, restarts>>

(* An error or the end of the stream: what was not consumed is dropped.     *)
Reconnect ==
  /\ client' = "idle" /\ connected' = FALSE /\ stream' = <<>>
  /\ current' = Nil /\ receipt' = Nil

EndOfStream ==
  /\ app = "running" /\ client = "reading" /\ ~connected /\ stream = <<>> /\ Reconnect
  /\ UNCHANGED <<runtime, peer, host, app, faults, restarts>>

Known == {i \in DOMAIN memory : memory[i].event = Head(stream)}

ForgetsNewest(e, r) ==                                               \* mutant
  LET longer == Append(memory, [event |-> e, receipt |-> r])
  IN  IF Len(longer) > MaxRemembered THEN memory ELSE longer
Remembered(e, r) ==
  LET longer == Append(memory, [event |-> e, receipt |-> r])
  IN  IF Len(longer) > MaxRemembered THEN Tail(longer) ELSE longer

Consume == /\ app = "running" /\ client = "reading" /\ stream # <<>>
           /\ current' = Head(stream) /\ stream' = Tail(stream)

(* handle, for an event whose receipt is remembered.                        *)
HandleDuplicate ==
  /\ Consume /\ \E i \in Known : receipt' = memory[i].receipt
  /\ client' = "posting"
  /\ UNCHANGED <<runtime, connected, peer, host, app, faults, restarts>>

(* Notifications are switched off, unsupported or denied, or the native     *)
(* notification cannot be made.                                             *)
HandleUnshown ==
  /\ Consume /\ Known = {} /\ client' = "posting"
  /\ receipt' \in {"suppressed", "unavailable", "failed"}
  /\ memory' = Remembered(Head(stream), receipt')
  /\ UNCHANGED <<runtime, connected, peer, active, shows, displayed, app, faults, restarts>>

(* #submit: the oldest notification makes room.                             *)
Submit ==
  /\ Consume /\ Known = {} /\ client' = "handling" /\ receipt' = Nil
  /\ active' = Append(IF Len(active) < MaxActive THEN active ELSE Tail(active), Head(stream))
  /\ shows' = [shows EXCEPT ![Head(stream)] = @ + 1]
  /\ UNCHANGED <<runtime, connected, peer, memory, displayed, app, faults, restarts>>

Display ==
  /\ client = "handling" /\ app = "running" /\ current \notin displayed
  /\ displayed' = displayed \cup {current}
  /\ UNCHANGED <<runtime, wire, loop, memory, active, shows, app, faults, restarts>>

(* The first of the show event, the failed event and the timer settles the  *)
(* submission; the last two give the native notification up.                *)
Settled(r) ==
  /\ client = "handling" /\ app = "running" /\ client' = "posting" /\ receipt' = r
  /\ memory' = Remembered(current, r)
  /\ active' = IF r = "submitted" THEN active ELSE Without(active, current)
  /\ UNCHANGED <<runtime, wire, current, shows, displayed, app, faults, restarts>>

ShowEvent   == current \in displayed /\ Settled("submitted")
FailedEvent == current \notin displayed /\ Settled("failed")
Timeout     == Settled("failed")

(* The user closes a notification, or it expires.                           *)
CloseNative(r) ==
  /\ r \in Range(active) /\ active' = Without(active, r)
  /\ UNCHANGED <<runtime, wire, loop, memory, shows, displayed, app, faults, restarts>>

(* The post of a receipt, answered, refused or lost on either way.          *)
PostAnswered ==
  /\ app = "running" /\ client = "acknowledged" /\ client' = "reading"
  /\ current' = Nil /\ receipt' = Nil
  /\ UNCHANGED <<runtime, wire, host, app, faults, restarts>>
PostRefused ==
  /\ app = "running" /\ Reconnect
  /\ client = "refused" \/ (client = "posting" /\ ~peer)
  /\ UNCHANGED <<runtime, peer, host, app, faults, restarts>>
PostLost ==
  /\ app = "running" /\ client \in {"posting", "acknowledged"} /\ Reconnect /\ Faulty
  /\ UNCHANGED <<runtime, peer, host, app, restarts>>

(* The connection breaks; of what was written, some has arrived.            *)
Break ==
  /\ connected /\ Faulty /\ connected' = FALSE
  /\ \E n \in 0..Len(stream) : stream' = SubSeq(stream, 1, n)
  /\ UNCHANGED <<runtime, peer, loop, host, app, restarts>>

(* before-quit: the host and the client stop together, and a post already   *)
(* on its way may still be read.                                            *)
Quit ==
  /\ app = "running" /\ restarts < MaxRestarts /\ app' = "stopped"
  /\ active' = <<>> /\ stream' = <<>> /\ connected' = FALSE
  /\ UNCHANGED <<runtime, peer, loop, memory, shows, displayed, faults, restarts>>

-----------------------------------------------------------------------------
ClientStep == \/ Connect \/ EndOfStream \/ HandleDuplicate \/ HandleUnshown \/ Submit
              \/ PostAnswered \/ PostRefused

Next ==
  \/ \E r \in Request : RequestNotification(r) \/ RefuseNotification(r) \/ CloseNative(r)
  \/ Acknowledge \/ Close \/ Exit \/ Start
  \/ ClientStep \/ Display \/ ShowEvent \/ FailedEvent \/ Timeout
  \/ PostLost \/ Break \/ Quit

Spec == Init /\ [][Next]_vars

(* The loop of a running App goes on, its timer fires, the Runtime answers  *)
(* posts, is started again, and ends after the App.                         *)
LiveSpec ==
  /\ Spec /\ WF_vars(ClientStep) /\ WF_vars(Timeout) /\ WF_vars(Acknowledge)
  /\ WF_vars(Start) /\ WF_vars(app = "stopped" /\ Close)
  /\ WF_vars(app = "stopped" /\ Exit)

-----------------------------------------------------------------------------
(* A notification is handed to the system at most once, however often its   *)
(* event is sent again: "a lost receipt cannot cause a second native        *)
(* notification" (docs/agent-runtime-contracts.md:135).  One remembered     *)
(* receipt suffices, because the client consumes one event at a time and a  *)
(* handled event without a receipt is always the oldest pending one         *)
(* (host-event-client.ts:185, notifications/index.ts:115).                  *)
ShownOnce == \A r \in Request : shows[r] <= 1

(* What is recorded of a scheduled run, and what an agent is told, agrees   *)
(* with the screen: submitted only what was displayed; suppressed only what *)
(* was never handed over; unavailable only such, unless close() answered in *)
(* place of a receipt; and the record is the answer, or says it is unknown  *)
(* (notifications/index.ts:205, notification-host.ts:141).                  *)
AnswersMatchTheScreen ==
  \A r \in Request :
    /\ answer[r] = "submitted" => r \in displayed
    /\ answer[r] = "suppressed" => shows[r] = 0
    /\ answer[r] = "unavailable" /\ r \notin closedOut => shows[r] = 0
    /\ record[r] \in Status => record[r] = answer[r]

(* Every request is answered or dies with its process, while connections    *)
(* break and receipts are lost: there is no receipt timer, so only the      *)
(* replay to the next connection answers a request whose receipt was lost   *)
(* (notifications/index.ts:115, host-event-client.ts:143).                  *)
RequestsAnswered == \A r \in Request : answer[r] = "waiting" ~> answer[r] # "waiting"
=============================================================================
