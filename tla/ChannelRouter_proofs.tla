------------------------ MODULE ChannelRouter_proofs ------------------------
(***************************************************************************)
(* Theorems about ChannelRouter, for every set of messages and every number *)
(* of openings and restarts.                                                *)
(***************************************************************************)
EXTENDS ChannelRouter, TLAPS

(* The transition table of the contract leads to statuses.                  *)
LEMMA TransitionsToStatus ==
  ASSUME NEW s \in DOMAIN Contract!transitions,
         NEW e \in DOMAIN Contract!transitions[s]
  PROVE  Contract!transitions[s][e] \in Contract!Status \ {"absent"}
BY DEF Contract!transitions, Contract!Status, Contract!Active, Contract!Terminal

(* It leads from runs that have not ended.                                  *)
LEMMA TransitionsFromOpen ==
  ASSUME NEW s \in DOMAIN Contract!transitions
  PROVE  s \in {"queued", "running", "waiting_approval"}
BY DEF Contract!transitions

(* ClaimReply keeps the types of the three variables it writes.             *)
LEMMA ClaimReplyType ==
  ASSUME TypeOK, NEW m \in Message, ClaimReply(m)
  PROVE  /\ out' \in [Message -> {"absent", "pending", "delivering"} \cup Final]
         /\ reply' \in [Message -> {"none", "waiting", "told", "written", "unwritten"}]
         /\ written' \in [Message -> Nat]
BY DEF ClaimReply, TypeOK, Final

(* Binding, sending and revoking touch nothing a reply depends on.          *)
LEMMA SchedulesAlone ==
  ASSUME NEW g \in Target, Schedules(g)
  PROVE  UNCHANGED <<row, out, agent, phase, handler, reply, refused, written, bounds>>
BY DEF Schedules, Bind, Revoke, SendScheduled, SendEnds, db

(* Every variable keeps its type, whatever the provider, the Agent service, *)
(* close() and restarts do: no row, reply or run gets a status that is not  *)
(* in its table's vocabulary.                                               *)
THEOREM TypeCorrect == Spec => []TypeOK
<1>1. Init => TypeOK
  BY ChannelAssumption DEF Init, TypeOK, Message, Final, Contract!Status
<1>2. TypeOK /\ [Next]_vars => TypeOK'
  <2> SUFFICES ASSUME TypeOK, [Next]_vars PROVE TypeOK'
    OBVIOUS
  <2> USE DEF db, agent, phase, scheduled, bounds
  <2>1. CASE Start
    BY <2>1, ChannelAssumption DEF Start, TypeOK, MarkedUnknown, Final
  <2>2. CASE Ready
    BY <2>2 DEF Ready, TypeOK, RecoverableUnsupported, Message
  <2>3. CASE RecoverWatches
    BY <2>3 DEF RecoverWatches, TypeOK, PendingInbound, Message, Watched
  <2>4. CASE RecoveryEnds
    BY <2>4 DEF RecoveryEnds, TypeOK
  <2>5. CASE Close
    BY <2>5 DEF Close, TypeOK
  <2>6. CASE Drained
    BY <2>6 DEF Drained, TypeOK, MarkedUnknown, Final
  <2>7. CASE CloseReturns
    BY <2>7 DEF CloseReturns, TypeOK
  <2>8. ASSUME Dies, row' \in [Message -> {"absent", "pending", "attached", "cleared", "noted"}],
               out' \in [Message -> {"absent", "pending", "delivering"} \cup Final]
        PROVE  TypeOK'
    BY <2>8, ChannelAssumption
       DEF Dies, TypeOK, Contract!Recovered, Contract!Status, Contract!Active, Contract!Terminal
  <2>9. CASE Restart
    BY <2>8, <2>9 DEF Restart, TypeOK
  <2>10. ASSUME NEW m \in Message, DiesInReply(m) PROVE TypeOK'
    BY <2>8, <2>10 DEF DiesInReply, TypeOK
  <2>11. ASSUME NEW m \in Message, RecoverUnsupported(m) PROVE TypeOK'
    BY <2>11, ClaimReplyType DEF RecoverUnsupported, TypeOK
  <2>12. ASSUME NEW m \in Message, Dispatches(m)
         PROVE  /\ run' \in [Text -> Contract!Status]
                /\ handler' \in [Message -> {"none", "attaching", "cancelling"}]
                /\ refused' \subseteq Message
    BY <2>12, ChannelAssumption DEF Dispatches, Submits, AsksToCancel, TypeOK,
       Contract!Status, Contract!Active, Contract!Terminal
  <2>13. ASSUME NEW m \in Message, RecoverInput(m) PROVE TypeOK'
    BY <2>13, <2>12 DEF RecoverInput, TypeOK
  <2>14. ASSUME NEW m \in Message, ReceiveNew(m) PROVE TypeOK'
    BY <2>14, <2>12 DEF ReceiveNew, AcceptInbound, TypeOK
  <2>15. ASSUME NEW m \in Message, ReceiveKnown(m) PROVE TypeOK'
    BY <2>15 DEF ReceiveKnown, Watched, TypeOK
  <2>16. ASSUME NEW m \in Message, ReceiveUnsupported(m) PROVE TypeOK'
    BY <2>16, ClaimReplyType DEF ReceiveUnsupported, TypeOK
  <2>17. ASSUME NEW m \in Message, Continues(m) PROVE TypeOK'
    <3>1. CASE WatcherTold(m)
      BY <3>1 DEF WatcherTold, TypeOK
    <3>2. CASE WatcherReplies(m)
      BY <3>2, ClaimReplyType DEF WatcherReplies, TypeOK
    <3>3. CASE WatcherAborted(m)
      BY <3>3 DEF WatcherAborted, TypeOK
    <3>4. CASE ReplyAnswered(m)
      BY <3>4 DEF ReplyAnswered, Finished, Final, TypeOK
    <3>5. CASE AttachRun(m)
      BY <3>5 DEF AttachRun, Watched, TypeOK
    <3>6. CASE ClearInput(m)
      BY <3>6 DEF ClearInput, TypeOK
    <3>7. CASE CancelThrows(m)
      BY <3>7 DEF CancelThrows, TypeOK
    <3>. QED
      BY <2>17, <3>1, <3>2, <3>3, <3>4, <3>5, <3>6, <3>7 DEF Continues
  <2>18. ASSUME NEW m \in Text, AgentMoves(m) PROVE TypeOK'
    BY <2>18, TransitionsToStatus DEF AgentMoves, TypeOK
  <2>19. ASSUME NEW g \in Target, Schedules(g) PROVE TypeOK'
    BY <2>19 DEF Schedules, Bind, Revoke, SendScheduled, SendEnds, TypeOK
  <2>20. CASE UNCHANGED vars
    BY <2>20 DEF vars, TypeOK
  <2>. QED
    BY <2>1, <2>2, <2>3, <2>4, <2>5, <2>6, <2>7, <2>9, <2>10, <2>11, <2>13,
       <2>14, <2>15, <2>16, <2>17, <2>18, <2>19, <2>20 DEF Next, Recovers
<1>. QED
  BY <1>1, <1>2, PTL DEF Spec

-----------------------------------------------------------------------------
(* What a reply may do in one step: claim one that is still claimable and   *)
(* write it at most once, or decide it without writing.                     *)
ReplyStep(m) ==
  \/ UNCHANGED <<out[m], written[m]>>
  \/ /\ Claimable(m) /\ closing = "no" /\ out'[m] = "delivering"
     /\ written'[m] \in {written[m], written[m] + 1}
  \/ /\ out[m] \notin Final
     /\ out'[m] \in Final \/ (out[m] = "absent" /\ out'[m] = "pending")
     /\ written'[m] = written[m]

LEMMA ClaimIsReplyStep ==
  ASSUME TypeOK, NEW c \in Message, ClaimReply(c)
  PROVE  \A m \in Message : ReplyStep(m)
BY DEF ClaimReply, ReplyStep, TypeOK, Claimable, StillOpen, Final

LEMMA MarkingIsReplyStep ==
  ASSUME TypeOK, out' = [m \in Message |-> MarkedUnknown(out[m])], UNCHANGED written
  PROVE  \A m \in Message : ReplyStep(m)
BY DEF MarkedUnknown, ReplyStep, TypeOK, Final

(* Every step of the system is such a step for every message.               *)
LEMMA NextIsReplyStep ==
  ASSUME TypeOK, [Next]_vars
  PROVE  \A m \in Message : ReplyStep(m)
<1> USE DEF db, agent, phase, scheduled, bounds
<1>1. CASE UNCHANGED <<out, written>>
  BY <1>1 DEF ReplyStep
<1>2. CASE Start \/ Drained
  BY <1>2, MarkingIsReplyStep DEF Start, Drained
<1>3. ASSUME NEW c \in Message,
             RecoverUnsupported(c) \/ ReceiveUnsupported(c) \/ WatcherReplies(c)
      PROVE  \A m \in Message : ReplyStep(m)
  BY <1>3, ClaimIsReplyStep DEF RecoverUnsupported, ReceiveUnsupported, WatcherReplies
<1>4. ASSUME NEW c \in Message, ReplyAnswered(c)
      PROVE  \A m \in Message : ReplyStep(m)
  BY <1>4 DEF ReplyAnswered, Finished, ReplyStep, TypeOK, Final
<1>5. ASSUME NEW c \in Message, DiesInReply(c)
      PROVE  \A m \in Message : ReplyStep(m)
  BY <1>5 DEF DiesInReply, Dies, ReplyStep, TypeOK, Final
<1>6. CASE \/ Ready \/ RecoverWatches \/ RecoveryEnds \/ Close \/ CloseReturns \/ Restart
           \/ \E m \in Message : RecoverInput(m) \/ ReceiveNew(m) \/ ReceiveKnown(m)
  BY <1>6, <1>1 DEF Ready, RecoverWatches, RecoveryEnds, Close, CloseReturns,
     Restart, Dies, RecoverInput, ReceiveNew, AcceptInbound, ReceiveKnown
<1>7. CASE \/ \E m \in Text : AgentMoves(m)
           \/ \E m \in Message : \/ WatcherTold(m) \/ WatcherAborted(m) \/ AttachRun(m)
                                 \/ ClearInput(m) \/ CancelThrows(m)
  BY <1>7, <1>1 DEF AgentMoves, WatcherTold, WatcherAborted, AttachRun, ClearInput, CancelThrows
<1>8. CASE \E g \in Target : Schedules(g)
  BY <1>8, <1>1, SchedulesAlone
<1>9. CASE UNCHANGED vars
  BY <1>9, <1>1 DEF vars
<1>. QED
  BY <1>2, <1>3, <1>4, <1>5, <1>6, <1>7, <1>8, <1>9 DEF Next, Recovers, Continues

(* A reply that can still be claimed was never written: the link between    *)
(* the row and the provider that makes "at most once" inductive.            *)
ReplyInv ==
  \A m \in Message : written[m] <= 1 /\ (Claimable(m) => written[m] = 0)

(* A message is answered at most once, whatever is replayed, recovered,     *)
(* watched twice, closed or interrupted in between.                         *)
THEOREM RepliesAtMostOnce == Spec => []ReplyAtMostOnce
<1>1. Init => ReplyInv
  <2>1. Init => \A m \in Message : written[m] = 0
    BY DEF Init
  <2>. QED
    BY <2>1 DEF ReplyInv
<1>2. TypeOK /\ ReplyInv /\ [Next]_vars => ReplyInv'
  <2> SUFFICES ASSUME TypeOK, ReplyInv, [Next]_vars, NEW m \in Message
               PROVE  written'[m] <= 1 /\ (Claimable(m)' => written'[m] = 0)
    BY DEF ReplyInv
  <2>1. ReplyStep(m)
    BY NextIsReplyStep
  <2>. QED
    BY <2>1 DEF ReplyStep, ReplyInv, Claimable, TypeOK, Final
<1>3. ReplyInv => ReplyAtMostOnce
  BY DEF ReplyInv, ReplyAtMostOnce
<1>. QED
  BY <1>1, <1>2, <1>3, TypeCorrect, PTL DEF Spec

(* A decided reply is never written again and never reconsidered.           *)
THEOREM DecisionsAreFinal == Spec => DecidedIsFinal
<1>1. TypeOK /\ [Next]_vars =>
        [\A m \in Message : out[m] \in Final =>
           out'[m] = out[m] /\ written'[m] = written[m]]_vars
  BY NextIsReplyStep DEF ReplyStep, Claimable, Final
<1>. QED
  BY <1>1, TypeCorrect, PTL DEF Spec, DecidedIsFinal

(* Once close() has been called nothing is written.                         *)
THEOREM ClosedWritesNothing == Spec => NoReplyAfterClose
<1>1. TypeOK /\ TypeOK' /\ [Next]_vars => [closing # "no" => written' = written]_vars
  <2> SUFFICES ASSUME TypeOK, TypeOK', [Next]_vars, closing # "no" PROVE written' = written
    OBVIOUS
  <2>1. \A m \in Message : written'[m] = written[m]
    BY NextIsReplyStep DEF ReplyStep
  <2>. QED
    BY <2>1 DEF TypeOK
<1>. QED
  BY <1>1, TypeCorrect, PTL DEF Spec, NoReplyAfterClose

-----------------------------------------------------------------------------
(* Sends, targets and their revocations: inductive as it stands.            *)
LEMMA SendStep ==
  ASSUME RevokedIsQuiet, [Next]_vars
  PROVE  RevokedIsQuiet'
<1> USE DEF RevokedIsQuiet, db, phase, scheduled
<1>1. ASSUME NEW g \in Target, Bind(g) PROVE RevokedIsQuiet'
  BY <1>1 DEF Bind
<1>2. ASSUME NEW g \in Target, SendScheduled(g) PROVE RevokedIsQuiet'
  BY <1>2 DEF SendScheduled, Listed
<1>3. ASSUME NEW g \in Target, SendEnds(g) PROVE RevokedIsQuiet'
  BY <1>3 DEF SendEnds
<1>4. ASSUME NEW g \in Target, Revoke(g) PROVE RevokedIsQuiet'
  BY <1>4 DEF Revoke, Awaited
<1>5. CASE Dies
  BY <1>5 DEF Dies
<1>6. CASE CloseReturns
  BY <1>6 DEF CloseReturns
<1>7. CASE Start \/ Ready \/ RecoverWatches \/ RecoveryEnds \/ Close \/ Drained
  BY <1>7 DEF Start, Ready, RecoverWatches, RecoveryEnds, Close, Drained
<1>8. ASSUME NEW m \in Message, Continues(m) PROVE RevokedIsQuiet'
  <2>1. UNCHANGED scheduled /\ (router' = router \/ router' = "broken")
    BY <1>8 DEF Continues, WatcherTold, WatcherReplies, WatcherAborted, ReplyAnswered, AttachRun,
       ClearInput, CancelThrows
  <2>. QED
    BY <2>1
<1>9. ASSUME NEW m \in Message,
              \/ RecoverUnsupported(m) \/ RecoverInput(m)
              \/ ReceiveNew(m) \/ ReceiveKnown(m) \/ ReceiveUnsupported(m)
       PROVE  RevokedIsQuiet'
  BY <1>9 DEF RecoverUnsupported, RecoverInput, ReceiveNew, ReceiveKnown, ReceiveUnsupported
<1>10. ASSUME NEW m \in Text, AgentMoves(m) PROVE RevokedIsQuiet'
  BY <1>10 DEF AgentMoves
<1>11. CASE UNCHANGED vars
  BY <1>11 DEF vars
<1>12. /\ Restart => Dies
       /\ \A m \in Message : DiesInReply(m) => Dies
  BY DEF Restart, DiesInReply
<1> HIDE DEF RevokedIsQuiet
<1>. QED
  BY <1>1, <1>2, <1>3, <1>4, <1>5, <1>6, <1>7, <1>8, <1>9, <1>10, <1>11, <1>12
     DEF Next, Recovers, Schedules

(* What was told to stop has stopped: nothing is written once close() has   *)
(* been called, and no send is in flight to a target whose revocation was   *)
(* answered, or from a router that has closed.                              *)
THEOREM StoppedStaysQuiet == Spec => StoppedIsQuiet
<1>1. Init => RevokedIsQuiet
  BY DEF Init, RevokedIsQuiet
<1>2. Spec => []RevokedIsQuiet
  BY <1>1, SendStep, PTL DEF Spec
<1>. QED
  BY <1>2, ClosedWritesNothing, PTL DEF StoppedIsQuiet

-----------------------------------------------------------------------------
(* What an opened router knows of the messages it found in the store.       *)

(* From the moment the recovery has read its lists, a text that is recorded *)
(* but not submitted is still on the list, is being submitted or was        *)
(* refused under this router.                                               *)
InputInv ==
  /\ \A m \in Message : handler[m] = "cancelling" => m \in Cancel
  /\ router \in {"resuming", "open"} /\ closing = "no" =>
       \A m \in Text : row[m] = "pending" =>
         \/ m \in refused \/ handler[m] # "none"
         \/ router = "resuming" /\ m \in todo

LEMMA InputStep ==
  ASSUME TypeOK, InputInv, [Next]_vars
  PROVE  InputInv'
<1> USE ChannelAssumption DEF InputInv, TypeOK, Message, db, agent, phase, scheduled, bounds
<1>1. ASSUME NEW c \in Message, ReceiveNew(c) PROVE InputInv'
  BY <1>1 DEF ReceiveNew, AcceptInbound, Receives, Dispatches, Submits,
     AsksToCancel
<1>2. ASSUME NEW c \in Message, RecoverInput(c) PROVE InputInv'
  BY <1>2 DEF RecoverInput, Dispatches, Submits, AsksToCancel
<1>3. ASSUME NEW c \in Message, AttachRun(c) PROVE InputInv'
  BY <1>3 DEF AttachRun
<1>4. ASSUME NEW c \in Message, ClearInput(c) PROVE InputInv'
  BY <1>4 DEF ClearInput
<1>5. ASSUME NEW c \in Message, CancelThrows(c) PROVE InputInv'
  BY <1>5 DEF CancelThrows
<1>6. CASE RecoverWatches
  BY <1>6 DEF RecoverWatches, PendingInbound
<1>7. CASE RecoveryEnds
  BY <1>7 DEF RecoveryEnds
<1>8. CASE Start \/ Ready \/ Close \/ Drained \/ CloseReturns
  BY <1>8 DEF Start, Ready, Close, Drained, CloseReturns
<1>9. CASE Dies
  BY <1>9 DEF Dies
<1>10. ASSUME NEW c \in Message, RecoverUnsupported(c) \/ ReceiveUnsupported(c) PROVE InputInv'
  BY <1>10 DEF RecoverUnsupported, ReceiveUnsupported
<1>11. CASE UNCHANGED <<row, phase, handler, refused>>
  BY <1>11
<1>12. /\ \A c \in Message : WatcherTold(c) \/ WatcherReplies(c) \/ WatcherAborted(c)
            \/ ReplyAnswered(c) \/ ReceiveKnown(c) => UNCHANGED <<row, phase, handler, refused>>
       /\ \A c \in Text : AgentMoves(c) => UNCHANGED <<row, phase, handler, refused>>
       /\ \A g \in Target : Schedules(g) => UNCHANGED <<row, phase, handler, refused>>
       /\ UNCHANGED vars => UNCHANGED <<row, phase, handler, refused>>
  BY SchedulesAlone DEF WatcherTold, WatcherReplies, WatcherAborted, ReplyAnswered, ReceiveKnown, AgentMoves, vars
<1>13. /\ Restart => Dies
       /\ \A c \in Message : DiesInReply(c) => Dies
  BY DEF Restart, DiesInReply
<1> HIDE DEF InputInv, TypeOK, phase
<1>. QED
  BY <1>1, <1>2, <1>3, <1>4, <1>5, <1>6, <1>7, <1>8, <1>9, <1>10, <1>11, <1>12, <1>13
     DEF Next, Recovers, Continues

(* No input is stranded: what an open router leaves unsubmitted was refused *)
(* by the Agent service under this very router, wherever an earlier process *)
(* died between the row, the run and their link.                            *)
THEOREM InputIsSubmitted == Spec => []NoInputStranded
<1>1. Init => InputInv
  BY DEF Init, InputInv
<1>2. InputInv => NoInputStranded
  BY DEF InputInv, NoInputStranded
<1>. QED
  BY <1>1, <1>2, InputStep, TypeCorrect, PTL DEF Spec

(* From the moment the recovery has started its watchers, a text with a run *)
(* and no decided reply is watched or replied to, or its output is gone; a  *)
(* reply handed to the transport has been claimed.                          *)
FollowInv ==
  /\ \A m \in Message : reply[m] \in {"written", "unwritten"} => ~Claimable(m)
  /\ router \in {"resuming", "open"} /\ closing = "no" =>
       \A m \in Text : row[m] = "attached" /\ Claimable(m) =>
         reply[m] # "none" \/ ~HasContent(m)

(* A reply that was claimed stays so.                                       *)
LEMMA ClaimedStaysClaimed ==
  ASSUME TypeOK, [Next]_vars, NEW m \in Message, Claimable(m)'
  PROVE  Claimable(m)
BY NextIsReplyStep DEF ReplyStep, Claimable, Final

LEMMA FollowStep ==
  ASSUME TypeOK, FollowInv, [Next]_vars
  PROVE  FollowInv'
<1> USE ChannelAssumption DEF FollowInv, TypeOK, Message, HasContent, db, agent, phase, scheduled, bounds
<1>0. \A m \in Message : Claimable(m)' => Claimable(m)
  BY ClaimedStaysClaimed
<1>1. ASSUME NEW c \in Message, WatcherTold(c) PROVE FollowInv'
  BY <1>0, <1>1 DEF WatcherTold
<1>2. ASSUME NEW c \in Message, WatcherReplies(c) PROVE FollowInv'
  BY <1>0, <1>2 DEF WatcherReplies, ClaimReply, StillOpen, Claimable
<1>3. ASSUME NEW c \in Message, WatcherAborted(c) PROVE FollowInv'
  BY <1>0, <1>3 DEF WatcherAborted, Aborted
<1>4. ASSUME NEW c \in Message, ReplyAnswered(c) PROVE FollowInv'
  BY <1>0, <1>4 DEF ReplyAnswered
<1>5. ASSUME NEW c \in Message, AttachRun(c) PROVE FollowInv'
  BY <1>0, <1>5 DEF AttachRun, Watched, Aborted
<1>6. ASSUME NEW c \in Message, ClearInput(c) \/ CancelThrows(c) PROVE FollowInv'
  BY <1>0, <1>6 DEF ClearInput, CancelThrows
<1>7. ASSUME NEW c \in Message, ReceiveNew(c) \/ RecoverInput(c) PROVE FollowInv'
  <2>1. \A m \in Text : HasContent(m)' => HasContent(m)
    BY <1>7 DEF ReceiveNew, AcceptInbound, RecoverInput, Dispatches, Submits,
       AsksToCancel
  <2>2. /\ UNCHANGED <<out, reply, closing, router>>
        /\ \A m \in Message : row'[m] = "attached" => row[m] = "attached"
    BY <1>7 DEF ReceiveNew, AcceptInbound, RecoverInput
  <2>. QED
    BY <1>0, <2>1, <2>2
<1>8. ASSUME NEW c \in Message, ReceiveKnown(c) PROVE FollowInv'
  BY <1>0, <1>8 DEF ReceiveKnown, Watched, Aborted
<1>9. ASSUME NEW c \in Message, ReceiveUnsupported(c) \/ RecoverUnsupported(c) PROVE FollowInv'
  BY <1>0, <1>9 DEF ReceiveUnsupported, RecoverUnsupported, ClaimReply, StillOpen, Claimable
<1>10. CASE RecoverWatches
  BY <1>0, <1>10 DEF RecoverWatches, RecoverableInbound, Watched, Aborted, Claimable
<1>11. CASE RecoveryEnds
  BY <1>0, <1>11 DEF RecoveryEnds
<1>12. CASE Start \/ Ready \/ Close \/ Drained \/ CloseReturns
  BY <1>0, <1>12 DEF Start, Ready, Close, Drained, CloseReturns
<1>13. CASE Dies
  BY <1>0, <1>13 DEF Dies
<1>14. ASSUME NEW c \in Text, AgentMoves(c) PROVE FollowInv'
  <2>1. run[c] # "succeeded"
    BY <1>14, TransitionsFromOpen DEF AgentMoves
  <2>2. \A m \in Text : ~HasContent(m) => m # c
    BY <2>1
  <2>3. \A m \in Text : m # c => (HasContent(m)' <=> HasContent(m))
    BY <1>14 DEF AgentMoves
  <2>4. UNCHANGED <<row, out, phase, reply>>
    BY <1>14 DEF AgentMoves
  <2>. QED
    BY <1>0, <2>2, <2>3, <2>4
<1>15. CASE UNCHANGED vars \/ \E g \in Target : Schedules(g)
  BY <1>0, <1>15, SchedulesAlone DEF vars
<1>16. /\ Restart => Dies
       /\ \A c \in Message : DiesInReply(c) => Dies
  BY DEF Restart, DiesInReply
<1> HIDE DEF FollowInv, TypeOK
<1>. QED
  BY <1>1, <1>2, <1>3, <1>4, <1>5, <1>6, <1>7, <1>8, <1>9, <1>10, <1>11, <1>12, <1>13, <1>14,
     <1>15, <1>16 DEF Next, Recovers, Continues

(* Every message whose run has no decided reply is followed by an open      *)
(* router, also when its run was submitted or ended under another router or *)
(* another process, except a success whose output is gone.                  *)
THEOREM RunsAreFollowed == Spec => []RunFollowed
<1>1. Init => FollowInv
  BY DEF Init, FollowInv
<1>2. FollowInv => RunFollowed
  BY DEF FollowInv, RunFollowed
<1>. QED
  BY <1>1, <1>2, FollowStep, TypeCorrect, PTL DEF Spec

(* An open router has hold of every message that waits for its run or for   *)
(* its reply.                                                               *)
THEOREM NothingIsForgotten == Spec => []NothingForgotten
  BY InputIsSubmitted, RunsAreFollowed, PTL DEF NothingForgotten
=============================================================================
