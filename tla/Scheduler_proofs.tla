-------------------------- MODULE Scheduler_proofs --------------------------
(***************************************************************************)
(* Theorems about Scheduler, for every set of schedules and definitions,    *)
(* any minute, bound of time and number of restarts.                        *)
(***************************************************************************)
EXTENDS Scheduler, TLAPS, WellFoundedInduction

-----------------------------------------------------------------------------
(* The time arithmetic.                                                     *)

OnMinute(timing, t) == IsCron(timing) => \E q \in Nat : t = Minute * q

(* nextCronOccurrence is a later minute, and no earlier than the next one.  *)
LEMMA NextCronIsLater ==
  ASSUME NEW timing, Timing(timing), IsCron(timing), NEW after \in Int, after >= -Minute
  PROVE  /\ NextCron(timing, after) \in Nat
         /\ NextCron(timing, after) > after
         /\ \E q \in Nat : NextCron(timing, after) = Minute * q /\ q > after \div Minute
<1> DEFINE m == after \div Minute + 1
           wait == (timing.phase - m) % timing.period
<1>1. Minute \in Nat /\ Minute > 0 /\ timing.period \in Nat /\ timing.period > 0
      /\ timing.phase \in Int
  BY MinuteAssumption DEF Timing, IsCron
<1>2. m \in Int /\ after < Minute * (after \div Minute) + Minute
  BY <1>1
<1>3. wait \in Nat
  <2>1. timing.phase - m \in Int
    BY <1>1, <1>2
  <2>. QED
    BY <1>1, <2>1
<1>4. m \in Nat
  <2>1. -Minute < Minute * m
    BY <1>1, <1>2
  <2>2. ~(m <= -1)
    BY <1>1, <1>2, <2>1
  <2>. QED
    BY <1>2, <2>2
<1>5. NextCron(timing, after) = Minute * (m + wait)
  BY DEF NextCron
<1>6. m + wait \in Nat /\ m + wait >= m
  BY <1>3, <1>4
<1>7. Minute * (m + wait) \in Nat /\ Minute * (m + wait) >= Minute * m
  BY <1>1, <1>4, <1>6
<1>8. Minute * m = Minute * (after \div Minute) + Minute
  BY <1>1
<1>9. m + wait > after \div Minute
  BY <1>1, <1>6
<1>. QED
  BY <1>1, <1>2, <1>5, <1>6, <1>7, <1>8, <1>9

LEMMA LatestInstant ==
  ASSUME NEW n \in Nat, NEW T \in SUBSET (0..n), T # {}
  PROVE  Max(T) \in T /\ \A t \in T : Max(T) >= t
<1> DEFINE rest == {n - t : t \in T}
<1>1. rest \subseteq Nat /\ rest # {}
  <2>1. \A t \in T : n - t \in Nat
    OBVIOUS
  <2>. QED
    BY <2>1
<1>2. PICK x \in rest : \A y \in rest : ~(<<y, x>> \in OpToRel(<, Nat))
  BY <1>1, NatLessThanWellFounded, WFMin
<1>3. \A y \in rest : ~(y < x)
  BY <1>1, <1>2 DEF OpToRel
<1>4. PICK m \in T : x = n - m
  OBVIOUS
<1>5. \A t \in T : ~(n - t < n - m)
  BY <1>3, <1>4
<1>6. T \subseteq Nat
  OBVIOUS
<1>7. ASSUME NEW t \in T PROVE m >= t
  <2>1. m \in Nat /\ t \in Nat /\ ~(n - t < n - m)
    BY <1>5, <1>6
  <2>. QED
    BY <2>1
<1>. QED
  BY <1>7 DEF Max

(* The occurrence a reservation is for is the due one or a later one.       *)
LEMMA FirstKeptIsLater ==
  ASSUME NEW d, ValidInput(d), NEW due \in Nat, NEW n \in Nat, due <= n,
         OnMinute(d.timing, due), ~GivesUp(d, due, n)
  PROVE  /\ FirstKept(d, due, n) \in Nat /\ FirstKept(d, due, n) >= due
         /\ OnMinute(d.timing, FirstKept(d, due, n))
<1>1. CASE ~TooLate(d, due, n)
  BY <1>1 DEF FirstKept
<1>2. CASE TooLate(d, due, n)
  <2> DEFINE oldest == n - d.maximumLateness
             after == oldest - Minute
  <2>1. Minute \in Nat /\ Minute > 0 /\ d.maximumLateness \in Int
    BY MinuteAssumption DEF ValidInput
  <2>2. oldest \in Int /\ due < oldest /\ after \in Int /\ after >= -Minute
    BY <1>2, <2>1 DEF TooLate, OldestAllowed
  <2>3. IsCron(d.timing) /\ Timing(d.timing)
    BY <1>2 DEF GivesUp, ValidInput
  <2>4. FirstKept(d, due, n) = NextCron(d.timing, after)
    BY <1>2 DEF FirstKept, OldestAllowed
  <2>5. PICK q \in Nat : NextCron(d.timing, after) = Minute * q /\ q > after \div Minute
    BY <2>2, <2>3, NextCronIsLater
  <2>6. PICK p \in Nat : due = Minute * p
    BY <2>3 DEF OnMinute
  <2>7. after \div Minute \in Int /\ after < Minute * (after \div Minute) + Minute
    BY <2>1, <2>2
  <2>8. p <= q
    <3>1. Minute * p - Minute < Minute * (after \div Minute) + Minute
      <4> HIDE DEF after
      <4>1. Minute * p < after + Minute /\ Minute * p \in Int /\ Minute * (after \div Minute) \in Int
        BY <2>1, <2>2, <2>6, <2>7 DEF after
      <4>. QED
        BY <2>1, <2>2, <2>7, <4>1
    <3>2. SUFFICES ASSUME p > q PROVE FALSE
      OBVIOUS
    <3>3. p >= after \div Minute + 2
      BY <2>5, <2>7, <3>2
    <3>4. Minute * p >= Minute * (after \div Minute + 2)
      BY <2>1, <2>7, <3>3
    <3>. QED
      BY <2>1, <2>7, <3>1, <3>4
  <2>9. Minute * q >= Minute * p
    BY <2>1, <2>8
  <2>. QED
    <3>1. FirstKept(d, due, n) = Minute * q
      BY <2>4, <2>5
    <3>2. Minute * q \in Nat /\ Minute * q >= due
      BY <2>1, <2>6, <2>9
    <3>. QED
      BY <3>1, <3>2 DEF OnMinute
<1>. QED
  BY <1>1, <1>2

(* #reserveDue moves a schedule past what it reserves, which is not before  *)
(* what was due.                                                            *)
LEMMA ReservationAdvances ==
  ASSUME NEW d, ValidInput(d), NEW due \in Nat, NEW n \in Nat, due <= n,
         OnMinute(d.timing, due)
  PROVE  LET v == Reservation(d, due, n) IN
           /\ v.at \in Nat /\ v.at >= due
           /\ \/ v.next = Nil
              \/ v.next \in Nat /\ v.next > v.at /\ OnMinute(d.timing, v.next)
<1> DEFINE v == Reservation(d, due, n)
<1>1. \A t \in Nat : IsCron(d.timing) =>
        /\ NextCron(d.timing, t) \in Nat /\ NextCron(d.timing, t) > t
        /\ OnMinute(d.timing, NextCron(d.timing, t))
  <2>1. \A t \in Nat : t \in Int /\ t >= -Minute
    BY MinuteAssumption
  <2>. QED
    BY <2>1, NextCronIsLater DEF ValidInput, OnMinute
<1>2. CASE GivesUp(d, due, n)
  <2>1. v = [at |-> due, misfire |-> TRUE,
             next |-> IF IsCron(d.timing) THEN NextCron(d.timing, n) ELSE Nil]
    BY <1>2 DEF Reservation
  <2>2. IsCron(d.timing) => NextCron(d.timing, n) \in Nat /\ NextCron(d.timing, n) > due
                            /\ OnMinute(d.timing, NextCron(d.timing, n))
    BY <1>1
  <2>. QED
    BY <2>1, <2>2
<1>3. CASE ~GivesUp(d, due, n) /\ FirstKept(d, due, n) > n
  <2>1. v = [at |-> due, misfire |-> TRUE, next |-> FirstKept(d, due, n)]
    BY <1>3 DEF Reservation
  <2>. QED
    BY <1>3, <2>1, FirstKeptIsLater
<1>4. CASE ~GivesUp(d, due, n) /\ ~(FirstKept(d, due, n) > n)
  <2> DEFINE first == FirstKept(d, due, n)
             T == CatchUp(d, due, n)
  <2>1. first \in Nat /\ first >= due /\ first <= n
    BY <1>4, FirstKeptIsLater
  <2>2. T \in SUBSET (0..n) /\ first \in T
    BY <2>1 DEF CatchUp
  <2>3. Max(T) \in 0..n /\ Max(T) >= first
    BY <2>2, LatestInstant
  <2>4. v = [at |-> Max(T), misfire |-> FALSE,
             next |-> IF IsCron(d.timing) THEN NextCron(d.timing, Max(T)) ELSE Nil]
    BY <1>4 DEF Reservation, Selected, followingOccurrence
  <2>5. Max(T) \in Nat /\ Max(T) >= due
    BY <2>1, <2>3
  <2>6. IsCron(d.timing) => NextCron(d.timing, Max(T)) \in Nat
                            /\ NextCron(d.timing, Max(T)) > Max(T)
                            /\ OnMinute(d.timing, NextCron(d.timing, Max(T)))
    BY <1>1, <2>5
  <2> HIDE DEF T
  <2>. QED
    BY <2>4, <2>5, <2>6
<1>. QED
  BY <1>2, <1>3, <1>4

-----------------------------------------------------------------------------
(* The inductive invariants.                                                *)

(* The attempts are counted while a message is on its way: an await of the  *)
(* tick that may send has its retry budget left, one that has not shown the *)
(* message yet has it counted.  Without idempotency a row that may still be *)
(* sent was never attempted, and only submitted triggers are attempted.     *)
AttemptInv ==
  /\ \A k \in Key :
       /\ shown[k] <= attempts[k]
       /\ attempts[k] > 0 => trigger[k] = "submitted"
       /\ target[k] \notin IdempotentChannel =>
            /\ attempts[k] <= 1
            /\ delivery[k] \in {"absent", "pending"} => attempts[k] = 0
  /\ current # Nil =>
       /\ current.stage = "looking" /\ phase = "delivering" => MaySend(current.key)
       /\ current.stage = "sending" => shown[current.key] < attempts[current.key]

(* Where the promise of the tick is: what it submits waits for submission,  *)
(* also the one whose run it is about to attach.                            *)
TickInv ==
  /\ phase = "idle" => current = Nil
  /\ phase = "submitting" => \A k \in todo : trigger[k] = "pending_submission"
  /\ current # Nil /\ current.stage = "submitted" =>
       /\ phase = "submitting" /\ current.key \notin todo
       /\ trigger[current.key] = "pending_submission"
  /\ current # Nil /\ current.stage \in {"sending", "sent"} => phase = "delivering"

(* A cron schedule is due on a minute.                                      *)
RowInv ==
  \A s \in Schedule : schedule[s] # Nil /\ schedule[s].next # Nil =>
    OnMinute(schedule[s].def.timing, schedule[s].next)

SchedulerInv == TypeOK /\ TickInv /\ AttemptInv /\ RowInv

(* What #reserveDue finds due.                                              *)
LEMMA DueAdvances ==
  ASSUME TypeOK, RowInv, NEW s \in Due
  PROVE  /\ s \in Schedule /\ schedule[s] \in Row
         /\ Reserved(s).at \in Nat /\ Reserved(s).at >= schedule[s].next
         /\ \/ Reserved(s).next = Nil
            \/ /\ Reserved(s).next \in Nat /\ Reserved(s).next > Reserved(s).at
               /\ OnMinute(schedule[s].def.timing, Reserved(s).next)
<1>1. /\ s \in Schedule /\ schedule[s] \in Row /\ schedule[s] # Nil
      /\ schedule[s].next # Nil /\ schedule[s].next <= now /\ now \in Nat
  BY SchedulerAssumption DEF Due, TypeOK
<1>2. schedule[s].next \in Nat /\ ValidInput(schedule[s].def)
      /\ OnMinute(schedule[s].def.timing, schedule[s].next)
  BY <1>1, DefinitionAssumption DEF Row, RowInv
<1>. QED
  BY <1>1, <1>2, ReservationAdvances DEF Reserved

(* The row a save writes.                                                   *)
LEMMA SavedRow ==
  ASSUME TypeOK, NEW s \in Schedule, NEW d \in Definition, Save(s, d)
  PROVE  /\ schedule'[s] \in Row /\ schedule'[s].def = d
         /\ schedule'[s].revision = IF schedule[s] = Nil THEN 1 ELSE Revised(s)
         /\ schedule'[s].next # Nil => OnMinute(d.timing, schedule'[s].next)
         /\ \A z \in Schedule : z # s => schedule'[z] = schedule[z]
<1> USE DEF TypeOK
<1>1. /\ firstOccurrence(d.timing, now) \in Nat /\ d.enabled \in BOOLEAN
      /\ OnMinute(d.timing, firstOccurrence(d.timing, now))
  <2>1. ValidInput(d) /\ now \in Int /\ now >= -Minute /\ d.enabled \in BOOLEAN
    BY DefinitionAssumption, MinuteAssumption, SchedulerAssumption
  <2>. QED
    BY <2>1, NextCronIsLater DEF firstOccurrence, ValidInput, Timing, OnMinute
<1>2. (IF schedule[s] = Nil THEN 1 ELSE Revised(s)) \in 1..MaxRevision
  BY SchedulerAssumption DEF Save, Revised, Row
<1> DEFINE row == [ revision |-> IF schedule[s] = Nil THEN 1 ELSE Revised(s),
                    def |-> d, enabled |-> d.enabled,
                    next |-> IF d.enabled THEN firstOccurrence(d.timing, now) ELSE Nil ]
<1>3. row \in Row
  BY <1>1, <1>2 DEF Row
<1>4. schedule' = [schedule EXCEPT ![s] = row]
  BY DEF Save
<1>5. schedule'[s] = row /\ \A z \in Schedule : z # s => schedule'[z] = schedule[z]
  BY <1>4
<1>. QED
  BY <1>1, <1>3, <1>5

(* The rows the start of a tick changes.                                    *)
LEMMA ReservedRow ==
  ASSUME TypeOK, RowInv, TickStarts, NEW s \in Schedule, schedule'[s] # schedule[s]
  PROVE  /\ s \in Due /\ schedule'[s] \in Row
         /\ schedule'[s].def = schedule[s].def
         /\ schedule'[s].revision = schedule[s].revision
         /\ schedule'[s].next = Reserved(s).next
<1>1. s \in Due /\ schedule'[s] = [schedule[s] EXCEPT !.next = Reserved(s).next,
                                        !.enabled = @ /\ Reserved(s).next # Nil]
  BY DEF TickStarts, ReserveTriggers
<1>2. schedule[s] \in Row /\ Reserved(s).next \in Nat \cup {Nil}
  BY <1>1, DueAdvances
<1>3. (schedule[s].enabled /\ Reserved(s).next # Nil) \in BOOLEAN
  OBVIOUS
<1>. QED
  BY <1>1, <1>2, <1>3 DEF Row

LEMMA OutcomeType ==
  ASSUME NEW s
  PROVE  Outcome(s) \in {"skipped_misfire", "skipped_overlap", "pending_submission"}
BY DEF Outcome

(* The transition table of the contract leads from active runs to statuses. *)
LEMMA TransitionsToStatus ==
  ASSUME NEW s \in DOMAIN Contract!transitions,
         NEW e \in DOMAIN Contract!transitions[s]
  PROVE  /\ Contract!transitions[s][e] \in Contract!Status
         /\ s \in {"queued", "running", "waiting_approval"}
BY DEF Contract!transitions, Contract!Status, Contract!Active, Contract!Terminal

LEMMA TypeStep ==
  ASSUME SchedulerInv, [Next]_vars
  PROVE  TypeOK'
<1> USE SchedulerAssumption, NilAssumption
    DEF SchedulerInv, TypeOK, store, outbox, agent, ticker, TriggerStatus, DeliveryStatus
<1>1. ASSUME NEW s \in Schedule, NEW d \in Definition, Save(s, d) PROVE TypeOK'
  <2>1. schedule'[s] \in Row
    BY <1>1, SavedRow
  <2>2. schedule' = [schedule EXCEPT ![s] = schedule'[s]]
    BY <1>1 DEF Save
  <2>3. schedule' \in [Schedule -> Row \cup {Nil}]
    BY <2>1, <2>2
  <2>. QED
    BY <1>1, <2>3 DEF Save
<1>2. CASE TickStarts
  <2>1. schedule' \in [Schedule -> Row \cup {Nil}]
    BY <1>2, ReservedRow DEF TickStarts, ReserveTriggers
  <2>2. trigger' \in [Key -> TriggerStatus]
    BY <1>2, OutcomeType DEF TickStarts, ReserveTriggers
  <2>3. target' \in [Key -> Channel \cup {Nil}]
    <3>1. \A s \in Due : schedule[s].def.delivery \in Channel \cup {Nil}
      BY DueAdvances, DefinitionAssumption DEF Row
    <3>. QED
      BY <1>2, <3>1 DEF TickStarts, ReserveTriggers
  <2>. QED
    BY <1>2, <2>1, <2>2, <2>3 DEF TickStarts, ReserveTriggers
<1>3. ASSUME NEW k \in Key, SubmitAccepted(k) \/ SubmitDeferred(k) \/ SubmitRefused(k)
                            \/ LooksUpRun(k) \/ SkipsDelivery(k) \/ LooksUpOutput(k)
      PROVE  TypeOK'
  BY <1>3 DEF SubmitAccepted, SubmitDeferred, SubmitRefused, LooksUpRun, SkipsDelivery,
     LooksUpOutput, Await, Contract!Status
<1>4. CASE AttachRun
  BY <1>4 DEF AttachRun, Await
<1>5. CASE Reconcile
  BY <1>5 DEF Reconcile, Prepared, Await
<1>6. CASE NextPhase \/ TickReturns
  BY <1>6 DEF NextPhase, TickReturns, Submitted, Retryable
<1>7. CASE ClaimsDelivery
  BY <1>7 DEF ClaimsDelivery, Await, AttemptInv, MaySend
<1>8. CASE DeliveryAnswered
  <2>1. current.key \in Key /\ attempts[current.key] \in 0..MaximumDeliveryAttempts
    BY <1>8 DEF DeliveryAnswered, Sending, Await
  <2>2. current.stage = "sending" =>
          AttemptReturned(current.key) \in 0..MaximumDeliveryAttempts
    BY <1>8, <2>1 DEF DeliveryAnswered, Sending, AttemptReturned, AttemptInv
  <2>. QED
    BY <1>8, <2>1, <2>2 DEF DeliveryAnswered, Finishes
<1>9. ASSUME NEW k \in Key, WatcherReconciles(k) PROVE TypeOK'
  BY <1>9 DEF WatcherReconciles, Prepared
<1>10. ASSUME NEW k \in Key, AgentMoves(k) PROVE TypeOK'
  BY <1>10, TransitionsToStatus DEF AgentMoves
<1>11. CASE MessageShown
  BY <1>11 DEF MessageShown, Await
<1>12. CASE ClockTicks \/ Close
  <2>1. now' \in 0..MaxTime
    BY <1>12 DEF ClockTicks, Close
  <2>. QED
    BY <1>12, <2>1 DEF ClockTicks, Close
<1>13. CASE Restart
  <2>1. restarts' \in 0..MaxRestarts
    BY <1>13 DEF Restart
  <2>2. delivery' \in [Key -> DeliveryStatus]
    BY <1>13 DEF Restart, RecoveredDelivery
  <2>3. run' \in [Key -> Contract!Status]
    BY <1>13 DEF Restart, Contract!Recovered, Contract!Status, Contract!Terminal
  <2>. QED
    BY <1>13, <2>1, <2>2, <2>3 DEF Restart
<1>14. CASE UNCHANGED vars
  BY <1>14 DEF vars
<1> HIDE DEF SchedulerInv, TypeOK
<1>. QED
  BY <1>1, <1>2, <1>3, <1>4, <1>5, <1>6, <1>7, <1>8, <1>9, <1>10, <1>11, <1>12, <1>13, <1>14
     DEF Next, TickStep

LEMMA TickInvStep ==
  ASSUME SchedulerInv, [Next]_vars
  PROVE  TickInv'
<1> USE NilAssumption
    DEF SchedulerInv, TypeOK, TickInv, store, outbox, agent, ticker, Takes
<1>1. CASE TickStarts
  BY <1>1 DEF TickStarts, ReserveTriggers
<1>2. ASSUME NEW k \in Key, SubmitAccepted(k) \/ SubmitDeferred(k) \/ SubmitRefused(k)
                            \/ LooksUpRun(k) \/ SkipsDelivery(k) \/ LooksUpOutput(k)
      PROVE  TickInv'
  BY <1>2 DEF SubmitAccepted, SubmitDeferred, SubmitRefused, LooksUpRun, SkipsDelivery,
     LooksUpOutput
<1>3. CASE AttachRun
  BY <1>3 DEF AttachRun, Await
<1>4. CASE Reconcile
  BY <1>4 DEF Reconcile
<1>5. CASE NextPhase \/ TickReturns
  BY <1>5 DEF NextPhase, TickReturns
<1>6. CASE ClaimsDelivery
  BY <1>6 DEF ClaimsDelivery, Await
<1>7. CASE DeliveryAnswered
  BY <1>7 DEF DeliveryAnswered, Finishes
<1>8. CASE MessageShown
  BY <1>8 DEF MessageShown, Await
<1>9. CASE Restart
  BY <1>9 DEF Restart
<1>10. CASE UNCHANGED <<trigger, ticker>>
  BY <1>10
<1>11. \A k \in Key : WatcherReconciles(k) \/ AgentMoves(k) => UNCHANGED <<trigger, ticker>>
  BY DEF WatcherReconciles, AgentMoves
<1>12. ASSUME NEW s \in Schedule, NEW d \in Definition, Save(s, d)
       PROVE  UNCHANGED <<trigger, ticker>>
  BY <1>12 DEF Save
<1>13. ClockTicks \/ Close \/ UNCHANGED vars => UNCHANGED <<trigger, ticker>>
  BY DEF ClockTicks, Close, vars
<1> HIDE DEF SchedulerInv, TypeOK, TickInv
<1>. QED
  BY <1>1, <1>2, <1>3, <1>4, <1>5, <1>6, <1>7, <1>8, <1>9, <1>10, <1>11, <1>12, <1>13
     DEF Next, TickStep

LEMMA AttemptStep ==
  ASSUME SchedulerInv, [Next]_vars
  PROVE  AttemptInv'
<1> USE SchedulerAssumption, NilAssumption
    DEF SchedulerInv, TypeOK, TickInv, AttemptInv, MaySend, store, outbox, agent, ticker, Takes
<1>1. CASE TickStarts
  <2>1. UNCHANGED <<outbox, shown>> /\ current' = Nil
    BY <1>1 DEF TickStarts, ReserveTriggers
  <2>2. ASSUME NEW k \in Key, trigger[k] # "absent"
        PROVE  trigger'[k] = trigger[k] /\ target'[k] = target[k]
    BY <1>1, <2>2 DEF TickStarts, ReserveTriggers
  <2>3. \A k \in Key : trigger[k] = "absent" => attempts[k] = 0
    OBVIOUS
  <2>. QED
    BY <2>1, <2>2, <2>3
<1>2. ASSUME NEW k \in Key, SubmitAccepted(k) \/ SubmitDeferred(k) \/ SubmitRefused(k)
      PROVE  AttemptInv'
  BY <1>2 DEF SubmitAccepted, SubmitDeferred, SubmitRefused
<1>3. ASSUME NEW k \in Key, LooksUpRun(k) \/ SkipsDelivery(k) \/ LooksUpOutput(k)
      PROVE  AttemptInv'
  BY <1>3 DEF LooksUpRun, SkipsDelivery, LooksUpOutput
<1>4. CASE AttachRun
  BY <1>4 DEF AttachRun, Await
<1>5. CASE Reconcile
  BY <1>5 DEF Reconcile, Prepared, Await
<1>6. CASE NextPhase \/ TickReturns
  BY <1>6 DEF NextPhase, TickReturns
<1>7. CASE ClaimsDelivery
  <2>1. CASE current' = Nil /\ UNCHANGED outbox
    BY <1>7, <2>1 DEF ClaimsDelivery
  <2>2. CASE /\ delivery' = [delivery EXCEPT ![current.key] = "delivering"]
             /\ attempts' = [attempts EXCEPT ![current.key] = @ + 1]
             /\ current' = [current EXCEPT !.stage = "sending"]
    <3>1. current.key \in Key /\ MaySend(current.key) /\ shown[current.key] \in Nat
          /\ attempts[current.key] \in Nat
      BY <1>7 DEF ClaimsDelivery, Await
    <3>2. current'.key = current.key /\ current'.stage = "sending"
      BY <1>7, <2>2 DEF ClaimsDelivery, Await
    <3>. QED
      BY <1>7, <2>2, <3>1, <3>2 DEF ClaimsDelivery
  <2>. QED
    BY <1>7, <2>1, <2>2 DEF ClaimsDelivery
<1>8. CASE DeliveryAnswered
  <2>1. current.key \in Key /\ shown[current.key] \in Nat /\ attempts[current.key] \in Nat
    BY <1>8 DEF DeliveryAnswered, Sending, Await
  <2>2. ASSUME NEW s \in {"delivered", "failed", "result_unknown"},
               Finishes(s, attempts[current.key])
        PROVE  AttemptInv'
    BY <2>1, <2>2 DEF Finishes
  <2>3. ASSUME current.stage = "sending", Finishes("pending", AttemptReturned(current.key))
        PROVE  AttemptInv'
    BY <1>8, <2>1, <2>3 DEF Finishes, AttemptReturned, DeliveryAnswered, Sending
  <2>. QED
    BY <1>8, <2>2, <2>3 DEF DeliveryAnswered
<1>9. ASSUME NEW k \in Key, WatcherReconciles(k) PROVE AttemptInv'
  BY <1>9 DEF WatcherReconciles, Prepared
<1>10. CASE MessageShown
  <2>1. current.key \in Key /\ shown[current.key] \in Nat /\ attempts[current.key] \in Nat
        /\ shown[current.key] < attempts[current.key]
    BY <1>10 DEF MessageShown, Await
  <2>2. current'.stage = "sent"
    BY <1>10 DEF MessageShown, Await
  <2>. QED
    BY <1>10, <2>1, <2>2 DEF MessageShown
<1>11. CASE Restart
  BY <1>11 DEF Restart, RecoveredDelivery
<1>12. CASE UNCHANGED <<trigger, target, outbox, shown, ticker>>
  BY <1>12
<1>13. /\ \A s \in Schedule, d \in Definition :
            Save(s, d) => UNCHANGED <<trigger, target, outbox, shown, ticker>>
       /\ \A k \in Key : AgentMoves(k) => UNCHANGED <<trigger, target, outbox, shown, ticker>>
       /\ ClockTicks \/ Close \/ UNCHANGED vars =>
            UNCHANGED <<trigger, target, outbox, shown, ticker>>
  BY DEF Save, AgentMoves, ClockTicks, Close, vars
<1> HIDE DEF SchedulerInv, TypeOK, TickInv, AttemptInv
<1>. QED
  BY <1>1, <1>2, <1>3, <1>4, <1>5, <1>6, <1>7, <1>8, <1>9, <1>10, <1>11, <1>12, <1>13
     DEF Next, TickStep

(* Only a save and the start of a tick change schedules.                    *)
LEMMA SchedulesKept ==
  ASSUME [Next]_vars, ~TickStarts, ~\E s \in Schedule, d \in Definition : Save(s, d)
  PROVE  schedule' = schedule
BY DEF store, Next, TickStep, SubmitAccepted, SubmitDeferred, SubmitRefused, LooksUpRun,
   SkipsDelivery, LooksUpOutput, AttachRun, Reconcile, NextPhase, TickReturns, ClaimsDelivery,
   DeliveryAnswered, Finishes, WatcherReconciles, AgentMoves, MessageShown, ClockTicks, Close,
   Restart, vars

LEMMA RowStep ==
  ASSUME SchedulerInv, [Next]_vars
  PROVE  RowInv'
<1> USE DEF SchedulerInv, TypeOK, RowInv
<1>1. ASSUME NEW s \in Schedule, NEW d \in Definition, Save(s, d) PROVE RowInv'
  BY <1>1, SavedRow
<1>2. CASE TickStarts
  BY <1>2, ReservedRow, DueAdvances
<1>3. CASE schedule' = schedule
  BY <1>3
<1>. QED
  BY <1>1, <1>2, <1>3, SchedulesKept

LEMMA SchedulerInvariant == Spec => []SchedulerInv
<1>1. Init => SchedulerInv
  <2> USE SchedulerAssumption DEF Init
  <2>1. Init => TypeOK
    <3>1. 0 \in 0..MaxTime /\ 0 \in 0..MaximumDeliveryAttempts /\ 0 \in 0..MaxRestarts
      OBVIOUS
    <3>2. "absent" \in TriggerStatus /\ "absent" \in DeliveryStatus
          /\ "absent" \in Contract!Status
      BY DEF TriggerStatus, DeliveryStatus, Contract!Status
    <3>3. Init => /\ now \in 0..MaxTime /\ restarts \in 0..MaxRestarts
                  /\ schedule \in [Schedule -> Row \cup {Nil}]
                  /\ trigger \in [Key -> TriggerStatus] /\ delivery \in [Key -> DeliveryStatus]
                  /\ run \in [Key -> Contract!Status]
                  /\ target \in [Key -> Channel \cup {Nil}]
                  /\ attempts \in [Key -> 0..MaximumDeliveryAttempts] /\ shown \in [Key -> Nat]
      BY <3>1, <3>2
    <3>. QED
      BY <3>3 DEF TypeOK
  <2>2. Init => TickInv /\ AttemptInv /\ RowInv
    BY DEF TickInv, AttemptInv, RowInv
  <2>. QED
    BY <2>1, <2>2 DEF SchedulerInv
<1>2. SchedulerInv /\ [Next]_vars => SchedulerInv'
  BY TypeStep, TickInvStep, AttemptStep, RowStep DEF SchedulerInv
<1>. QED
  BY <1>1, <1>2, PTL DEF Spec

(* Every variable of the scheduler keeps its type.  It is not inductive: an *)
(* attempt is counted within its limit because the test made before the     *)
(* output was looked up still holds after it, and an occurrence is an       *)
(* instant because of the arithmetic above.                                 *)
THEOREM TypeCorrect == Spec => []TypeOK
BY SchedulerInvariant, PTL DEF SchedulerInv

(* Every message a reader got is counted as an attempt, and without         *)
(* idempotency there is one at most, whatever deferrals, the retries of     *)
(* later ticks, close() and restarts do.                                    *)
THEOREM AttemptsAreCounted == Spec => []DeliveryCounted
<1>1. SchedulerInv => DeliveryCounted
  BY DEF SchedulerInv, AttemptInv, DeliveryCounted
<1>. QED
  BY <1>1, SchedulerInvariant, PTL

-----------------------------------------------------------------------------
(* Revisions.                                                               *)

(* A reserved trigger is of a revision its schedule has or had, and that    *)
(* revision is next due after it.                                           *)
AdvanceInv ==
  /\ \A k \in Key : trigger[k] # "absent" =>
       schedule[k.s] # Nil /\ k.rev <= schedule[k.s].revision
  /\ ScheduleAdvances

LEMMA AdvanceStep ==
  ASSUME SchedulerInv, AdvanceInv, [Next]_vars
  PROVE  AdvanceInv'
<1> USE NilAssumption DEF AdvanceInv, ScheduleAdvances, SchedulerInv, TypeOK, Row
<1>1. ASSUME NEW s \in Schedule, NEW d \in Definition, Save(s, d) PROVE AdvanceInv'
  <2>1. schedule[s] # Nil => schedule'[s].revision = schedule[s].revision + 1
    BY <1>1, SavedRow DEF Revised
  <2>2. schedule'[s] \in Row /\ schedule'[s] # Nil
    BY <1>1, SavedRow
  <2>3. trigger' = trigger /\ \A z \in Schedule : z # s => schedule'[z] = schedule[z]
    BY <1>1, SavedRow DEF Save
  <2>4. ASSUME NEW k \in Key, trigger[k] # "absent", k.s = s
        PROVE  schedule'[s] # Nil /\ k.rev < schedule'[s].revision
    BY <2>1, <2>2, <2>4 DEF Key
  <2>5. \A k \in Key : k.s \in Schedule /\ k.rev \in Nat /\ k.at \in Nat
    BY SchedulerAssumption DEF Key
  <2>. QED
    BY <2>2, <2>3, <2>4, <2>5
<1>2. CASE TickStarts
  <2>1. \A s \in Schedule : schedule[s] # Nil =>
          schedule'[s] # Nil /\ schedule'[s].revision = schedule[s].revision
    BY <1>2, ReservedRow
  <2>2. \A s \in Schedule : schedule'[s] # schedule[s] =>
          s \in Due /\ schedule'[s].next = Reserved(s).next
    BY <1>2, ReservedRow
  <2>3. ASSUME NEW k \in Key, trigger'[k] # trigger[k]
        PROVE  k.s \in Due /\ k = KeyOf(k.s) /\ schedule'[k.s].next = Reserved(k.s).next
    <3>1. k.s \in Due /\ k = KeyOf(k.s) /\ trigger[k] = "absent"
      BY <1>2, <2>3 DEF TickStarts, ReserveTriggers
    <3>2. schedule'[k.s] = [schedule[k.s] EXCEPT !.next = Reserved(k.s).next,
                              !.enabled = @ /\ Reserved(k.s).next # Nil]
      BY <1>2, <3>1, DueAdvances DEF TickStarts, ReserveTriggers
    <3>. QED
      BY <3>1, <3>2, DueAdvances
  <2>4. ASSUME NEW k \in Key, trigger[k] # "absent"
        PROVE  /\ schedule'[k.s] # Nil /\ k.rev <= schedule'[k.s].revision
               /\ schedule'[k.s].revision = k.rev =>
                    schedule'[k.s].next = Nil \/ schedule'[k.s].next > k.at
    <3>1. k.s \in Schedule /\ k.at \in Nat
      BY DEF Key
    <3>2. CASE schedule'[k.s] = schedule[k.s]
      BY <2>4, <3>1, <3>2
    <3>3. CASE schedule'[k.s] # schedule[k.s]
      <4>1. k.s \in Due /\ schedule'[k.s].next = Reserved(k.s).next
        BY <2>2, <3>1, <3>3
      <4>2. schedule[k.s].next \in Nat /\ schedule[k.s].next # Nil
        BY <4>1, DueAdvances DEF Due
      <4>3. Reserved(k.s).next = Nil \/ Reserved(k.s).next > schedule[k.s].next
        BY <4>1, <4>2, DueAdvances
      <4>4. schedule[k.s].revision = k.rev => schedule[k.s].next > k.at
        BY <2>4, <4>2
      <4>5. schedule[k.s].revision = k.rev =>
              Reserved(k.s).next = Nil \/ Reserved(k.s).next > k.at
        BY <3>1, <4>1, <4>2, <4>3, <4>4, DueAdvances
      <4>. QED
        BY <2>1, <2>4, <3>1, <4>1, <4>5
    <3>. QED
      BY <3>2, <3>3
  <2>5. ASSUME NEW k \in Key, trigger'[k] # trigger[k]
        PROVE  /\ schedule'[k.s] # Nil /\ k.rev <= schedule'[k.s].revision
               /\ schedule'[k.s].next = Nil \/ schedule'[k.s].next > k.at
    <3>1. k.s \in Due /\ k = KeyOf(k.s) /\ schedule'[k.s].next = Reserved(k.s).next
      BY <2>3, <2>5
    <3>2. k.at = Reserved(k.s).at /\ k.rev = schedule[k.s].revision
      BY <3>1 DEF KeyOf
    <3>3. schedule[k.s] # Nil /\ k.s \in Schedule /\ k.rev \in Nat
      BY <3>1 DEF Due, Key
    <3>. QED
      BY <2>1, <3>1, <3>2, <3>3, DueAdvances
  <2>6. ASSUME NEW k \in Key, trigger'[k] # "absent"
        PROVE  /\ schedule'[k.s] # Nil /\ k.rev <= schedule'[k.s].revision
               /\ schedule'[k.s].revision = k.rev =>
                    schedule'[k.s].next = Nil \/ schedule'[k.s].next > k.at
    BY <2>4, <2>5, <2>6
  <2>. QED
    BY <2>6
<1>3. CASE ~TickStarts /\ ~\E s \in Schedule, d \in Definition : Save(s, d)
  <2>1. schedule' = schedule
    BY <1>3, SchedulesKept
  <2>2. \A k \in Key : trigger[k] = "absent" => trigger'[k] = "absent"
    <3> USE DEF TickInv, store, ticker, Takes
    <3>1. ASSUME NEW j \in Key, SubmitRefused(j)
          PROVE  \A k \in Key : trigger[k] = "absent" => trigger'[k] = "absent"
      BY <3>1 DEF SubmitRefused
    <3>2. AttachRun => \A k \in Key : trigger[k] = "absent" => trigger'[k] = "absent"
      BY DEF AttachRun
    <3>3. CASE ~AttachRun /\ ~\E j \in Key : SubmitRefused(j)
      <4>1. trigger' = trigger
        BY <1>3, <3>3 DEF Next, TickStep, SubmitAccepted, SubmitDeferred, LooksUpRun,
           SkipsDelivery, LooksUpOutput, WatcherReconciles, Reconcile, NextPhase, TickReturns,
           ClaimsDelivery, DeliveryAnswered, Finishes, AgentMoves, MessageShown, ClockTicks,
           Close, Restart, vars
      <4>. QED
        BY <4>1
    <3>. QED
      BY <3>1, <3>2, <3>3
  <2>. QED
    BY <2>1, <2>2
<1>. QED
  BY <1>1, <1>2, <1>3

(* Whatever was reserved, the revision it was reserved for is next due      *)
(* after it: no occurrence is reserved twice, and no schedule stays due for *)
(* ever on a key that is taken, for any cron period, lateness and clock.    *)
THEOREM SchedulesAdvance == Spec => []ScheduleAdvances
<1>1. Init => AdvanceInv
  BY DEF Init, AdvanceInv, ScheduleAdvances
<1>. QED
  BY <1>1, AdvanceStep, SchedulerInvariant, PTL DEF Spec, AdvanceInv

-----------------------------------------------------------------------------
(* Overlaps.                                                                *)

(* A run has a trigger that was reserved for it.                            *)
RunInv ==
  \A k \in Key : run[k] # "absent" =>
    trigger[k] \in {"pending_submission", "submitted", "submission_failed"}

LEMMA RunStep ==
  ASSUME SchedulerInv, RunInv, [Next]_vars
  PROVE  RunInv'
<1> USE DEF SchedulerInv, TypeOK, TickInv, RunInv, store, agent, ticker, Takes
<1>1. CASE TickStarts
  <2>1. run' = run
    BY <1>1 DEF TickStarts
  <2>2. \A k \in Key : trigger[k] # "absent" => trigger'[k] = trigger[k]
    BY <1>1 DEF TickStarts, ReserveTriggers
  <2>. QED
    BY <2>1, <2>2
<1>2. ASSUME NEW j \in Key, SubmitAccepted(j) PROVE RunInv'
  BY <1>2 DEF SubmitAccepted
<1>3. ASSUME NEW j \in Key, SubmitRefused(j) PROVE RunInv'
  BY <1>3 DEF SubmitRefused
<1>4. CASE AttachRun
  BY <1>4 DEF AttachRun, Await
<1>5. ASSUME NEW j \in Key, AgentMoves(j) PROVE RunInv'
  BY <1>5, TransitionsToStatus DEF AgentMoves
<1>6. CASE Restart
  BY <1>6 DEF Restart, Contract!Recovered, Contract!Active
<1>7. CASE UNCHANGED <<trigger, run>>
  BY <1>7
<1>8. /\ \A j \in Key : SubmitDeferred(j) \/ LooksUpRun(j) \/ SkipsDelivery(j)
                         \/ LooksUpOutput(j) \/ WatcherReconciles(j)
                           => UNCHANGED <<trigger, run>>
      /\ \A s \in Schedule, d \in Definition : Save(s, d) => UNCHANGED <<trigger, run>>
      /\ Reconcile \/ NextPhase \/ TickReturns \/ ClaimsDelivery \/ DeliveryAnswered
         \/ MessageShown \/ ClockTicks \/ Close \/ UNCHANGED vars
           => UNCHANGED <<trigger, run>>
  BY DEF SubmitDeferred, LooksUpRun, SkipsDelivery, LooksUpOutput, WatcherReconciles, Save,
     Reconcile, NextPhase, TickReturns, ClaimsDelivery, DeliveryAnswered, Finishes,
     MessageShown, ClockTicks, Close, vars
<1> HIDE DEF SchedulerInv, TypeOK, TickInv, RunInv
<1>. QED
  BY <1>1, <1>2, <1>3, <1>4, <1>5, <1>6, <1>7, <1>8 DEF Next, TickStep

(* Nothing but the reservation of a trigger makes an execution live, and    *)
(* nothing takes an orphan back: a run is started under a key only while    *)
(* its trigger waits for it, and a failed trigger is not submitted again.   *)
LEMMA OnlyReservationsLive ==
  ASSUME SchedulerInv, [Next]_vars, ~TickStarts, NEW k \in Key
  PROVE  /\ Live(k)' => Live(k)
         /\ Orphaned(k) => Orphaned(k)'
         /\ mayOverlap' = mayOverlap
<1> USE DEF SchedulerInv, TypeOK, TickInv, Live, Orphaned, RunActive, store, agent, ticker, Takes
<1> DEFINE Goal == /\ Live(k)' => Live(k)
                   /\ Orphaned(k) => Orphaned(k)'
                   /\ mayOverlap' = mayOverlap
<1> SUFFICES Goal
  OBVIOUS
<1>1. ASSUME NEW j \in Key, SubmitAccepted(j) PROVE Goal
  BY <1>1 DEF SubmitAccepted
<1>2. ASSUME NEW j \in Key, SubmitRefused(j) PROVE Goal
  BY <1>2 DEF SubmitRefused
<1>3. CASE AttachRun
  BY <1>3 DEF AttachRun, Await
<1>4. ASSUME NEW j \in Key, AgentMoves(j) PROVE Goal
  BY <1>4, TransitionsToStatus DEF AgentMoves
<1>5. CASE Restart
  BY <1>5 DEF Restart, Contract!Recovered, Contract!Active
<1>6. CASE UNCHANGED <<trigger, mayOverlap, run>>
  BY <1>6
<1>7. /\ \A j \in Key : SubmitDeferred(j) \/ LooksUpRun(j) \/ SkipsDelivery(j)
                         \/ LooksUpOutput(j) \/ WatcherReconciles(j)
                           => UNCHANGED <<trigger, mayOverlap, run>>
      /\ \A s \in Schedule, d \in Definition :
            Save(s, d) => UNCHANGED <<trigger, mayOverlap, run>>
      /\ Reconcile \/ NextPhase \/ TickReturns \/ ClaimsDelivery \/ DeliveryAnswered
         \/ MessageShown \/ ClockTicks \/ Close \/ UNCHANGED vars
           => UNCHANGED <<trigger, mayOverlap, run>>
  BY DEF SubmitDeferred, LooksUpRun, SkipsDelivery, LooksUpOutput, WatcherReconciles, Save,
     Reconcile, NextPhase, TickReturns, ClaimsDelivery, DeliveryAnswered, Finishes,
     MessageShown, ClockTicks, Close, vars
<1> HIDE DEF SchedulerInv, TypeOK, TickInv, Live, Orphaned, Takes, Goal
<1>. QED
  BY <1>1, <1>2, <1>3, <1>4, <1>5, <1>6, <1>7 DEF Next, TickStep

(* A tick reserves one trigger of a schedule, the latest it has, and a live *)
(* one only if the schedule allows overlaps or has no other but orphans.    *)
LEMMA ReservationsDoNotOverlap ==
  ASSUME SchedulerInv, AdvanceInv, RunInv, NoOverlap, TickStarts
  PROVE  NoOverlap'
<1> DEFINE Fresh(k) == k.s \in Due /\ trigger[k] = "absent" /\ k = KeyOf(k.s)
<1>1. \A k \in Key : trigger'[k] # trigger[k] =>
        Fresh(k) /\ trigger'[k] = Outcome(k.s)
        /\ (schedule[k.s].def.allowOverlap => k \in mayOverlap')
  BY DEF TickStarts, ReserveTriggers, SchedulerInv, TypeOK
<1>2. run' = run /\ mayOverlap \subseteq mayOverlap'
  BY DEF TickStarts, ReserveTriggers, agent
<1>3. \A k \in Key : trigger'[k] = trigger[k] => (Live(k)' <=> Live(k)) /\ (Orphaned(k)' <=> Orphaned(k))
  BY <1>2 DEF Live, RunActive, Orphaned
<1>4. \A k \in Key : Live(k) => trigger[k] # "absent"
  BY DEF Live, RunActive, RunInv
<1>5. ASSUME NEW j \in Key, NEW k \in Key, Earlier(j, k), trigger'[j] # trigger[j], Live(k)'
      PROVE  FALSE
  <2>1. j.s \in Due /\ j = KeyOf(j.s) /\ k.s = j.s
    BY <1>1, <1>5 DEF Earlier
  <2>2. j.rev = schedule[j.s].revision /\ j.at = Reserved(j.s).at
        /\ j.rev \in Nat /\ j.at \in Nat /\ k.rev \in Nat /\ k.at \in Nat
    BY <2>1, SchedulerAssumption DEF KeyOf, Key
  <2>3. CASE trigger'[k] # trigger[k]
    <3>1. k = KeyOf(k.s)
      BY <1>1, <2>3
    <3>. QED
      BY <1>5, <2>1, <2>2, <3>1 DEF Earlier
  <2>4. CASE trigger'[k] = trigger[k]
    <3>1. trigger[k] # "absent"
      BY <1>3, <1>4, <1>5, <2>4
    <3>2. k.rev = schedule[k.s].revision
      BY <1>5, <2>1, <2>2, <3>1, SchedulerAssumption DEF AdvanceInv, Earlier, SchedulerInv,
         TypeOK, Row
    <3>3. schedule[k.s].next # Nil /\ schedule[k.s].next \in Nat
      BY <2>1, DueAdvances DEF SchedulerInv, Due, Row
    <3>4. schedule[k.s].next > k.at
      BY <3>1, <3>2, <3>3 DEF AdvanceInv, ScheduleAdvances
    <3>5. Reserved(k.s).at >= schedule[k.s].next
      BY <2>1, DueAdvances DEF SchedulerInv
    <3>. QED
      BY <1>5, <2>1, <2>2, <3>2, <3>3, <3>4, <3>5 DEF Earlier
  <2>. QED
    BY <2>3, <2>4
<1>6. ASSUME NEW j \in Key, NEW k \in Key, j.s = k.s, Live(j)', Live(k)', ~Orphaned(j)',
             trigger'[j] = trigger[j], trigger'[k] # trigger[k]
      PROVE  k \in mayOverlap'
  <2>1. Live(j) /\ ~Orphaned(j)
    BY <1>3, <1>6
  <2>2. Overlaps(k.s)
    BY <1>6, <2>1 DEF Overlaps, Live, Orphaned, RunActive, RunInv
  <2>3. trigger[k] = "absent" /\ trigger'[k] = Outcome(k.s)
    BY <1>1, <1>6
  <2>4. ~RunActive(k)'
    BY <1>2, <2>3 DEF RunActive, RunInv
  <2>5. Outcome(k.s) = "pending_submission"
    BY <1>6, <2>3, <2>4 DEF Live
  <2>6. schedule[k.s].def.allowOverlap
    BY <2>2, <2>5 DEF Outcome
  <2>. QED
    BY <1>1, <1>6, <2>6
<1>7. ASSUME NEW j \in Key, NEW k \in Key, Earlier(j, k), Live(j)', Live(k)', ~Orphaned(j)'
      PROVE  k \in mayOverlap'
  <2>1. trigger'[j] = trigger[j] /\ j.s = k.s
    BY <1>5, <1>7 DEF Earlier
  <2>2. CASE trigger'[k] = trigger[k]
    BY <1>2, <1>3, <1>7, <2>1, <2>2 DEF NoOverlap
  <2>3. CASE trigger'[k] # trigger[k]
    BY <1>6, <1>7, <2>1, <2>3
  <2>. QED
    BY <2>2, <2>3
<1>8. \A j, k \in Key : Earlier(j, k)' <=> Earlier(j, k)
  BY DEF Earlier
<1>. QED
  BY <1>7, <1>8 DEF NoOverlap

(* Of two live executions of a schedule, runs of failed triggers among      *)
(* them, the later was reserved while the schedule allowed it, or the       *)
(* earlier is an orphan: through edits of the schedule, full queues, slow   *)
(* runs and restarts.                                                       *)
THEOREM RunsDoNotOverlap == Spec => []NoOverlap
<1>1. Init => AdvanceInv /\ RunInv /\ NoOverlap
  BY DEF Init, AdvanceInv, ScheduleAdvances, RunInv, NoOverlap, Live, RunActive
<1>2. SchedulerInv /\ (AdvanceInv /\ RunInv /\ NoOverlap) /\ [Next]_vars
        => (AdvanceInv /\ RunInv /\ NoOverlap)'
  <2> SUFFICES ASSUME SchedulerInv, AdvanceInv, RunInv, NoOverlap, [Next]_vars
               PROVE  AdvanceInv' /\ RunInv' /\ NoOverlap'
    OBVIOUS
  <2>1. CASE TickStarts
    BY <2>1, AdvanceStep, RunStep, ReservationsDoNotOverlap
  <2>2. CASE ~TickStarts
    <3>1. NoOverlap'
      BY <2>2, OnlyReservationsLive DEF NoOverlap, Earlier
    <3>. QED
      BY <3>1, AdvanceStep, RunStep
  <2>. QED
    BY <2>1, <2>2
<1>. QED
  BY <1>1, <1>2, SchedulerInvariant, PTL DEF Spec

-----------------------------------------------------------------------------
(* Once close() has been called no delivery is claimed, although the tick   *)
(* it waits for may be between a lookup and a claim.                        *)
THEOREM NothingSentAfterClose == Spec => NoSendAfterClose
<1>1. ASSUME TypeOK, [Next]_vars, closed, NEW k \in Key, delivery'[k] = "delivering"
      PROVE  delivery[k] = "delivering"
  <2>1. CASE UNCHANGED delivery
    BY <1>1, <2>1
  <2>2. \/ UNCHANGED delivery
        \/ DeliveryAnswered \/ Restart
    BY <1>1 DEF outbox, vars, Next, TickStep, Save, TickStarts,
       ReserveTriggers, SubmitAccepted, SubmitDeferred, SubmitRefused,
       LooksUpRun, SkipsDelivery, LooksUpOutput, AttachRun, Reconcile,
       NextPhase, TickReturns, ClaimsDelivery, StillOpen, WatcherReconciles,
       AgentMoves, MessageShown, ClockTicks, Close
  <2>3. CASE DeliveryAnswered
    BY <1>1, <2>3 DEF DeliveryAnswered, Finishes, TypeOK
  <2>4. CASE Restart
    BY <1>1, <2>4 DEF Restart, RecoveredDelivery, TypeOK
  <2>. QED
    BY <2>1, <2>2, <2>3, <2>4
<1>2. TypeOK /\ [Next]_vars =>
        [closed => \A k \in Key : delivery'[k] = "delivering" => delivery[k] = "delivering"]_vars
  BY <1>1
<1>. QED
  BY <1>2, TypeCorrect, PTL DEF Spec, NoSendAfterClose
=============================================================================
