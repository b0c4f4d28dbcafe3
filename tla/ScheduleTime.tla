---------------------------- MODULE ScheduleTime ----------------------------
(***************************************************************************)
(* The time arithmetic of the scheduler: scheduler/time.ts and the choice   *)
(* #reserveDue makes in scheduler/service.ts.  Time is counted in units,    *)
(* Minute of them to the minute cron works in, so that a scan can fall      *)
(* between two minutes.  A cron expression with its time zone is abstracted *)
(* to the minutes it selects, every period-th one from phase on; a one-time *)
(* schedule is an instant.                                                  *)
(***************************************************************************)
EXTENDS Integers, FiniteSetsExt

CONSTANTS Minute,        \* time units of a minute
          CatchUpLimit,  \* 10_080 steps of the catch-up loop
          Nil            \* no further occurrence

ASSUME MinuteAssumption == Minute \in Nat \ {0} /\ CatchUpLimit \in Nat

IsCron(timing) == timing.kind = "cron"

Timing(timing) ==
  \/ timing.kind = "once" /\ timing.at \in Nat
  \/ /\ IsCron(timing)
     /\ timing.period \in Nat \ {0}
     /\ timing.phase \in 0..(timing.period - 1)

(* What input validation lets in: a maximum lateness of at most seven days, *)
(* as many minutes as the catch-up loop may take steps.                     *)
ValidInput(d) ==
  /\ Timing(d.timing)
  /\ d.misfirePolicy \in {"coalesce", "skip"}
  /\ d.maximumLateness \in 0..(CatchUpLimit * Minute)

(* Does the cron expression select this instant?                            *)
Occurs(timing, t) ==
  /\ t % Minute = 0
  /\ (t \div Minute) % timing.period = timing.phase

(* nextCronOccurrence: the first selected minute after the minute of after. *)
NextFromSameMinute(timing, after) ==                  \* mutant
  LET m == after \div Minute
  IN  Minute * (m + ((timing.phase - m) % timing.period))
NextCron(timing, after) ==
  LET m == after \div Minute + 1
  IN  Minute * (m + ((timing.phase - m) % timing.period))

firstOccurrence(timing, now) ==
  IF IsCron(timing) THEN NextCron(timing, now) ELSE timing.at

followingOccurrence(timing, occurrence) ==
  IF IsCron(timing) THEN NextCron(timing, occurrence) ELSE Nil

-----------------------------------------------------------------------------
(* #reserveDue, for a schedule d that was due at `due`.                     *)

OldestAllowed(d, now)  == now - d.maximumLateness
TooLate(d, due, now)   == due < OldestAllowed(d, now)

GivesUp(d, due, now) ==
  TooLate(d, due, now) /\ (~IsCron(d.timing) \/ d.misfirePolicy = "skip")

(* The first occurrence the lateness bound lets through.                    *)
FirstMissed(d, due, now) == due                       \* mutant
FirstKept(d, due, now) ==
  IF TooLate(d, due, now) THEN NextCron(d.timing, OldestAllowed(d, now) - Minute)
                          ELSE due

(* The occurrences the catch-up loop walks through.                         *)
CatchUp(d, due, now) ==
  LET first == FirstKept(d, due, now)
  IN  {first} \cup {t \in first..now : IsCron(d.timing) /\ Occurs(d.timing, t)}

FirstOfCatchUp(d, due, now) == FirstKept(d, due, now) \* mutant
Selected(d, due, now) == Max(CatchUp(d, due, now))

(* What is reserved, whether as a misfire, and when d is due next.          *)
Reservation(d, due, now) ==
  CASE GivesUp(d, due, now) ->
         [at |-> due, misfire |-> TRUE,
          next |-> IF IsCron(d.timing) THEN NextCron(d.timing, now) ELSE Nil]
    [] ~GivesUp(d, due, now) /\ FirstKept(d, due, now) > now ->
         [at |-> due, misfire |-> TRUE, next |-> FirstKept(d, due, now)]
    [] OTHER ->
         [at |-> Selected(d, due, now), misfire |-> FALSE,
          next |-> followingOccurrence(d.timing, Selected(d, due, now))]
=============================================================================
