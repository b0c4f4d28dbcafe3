--------------------------- MODULE MCScheduleTime ---------------------------
(* ScheduleTime driven by a clock and a scan that comes whenever it likes:  *)
(* one schedule of every small definition, reserved at any lateness.        *)
EXTENDS ScheduleTime

CONSTANTS nil, MaxTime, MaxPeriod

(* The sentinel for "no further occurrence" is no instant.                  *)
ASSUME ClockAssumption == MaxTime \in Nat /\ MaxPeriod \in Nat /\ Nil \notin Nat

VARIABLES def, due, now

Timings ==
  {[kind |-> "once", at |-> t] : t \in 0..MaxTime} \cup
  UNION {{[kind |-> "cron", period |-> p, phase |-> f] : f \in 0..(p - 1)} : p \in 1..MaxPeriod}

Definitions ==
  [timing : Timings, misfirePolicy : {"coalesce", "skip"},
   maximumLateness : 0..(CatchUpLimit * Minute)]

MCInit == now = 0 /\ def \in Definitions /\ due = firstOccurrence(def.timing, now)

Wait == now < MaxTime /\ now' = now + 1 /\ UNCHANGED <<def, due>>

Scan ==
  /\ due # Nil /\ due <= now
  /\ due' = Reservation(def, due, now).next
  /\ UNCHANGED <<def, now>>

MCSpec == MCInit /\ [][Wait \/ Scan]_<<def, due, now>>

IsDue    == due # Nil /\ due <= now
Reserved == Reservation(def, due, now)
Fires    == IsDue /\ ~Reserved.misfire

(* The cron minutes that were due and are not later than the bound allows.  *)
InBound ==
  {t \in due..now : IsCron(def.timing) /\ Occurs(def.timing, t)
                      /\ t >= OldestAllowed(def, now)}

(* The catch-up loop ends within its limit for every schedule the input     *)
(* validation lets in: its error, which would end the process from the      *)
(* timer's callback, is out of reach.                                       *)
CatchUpBounded ==
  Fires => Cardinality(CatchUp(def, due, now)) - 1 <= CatchUpLimit

(* A scan leaves nothing due: whatever was missed, the next occurrence is   *)
(* in the future or there is none, so no scan fires a schedule twice.       *)
ScanSettles == IsDue => Reserved.next = Nil \/ Reserved.next > now

(* One scan is enough and never too much: the loop stays inside its limit   *)
(* and leaves nothing due.                                                  *)
CatchUpSettles == CatchUpBounded /\ ScanSettles

(* A coalescing cron schedule with a missed occurrence inside its bound     *)
(* fires, and what it fires is the latest occurrence.                       *)
CoalesceFiresLatest ==
  /\ IsDue /\ def.misfirePolicy = "coalesce" /\ InBound # {} => Fires
  /\ Fires /\ IsCron(def.timing) =>
       \A t \in due..now : Occurs(def.timing, t) => t <= Reserved.at

(* What fires is late by less than a minute more than its schedule allows.  *)
LatenessWithinMinute ==
  Fires => now - Reserved.at < def.maximumLateness + Minute

(* What fires is the latest occurrence and inside the bound, to a minute.   *)
FiresWithinBound == CoalesceFiresLatest /\ LatenessWithinMinute

(* docs/application-architecture.md lets a maximum lateness be set: nothing *)
(* fires later than that.                                                   *)
NeverLaterThanMaximum == Fires => now - Reserved.at <= def.maximumLateness
=============================================================================
