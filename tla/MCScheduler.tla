---------------------------- MODULE MCScheduler ----------------------------
(* Small instances of Scheduler for TLC: cron schedules of every minute and *)
(* every second minute, a one-time schedule, a minute of one or two units   *)
(* of time, and a catch-up limit of one step in place of 10_080.            *)
EXTENDS Scheduler

CONSTANTS s1, wecom, keyed, nil

EveryMinute == [kind |-> "cron", period |-> 1, phase |-> 0]
EverySecond == [kind |-> "cron", period |-> 2, phase |-> 1]
Once(t)     == [kind |-> "once", at |-> t]

Def(timing, policy, late, overlap, channel) ==
  [timing |-> timing, misfirePolicy |-> policy, maximumLateness |-> late,
   allowOverlap |-> overlap, enabled |-> TRUE, delivery |-> channel]

Disabled(d) == [d EXCEPT !.enabled = FALSE]

(* Both policies, with and without lateness and overlap, delivered nowhere; *)
(* the last one has no occurrence left inside its bound at time 4.          *)
TriggerDefinition ==
  { Def(EveryMinute, "coalesce", 2, FALSE, nil),
    Def(EveryMinute, "coalesce", 0, TRUE, nil),
    Def(EverySecond, "skip", 1, FALSE, nil),
    Def(EverySecond, "coalesce", 0, FALSE, nil) }

(* One output for a channel without idempotency, or two for one with it:    *)
(* enough to send, defer and resend.                                        *)
DeliveryDefinition ==
  { Def(Once(1), "coalesce", 0, FALSE, wecom),
    Def(EveryMinute, "coalesce", 1, FALSE, keyed) }
=============================================================================
