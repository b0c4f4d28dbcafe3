------------------------- MODULE ScheduleTime_proofs -------------------------
(***************************************************************************)
(* Theorems about ScheduleTime under MCScheduleTime's clock, for any length *)
(* of a minute, limit of the catch-up loop, period, phase, bound on time    *)
(* and instants of the scans.                                               *)
(***************************************************************************)
EXTENDS MCScheduleTime, TLAPS, FiniteSetTheorems, WellFoundedInduction

-----------------------------------------------------------------------------
(* Division.                                                                *)

LEMMA Division ==
  ASSUME NEW a \in Int, NEW b \in Nat \ {0}
  PROVE  /\ a \div b \in Int /\ a % b \in Nat /\ a % b < b
         /\ a = b * (a \div b) + (a % b)
  OBVIOUS

(* A product below b and above -b is of zero.                               *)
LEMMA SmallMultiple ==
  ASSUME NEW b \in Nat \ {0}, NEW x \in Int, b * x > -b
  PROVE  x >= 0
<1> SUFFICES ASSUME x <= -1 PROVE FALSE
  OBVIOUS
<1>1. b * x <= b * (-1)
  OBVIOUS
<1>. QED
  BY <1>1

LEMMA DivisionIsUnique ==
  ASSUME NEW b \in Nat \ {0}, NEW q \in Int, NEW r \in 0..(b - 1)
  PROVE  (b * q + r) % b = r /\ (b * q + r) \div b = q
<1> DEFINE a == b * q + r
           d == a \div b
           e == a % b
<1>1. b * q \in Int /\ a \in Int
  OBVIOUS
<1>2. d \in Int /\ e \in Nat /\ e < b /\ a = b * d + e
  BY <1>1, Division
<1> HIDE DEF d, e
<1>3. b * (q - d) = b * q - b * d /\ b * (d - q) = b * d - b * q
  BY <1>2
<1>4. b * d \in Int
  BY <1>2
<1>5. b * (q - d) > -b /\ b * (d - q) > -b
  BY <1>1, <1>2, <1>3, <1>4
<1>6. q - d >= 0 /\ d - q >= 0
  BY <1>2, <1>5, SmallMultiple
<1>7. d = q
  BY <1>2, <1>6
<1>8. e = r
  BY <1>1, <1>2, <1>7
<1>. QED
  BY <1>7, <1>8 DEF d, e

-----------------------------------------------------------------------------
(* nextCronOccurrence.                                                      *)

LEMMA CronTiming ==
  ASSUME NEW timing, Timing(timing), IsCron(timing)
  PROVE  /\ Minute \in Nat \ {0} /\ timing.period \in Nat \ {0}
         /\ timing.phase \in 0..(timing.period - 1)
  BY MinuteAssumption DEF Timing, IsCron

(* It selects a later instant that occurs, and nothing that occurs in a     *)
(* later minute comes before it.                                            *)
LEMMA NextCronIsFirst ==
  ASSUME NEW timing, Timing(timing), IsCron(timing), NEW after \in Int, after >= -Minute
  PROVE  /\ NextCron(timing, after) \in Nat
         /\ NextCron(timing, after) > after
         /\ Occurs(timing, NextCron(timing, after))
         /\ \A t \in Nat : Occurs(timing, t) /\ t >= after + Minute =>
              NextCron(timing, after) <= t
<1> DEFINE m == after \div Minute + 1
           p == timing.period
           wait == (timing.phase - m) % p
           j == (timing.phase - m) \div p
           next == Minute * (m + wait)
<1>1. Minute \in Nat \ {0} /\ p \in Nat \ {0} /\ timing.phase \in 0..(p - 1)
      /\ timing.phase \in Int
  BY CronTiming
<1>2. /\ m \in Int
      /\ after < Minute * m /\ Minute * m <= after + Minute
      /\ Minute * m \in Int
  <2>1. /\ after \div Minute \in Int /\ after % Minute \in Nat /\ after % Minute < Minute
        /\ after = Minute * (after \div Minute) + (after % Minute)
    BY <1>1, Division
  <2>2. Minute * (after \div Minute + 1) = Minute * (after \div Minute) + Minute
    BY <1>1, <2>1
  <2>3. Minute * (after \div Minute) \in Int
    BY <1>1, <2>1
  <2>. QED
    BY <1>1, <2>1, <2>2, <2>3
<1>3. m >= 0
  <2>1. Minute * m > -Minute
    BY <1>1, <1>2
  <2> HIDE DEF m
  <2>. QED
    BY <1>1, <1>2, <2>1, SmallMultiple
<1>4. wait \in Nat /\ wait < p /\ j \in Int /\ timing.phase - m = p * j + wait
  <2>1. timing.phase - m \in Int
    BY <1>1, <1>2
  <2>. QED
    BY <1>1, <2>1, Division
<1> HIDE DEF m, wait, j
<1>5. m + wait \in Nat /\ m + wait >= m
  BY <1>2, <1>3, <1>4
<1>6. next \in Nat /\ next >= Minute * m
  BY <1>1, <1>2, <1>5
<1>7. next % Minute = 0 /\ next \div Minute = m + wait
  <2>1. next = Minute * (m + wait) + 0 /\ 0 \in 0..(Minute - 1) /\ m + wait \in Int
    BY <1>1, <1>5, <1>6
  <2>. QED
    BY <1>1, <2>1, DivisionIsUnique
<1>8. (m + wait) % p = timing.phase
  <2>1. p * (-j) = -(p * j) /\ p * j \in Int
    BY <1>1, <1>4
  <2>2. m + wait = p * (-j) + timing.phase
    BY <1>1, <1>2, <1>4, <2>1
  <2>3. -j \in Int
    BY <1>4
  <2>. QED
    BY <1>1, <2>2, <2>3, DivisionIsUnique
<1>9. ASSUME NEW t \in Nat, Occurs(timing, t), t >= after + Minute
      PROVE  next <= t
  <2> DEFINE k == t \div Minute
             i == k \div p
  <2>1. k \in Int /\ t = Minute * k
    <3>1. k \in Int /\ t = Minute * k + (t % Minute) /\ t % Minute = 0
      BY <1>1, <1>9, Division DEF Occurs
    <3>2. Minute * k \in Int
      BY <1>1, <3>1
    <3> HIDE DEF k
    <3>. QED
      BY <3>1, <3>2
  <2>2. k % p = timing.phase
    BY <1>9 DEF Occurs
  <2> HIDE DEF k
  <2>3. i \in Int /\ k = p * i + timing.phase
    BY <1>1, <2>1, <2>2, Division
  <2> HIDE DEF i
  <2>4. k >= m
    <3>1. Minute * (k - m) = Minute * k - Minute * m /\ Minute * k \in Int
      BY <1>1, <1>2, <2>1
    <3>2. Minute * (k - m) > -Minute
      BY <1>1, <1>2, <1>9, <2>1, <3>1
    <3>3. k - m >= 0
      BY <1>1, <1>2, <2>1, <3>2, SmallMultiple
    <3>. QED
      BY <1>2, <2>1, <3>3
  <2>5. k - m = p * (i + j) + wait /\ p * (i + j) \in Int
    <3>1. p * (i + j) = p * i + p * j /\ p * i \in Int /\ p * j \in Int
      BY <1>1, <1>4, <2>3
    <3>2. k - m = (p * i + p * j) + wait
      BY <1>1, <1>2, <1>4, <2>1, <2>3, <3>1
    <3>. QED
      BY <3>1, <3>2
  <2>6. i + j >= 0
    <3>1. p * (i + j) > -p
      BY <1>1, <1>2, <1>4, <2>1, <2>4, <2>5
    <3>. QED
      BY <1>1, <1>4, <2>3, <3>1, SmallMultiple
  <2>7. p * (i + j) >= 0
    BY <1>1, <1>4, <2>3, <2>6
  <2>8. k >= m + wait
    BY <1>2, <1>4, <2>1, <2>5, <2>7
  <2>9. Minute * k >= Minute * (m + wait)
    BY <1>1, <1>5, <2>1, <2>8
  <2>. QED
    BY <2>1, <2>9
<1>10. NextCron(timing, after) = next
  BY DEF NextCron, m, wait
<1>. QED
  BY <1>1, <1>2, <1>6, <1>7, <1>8, <1>9, <1>10 DEF Occurs

-----------------------------------------------------------------------------
(* #reserveDue.                                                             *)

OnOccurrence(timing, t) == IsCron(timing) => Occurs(timing, t)

(* A schedule d that was due at `since` and is found due at n.              *)
FoundDue(d, since, n) ==
  ValidInput(d) /\ since \in Nat /\ n \in Nat /\ since <= n /\ OnOccurrence(d.timing, since)

(* What the lateness bound lets through is an occurrence, at most a minute  *)
(* later than the bound allows, and none that it allows comes before it.    *)
LEMMA FirstKeptIsFirst ==
  ASSUME NEW d, NEW since, NEW n, FoundDue(d, since, n), ~GivesUp(d, since, n)
  PROVE  /\ FirstKept(d, since, n) \in Nat
         /\ FirstKept(d, since, n) > n - d.maximumLateness - Minute
         /\ OnOccurrence(d.timing, FirstKept(d, since, n))
         /\ \A t \in Nat : Occurs(d.timing, t) /\ t >= since /\ t >= OldestAllowed(d, n) =>
              FirstKept(d, since, n) <= t
<1> DEFINE oldest == n - d.maximumLateness
           first  == FirstKept(d, since, n)
<1>1. /\ Minute \in Nat /\ Minute > 0 /\ d.maximumLateness \in Int
      /\ since \in Nat /\ n \in Nat /\ oldest \in Int
  <2>1. CatchUpLimit * Minute \in Int
    BY MinuteAssumption
  <2>. QED
    BY <2>1, MinuteAssumption DEF FoundDue, ValidInput
<1>2. CASE ~TooLate(d, since, n)
  <2>1. first = since /\ ~(since < oldest)
    BY <1>2 DEF FirstKept, TooLate, OldestAllowed
  <2>. QED
    BY <1>1, <2>1 DEF FoundDue
<1>3. CASE TooLate(d, since, n)
  <2> DEFINE after == oldest - Minute
  <2>1. IsCron(d.timing) /\ Timing(d.timing)
    BY <1>3 DEF GivesUp, FoundDue, ValidInput
  <2>2. since < oldest /\ first = NextCron(d.timing, after)
    BY <1>3 DEF FirstKept, TooLate, OldestAllowed
  <2>3. after \in Int /\ after >= -Minute /\ after + Minute = oldest
    BY <1>1, <2>2
  <2> HIDE DEF after
  <2>4. /\ first \in Nat /\ first > after /\ Occurs(d.timing, first)
        /\ \A t \in Nat : Occurs(d.timing, t) /\ t >= after + Minute => first <= t
    BY <2>1, <2>2, <2>3, NextCronIsFirst
  <2>5. first > oldest - Minute
    BY <2>4 DEF after
  <2>. QED
    BY <2>3, <2>4, <2>5 DEF OnOccurrence, OldestAllowed
<1>. QED
  BY <1>2, <1>3

LEMMA LatestInstant ==
  ASSUME NEW n \in Nat, NEW T \in SUBSET (0..n), T # {}
  PROVE  Max(T) \in T /\ \A t \in T : Max(T) >= t
<1> DEFINE rest == {n - t : t \in T}
<1>1. rest \subseteq Nat /\ rest # {}
  <2>1. \A t \in T : n - t \in Nat
    OBVIOUS
  <2>. QED
    BY <2>1
<1>2. PICK x \in rest : \A y \in rest : ~(<<y, x>> \in OpToRel(<, Nat))
  BY <1>1, NatLessThanWellFounded, WFMin
<1>3. \A y \in rest : ~(y < x)
  BY <1>1, <1>2 DEF OpToRel
<1>4. PICK m \in T : x = n - m
  OBVIOUS
<1>5. \A t \in T : ~(n - t < n - m)
  BY <1>3, <1>4
<1>6. T \subseteq Nat
  OBVIOUS
<1>7. ASSUME NEW t \in T PROVE m >= t
  <2>1. m \in Nat /\ t \in Nat /\ ~(n - t < n - m)
    BY <1>5, <1>6
  <2>. QED
    BY <2>1
<1>. QED
  BY <1>7 DEF Max

(* The catch-up loop ends on the latest occurrence.                         *)
LEMMA SelectedIsLatest ==
  ASSUME NEW d, NEW since, NEW n, FoundDue(d, since, n), ~GivesUp(d, since, n),
         FirstKept(d, since, n) <= n
  PROVE  /\ Selected(d, since, n) \in FirstKept(d, since, n)..n
         /\ OnOccurrence(d.timing, Selected(d, since, n))
         /\ IsCron(d.timing) =>
              \A t \in 0..n : Occurs(d.timing, t) => t <= Selected(d, since, n)
<1> DEFINE first == FirstKept(d, since, n)
           T == CatchUp(d, since, n)
<1>1. first \in Nat /\ OnOccurrence(d.timing, first) /\ n \in Nat
  BY FirstKeptIsFirst DEF FoundDue
<1>2. /\ T \in SUBSET (0..n) /\ first \in T
      /\ \A t \in T : OnOccurrence(d.timing, t)
      /\ \A t \in first..n : IsCron(d.timing) /\ Occurs(d.timing, t) => t \in T
  BY <1>1 DEF CatchUp, OnOccurrence
<1>3. Max(T) \in T /\ \A t \in T : Max(T) >= t
  BY <1>1, <1>2, LatestInstant
<1>4. Max(T) \in Nat /\ Max(T) >= first /\ Max(T) <= n
  BY <1>1, <1>2, <1>3
<1>5. ASSUME NEW t \in 0..n, IsCron(d.timing), Occurs(d.timing, t)
      PROVE  t <= Max(T)
  <2>1. CASE t >= first
    <3>1. t \in T
      BY <1>1, <1>2, <1>5, <2>1
    <3>. QED
      BY <1>3, <1>4, <3>1
  <2>2. CASE t < first
    BY <1>1, <1>4, <2>2
  <2>. QED
    BY <1>1, <2>1, <2>2
<1>6. Selected(d, since, n) = Max(T)
  BY DEF Selected
<1> HIDE DEF T, first
<1>7. Max(T) \in first..n
  BY <1>1, <1>4
<1>. QED
  BY <1>2, <1>3, <1>5, <1>6, <1>7 DEF first

(* What is fired, and what it takes to.                                     *)
LEMMA WhenFired ==
  ASSUME NEW d, NEW since, NEW n
  PROVE  /\ Reservation(d, since, n).misfire \in BOOLEAN
         /\ ~Reservation(d, since, n).misfire <=>
              ~GivesUp(d, since, n) /\ ~(FirstKept(d, since, n) > n)
         /\ ~Reservation(d, since, n).misfire =>
              Reservation(d, since, n).at = Selected(d, since, n)
<1>1. CASE GivesUp(d, since, n)
  BY <1>1 DEF Reservation
<1>2. CASE ~GivesUp(d, since, n) /\ FirstKept(d, since, n) > n
  BY <1>2 DEF Reservation
<1>3. CASE ~GivesUp(d, since, n) /\ ~(FirstKept(d, since, n) > n)
  BY <1>3 DEF Reservation
<1>. QED
  BY <1>1, <1>2, <1>3

(* The catch-up loop walks through at most one occurrence a minute, from    *)
(* the first it keeps to now, which lie at most the largest lateness that   *)
(* can be set and less than a minute apart.                                 *)
LEMMA CatchUpIsShort ==
  ASSUME NEW d, NEW since, NEW n, FoundDue(d, since, n), ~GivesUp(d, since, n),
         FirstKept(d, since, n) <= n
  PROVE  /\ IsFiniteSet(CatchUp(d, since, n))
         /\ Cardinality(CatchUp(d, since, n)) - 1 <= CatchUpLimit
<1> DEFINE first == FirstKept(d, since, n)
           T == CatchUp(d, since, n)
<1>1. /\ Minute \in Nat \ {0} /\ CatchUpLimit \in Nat
      /\ n \in Nat /\ d.maximumLateness \in Int
      /\ d.maximumLateness <= CatchUpLimit * Minute /\ CatchUpLimit * Minute \in Int
  <2>1. CatchUpLimit * Minute \in Int
    BY MinuteAssumption
  <2>. QED
    BY <2>1, MinuteAssumption DEF FoundDue, ValidInput
<1>2. first \in Nat /\ first > n - d.maximumLateness - Minute
      /\ OnOccurrence(d.timing, first)
  BY FirstKeptIsFirst
<1>3. CASE ~IsCron(d.timing)
  <2>1. T = {first}
    BY <1>3 DEF CatchUp
  <2>2. IsFiniteSet(T) /\ Cardinality(T) = 1
    <3> HIDE DEF T
    <3>. QED
      BY <2>1, FS_Singleton
  <2> HIDE DEF T
  <2>. QED
    BY <1>1, <2>2 DEF T
<1>4. CASE IsCron(d.timing)
  <2> DEFINE q == first \div Minute
             step == [k \in 0..CatchUpLimit |-> Minute * (q + k)]
             Steps == {step[k] : k \in 0..CatchUpLimit}
  <2>1. q \in Int /\ first = Minute * q
    <3> HIDE DEF first
    <3>1. first \in Int /\ first % Minute = 0
      BY <1>2, <1>4 DEF OnOccurrence, Occurs
    <3>2. q \in Int /\ first = Minute * q + (first % Minute)
      BY <1>1, <3>1, Division
    <3> HIDE DEF q
    <3>. QED
      BY <1>1, <3>1, <3>2
  <2>2. ASSUME NEW t \in first..n, Occurs(d.timing, t)
        PROVE  t \in Steps
    <3> DEFINE k == t \div Minute - q
    <3>1. t \in Nat /\ t >= first /\ t <= n
      BY <1>1, <1>2
    <3>2. t \div Minute \in Int /\ t = Minute * (t \div Minute) + (t % Minute) /\ t % Minute = 0
      BY <1>1, <2>2, <3>1, Division DEF Occurs
    <3> HIDE DEF q, first
    <3>3. k \in Int /\ t = Minute * (q + k)
      BY <1>1, <2>1, <3>2
    <3> HIDE DEF k
    <3>4. /\ Minute * (q + k) = Minute * q + Minute * k
          /\ Minute * k \in Int /\ Minute * q \in Int
      BY <1>1, <2>1, <3>3
    <3>5. Minute * k >= 0 /\ Minute * k < CatchUpLimit * Minute + Minute
      BY <1>1, <1>2, <2>1, <3>1, <3>3, <3>4
    <3>6. k >= 0
      BY <1>1, <3>3, <3>5, SmallMultiple
    <3>7. CatchUpLimit - k >= 0
      <4>1. Minute * (CatchUpLimit - k) = CatchUpLimit * Minute - Minute * k
        BY <1>1, <3>3
      <4>2. Minute * (CatchUpLimit - k) > -Minute
        BY <1>1, <3>4, <3>5, <4>1
      <4>. QED
        BY <1>1, <3>3, <4>2, SmallMultiple
    <3>8. k \in 0..CatchUpLimit
      BY <1>1, <3>3, <3>6, <3>7
    <3>9. step[k] = t
      BY <3>3, <3>8
    <3>. QED
      BY <3>8, <3>9
  <2>3. T \subseteq Steps
    <3>1. first \in first..n /\ Occurs(d.timing, first)
      BY <1>1, <1>2, <1>4 DEF OnOccurrence
    <3>2. first \in Steps
      BY <2>2, <3>1
    <3>. QED
      BY <2>2, <3>2 DEF CatchUp
  <2>4. IsFiniteSet(0..CatchUpLimit) /\ Cardinality(0..CatchUpLimit) = CatchUpLimit + 1
    BY <1>1, FS_Interval
  <2>5. step \in Surjection(0..CatchUpLimit, Steps)
    <3> HIDE DEF q
    <3>. QED
      BY DEF Surjection
  <2> HIDE DEF step, Steps, T
  <2>6. IsFiniteSet(Steps) /\ Cardinality(Steps) <= CatchUpLimit + 1
    BY <2>4, <2>5, FS_Surjection
  <2>7. IsFiniteSet(T) /\ Cardinality(T) <= Cardinality(Steps)
    BY <2>3, <2>6, FS_Subset
  <2>8. Cardinality(T) \in Nat /\ Cardinality(Steps) \in Nat
    BY <2>6, <2>7, FS_CardinalityType
  <2>. QED
    BY <1>1, <2>6, <2>7, <2>8 DEF T
<1>. QED
  BY <1>3, <1>4

(* A reservation leaves nothing due.                                        *)
LEMMA ReservationSettles ==
  ASSUME NEW d, NEW since, NEW n, FoundDue(d, since, n)
  PROVE  LET next == Reservation(d, since, n).next IN
           next = Nil \/ (next \in Nat /\ next > n /\ OnOccurrence(d.timing, next))
<1> DEFINE v == Reservation(d, since, n)
<1>1. ASSUME NEW t \in Nat, IsCron(d.timing)
      PROVE  /\ NextCron(d.timing, t) \in Nat /\ NextCron(d.timing, t) > t
             /\ OnOccurrence(d.timing, NextCron(d.timing, t))
  <2>1. t \in Int /\ t >= -Minute /\ Timing(d.timing)
    BY MinuteAssumption DEF FoundDue, ValidInput
  <2>. QED
    BY <1>1, <2>1, NextCronIsFirst DEF OnOccurrence
<1>2. n \in Nat
  BY DEF FoundDue
<1>3. CASE GivesUp(d, since, n)
  <2>1. v.next = IF IsCron(d.timing) THEN NextCron(d.timing, n) ELSE Nil
    BY <1>3 DEF Reservation
  <2>. QED
    BY <1>1, <1>2, <2>1
<1>4. CASE ~GivesUp(d, since, n) /\ FirstKept(d, since, n) > n
  <2>1. v.next = FirstKept(d, since, n)
    BY <1>4 DEF Reservation
  <2>. QED
    BY <1>4, <2>1, FirstKeptIsFirst
<1>5. CASE ~GivesUp(d, since, n) /\ ~(FirstKept(d, since, n) > n)
  <2> DEFINE last == Selected(d, since, n)
             next == NextCron(d.timing, last)
  <2>1. v.next = IF IsCron(d.timing) THEN next ELSE Nil
    BY <1>5 DEF Reservation, followingOccurrence
  <2>2. FirstKept(d, since, n) \in Nat /\ FirstKept(d, since, n) <= n
    BY <1>2, <1>5, FirstKeptIsFirst
  <2>3. /\ last \in FirstKept(d, since, n)..n
        /\ IsCron(d.timing) => \A t \in 0..n : Occurs(d.timing, t) => t <= last
    BY <1>5, <2>2, SelectedIsLatest
  <2>4. last \in Nat
    BY <1>2, <2>2, <2>3
  <2> HIDE DEF last
  <2>5. ASSUME IsCron(d.timing)
        PROVE  next \in Nat /\ next > n /\ OnOccurrence(d.timing, next)
    <3>1. next \in Nat /\ next > last /\ OnOccurrence(d.timing, next)
      BY <1>1, <2>4, <2>5
    <3>2. ASSUME next <= n PROVE FALSE
      <4>1. next \in 0..n /\ Occurs(d.timing, next)
        BY <1>2, <2>5, <3>1, <3>2 DEF OnOccurrence
      <4>2. next <= last
        BY <2>3, <2>5, <4>1
      <4>. QED
        BY <2>4, <3>1, <4>2
    <3>. QED
      BY <1>2, <3>1, <3>2
  <2>. QED
    BY <2>1, <2>5
<1>. QED
  BY <1>3, <1>4, <1>5

-----------------------------------------------------------------------------
(* The schedule under the clock.                                            *)

(* A cron schedule is always due on one of its occurrences: the search for  *)
(* the first kept one, which starts a minute before the oldest allowed      *)
(* instant, and the steps of the catch-up loop count from there.            *)
ClockInv ==
  /\ def \in Definitions
  /\ now \in 0..MaxTime
  /\ due = Nil \/ (due \in Nat /\ OnOccurrence(def.timing, due))

(* The definitions the clock drives are ones input validation lets in.      *)
LEMMA DefinitionsAreValid ==
  ASSUME NEW d \in Definitions
  PROVE  ValidInput(d)
<1>1. /\ d.timing \in Timings /\ d.misfirePolicy \in {"coalesce", "skip"}
      /\ d.maximumLateness \in 0..(CatchUpLimit * Minute)
  BY DEF Definitions
<1>2. ASSUME NEW t \in 0..MaxTime, d.timing = [kind |-> "once", at |-> t]
      PROVE  Timing(d.timing)
  BY <1>2, ClockAssumption DEF Timing
<1>3. ASSUME NEW p \in 1..MaxPeriod, NEW f \in 0..(p - 1),
             d.timing = [kind |-> "cron", period |-> p, phase |-> f]
      PROVE  Timing(d.timing)
  BY <1>3, ClockAssumption DEF Timing, IsCron
<1>4. Timing(d.timing)
  <2>1. \/ \E t \in 0..MaxTime : d.timing = [kind |-> "once", at |-> t]
        \/ \E p \in 1..MaxPeriod : \E f \in 0..(p - 1) :
             d.timing = [kind |-> "cron", period |-> p, phase |-> f]
    BY <1>1 DEF Timings
  <2>. QED
    BY <1>2, <1>3, <2>1
<1>. QED
  BY <1>1, <1>4 DEF ValidInput

LEMMA DueIsFound ==
  ASSUME ClockInv, IsDue
  PROVE  FoundDue(def, due, now)
  BY DefinitionsAreValid, ClockAssumption DEF ClockInv, IsDue, FoundDue

LEMMA FirstOccurrenceIsDue ==
  ASSUME MCInit
  PROVE  ClockInv
<1>1. Timing(def.timing) /\ now = 0 /\ now \in Int /\ now >= -Minute
  BY DefinitionsAreValid, MinuteAssumption DEF MCInit, ValidInput
<1>2. CASE IsCron(def.timing)
  <2>1. due = NextCron(def.timing, now)
    BY <1>2 DEF MCInit, firstOccurrence
  <2>2. due \in Nat /\ Occurs(def.timing, due)
    BY <1>1, <1>2, <2>1, NextCronIsFirst
  <2>. QED
    BY <1>1, <2>2, ClockAssumption DEF MCInit, ClockInv, OnOccurrence
<1>3. CASE ~IsCron(def.timing)
  <2>1. due = def.timing.at /\ due \in Nat
    BY <1>1, <1>3 DEF MCInit, firstOccurrence, Timing, IsCron
  <2>. QED
    BY <1>1, <1>3, <2>1, ClockAssumption DEF MCInit, ClockInv, OnOccurrence
<1>. QED
  BY <1>2, <1>3

LEMMA ClockInvariance == MCSpec => []ClockInv
<1>1. MCInit => ClockInv
  BY FirstOccurrenceIsDue
<1>2. ClockInv /\ [Wait \/ Scan]_<<def, due, now>> => ClockInv'
  <2> SUFFICES ASSUME ClockInv, [Wait \/ Scan]_<<def, due, now>>
               PROVE  ClockInv'
    OBVIOUS
  <2>1. CASE Wait
    <3>1. now' \in 0..MaxTime
      BY <2>1, ClockAssumption DEF Wait, ClockInv
    <3>. QED
      BY <2>1, <3>1 DEF Wait, ClockInv
  <2>2. CASE Scan
    <3>1. FoundDue(def, due, now)
      BY <2>2, DueIsFound DEF Scan, IsDue
    <3>2. due' = Nil \/ (due' \in Nat /\ OnOccurrence(def.timing, due'))
      BY <2>2, <3>1, ReservationSettles DEF Scan
    <3>. QED
      BY <2>2, <3>2 DEF Scan, ClockInv
  <2>3. CASE UNCHANGED <<def, due, now>>
    BY <2>3 DEF ClockInv
  <2>. QED
    BY <2>1, <2>2, <2>3
<1>. QED
  BY <1>1, <1>2, PTL DEF MCSpec

(* What a scan that fires has established.                                  *)
LEMMA FiresOnTime ==
  ASSUME ClockInv, Fires
  PROVE  /\ FoundDue(def, due, now) /\ ~GivesUp(def, due, now)
         /\ FirstKept(def, due, now) \in Nat /\ FirstKept(def, due, now) <= now
         /\ Reserved.at = Selected(def, due, now)
<1>1. FoundDue(def, due, now) /\ now \in Nat
  BY DueIsFound DEF Fires, FoundDue
<1>2. /\ ~GivesUp(def, due, now) /\ ~(FirstKept(def, due, now) > now)
      /\ Reserved.at = Selected(def, due, now)
  BY WhenFired DEF Fires, Reserved
<1>. QED
  BY <1>1, <1>2, FirstKeptIsFirst

(* CatchUpBounded and ScanSettles: for every schedule that input validation *)
(* lets in and a scan however late, the loop of #reserveDue stays within    *)
(* its 10 080 steps and leaves nothing that is due.                         *)
THEOREM CatchUpAlwaysSettles == MCSpec => []CatchUpSettles
<1>1. ClockInv => CatchUpBounded
  BY FiresOnTime, CatchUpIsShort DEF CatchUpBounded
<1>2. ClockInv => ScanSettles
  BY DueIsFound, ReservationSettles DEF ScanSettles, Reserved
<1>. QED
  BY <1>1, <1>2, ClockInvariance, PTL DEF CatchUpSettles

(* A coalescing schedule that missed an occurrence within its bound fires:  *)
(* the first kept one is no later than that occurrence.                     *)
LEMMA CoalescingFires ==
  ASSUME ClockInv, IsDue, def.misfirePolicy = "coalesce", InBound # {}
  PROVE  Fires
<1>1. PICK t \in due..now : IsCron(def.timing) /\ Occurs(def.timing, t)
                            /\ t >= OldestAllowed(def, now)
  BY DEF InBound
<1>2. FoundDue(def, due, now) /\ due \in Nat /\ now \in Nat
  BY DueIsFound DEF FoundDue
<1>3. ~GivesUp(def, due, now)
  BY <1>1 DEF GivesUp
<1>4. t \in Nat /\ t >= due /\ t <= now
  BY <1>2
<1>5. FirstKept(def, due, now) <= t /\ FirstKept(def, due, now) \in Nat
  BY <1>1, <1>2, <1>3, <1>4, FirstKeptIsFirst
<1>6. ~(FirstKept(def, due, now) > now)
  BY <1>2, <1>4, <1>5
<1>. QED
  BY <1>3, <1>6, WhenFired DEF Fires, Reserved

(* CoalesceFiresLatest and LatenessWithinMinute: #reserveDue fires the      *)
(* latest missed occurrence of a coalescing schedule, and nothing that is   *)
(* late by a minute more than its schedule allows.                          *)
THEOREM SchedulesFireWithinBound == MCSpec => []FiresWithinBound
<1>1. ASSUME ClockInv, Fires, IsCron(def.timing), NEW t \in due..now, Occurs(def.timing, t)
      PROVE  t <= Reserved.at
  <2>1. /\ FoundDue(def, due, now) /\ ~GivesUp(def, due, now)
        /\ FirstKept(def, due, now) <= now /\ Reserved.at = Selected(def, due, now)
    BY <1>1, FiresOnTime
  <2>2. t \in 0..now
    BY <2>1 DEF FoundDue
  <2>. QED
    BY <1>1, <2>1, <2>2, SelectedIsLatest
<1>2. ClockInv => CoalesceFiresLatest
  BY <1>1, CoalescingFires DEF CoalesceFiresLatest
<1>3. ASSUME ClockInv, Fires
      PROVE  now - Reserved.at < def.maximumLateness + Minute
  <2> DEFINE first == FirstKept(def, due, now)
  <2>1. /\ FoundDue(def, due, now) /\ ~GivesUp(def, due, now)
        /\ first \in Nat /\ first <= now /\ Reserved.at = Selected(def, due, now)
    BY <1>3, FiresOnTime
  <2>2. first > now - def.maximumLateness - Minute
    BY <2>1, FirstKeptIsFirst
  <2>3. Reserved.at \in first..now
    BY <2>1, SelectedIsLatest
  <2>4. Minute \in Int /\ now \in Int /\ def.maximumLateness \in Int
    <3>1. CatchUpLimit * Minute \in Int
      BY MinuteAssumption
    <3>. QED
      BY <2>1, <3>1, MinuteAssumption DEF FoundDue, ValidInput
  <2> HIDE DEF first
  <2>. QED
    BY <2>1, <2>2, <2>3, <2>4
<1>4. ClockInv => LatenessWithinMinute
  BY <1>3 DEF LatenessWithinMinute
<1>. QED
  BY <1>2, <1>4, ClockInvariance, PTL DEF FiresWithinBound
=============================================================================
