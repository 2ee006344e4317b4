--------------------------- MODULE ScheduleProofs ---------------------------
(***************************************************************************)
(* Proofs about Schedule, for a day of any length, any set of zones no     *)
(* further than a day from UTC and any set of schedules.                   *)
(***************************************************************************)
EXTENDS Schedule, FiniteSetTheorems, WellFoundedInduction, TLAPS

-----------------------------------------------------------------------------
(* Quotients and remainders.  The quotient is the only multiple that fits. *)
LEMMA Quotient ==
  ASSUME NEW a \in Int, NEW d \in Nat \ {0}, NEW q \in Int,
         d * q =< a, a < d * q + d
  PROVE  a \div d = q
OBVIOUS

LEMMA Parts ==
  ASSUME NEW a \in Int, NEW d \in Nat \ {0}
  PROVE  /\ a \div d \in Int /\ a % d \in 0..d-1
         /\ a = d * (a \div d) + (a % d)
OBVIOUS

(* The date of a slot: the day it lies in.                                 *)
LEMMA DateOf ==
  ASSUME NEW t \in Int, NEW d \in Int, Day * d =< t, t < Day * d + Day
  PROVE  Date(t) = d
BY Quotient, ScheduleAssumption DEF ScheduleAssumption, Date

LEMMA DateBounds ==
  ASSUME NEW t \in Int
  PROVE  /\ Date(t) \in Int
         /\ Day * Date(t) =< t /\ t < Day * Date(t) + Day
<1>1. Day \in Nat \ {0}
  BY ScheduleAssumption DEF ScheduleAssumption
<1> QED
  BY <1>1, Parts DEF Date

(* A shift by days shifts the date by as many.                             *)
LEMMA DateShift ==
  ASSUME NEW t \in Int, NEW d \in Int
  PROVE  Date(t + Day * d) = Date(t) + d
<1>1. Day \in Nat \ {0}
  BY ScheduleAssumption DEF ScheduleAssumption
<1>2. /\ Day * (Date(t) + d) =< t + Day * d
      /\ t + Day * d < Day * (Date(t) + d) + Day
  BY <1>1, DateBounds
<1> QED
  BY <1>1, <1>2, DateBounds, DateOf

-----------------------------------------------------------------------------
(* Every non-empty set of indices has a least element.                     *)
Below == {ss \in Nat \X Nat : ss[1] < ss[2]}

LEMMA MinIndex ==
  ASSUME NEW S, S \subseteq Nat, S # {}
  PROVE  Min(S) \in S /\ \A i \in S : Min(S) =< i
<1>1. IsWellFoundedOn(Below, Nat)
  BY NatLessThanWellFounded DEF OpToRel, Below
<1>2. PICK m \in S : \A i \in S : ~(<<i, m>> \in Below)
  BY <1>1, WFMin, Zenon
<1>3. \A i \in S : ~(i < m)
  BY <1>2 DEF Below
<1>4. \A i \in S : m =< i
  BY <1>3
<1> QED
  BY <1>4 DEF Min

(* IsNow answers for one of the events or for none.                        *)
LEMMA AsksType ==
  ASSUME NEW s \in Seq(Event), NEW t
  PROVE  Asks(s, t) \in {No} \cup {Yes(s[i]) : i \in DOMAIN s}
<1> DEFINE active == {i \in DOMAIN s : Active(s[i], t)}
<1>1. active \subseteq Nat
  OBVIOUS
<1>2. active # {} => Min(active) \in DOMAIN s
  BY <1>1, MinIndex
<1> QED
  BY <1>2 DEF Asks

-----------------------------------------------------------------------------
LEMMA InitType == Init => TypeOK
<1> SUFFICES ASSUME Init PROVE TypeOK
  OBVIOUS
<1>1. schedule \in Seq(Event)
  BY ScheduleAssumption DEF ScheduleAssumption, Init
<1>2. asked \in {No} \cup {Yes(schedule[i]) : i \in DOMAIN schedule}
  BY <1>1, AsksType DEF Init
<1>3. now \in 0..Week-1 /\ ran \in 0..now+1
  BY ScheduleAssumption DEF ScheduleAssumption, Init, Week, Counted
<1> QED
  BY <1>2, <1>3 DEF Init, TypeOK

(* The slot after the last of the week is the first.                       *)
LEMMA NextSlot ==
  ASSUME TypeOK, Next
  PROVE  /\ now' \in 0..Week-1
         /\ now' = now + 1 \/ (now' = 0 /\ now = Week - 1)
BY ScheduleAssumption DEF ScheduleAssumption, TypeOK, Next, Week

LEMMA StepType == TypeOK /\ [Next]_vars => TypeOK'
<1> SUFFICES ASSUME TypeOK, [Next]_vars PROVE TypeOK'
  OBVIOUS
<1>1. CASE Next
  <2>1. schedule' \in Schedules /\ zone' \in Zones /\ schedule' \in Seq(Event)
    BY <1>1, ScheduleAssumption DEF ScheduleAssumption, TypeOK, Next
  <2>2. asked' \in {No} \cup {Yes(schedule'[i]) : i \in DOMAIN schedule'}
    BY <1>1, <2>1, AsksType DEF Next
  <2>3. Counted(now') \in {0, 1}
    BY DEF Counted
  <2>4. ran' \in 0..now'+1
    BY <1>1, <2>3, NextSlot DEF Next, TypeOK
  <2> QED
    BY <1>1, <2>1, <2>2, <2>4, NextSlot DEF TypeOK
<1>2. CASE UNCHANGED vars
  BY <1>2 DEF TypeOK, vars
<1> QED
  BY <1>1, <1>2

(* The types: IsNow answers for one of the events or for none, and no more *)
(* slots are counted than have passed.                                     *)
THEOREM TypeCorrect == Spec => []TypeOK
BY InitType, StepType, PTL DEF Spec

(* The schedules that are followed are sequences of events.                *)
LEMMA EventsTyped ==
  ASSUME TypeOK, NEW i \in DOMAIN schedule
  PROVE  schedule[i] \in Event
BY ScheduleAssumption DEF ScheduleAssumption, TypeOK

-----------------------------------------------------------------------------
(* The slots of the week, seen from any zone, lie between the day before   *)
(* it and the day after.                                                   *)
LEMMA WeekDates ==
  ASSUME NEW t \in 0..Week-1, NEW z \in -Day..Day
  PROVE  t + z \in Int /\ Date(t + z) \in -1..8
<1>1. Day \in Nat \ {0}
  BY ScheduleAssumption DEF ScheduleAssumption
<1>2. t + z \in Int /\ -Day =< t + z /\ t + z < 8 * Day
  BY <1>1 DEF Week
<1> DEFINE d == Date(t + z)
<1>3. d \in Int /\ Day * d =< t + z /\ t + z < Day * d + Day
  BY <1>2, DateBounds
<1> HIDE DEF d
<1>4. d >= -1
  <2>1. d + 1 < 0 => Day * (d + 2) =< 0
    BY <1>1, <1>3
  <2> QED
    BY <1>1, <1>2, <1>3, <2>1
<1>5. d =< 8
  <2>1. d > 8 => Day * d >= Day * 9
    BY <1>1, <1>3
  <2> QED
    BY <1>1, <1>2, <1>3, <2>1
<1> QED
  BY <1>2, <1>3, <1>4, <1>5 DEF d

-----------------------------------------------------------------------------
(* What ran counts: the slots so far in which the event is active.         *)
ActiveSlots(e, n) == {t \in 0..n : Active(e, t)}

RanInv ==
  /\ TypeOK
  /\ schedule # <<>> => ran = Cardinality(ActiveSlots(schedule[1], now))

LEMMA ActiveSlotsFinite ==
  ASSUME NEW e, NEW n \in Int
  PROVE  IsFiniteSet(ActiveSlots(e, n))
<1>1. ActiveSlots(e, n) \in SUBSET (0..n)
  BY DEF ActiveSlots
<1>2. IsFiniteSet(0..n)
  BY FS_Interval
<1> QED
  BY <1>1, <1>2, FS_Subset

(* One slot more is one more or none.                                      *)
LEMMA NextActiveSlot ==
  ASSUME NEW e, NEW n \in Int, n >= -1
  PROVE  Cardinality(ActiveSlots(e, n + 1)) =
           Cardinality(ActiveSlots(e, n)) + IF Active(e, n + 1) THEN 1 ELSE 0
<1>1. n + 1 \notin ActiveSlots(e, n)
  BY DEF ActiveSlots
<1>2. CASE Active(e, n + 1)
  <2>1. ActiveSlots(e, n + 1) = ActiveSlots(e, n) \cup {n + 1}
    BY <1>2 DEF ActiveSlots
  <2> QED
    BY <1>1, <1>2, <2>1, ActiveSlotsFinite, FS_AddElement
<1>3. CASE ~Active(e, n + 1)
  <2>1. ActiveSlots(e, n + 1) = ActiveSlots(e, n)
    BY <1>3 DEF ActiveSlots
  <2>2. Cardinality(ActiveSlots(e, n)) \in Nat
    BY ActiveSlotsFinite, FS_CardinalityType
  <2> QED
    BY <1>3, <2>1, <2>2
<1> QED
  BY <1>2, <1>3

(* The first slot of a week.                                               *)
LEMMA FirstActiveSlot ==
  ASSUME NEW e
  PROVE  Cardinality(ActiveSlots(e, 0)) = IF Active(e, 0) THEN 1 ELSE 0
<1>1. CASE Active(e, 0)
  <2>1. ActiveSlots(e, 0) = {0}
    BY <1>1 DEF ActiveSlots
  <2> QED
    BY <1>1, <2>1, FS_Singleton
<1>2. CASE ~Active(e, 0)
  <2>1. ActiveSlots(e, 0) = {}
    BY <1>2 DEF ActiveSlots
  <2> QED
    BY <1>2, <2>1, FS_EmptySet
<1> QED
  BY <1>1, <1>2

LEMMA RanInit == Init => RanInv
BY InitType, FirstActiveSlot DEF Init, RanInv, Counted

LEMMA RanStep == RanInv /\ [Next]_vars => RanInv'
<1> SUFFICES ASSUME RanInv, [Next]_vars PROVE RanInv'
  OBVIOUS
<1>1. TypeOK'
  BY StepType DEF RanInv
<1>2. CASE Next
  <2> SUFFICES ASSUME schedule # <<>>
               PROVE  ran' = Cardinality(ActiveSlots(schedule[1], now)')
    BY <1>1, <1>2 DEF RanInv, Next
  <2> DEFINE e == schedule[1]
  <2>1. ActiveSlots(schedule[1], now)' = ActiveSlots(e, now')
    BY <1>2 DEF Next, ActiveSlots, Active, SchedTime
  <2>2. ran = Cardinality(ActiveSlots(e, now)) /\ now \in Nat
    BY DEF RanInv, TypeOK
  <2>3. Counted(now') = IF Active(e, now') THEN 1 ELSE 0
    BY DEF Counted
  <2>4. ran' = Counted(now') + IF now' = 0 THEN 0 ELSE ran
    BY <1>2 DEF Next
  <2>5. CASE now' = now + 1
    <3>1. Cardinality(ActiveSlots(e, now + 1)) =
            Cardinality(ActiveSlots(e, now)) + IF Active(e, now + 1) THEN 1 ELSE 0
      BY <2>2, NextActiveSlot
    <3>2. now' # 0 /\ Cardinality(ActiveSlots(e, now)) \in Nat
      BY <2>2, <2>5, ActiveSlotsFinite, FS_CardinalityType
    <3> QED
      BY <2>1, <2>2, <2>3, <2>4, <2>5, <3>1, <3>2
  <2>6. CASE now' = 0
    BY <2>1, <2>3, <2>4, <2>6, FirstActiveSlot
  <2> QED
    BY <1>2, <2>5, <2>6, NextSlot DEF RanInv
<1>3. CASE UNCHANGED vars
  BY <1>1, <1>3 DEF RanInv, vars, ActiveSlots, Active, SchedTime
<1> QED
  BY <1>2, <1>3

-----------------------------------------------------------------------------
(* An event that no midnight divides is active just before its start, on   *)
(* each of its days; day 7 is the first of the next week, whose window may *)
(* begin in this one.                                                      *)
OnDay(e, t, d) ==
  (Day * d + e.start) - t \in 0..e.runtime-1 /\ Weekday(d) \in e.days

LEMMA WindowOfDay ==
  ASSUME NEW e \in Event, NEW t \in 0..Week-1, NEW d \in Int,
         (Day * d + e.start) - t \in 0..e.runtime-1, Undivided(e),
         zone \in -Day..Day
  PROVE  d \in 0..7 /\ Date(t + zone) = d /\ Date(t + e.zone) = d
<1>1. /\ Day \in Nat \ {0} /\ e.start \in 0..Day-1 /\ e.runtime \in 0..Day
      /\ e.zone \in Int
  BY ScheduleAssumption DEF ScheduleAssumption, Event
<1> DEFINE u == t - Day * d
<1>2. u \in Int /\ e.start - u \in 0..e.runtime-1 /\ t = u + Day * d
  BY <1>1
<1> HIDE DEF u
<1>3. u \in Window(e.start, e) /\ -Day < u /\ u < Day
  BY <1>1, <1>2 DEF Window
<1>4. Date(u + zone) = 0 /\ Date(u + e.zone) = 0
  BY <1>3 DEF Undivided
<1>5. /\ t + zone = (u + zone) + Day * d
      /\ t + e.zone = (u + e.zone) + Day * d
      /\ u + zone \in Int /\ u + e.zone \in Int
  BY <1>1, <1>2
<1>6. Date(t + zone) = d /\ Date(t + e.zone) = d
  BY <1>4, <1>5, DateShift
<1>7. d >= 0
  <2>1. d =< -1 => Day * d =< -Day
    BY <1>1
  <2> QED
    BY <1>1, <1>2, <1>3, <2>1
<1>8. d =< 7
  <2>1. d >= 8 => Day * d >= Day * 8
    BY <1>1
  <2>2. Day * d < 8 * Day
    BY <1>1, <1>2, <1>3 DEF Week
  <2> QED
    BY <1>1, <2>1, <2>2
<1> QED
  BY <1>6, <1>7, <1>8

LEMMA ActiveOnDay ==
  ASSUME NEW e \in Event, NEW t \in 0..Week-1, Undivided(e),
         zone \in -Day..Day
  PROVE  /\ Active(e, t) => OnDay(e, t, Date(t + zone))
         /\ \A d \in Int : OnDay(e, t, d) => Active(e, t)
<1>1. Day \in Nat \ {0}
  BY ScheduleAssumption DEF ScheduleAssumption
<1>2. ASSUME Active(e, t)
      PROVE  OnDay(e, t, Date(t + zone))
  <2> DEFINE d == Date(t + zone)
  <2>1. d \in Int
    BY <1>1, WeekDates
  <2>2. (Day * d + e.start) - t \in 0..e.runtime-1
    BY <1>2 DEF Active, SchedTime
  <2>3. Date(t + e.zone) = d
    BY <2>1, <2>2, WindowOfDay
  <2> QED
    BY <1>2, <2>2, <2>3 DEF OnDay, Active, SameDay
<1>3. ASSUME NEW d \in Int, OnDay(e, t, d)
      PROVE  Active(e, t)
  <2>1. Date(t + zone) = d /\ Date(t + e.zone) = d
    BY <1>3, WindowOfDay DEF OnDay
  <2> QED
    BY <1>3, <2>1 DEF Active, SchedTime, SameDay, OnDay
<1> QED
  BY <1>2, <1>3

(* The active slots of a week, one for every day of the event and every    *)
(* slot of its runtime.                                                    *)
LEMMA SlotsAndDays ==
  ASSUME NEW e \in Event, Undivided(e), zone \in -Day..Day
  PROVE  ExistsBijection(ActiveSlots(e, Week - 1), (0..e.runtime-1) \X e.days)
<1>1. /\ Day \in Nat \ {0} /\ e.start \in 0..Day-1 /\ e.runtime \in 0..Day
      /\ e.days \subseteq 0..6
  BY ScheduleAssumption DEF ScheduleAssumption, Event
<1> DEFINE A == ActiveSlots(e, Week - 1)
           B == (0..e.runtime-1) \X e.days
           D(t) == Date(t + zone)
           f == [t \in A |-> <<(Day * D(t) + e.start) - t, Weekday(D(t))>>]
<1>2. ASSUME NEW t \in A
      PROVE  /\ t \in 0..Week-1 /\ OnDay(e, t, D(t)) /\ D(t) \in 0..7
  <2>1. t \in 0..Week-1 /\ Active(e, t)
    BY DEF ActiveSlots
  <2>2. OnDay(e, t, D(t))
    BY <2>1, ActiveOnDay
  <2>3. D(t) \in Int
    BY <2>1, WeekDates
  <2> QED
    BY <2>1, <2>2, <2>3, WindowOfDay DEF OnDay
<1>3. f \in [A -> B]
  BY <1>2 DEF OnDay
<1>4. ASSUME NEW s \in A, NEW t \in A, f[s] = f[t]
      PROVE  s = t
  <2> DEFINE c == D(s)  d == D(t)
  <2>1. /\ (Day * c + e.start) - s = (Day * d + e.start) - t
        /\ Weekday(c) = Weekday(d)
    BY <1>4
  <2>2. c \in 0..7 /\ d \in 0..7 /\ s \in 0..Week-1 /\ t \in 0..Week-1
    BY <1>2
  <2> HIDE DEF c, d
  <2>3. c = d \/ (c = 0 /\ d = 7) \/ (c = 7 /\ d = 0)
    BY <2>1, <2>2 DEF Weekday
  <2> QED
    BY <1>1, <2>1, <2>2, <2>3 DEF Week
<1>5. ASSUME NEW k \in 0..e.runtime-1, NEW w \in e.days
      PROVE  \E t \in A : f[t] = <<k, w>>
  <2> DEFINE u == (Day * w + e.start) - k
             d == IF u < 0 THEN w + 7 ELSE w
             t == IF u < 0 THEN u + Week ELSE u
  <2>1. /\ w \in 0..6 /\ Weekday(w) = w /\ Weekday(w + 7) = w /\ k \in Int
        /\ d \in Int /\ Weekday(d) = w
    BY <1>1 DEF Weekday
  <2>2. -Day < u /\ u < Week /\ u \in Int
    BY <1>1, <2>1 DEF Week
  <2>3. t \in 0..Week-1 /\ (Day * d + e.start) - t = k
    BY <1>1, <2>1, <2>2 DEF Week
  <2> HIDE DEF u, d, t
  <2>4. OnDay(e, t, d)
    BY <2>1, <2>3 DEF OnDay
  <2>5. t \in A
    BY <2>1, <2>3, <2>4, ActiveOnDay DEF ActiveSlots
  <2>6. D(t) = d
    BY <2>1, <2>3, WindowOfDay
  <2> QED
    BY <2>1, <2>3, <2>5, <2>6
<1>6. f \in Injection(A, B)
  BY <1>3, <1>4 DEF Injection, IsInjective
<1>7. f \in Surjection(A, B)
  <2>1. \A b \in B : \E t \in A : f[t] = b
    <3> SUFFICES ASSUME NEW b \in B PROVE \E t \in A : f[t] = b
      OBVIOUS
    <3>1. PICK k \in 0..e.runtime-1, w \in e.days : b = <<k, w>>
      OBVIOUS
    <3>2. \E t \in A : f[t] = <<k, w>>
      BY <1>5
    <3> HIDE DEF f, A
    <3> QED
      BY <3>1, <3>2
  <2> HIDE DEF f, A, B
  <2> QED
    BY <1>3, <2>1 DEF Surjection
<1> QED
  BY <1>6, <1>7 DEF ExistsBijection, Bijection

(* An event that no midnight divides is active for its runtime on each of  *)
(* its days: no slot of any week is lost or counted twice.                 *)
THEOREM RunsItsTimeHolds == Spec => []RunsItsTime
<1>1. RanInv => RunsItsTime
  <2> DEFINE e == schedule[1]
  <2> SUFFICES ASSUME RanInv, schedule # <<>>, now = Week - 1, Undivided(e)
               PROVE  ran = e.runtime * Cardinality(e.days)
    BY DEF RunsItsTime
  <2>1. e \in Event /\ zone \in -Day..Day
    <3>1. 1 \in DOMAIN schedule
      BY ScheduleAssumption DEF ScheduleAssumption, RanInv, TypeOK
    <3> QED
      BY <3>1, EventsTyped, ScheduleAssumption DEF ScheduleAssumption, RanInv, TypeOK
  <2> DEFINE A == ActiveSlots(e, Week - 1)
             B == (0..e.runtime-1) \X e.days
  <2>2. ran = Cardinality(A)
    BY DEF RanInv
  <2>3. e.runtime \in Nat /\ e.days \in SUBSET (0..6) /\ Week - 1 \in Int
    BY <2>1, ScheduleAssumption DEF ScheduleAssumption, Event, Week
  <2>4. Cardinality(B) = Cardinality(A)
    <3>1. IsFiniteSet(A)
      BY <2>3, ActiveSlotsFinite
    <3> QED
      BY <2>1, <3>1, SlotsAndDays, FS_Bijection
  <2>5. IsFiniteSet(0..e.runtime-1) /\ Cardinality(0..e.runtime-1) = e.runtime
    <3>1. 0 \in Int /\ e.runtime - 1 \in Int
      BY <2>3
    <3>2. /\ IsFiniteSet(0..e.runtime-1)
          /\ Cardinality(0..e.runtime-1) =
               IF 0 > e.runtime - 1 THEN 0 ELSE (e.runtime - 1) - 0 + 1
      BY <3>1, FS_Interval
    <3> QED
      BY <2>3, <3>2
  <2>6. IsFiniteSet(e.days)
    <3>1. 0 \in Int /\ 6 \in Int
      OBVIOUS
    <3>2. IsFiniteSet(0..6)
      BY <3>1, FS_Interval, Zenon
    <3> QED
      BY <2>3, <3>2, FS_Subset
  <2>7. Cardinality(B) = Cardinality(0..e.runtime-1) * Cardinality(e.days)
    BY <2>5, <2>6, FS_Product
  <2> QED
    BY <2>2, <2>4, <2>5, <2>7
<1> QED
  BY <1>1, RanInit, RanStep, PTL DEF Spec
=============================================================================
