------------------------------ MODULE Schedule ------------------------------
(***************************************************************************)
(* Scheduled events (schedule.go): whether one is active now, which state  *)
(* the schedule asks for, over a week and for clocks in several time       *)
(* zones.  An event is active during the Runtime that ENDS at its Start,   *)
(* as schedule_test.go has it.                                             *)
(*                                                                         *)
(* Times are slots since the midnight, in UTC, that begins a week; a zone  *)
(* is an offset in slots and keeps no summer time.                         *)
(***************************************************************************)
EXTENDS Integers, Sequences, FiniteSetsExt

CONSTANTS
  Day,        \* slots of a day
  Zones,      \* of the clock that is given to IsNow
  Schedules   \* sequences of events

Event == [start : 0..Day-1, zone : -Day..Day, runtime : 0..Day,
          days : SUBSET (0..6), state : STRING]

ASSUME ScheduleAssumption ==
  /\ Day \in Nat \ {0} /\ Zones \subseteq -Day..Day
  /\ Schedules \subseteq Seq(Event)

VARIABLES
  schedule,   \* Schedule.Events
  zone,       \* of the clock
  now,
  asked,      \* what Schedule.IsNow answers
  ran         \* history: slots of this week in which the first event was active

vars == <<schedule, zone, now, asked, ran>>

Week == 7 * Day
Date(slot) == slot \div Day      \* of a day; days may be negative
Weekday(date) == date % 7

-----------------------------------------------------------------------------
(* sameday, in the zone of the event.                                      *)
SameDay(e, t) == Weekday(Date(t + e.zone)) \in e.days

(* "schedTime": the date that the clock shows, with the hour and minute    *)
(* that Start has in UTC, read as a time in UTC.                           *)
SchedTime(e, t) == Day * Date(t + zone) + e.start

\* mutant: one slot too many
ActiveTooLong(e, t) ==
  SameDay(e, t) /\ SchedTime(e, t) - t \in 0..e.runtime

\* ScheduleEvent.IsNow
Active(e, t) ==
  SameDay(e, t) /\ SchedTime(e, t) - t \in 0..e.runtime-1

No == [now |-> FALSE, state |-> "OFF"]
Yes(e) == [now |-> TRUE, state |-> e.state]

\* mutant: the state of an inactive event
AsksInactive(s, t) ==
  IF s = <<>> THEN No
  ELSE [now |-> \E i \in DOMAIN s : Active(s[i], t), state |-> s[1].state]

(* Schedule.IsNow: the loop over the events returns at the first active    *)
(* one.                                                                    *)
Asks(s, t) ==
  LET active == {i \in DOMAIN s : Active(s[i], t)}
  IN IF active = {} THEN No ELSE Yes(s[Min(active)])

-----------------------------------------------------------------------------
Counted(t) == IF schedule # <<>> /\ Active(schedule[1], t) THEN 1 ELSE 0

Init ==
  /\ schedule \in Schedules /\ zone \in Zones
  /\ now = 0 /\ ran = Counted(0) /\ asked = Asks(schedule, 0)

Next ==
  /\ now' = (now + 1) % Week
  /\ asked' = Asks(schedule, now')
  /\ ran' = Counted(now') + IF now' = 0 THEN 0 ELSE ran
  /\ UNCHANGED <<schedule, zone>>

Spec == Init /\ [][Next]_vars

-----------------------------------------------------------------------------
TypeOK ==
  /\ schedule \in Schedules /\ zone \in Zones
  /\ now \in 0..Week-1 /\ ran \in 0..now+1
  /\ asked \in {No} \cup {Yes(schedule[i]) : i \in DOMAIN schedule}

(* An event that no midnight, of the clock's zone or of its own, divides   *)
(* from its hour in UTC is active for its runtime on each of its days,     *)
(* week after week: nothing is lost or counted twice at the week's end or  *)
(* at the borders of the window.                                           *)
Window(o, e) == o - e.runtime + 1 .. o
Undivided(e) ==
  \A t \in Window(e.start, e) : Date(t + zone) = 0 /\ Date(t + e.zone) = 0

RunsItsTime ==
  LET e == schedule[1] IN
  schedule # <<>> /\ now = Week - 1 /\ Undivided(e) =>
    ran = e.runtime * Cardinality(e.days)
=============================================================================
