----------------------------- MODULE MCSchedule -----------------------------
(* Instances of Schedule for TLC: a day of eight slots, in which every     *)
(* start meets zones to the west and to the east, and windows that cross   *)
(* midnight, in one zone or the other, and the end of the week.            *)
EXTENDS Schedule

WestAndEast == {-3, 0, 2}

Starts == 0..7
Some == [start : Starts, zone : WestAndEast, runtime : {1, 3, 8},
         days : {{0}, {2, 3}, 0..6}, state : {"SWEEP"}]
Others == [start : {2, 6}, zone : {-3}, runtime : {4},
           days : {0..6}, state : {"SOLAR"}]

AtMostTwo ==
  {<<>>} \cup {<<e>> : e \in Some} \cup {<<e, f>> : e \in Some, f \in Others}
=============================================================================
