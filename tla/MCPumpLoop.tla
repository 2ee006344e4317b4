----------------------------- MODULE MCPumpLoop -----------------------------
(* Instances of PumpLoop for TLC.                                          *)
EXTENDS PumpLoop

(* A pool that is cleaned every day for six hours, ...                     *)
Daily(d, s) ==
  [disabled |-> d, solarDisabled |-> s,
   target |-> 10, tolerance |-> 1, deltaT |-> 3,
   dailyFrequency |-> 1, runTime |-> 6]

(* ... and a warmer one with the shortest times there are.                 *)
Shortest(s) ==
  [disabled |-> FALSE, solarDisabled |-> s,
   target |-> 12, tolerance |-> 1, deltaT |-> 3,
   dailyFrequency |-> 0, runTime |-> 0]

TwoPools ==
  {Daily(d, s) : d \in BOOLEAN, s \in BOOLEAN} \cup {Shortest(s) : s \in BOOLEAN}

(* Readings on both sides of every threshold of the two, under a cold and  *)
(* a hot roof.                                                             *)
AnyWeather == [water : {6, 10, 12, 15}, roof : {0, 20}]
=============================================================================
