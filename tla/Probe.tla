------------------------------- MODULE Probe -------------------------------
(***************************************************************************)
(* What a thermometer promises to the controller that reads it: a good     *)
(* sensor is believed after a few refusals at most, and what is believed   *)
(* is what an undisturbed sensor reads, unless it gives too few readings.  *)
(* Thermometer implements it; Probes builds on it.                         *)
(***************************************************************************)
EXTENDS Naturals

CONSTANTS
  Values,    \* what a good sensor reads
  Dead,      \* what a dead one does
  Patience   \* refusals after a change

VARIABLES
  temp,      \* the accepted value
  water,     \* what the sensor reads
  misses     \* refusals since it reads that, in full updates

vars == <<temp, water, misses>>

Init == temp = Dead /\ water \in Values \cup {Dead} /\ misses = 0

Accept == temp' = water /\ UNCHANGED <<water, misses>>

(* A dead sensor may be refused for ever.                                  *)
Refuse ==
  /\ UNCHANGED <<temp, water>>
  /\ \/ water = Dead /\ UNCHANGED misses
     \/ water # Dead /\ misses < Patience /\ misses' = misses + 1

(* From a good sensor that gives only a few readings anything may be       *)
(* believed.                                                               *)
Guess ==
  /\ water # Dead /\ temp' \in Values \cup {Dead, temp}
  /\ misses' = 0 /\ UNCHANGED water

Change ==
  /\ water' \in (Values \cup {Dead}) \ {water}
  /\ misses' = 0 /\ UNCHANGED temp

Spec == Init /\ [][Accept \/ Refuse \/ Guess \/ Change]_vars
=============================================================================
