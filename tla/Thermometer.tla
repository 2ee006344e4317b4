---------------------------- MODULE Thermometer ----------------------------
(***************************************************************************)
(* A thermometer (thermometer.go) and the history its filter rests on      *)
(* (history.go).  An Update takes a few discharge times, adds them to the  *)
(* history, and accepts their median unless it is too far from the average *)
(* of the history.  The history is a ring buffer, but Median sorts it in   *)
(* place: the value that the next Push overwrites is not the oldest.       *)
(*                                                                         *)
(* An Update gives up after 20 attempts, with the discharge times that     *)
(* were in range by then: it is full if they are all it wants, and sparse  *)
(* otherwise.                                                              *)
(*                                                                         *)
(* Discharge times are whole numbers and the temperature is represented by *)
(* the discharge time it is computed from.  The comparison with three      *)
(* standard deviations is exact, multiplied out.  The caches of History    *)
(* (avg, med, vrc) return what would be computed again and are left out.   *)
(***************************************************************************)
EXTENDS Integers, Sequences, SequencesExt, FiniteSetsExt

CONSTANTS
  Size,       \* of the history, 100 in the code
  Reads,      \* discharge times of a full update, 5 in the code
  Readings    \* discharge times in range

ASSUME ThermometerAssumption ==
  /\ Size \in Nat /\ Reads \in 3..Size
  /\ Readings \subseteq Nat \ {0}

NoReading == 0   \* the median of nothing

VARIABLES
  data,    \* History.data, as far as it is filled
  ttl,     \* History.ttl, modulo Size
  temp,    \* the accepted value
  failed,  \* the latest Update has returned an error
  water,   \* what an undisturbed sensor reads; NoReading: it is dead
  misses   \* history: full updates rejected since the water has changed
           \* or an update was sparse

vars == <<data, ttl, temp, failed, water, misses>>

-----------------------------------------------------------------------------
\* mutant: the index does not wrap around
PushedPastEnd(d, at, rs) == d \o rs

(* History.Push, for each of rs: the next places of the ring.              *)
Pushed(d, at, rs) ==
  [i \in 1..Min({Size, Len(d) + Len(rs)}) |->
     LET j == (i - 1 - at) % Size IN IF j < Len(rs) THEN rs[j + 1] ELSE d[i]]

(* sort.Float64s: the i-th place gets the least value that, with those     *)
(* below it, fills i places.                                               *)
AtMost(d) == [x \in Range(d) |-> Cardinality({i \in DOMAIN d : d[i] =< x})]
Sorted(d) ==
  LET places == AtMost(d)
  IN [i \in DOMAIN d |-> Min({x \in DOMAIN places : i =< places[x]})]

\* mutant: one element too far
MedianOffByOne(d) ==
  IF d = <<>> THEN NoReading ELSE Sorted(d)[Len(d)]

(* History.Median; with fewer than two values it is their average.         *)
Median(d) ==
  IF d = <<>> THEN NoReading ELSE Sorted(d)[(Len(d) \div 2) + 1]

SumTo(f, n) == LET sum[i \in 0..n] == IF i = 0 THEN 0 ELSE sum[i - 1] + f[i] IN sum[n]
Total(d) == SumTo(d, Len(d))
Squares(d) == SumTo([i \in DOMAIN d |-> d[i] * d[i]], Len(d))

\* mutant: one standard deviation
TooFarFromOne(d, m) ==
  LET n == Len(d)  off == Total(d) - n * m IN
  off * off > n * Squares(d) - Total(d) * Total(d)

\* mutant: the absolute value forgotten
TooFarAbove(d, m) ==
  LET n == Len(d)  off == Total(d) - n * m IN
  off < 0 /\ off * off > 9 * (n * Squares(d) - Total(d) * Total(d))

(* "math.Abs(avg-h.Median()) > dev", dev three standard deviations of the  *)
(* history, times the number of its values, squared.                       *)
TooFar(d, m) ==
  LET n == Len(d)  off == Total(d) - n * m IN
  off * off > 9 * (n * Squares(d) - Total(d) * Total(d))

-----------------------------------------------------------------------------
Init ==
  /\ data = <<>> /\ ttl = 0
  /\ temp = NoReading /\ failed = FALSE
  /\ water \in Readings \cup {NoReading}
  /\ misses = 0

(* All readings are remembered, and the statistics leave the history       *)
(* sorted.                                                                 *)
Remembered(rs) == Sorted(Pushed(data, ttl, rs))

(* Update, called by the control loop and by Temperature on a value older  *)
(* than a minute.                                                          *)
Update(rs) ==
  /\ data' = Remembered(rs)
  /\ ttl' = (ttl + Len(rs)) % Size
  /\ failed' = TooFar(Pushed(data, ttl, rs), Median(rs))
  /\ temp' = IF failed' THEN temp ELSE Median(rs)
  /\ misses' = IF Len(rs) < Reads THEN 0 ELSE IF failed' THEN misses + 1 ELSE misses
  /\ UNCHANGED water

(* The discharge times of an update (inRange drops the others): those of   *)
(* the water, at most one of them disturbed; none from a dead sensor.      *)
Samples ==
  {[i \in 1..n |-> IF i = 1 THEN v ELSE water] :
     n \in IF water = NoReading THEN {0} ELSE 0..Reads, v \in Readings}

(* The water, or the sensor, changes.                                      *)
Change ==
  /\ water' \in (Readings \cup {NoReading}) \ {water}
  /\ misses' = 0
  /\ UNCHANGED <<data, ttl, temp, failed>>

Next == Change \/ \E rs \in Samples : Update(rs)

Spec == Init /\ [][Next]_vars

-----------------------------------------------------------------------------
TypeOK ==
  /\ data \in Seq(Readings) /\ Len(data) =< Size
  /\ ttl \in 0..Size-1
  /\ {temp, water} \subseteq Readings \cup {NoReading}
  /\ failed \in BOOLEAN /\ misses \in Nat

(* "Throw away bad results" (thermometer.go:239): a disturbed discharge    *)
(* time never becomes the temperature, unless an update has no more than   *)
(* two of them.                                                            *)
DisturbanceIgnored ==
  [][temp' # temp => temp' = water \/ (ttl' - ttl) % Size < 3]_vars

(* A change of the water is no disturbance: after Patience rejected full   *)
(* updates it has left enough of a mark in the history to be accepted: the *)
(* median is not too far when a tenth of the values equal it.  It may take *)
(* twice as long as that takes, since in the sorted ring new readings may  *)
(* overwrite one another, and all but the disturbed one of an update count.*)
Few == (Size - 1) \div 10    \* the most values that are not yet a tenth
Patience == (2 * Few + 1) \div (Reads - 1)
ChangeAccepted == misses =< Patience

(* What the filter does with readings, as the controller sees it.          *)
Contract == INSTANCE Probe WITH Values <- Readings, Dead <- NoReading

ImplementsProbe == Contract!Spec

(* main gives up when the first Update of the control loop fails           *)
(* (main.go:43).  It is at most the second of a thermometer after          *)
(* NewSelectiveThermometer's, ten discharge times in all, and is not       *)
(* refused if there is one in range, even if the water changes in between, *)
(* readings are disturbed or most attempts fail.                           *)
StartAccepted ==
  [][Len(data) < Len(data') /\ Len(data') =< 10 => ~failed']_vars

(* A sensor that dies has median 0, which is refused for as long as the    *)
(* history does not vary by more than half of its smallest value: the      *)
(* controller keeps the last temperature rather than take it for frost.    *)
DeadRefused ==
  [][temp # NoReading /\ temp' = NoReading =>
       \E v, w \in Range(data) : 2 * w > 3 * v]_vars
=============================================================================
