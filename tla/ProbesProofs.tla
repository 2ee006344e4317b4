---------------------------- MODULE ProbesProofs ----------------------------
(***************************************************************************)
(* Proofs about Probes, for any patience of the thermometers and any age   *)
(* after which a temperature is read again.                                *)
(***************************************************************************)
EXTENDS Probes, TLAPS

Places ==
  {"wait", "pump", "roof", "pool", "readPump", "readRoof", "act", "rrdPump",
   "rrdRoof"}

(* The loop may still have to read p before it is over with p in this      *)
(* iteration.                                                              *)
Unread(p) ==
  IF p = "pump" THEN at \in {"pump", "roof", "pool", "readPump", "rrdPump"}
                ELSE at \notin {"act", "wait"}

Grace(p) == IF Unread(p) THEN 1 ELSE 0

(* A temperature that is too old is no older than the readings refused     *)
(* explain, or else the sensor or its water has only just changed.         *)
ExplainedOf(p, grace) ==
  good[p] => \/ age[p] =< Minute + misses[p] + grace
             \/ steady[p] =< misses[p] + grace

Explained == \A p \in Probe : ExplainedOf(p, Grace(p))

(* Numbers of these kinds.                                                 *)
SensorType ==
  /\ good \in [Probe -> BOOLEAN]
  /\ misses \in [Probe -> 0..Patience] /\ steady \in [Probe -> 0..Settling]
  /\ age \in [Probe -> 0..Stale]

(* Updating or refreshing a temperature keeps its types.                   *)
LEMMA ReadingType ==
  ASSUME SensorType, NEW p \in Probe, Accept(p) \/ Refuse(p)
  PROVE  SensorType'
<1> USE ProbesAssumption DEF ProbesAssumption, SensorType, sensors, temps
<1>1. CASE Accept(p)
  BY <1>1 DEF Accept, Stale
<1>2. CASE Refuse(p)
  <2>1. CASE good[p]
    <3>1. misses[p] + 1 \in 0..Patience
      BY <1>2, <2>1 DEF Refuse
    <3> QED
      BY <1>2, <2>1, <3>1 DEF Refuse
  <2>2. CASE ~good[p]
    BY <1>2, <2>2 DEF Refuse
  <2> QED
    BY <2>1, <2>2
<1> QED
  BY <1>1, <1>2

(* Time keeps them.                                                        *)
LEMMA OlderType ==
  ASSUME NEW most \in Nat, NEW f \in [Probe -> 0..most]
  PROVE  Older(f, most) \in [Probe -> 0..most]
  BY DEF Older

(* One step keeps the types.                                               *)
LEMMA StepType == TypeOK /\ [Next]_vars => TypeOK'
<1> SUFFICES ASSUME TypeOK, [Next]_vars PROVE TypeOK'
  OBVIOUS
<1>0. SensorType
  BY DEF TypeOK, SensorType
<1>1. CASE Iterate
  <2>1. age' \in [Probe -> 0..Stale] /\ steady' \in [Probe -> 0..Settling]
    BY <1>0, <1>1, OlderType, ProbesAssumption
    DEF ProbesAssumption, SensorType, Iterate, Stale, Settling
  <2> QED
    BY <1>1, <2>1 DEF TypeOK, Iterate, Goto, run, button, Probe
<1>2. ASSUME NEW p \in Probe, NEW next \in {"roof", "pool"}, UpdateProbe(p, next)
      PROVE  TypeOK'
  <2>1. SensorType'
    BY <1>0, <1>2, ReadingType DEF UpdateProbe
  <2>2. flow' \in Water
    BY <1>2 DEF UpdateProbe, Accept, Refuse, temps, TypeOK, Water
  <2> QED
    BY <1>2, <2>1, <2>2 DEF TypeOK, SensorType, UpdateProbe, Goto, button, Probe
<1>3. CASE UpdatePool
  BY <1>3 DEF TypeOK, UpdatePool, Selected, ButtonSetting, Goto, sensors, temps
<1>4. ASSUME NEW p \in Probe, Temperature(p)
      PROVE  SensorType' /\ flow' \in Water
  <2>1. CASE UNCHANGED <<sensors, temps>>
    BY <1>0, <2>1 DEF SensorType, TypeOK, sensors, temps
  <2>2. CASE Accept(p) \/ Refuse(p)
    BY <1>0, <2>2, ReadingType DEF Accept, Refuse, temps, TypeOK, Water
  <2> QED
    BY <1>4, <2>1, <2>2 DEF Temperature
<1>5. ASSUME NEW p \in Probe, NEW place \in Places, NEW next \in Places,
             Read(p, place, next)
      PROVE  TypeOK'
  BY <1>4, <1>5 DEF TypeOK, SensorType, Read, Places, Goto, run, button, Probe
<1>6. CASE SkipDecision \/ Act
  BY <1>6 DEF TypeOK, SkipDecision, Act, Goto, sensors, temps, run, button
<1>7. ASSUME NEW p \in Probe, AskAgain(p) PROVE TypeOK'
  BY <1>4, <1>7 DEF TypeOK, SensorType, AskAgain, run, button, Probe
<1>8. CASE Configure
  BY <1>8 DEF TypeOK, Configure, sensors, temps, run
<1>9. CASE StartPump \/ StopPump
  BY <1>9 DEF TypeOK, StartPump, StopPump, sensors, temps, button
<1>10. ASSUME NEW p \in Probe, Change(p) PROVE TypeOK'
  <2>1. good' \in [Probe -> BOOLEAN]
    BY <1>10 DEF TypeOK, Change
  <2>2. misses' \in [Probe -> 0..Patience] /\ steady' \in [Probe -> 0..Settling]
    <3>1. 0 \in 0..Patience /\ 0 \in 0..Settling
      BY ProbesAssumption DEF ProbesAssumption, Settling
    <3> QED
      BY <1>10, <3>1 DEF TypeOK, Change
  <2> QED
    BY <1>10, <2>1, <2>2 DEF TypeOK, Change, temps, run, button
<1>11. CASE UNCHANGED vars
  BY <1>11 DEF TypeOK, vars, sensors, temps, run, button
<1> QED
  BY <1>1, <1>2, <1>3, <1>5, <1>6, <1>7, <1>8, <1>9, <1>10, <1>11
  DEF Next, Loop, Decide, UpdateRrd, Probe, Places

(* The first values have the right types.                                  *)
LEMMA InitType == Init => TypeOK
<1>1. 0 \in 0..Patience /\ 0 \in 0..Settling /\ 0 \in 0..Stale
  BY ProbesAssumption DEF ProbesAssumption, Stale, Settling
<1> QED
  BY <1>1 DEF Init, TypeOK, Water

(* The variables keep their types.                                         *)
THEOREM TypeCorrect == Spec => []TypeOK
  BY InitType, StepType, PTL DEF Spec

-----------------------------------------------------------------------------
(* A run of the pump that an Update has begun in is seen by the pump's     *)
(* probe before the pool's thermometer copies it.                          *)
Seen ==
  /\ sampled = "begun" => on
  /\ on /\ at \in {"roof", "pool"} /\ sampled = "begun" => flow = "running"
  /\ on /\ sampled = "yes" => flow = "running"

(* A step keeps that, and the pool's temperature with it.                  *)
LEMMA StepPool ==
  TypeOK /\ Seen /\ PoolFromRun /\ [Next]_vars => (Seen /\ PoolFromRun)'
<1> SUFFICES ASSUME TypeOK, Seen, PoolFromRun, [Next]_vars
             PROVE  (Seen /\ PoolFromRun)'
  OBVIOUS
<1> USE DEF Seen, PoolFromRun
<1>1. CASE Iterate
  BY <1>1 DEF Iterate, Goto, run
<1>2. CASE UpdateProbe("pump", "roof")
  BY <1>2 DEF UpdateProbe, Accept, Refuse, temps, Goto
<1>3. CASE UpdateProbe("roof", "pool")
  BY <1>3 DEF UpdateProbe, Accept, Refuse, temps, Goto
<1>4. CASE UpdatePool
  BY <1>4 DEF TypeOK, UpdatePool, Selected, temps, Goto
<1>5. ASSUME NEW p \in Probe, Temperature(p) PROVE flow' \in {flow} \cup
        IF on THEN {"running"} ELSE Water
  BY <1>5 DEF Temperature, Accept, Refuse, temps, Water
<1>6. ASSUME NEW p \in Probe, NEW place \in Places,
             NEW next \in Places \ {"roof", "pool"}, Read(p, place, next)
      PROVE  (Seen /\ PoolFromRun)'
  <2>1. flow' \in {flow} \cup IF on THEN {"running"} ELSE Water
    BY <1>5, <1>6 DEF Read
  <2> QED
    BY <1>6, <2>1 DEF Read, Goto, run
<1>7. CASE SkipDecision \/ Act
  BY <1>7 DEF SkipDecision, Act, Goto, temps, run
<1>8. ASSUME NEW p \in Probe, AskAgain(p) PROVE (Seen /\ PoolFromRun)'
  <2>1. flow' \in {flow} \cup IF on THEN {"running"} ELSE Water
    BY <1>5, <1>8 DEF AskAgain, Probe
  <2> QED
    BY <1>8, <2>1 DEF AskAgain, run
<1>9. CASE Configure
  BY <1>9 DEF Configure, temps, run
<1>10. CASE StartPump \/ StopPump
  BY <1>10 DEF StartPump, StopPump, temps
<1>11. ASSUME NEW p \in Probe, Change(p) PROVE (Seen /\ PoolFromRun)'
  BY <1>11 DEF Change, temps, run
<1>12. CASE UNCHANGED vars
  BY <1>12 DEF vars, temps, run
<1> QED
  BY <1>1, <1>2, <1>3, <1>4, <1>6, <1>7, <1>8, <1>9, <1>10, <1>11, <1>12
  DEF Next, Loop, Decide, UpdateRrd, Probe, Places

(* The pool's temperature is one of water that ran, as soon as an Update   *)
(* has begun and ended in a run of the pump, whoever starts and stops it.  *)
THEOREM PoolFromRunHolds == Spec => []PoolFromRun
<1>1. Init => Seen /\ PoolFromRun
  BY DEF Init, Seen, PoolFromRun
<1> QED
  BY <1>1, InitType, StepType, StepPool, PTL DEF Spec

-----------------------------------------------------------------------------
(* A reading of one probe keeps what explains the ages of both.            *)
LEMMA ReadingExplained ==
  ASSUME TypeOK, NEW p \in Probe, NEW q \in Probe, NEW grace \in 0..1,
         ExplainedOf(q, grace), Accept(p) \/ Refuse(p)
  PROVE  ExplainedOf(q, grace)'
<1> USE ProbesAssumption DEF ProbesAssumption, TypeOK, ExplainedOf
<1>1. CASE Accept(p)
  <2>1. age'[q] \in {0, age[q]}
    BY <1>1 DEF Accept
  <2>2. misses'[q] = misses[q] /\ steady'[q] = steady[q] /\ good'[q] = good[q]
    BY <1>1 DEF Accept, sensors
  <2> QED
    BY <2>1, <2>2 DEF Stale, Settling
<1>2. CASE Refuse(p)
  <2>1. misses'[q] \in {misses[q], misses[q] + 1}
    BY <1>2 DEF Refuse
  <2>2. age'[q] = age[q] /\ steady'[q] = steady[q] /\ good'[q] = good[q]
    BY <1>2 DEF Refuse, temps
  <2> QED
    BY <2>1, <2>2 DEF Stale, Settling
<1> QED
  BY <1>1, <1>2

(* The loop's last reading in an iteration needs no grace: it makes the    *)
(* temperature new, or it is one more that was refused.                    *)
LEMMA LastReading ==
  ASSUME TypeOK, NEW p \in Probe, ExplainedOf(p, 1), Temperature(p)
  PROVE  ExplainedOf(p, 0)'
<1> USE ProbesAssumption DEF ProbesAssumption, TypeOK, ExplainedOf
<1>1. CASE ~TooOld(p)
  <2>1. /\ age'[p] = age[p] /\ misses'[p] = misses[p]
        /\ age[p] =< Minute
    BY <1>1 DEF Temperature, sensors, temps, TooOld, Stale
  <2> QED
    BY <2>1 DEF Stale
<1>2. CASE TooOld(p) /\ Accept(p)
  <2>1. age'[p] = 0 /\ misses'[p] = misses[p]
    BY <1>2 DEF Accept, sensors
  <2> QED
    BY <2>1
<1>3. CASE TooOld(p) /\ Refuse(p)
  <2>1. /\ good[p] => misses'[p] = misses[p] + 1
        /\ age'[p] = age[p] /\ steady'[p] = steady[p] /\ good'[p] = good[p]
    BY <1>3 DEF Refuse, temps
  <2> QED
    BY <2>1 DEF Stale, Settling
<1> QED
  BY <1>1, <1>2, <1>3 DEF Temperature

(* What explains an age with less grace explains it with more.             *)
LEMMA MoreGrace ==
  ASSUME TypeOK, NEW p \in Probe, ExplainedOf(p, 0)
  PROVE  ExplainedOf(p, 1)
  BY ProbesAssumption
  DEF ProbesAssumption, TypeOK, ExplainedOf, Stale, Settling

(* Asking for a temperature keeps what explains the ages of both.          *)
LEMMA AskingExplained ==
  ASSUME TypeOK, NEW p \in Probe, NEW q \in Probe, NEW grace \in 0..1,
         ExplainedOf(q, grace), Temperature(p)
  PROVE  ExplainedOf(q, grace)'
<1>1. CASE UNCHANGED <<sensors, temps>>
  BY <1>1 DEF ExplainedOf, sensors, temps
<1>2. CASE Accept(p) \/ Refuse(p)
  BY <1>2, ReadingExplained
<1> QED
  BY <1>1, <1>2 DEF Temperature

(* The loop asks for one temperature and does not ask again in this        *)
(* iteration.                                                              *)
LEMMA ReadExplained ==
  ASSUME TypeOK, Explained, NEW p \in Probe, NEW place, NEW next,
         Read(p, place, next), Grace(p) = 1,
         \A q \in Probe \ {p} : Grace(q)' = Grace(q)
  PROVE  Explained'
<1>1. Temperature(p)
  BY DEF Read
<1>2. ExplainedOf(p, 0)' /\ ExplainedOf(p, 1)'
  BY <1>1, LastReading, AskingExplained DEF Explained
<1>3. Grace(p)' \in {0, 1}
  BY DEF Grace
<1>4. ExplainedOf(p, Grace(p))'
  <2>1. CASE Grace(p)' = 0
    BY <1>2, <2>1 DEF ExplainedOf
  <2>2. CASE Grace(p)' = 1
    BY <1>2, <2>2 DEF ExplainedOf
  <2> QED
    BY <1>3, <2>1, <2>2
<1>5. ASSUME NEW q \in Probe \ {p} PROVE ExplainedOf(q, Grace(q))'
  <2>1. ExplainedOf(q, Grace(q)) /\ Grace(q) \in 0..1
    BY DEF Explained, Grace
  <2>2. \A grace \in 0..1 : ExplainedOf(q, grace) => ExplainedOf(q, grace)'
    BY <1>1, AskingExplained
  <2> QED
    BY <2>1, <2>2 DEF ExplainedOf
<1> QED
  BY <1>4, <1>5 DEF Explained

(* A step leaves the ages explained.                                       *)
LEMMA StepExplained == TypeOK /\ Explained /\ [Next]_vars => Explained'
<1> SUFFICES ASSUME TypeOK, Explained, [Next]_vars PROVE Explained'
  OBVIOUS
<1>1. CASE Iterate
  <2> SUFFICES ASSUME NEW p \in Probe PROVE ExplainedOf(p, Grace(p))'
    BY DEF Explained
  <2>1. Grace(p) = 0 /\ Grace(p)' = 1
    BY <1>1 DEF Iterate, Goto, Grace, Unread, Probe
  <2>2. ExplainedOf(p, 0)
    BY <2>1 DEF Explained
  <2>3. /\ age'[p] \in Nat /\ age'[p] =< age[p] + 1
        /\ steady'[p] \in Nat /\ steady'[p] =< steady[p] + 1
        /\ misses'[p] = misses[p] /\ good'[p] = good[p]
    BY <1>1, ProbesAssumption
    DEF ProbesAssumption, TypeOK, Iterate, Older, Stale, Settling
  <2>4. ExplainedOf(p, 1)'
    BY <2>2, <2>3, ProbesAssumption
    DEF ProbesAssumption, TypeOK, ExplainedOf, Stale, Settling
  <2> QED
    BY <2>1, <2>4 DEF ExplainedOf
<1>2. ASSUME NEW p \in Probe, NEW next \in {"roof", "pool"}, UpdateProbe(p, next)
      PROVE  Explained'
  <2> SUFFICES ASSUME NEW q \in Probe PROVE ExplainedOf(q, Grace(q))'
    BY DEF Explained
  <2>1. Grace(q) = 1 /\ Grace(q)' = 1
    BY <1>2 DEF UpdateProbe, Goto, Grace, Unread, Probe
  <2>2. ExplainedOf(q, 1)
    BY <2>1 DEF Explained
  <2>3. ExplainedOf(q, 1)'
    BY <1>2, <2>2, ReadingExplained DEF UpdateProbe
  <2> QED
    BY <2>1, <2>3 DEF ExplainedOf
<1>3. ASSUME UpdatePool \/ SkipDecision \/ Act PROVE Explained'
  <2> SUFFICES ASSUME NEW q \in Probe PROVE ExplainedOf(q, Grace(q))'
    BY DEF Explained
  <2>1. Grace(q) \in {0, 1} /\ Grace(q)' = 1
    BY <1>3 DEF UpdatePool, SkipDecision, Act, Goto, Grace, Unread, Probe
  <2>2. ExplainedOf(q, 1)
    BY <2>1, MoreGrace DEF Explained
  <2>3. UNCHANGED <<sensors, temps>>
    BY <1>3 DEF UpdatePool, SkipDecision, Act
  <2> QED
    BY <2>1, <2>2, <2>3 DEF ExplainedOf, sensors, temps
<1>4. CASE Read("pump", "readPump", "readRoof") \/ Read("pump", "rrdPump", "rrdRoof")
  <2>1. Grace("pump") = 1 /\ Grace("roof") = 1 /\ Grace("roof")' = 1
    BY <1>4 DEF Read, Goto, Grace, Unread
  <2> QED
    BY <1>4, <2>1, ReadExplained DEF Probe
<1>5. CASE Read("roof", "readRoof", "act") \/ Read("roof", "rrdRoof", "wait")
  <2>1. Grace("roof") = 1 /\ Grace("pump") = 0 /\ Grace("pump")' = 0
    BY <1>5 DEF Read, Goto, Grace, Unread
  <2> QED
    BY <1>5, <2>1, ReadExplained DEF Probe
<1>6. ASSUME NEW p \in Probe, AskAgain(p) PROVE Explained'
  <2> SUFFICES ASSUME NEW q \in Probe PROVE ExplainedOf(q, Grace(q))'
    BY DEF Explained
  <2>1. Grace(q) \in 0..1 /\ Grace(q)' = Grace(q) /\ ExplainedOf(q, Grace(q))
    BY <1>6 DEF AskAgain, Grace, Unread, Explained
  <2>2. \A grace \in 0..1 : ExplainedOf(q, grace) => ExplainedOf(q, grace)'
    BY <1>6, AskingExplained DEF AskAgain, Probe
  <2> QED
    BY <2>1, <2>2 DEF ExplainedOf
<1>7. ASSUME NEW p \in Probe, Change(p) PROVE Explained'
  <2> SUFFICES ASSUME NEW q \in Probe PROVE ExplainedOf(q, Grace(q))'
    BY DEF Explained
  <2>1. Grace(q) \in {0, 1} /\ Grace(q)' = Grace(q) /\ ExplainedOf(q, Grace(q))
    BY <1>7 DEF Change, Grace, Unread, Explained
  <2>2. CASE q = p
    BY <1>7, <2>1, <2>2 DEF Change, ExplainedOf, TypeOK
  <2>3. CASE q # p
    BY <1>7, <2>1, <2>3 DEF Change, ExplainedOf, TypeOK, temps
  <2> QED
    BY <2>2, <2>3
<1>8. CASE Configure \/ StartPump \/ StopPump \/ UNCHANGED vars
  <2>1. UNCHANGED <<sensors, temps, at>>
    BY <1>8 DEF Configure, StartPump, StopPump, vars, temps, sensors
  <2> QED
    BY <2>1 DEF Explained, ExplainedOf, Grace, Unread, sensors, temps
<1> QED
  BY <1>1, <1>2, <1>3, <1>4, <1>5, <1>6, <1>7, <1>8
  DEF Next, Loop, Decide, UpdateRrd, Probe

(* RunPumpsIfNeeded decides from temperatures of the last minute, give or  *)
(* take the readings that a change may spoil, of every sensor that works,  *)
(* however many readings a change may spoil.                               *)
THEOREM DecisionFreshHolds == Spec => []DecisionFresh
<1>1. Init => Explained
  BY ProbesAssumption
  DEF ProbesAssumption, Init, Explained, ExplainedOf, Grace
<1>2. TypeOK /\ Explained => DecisionFresh
  <2> SUFFICES ASSUME TypeOK, Explained, at = "act", NEW p \in Probe,
                      good[p], steady[p] > Patience
               PROVE  age[p] =< Minute + Patience
    BY DEF DecisionFresh
  <2>1. Grace(p) = 0
    BY DEF Grace, Unread
  <2>2. ExplainedOf(p, 0)
    BY <2>1 DEF Explained
  <2> QED
    BY <2>2, ProbesAssumption
    DEF ProbesAssumption, TypeOK, ExplainedOf, Stale, Settling
<1> QED
  BY <1>1, <1>2, InitType, StepType, StepExplained, PTL DEF Spec
=============================================================================
