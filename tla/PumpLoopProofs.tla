--------------------------- MODULE PumpLoopProofs ---------------------------
(***************************************************************************)
(* Proofs about PumpLoop, for any temperature settings, frequency, run     *)
(* time and weather.                                                       *)
(***************************************************************************)
EXTENDS PumpLoop, TLAPS

(* The hours that the minima turn the settings into, and the caps.         *)
LEMMA Hours ==
  ASSUME NEW c \in Settings
  PROVE  /\ ManualHours(c) \in Nat /\ ManualHours(c) >= 2
         /\ DailyHours(c) \in Nat /\ DailyHours(c) >= 1
         /\ DailyHours(c) =< ManualHours(c)
         /\ FreqHours(c) \in Nat /\ FreqHours(c) >= 12
         /\ ManualHours(c) < StartCap
         /\ ManualHours(c) =< StopCap /\ FreqHours(c) =< StopCap
<1>1. c.runTime \in Int /\ c.dailyFrequency \in Int
  BY PumpLoopAssumption DEF PumpLoopAssumption
<1>2. /\ ManualHours(c) \in Nat /\ ManualHours(c) >= 2
      /\ DailyHours(c) \in Nat /\ DailyHours(c) >= 1
      /\ DailyHours(c) =< ManualHours(c)
      /\ FreqHours(c) \in Nat /\ FreqHours(c) >= 12
  BY <1>1 DEF ManualHours, DailyHours, FreqHours, AtLeast
<1>3. /\ ManualHours(c) < StartCap
      /\ ManualHours(c) =< StopCap /\ FreqHours(c) =< StopCap
  BY PumpLoopAssumption DEF PumpLoopAssumption
<1> QED
  BY <1>2, <1>3

LEMMA Caps == StartCap \in Nat /\ StopCap \in Nat
  BY PumpLoopAssumption DEF PumpLoopAssumption

(* A count grows by one up to its cap.                                     *)
LEMMA Counts ==
  ASSUME NEW cap \in Nat, NEW n \in 0..cap
  PROVE  /\ Capped(n, cap) \in 0..cap /\ Capped(n, cap) =< n + 1
         /\ n < cap => Capped(n, cap) = n + 1
         /\ n = cap => Capped(n, cap) = cap
  BY DEF Capped

(* The commands keep the types and leave the pumps in a state of theirs.   *)
LEMMA SetSwitchesType ==
  ASSUME TypeOK, NEW s \in State, NEW manual \in BOOLEAN,
         SetSwitches(s, manual)
  PROVE  /\ state' \in State /\ marked' \in BOOLEAN
         /\ sinceStart' \in 0..StartCap /\ sinceStop' \in 0..StopCap
         /\ unasked' \in 0..(StartCap + Night)
  BY Caps DEF TypeOK, SetSwitches, Night

(* What an iteration may do to the pumps: it changes nothing or gives one  *)
(* automatic command.                                                      *)
LEMMA IterateCommands ==
  ASSUME Iterate
  PROVE  NoChange \/ \E s \in State : SetSwitches(s, FALSE)
<1>1. CASE NoChange
  BY <1>1
<1>2. ASSUME ~NoChange, NEW t \in Weather, NEW u \in Weather, Automatic(t, u)
      PROVE  \E s \in State : SetSwitches(s, FALSE)
  BY <1>2 DEF Automatic, SetState, StopAll, State, Running
<1> QED
  BY <1>1, <1>2 DEF Iterate

(* An hour later the counts are of their types.                            *)
LEMMA TickCounts ==
  ASSUME TypeOK, Tick
  PROVE  /\ sinceStart' = Capped(sinceStart, StartCap) /\ sinceStart' \in 0..StartCap
         /\ sinceStop' = Capped(sinceStop, StopCap) /\ sinceStop' \in 0..StopCap
         /\ unasked' \in 0..(StartCap + Night) /\ unasked' =< unasked + 1
         /\ waited' \in 0..24 /\ waited' =< waited + 1
         /\ hour' = (IF hour = 23 THEN 0 ELSE hour + 1) /\ hour' \in 0..23
<1>1. /\ sinceStart \in 0..StartCap /\ sinceStop \in 0..StopCap
      /\ unasked \in 0..(StartCap + Night) /\ waited \in 0..24 /\ hour \in 0..23
      /\ StartCap + Night \in Nat
  BY Caps DEF TypeOK, Night
<1>2. /\ sinceStart' = Capped(sinceStart, StartCap)
      /\ sinceStop' = Capped(sinceStop, StopCap)
      /\ unasked' = Capped(unasked, StartCap + Night) \/ unasked' = 0
      /\ waited' = Capped(waited, 24) \/ waited' = 0
      /\ hour' = (hour + 1) % 24
  BY DEF Tick
<1>3. sinceStart' \in 0..StartCap /\ sinceStop' \in 0..StopCap
  BY <1>1, <1>2, Caps, Counts
<1>4. unasked' \in 0..(StartCap + Night) /\ unasked' =< unasked + 1
  BY <1>1, <1>2 DEF Capped
<1>5. waited' \in 0..24 /\ waited' =< waited + 1
  BY <1>1, <1>2 DEF Capped
<1>6. hour' = (IF hour = 23 THEN 0 ELSE hour + 1) /\ hour' \in 0..23
  BY <1>1, <1>2
<1> QED
  BY <1>2, <1>3, <1>4, <1>5, <1>6

(* One step keeps the types.                                               *)
LEMMA StepType == TypeOK /\ [Next]_vars => TypeOK'
<1> SUFFICES ASSUME TypeOK, [Next]_vars PROVE TypeOK'
  OBVIOUS
<1>1. CASE Iterate
  <2>1. CASE NoChange
    BY <1>1, <2>1 DEF TypeOK, Iterate, NoChange
  <2>2. ASSUME NEW s \in State, SetSwitches(s, FALSE) PROVE TypeOK'
    BY <1>1, <2>2, SetSwitchesType DEF TypeOK, Iterate
  <2> QED
    BY <1>1, <2>1, <2>2, IterateCommands
<1>2. ASSUME NEW s \in Running, StartByHand(s) PROVE TypeOK'
  <2>1. s \in State
    BY DEF State
  <2> QED
    BY <1>2, <2>1, SetSwitchesType DEF TypeOK, StartByHand
<1>3. CASE StopByHand
  <2>1. PICK s \in State : SetSwitches(s, TRUE)
    BY <1>3 DEF StopByHand, StopAll, State
  <2> QED
    BY <1>3, <2>1, SetSwitchesType DEF TypeOK, StopByHand
<1>4. CASE Configure
  <2>1. unasked' \in 0..(StartCap + Night)
    BY <1>4, Caps DEF Configure, Night
  <2>2. cfg' \in Settings /\ checked' \in BOOLEAN
    BY <1>4 DEF Configure
  <2> QED
    BY <1>4, <2>1, <2>2 DEF TypeOK, Configure
<1>5. CASE Tick
  <2>1. state' \in State /\ marked' \in BOOLEAN /\ cfg' \in Settings /\ checked' \in BOOLEAN
    BY <1>5 DEF TypeOK, Tick
  <2> QED
    BY <1>5, <2>1, TickCounts DEF TypeOK
<1>6. CASE UNCHANGED vars
  BY <1>6 DEF TypeOK, vars
<1> QED
  BY <1>1, <1>2, <1>3, <1>4, <1>5, <1>6 DEF Next, ByHand

(* newSwitches and the configuration have the right types.                 *)
LEMMA InitType == Init => TypeOK
<1>1. 0 \in 0..StartCap /\ 0 \in 0..StopCap /\ 0 \in 0..(StartCap + Night)
  BY Caps DEF Night
<1>2. ASSUME Init PROVE unasked \in 0..(StartCap + Night) /\ waited \in 0..24
  BY <1>1, <1>2 DEF Init
<1>3. ASSUME Init PROVE sinceStart \in 0..StartCap /\ sinceStop \in 0..StopCap
  BY <1>1, <1>3 DEF Init
<1>4. ASSUME Init
      PROVE  /\ state \in State /\ marked \in BOOLEAN /\ hour \in 0..23
             /\ cfg \in Settings /\ checked \in BOOLEAN
  BY <1>4 DEF Init, State
<1> QED
  BY <1>2, <1>3, <1>4 DEF TypeOK

(* The variables keep their types, for any settings.                       *)
THEOREM TypeCorrect == Spec => []TypeOK
  BY InitType, StepType, PTL DEF Spec

-----------------------------------------------------------------------------
(* What a loop told not to use solar leaves running: a manual operation,   *)
(* a daily run that is not over yet, which it may have just started, or    *)
(* anything else that is not an hour old.                                  *)
LEMMA IterateWithoutSolar ==
  ASSUME TypeOK, Iterate, cfg.solarDisabled, state' \in Running
  PROVE  \/ ManualState /\ NoChange
         \/ DailyDue /\ state = "SWEEP" /\ NoChange /\ sinceStart < DailyHours(cfg)
         \/ DailyDue /\ state \notin {"SWEEP", "DISABLED"} /\ SetSwitches("SWEEP", FALSE)
         \/ ~ManualState /\ ~DailyDue /\ NoChange /\ sinceStart < 1
<1>1. CASE ManualState
  BY <1>1 DEF Iterate
<1>2. CASE ~ManualState
  <2>1. PICK t \in Weather, u \in Weather : Automatic(t, u)
    BY <1>2 DEF Iterate
  <2>2. ~UsePanels(t) /\ ~Reenables
    BY DEF UsePanels, ShouldCool, ShouldWarm, Reenables
  <2>3. ~cfg.disabled
    BY <2>1, <2>2 DEF Automatic, Running, SetSwitches, NoChange
  <2>4. CASE DailyDue
    <3>1. ~DailyOver /\ SetState("SWEEP")
      BY <2>1, <2>2, <2>3, <2>4
      DEF Automatic, StopAll, SetSwitches, Running
    <3>2. CASE state \in {"SWEEP", "DISABLED"}
      <4>1. NoChange /\ state = "SWEEP"
        BY <3>1, <3>2 DEF SetState, NoChange, Running
      <4>2. ~(sinceStart >= DailyHours(cfg))
        BY <3>1, <4>1 DEF DailyOver
      <4>3. sinceStart \in Int /\ DailyHours(cfg) \in Int
        BY Hours DEF TypeOK
      <4>4. sinceStart < DailyHours(cfg)
        BY <4>2, <4>3
      <4> QED
        BY <2>4, <4>1, <4>4
    <3>3. CASE state \notin {"SWEEP", "DISABLED"}
      BY <2>4, <3>1, <3>3 DEF SetState
    <3> QED
      BY <3>2, <3>3
  <2>5. CASE ~DailyDue
    <3>1. ~RanEnough /\ NoChange
      BY <2>1, <2>2, <2>3, <2>5
      DEF Automatic, StopAll, SetSwitches, NoChange, Running
    <3>2. sinceStart < 1
      BY <3>1 DEF RanEnough, TypeOK
    <3> QED
      BY <1>2, <2>5, <3>1, <3>2
  <2> QED
    BY <2>4, <2>5
<1> QED
  BY <1>1, <1>2

(* A run that is left alone is as long as its clock says, ...              *)
Alone ==
  /\ unasked =< sinceStart /\ unasked =< ManualHours(cfg)
  /\ checked => unasked < ManualHours(cfg)

(* ... until the daily run takes it over and restarts the clock, in the    *)
(* night and for no longer than it.                                        *)
TakenOver ==
  /\ state = "SWEEP" /\ ~marked /\ sinceStop >= FreqHours(cfg)
  /\ unasked =< sinceStart + ManualHours(cfg)
  /\ sinceStart =< hour
  /\ hour < Night \/ (hour = Night /\ sinceStart >= 1 /\ ~checked)
  /\ checked => sinceStart < DailyHours(cfg)

Left ==
  /\ state \notin Running => unasked = 0
  /\ cfg.solarDisabled /\ state \in Running => Alone \/ TakenOver

(* An iteration keeps a run within its bounds, ...                         *)
LEMMA IterateLeft ==
  ASSUME TypeOK, TypeOK', Left, Iterate
  PROVE  Left'
<1> DEFINE M == ManualHours(cfg)
           D == DailyHours(cfg)
<1>1. /\ cfg' = cfg /\ cfg \in Settings /\ hour' = hour /\ checked' = TRUE
      /\ sinceStart \in Nat /\ sinceStop \in Nat /\ hour \in Nat /\ unasked \in Nat
      /\ M \in Nat /\ M >= 2 /\ D \in Nat /\ D >= 1 /\ D =< M
  BY Hours, Caps DEF Iterate, TypeOK, Night
<1>2. ASSUME state' \notin Running PROVE unasked' = 0
  BY <1>2, IterateCommands DEF Left, NoChange, SetSwitches
<1>3. ASSUME cfg.solarDisabled, state' \in Running
      PROVE  Alone' \/ TakenOver'
  <2>1. CASE ManualState /\ NoChange
    <3>1. state \in Running /\ marked /\ sinceStart < M
      BY <1>3, <2>1 DEF NoChange, ManualState
    <3>2. Alone
      BY <1>3, <3>1 DEF Left, TakenOver
    <3>3. unasked < M
      BY <1>1, <3>1, <3>2 DEF Alone
    <3> QED
      BY <1>1, <2>1, <3>2, <3>3 DEF Alone, NoChange
  <2>2. CASE DailyDue /\ state = "SWEEP" /\ NoChange /\ sinceStart < D
    <3>1. Alone \/ TakenOver
      BY <1>3, <2>2 DEF Left, Running
    <3>2. CASE Alone
      <4>1. unasked < M
        BY <1>1, <2>2, <3>2 DEF Alone
      <4> QED
        BY <1>1, <2>2, <3>2, <4>1 DEF Alone, NoChange
    <3>3. CASE TakenOver
      <4>1. hour < Night
        BY <2>2 DEF DailyDue
      <4> QED
        BY <1>1, <2>2, <3>3, <4>1 DEF TakenOver, NoChange
    <3> QED
      BY <3>1, <3>2, <3>3
  <2>3. CASE DailyDue /\ state \notin {"SWEEP", "DISABLED"} /\ SetSwitches("SWEEP", FALSE)
    <3>1. unasked =< M
      BY <1>1, <1>3, <2>3 DEF Left, Alone, TakenOver
    <3>2. /\ state' = "SWEEP" /\ marked' = FALSE /\ sinceStart' = 0
          /\ sinceStop' = sinceStop /\ unasked' = unasked
      BY <2>3 DEF SetSwitches, Running
    <3>3. hour < Night /\ sinceStop >= FreqHours(cfg)
      BY <2>3 DEF DailyDue
    <3> QED
      BY <1>1, <3>1, <3>2, <3>3 DEF TakenOver
  <2>4. CASE ~ManualState /\ ~DailyDue /\ NoChange /\ sinceStart < 1
    <3>1. Alone \/ TakenOver
      BY <1>3, <2>4 DEF Left, NoChange
    <3>2. ~TakenOver
      BY <1>1, <2>4 DEF TakenOver, DailyDue
    <3>3. unasked < M
      BY <1>1, <2>4, <3>1, <3>2 DEF Alone
    <3> QED
      BY <1>1, <2>4, <3>1, <3>2, <3>3 DEF Alone, NoChange
  <2> QED
    BY <1>3, <2>1, <2>2, <2>3, <2>4, IterateWithoutSolar
<1> QED
  BY <1>1, <1>2, <1>3 DEF Left

(* ... and so does the clock.                                              *)
LEMMA TickLeft ==
  ASSUME TypeOK, Left, Tick
  PROVE  Left'
<1> DEFINE M == ManualHours(cfg)
<1>1. /\ cfg' = cfg /\ state' = state /\ marked' = marked
      /\ checked /\ checked' = FALSE
      /\ state \notin Running => unasked' = 0
  BY DEF Tick
<1>2. /\ sinceStart \in 0..StartCap /\ sinceStop \in 0..StopCap
      /\ hour \in 0..23 /\ unasked \in Nat /\ StartCap \in Nat /\ StopCap \in Nat
  BY Caps DEF TypeOK, Night
<1>3. /\ M \in Nat /\ M < StartCap /\ FreqHours(cfg) \in Nat
      /\ FreqHours(cfg) =< StopCap
  BY Hours DEF TypeOK
<1>4. /\ sinceStart < StartCap => sinceStart' = sinceStart + 1
      /\ sinceStart = StartCap => sinceStart' = StartCap
      /\ sinceStop' >= sinceStop
      /\ unasked' \in Nat /\ unasked' =< unasked + 1
      /\ hour' = IF hour = 23 THEN 0 ELSE hour + 1
  <2>1. sinceStop' >= sinceStop
    BY <1>2, TickCounts DEF Capped
  <2>2. /\ sinceStart < StartCap => sinceStart' = sinceStart + 1
        /\ sinceStart = StartCap => sinceStart' = StartCap
    BY <1>2, TickCounts DEF Capped
  <2>3. unasked' \in Nat
    BY <1>2, TickCounts DEF Night
  <2> QED
    BY <2>1, <2>2, <2>3, TickCounts
<1>5. CASE Alone
  <2>1. unasked < M
    BY <1>1, <1>5 DEF Alone
  <2>2. unasked' =< M /\ unasked' =< sinceStart'
    BY <1>2, <1>3, <1>4, <1>5, <2>1 DEF Alone
  <2> QED
    BY <1>1, <2>2 DEF Left, Alone
<1>6. CASE TakenOver
  <2>1. /\ sinceStart =< hour /\ hour < Night
        /\ unasked =< sinceStart + M /\ state = "SWEEP" /\ ~marked
        /\ sinceStop >= FreqHours(cfg)
        /\ sinceStart < DailyHours(cfg)
    BY <1>1, <1>6 DEF TakenOver
  <2>2. sinceStart' = sinceStart + 1
    BY <1>2, <1>3, <1>4, <2>1, Hours DEF TypeOK
  <2>3. hour' = hour + 1 /\ hour' =< Night
    BY <1>2, <1>4, <2>1 DEF Night
  <2>4. unasked' =< sinceStart' + M /\ sinceStart' =< hour' /\ sinceStart' >= 1
    BY <1>2, <1>3, <1>4, <2>1, <2>2, <2>3
  <2>5. hour' < Night \/ hour' = Night
    BY <1>2, <2>3 DEF Night
  <2>6. sinceStop' >= FreqHours(cfg)
    BY <1>2, <1>3, <1>4, <2>1, TickCounts
  <2>7. TakenOver'
    BY <1>1, <2>1, <2>4, <2>5, <2>6 DEF TakenOver
  <2> QED
    BY <1>1, <2>7 DEF Left
<1> QED
  BY <1>1, <1>5, <1>6 DEF Left

(* Every step keeps them.                                                  *)
LEMMA StepLeft ==
  ASSUME TypeOK, TypeOK', Left, [Next]_vars
  PROVE  Left'
<1>1. ASSUME NEW s \in Running, StartByHand(s) PROVE Left'
  <2>1. /\ unasked' = 0 /\ sinceStart' = 0 /\ cfg' = cfg /\ state' \in Running
    BY <1>1 DEF StartByHand, SetSwitches
  <2> QED
    BY <2>1, Hours DEF Left, Alone, TypeOK
<1>2. CASE StopByHand
  BY <1>2 DEF StopByHand, StopAll, SetSwitches, Left, Running
<1>3. CASE Configure
  <2>1. /\ unasked' = 0 /\ checked' = FALSE /\ sinceStart' = sinceStart
        /\ cfg' \in Settings /\ sinceStart \in Nat
    BY <1>3, Caps DEF Configure, TypeOK
  <2> QED
    BY <2>1, Hours DEF Left, Alone
<1>4. CASE UNCHANGED vars
  BY <1>4 DEF vars, Left, Alone, TakenOver
<1> QED
  BY <1>1, <1>2, <1>3, <1>4, IterateLeft, TickLeft DEF Next, ByHand

(* A solar run, told not to use solar, stops when it is an hour old.       *)
LEMMA StepSolar ==
  ASSUME TypeOK, SolarDisabledObeyed, [Next]_vars
  PROVE  SolarDisabledObeyed'
<1>1. CASE Iterate
  <2> SUFFICES ASSUME cfg.solarDisabled, state' \in {"SOLAR", "MIXING"}
               PROVE  ManualState' \/ sinceStart' < 1
    BY <1>1 DEF SolarDisabledObeyed, Iterate
  <2>1. \/ ManualState /\ NoChange
        \/ NoChange /\ sinceStart < 1
    BY <1>1, IterateWithoutSolar DEF Running, NoChange, SetSwitches
  <2> QED
    BY <1>1, <2>1 DEF NoChange, ManualState, Iterate
<1>2. ASSUME NEW s \in Running, StartByHand(s) PROVE SolarDisabledObeyed'
  BY <1>2 DEF StartByHand, SetSwitches, SolarDisabledObeyed
<1>3. CASE StopByHand
  BY <1>3 DEF StopByHand, StopAll, SetSwitches, SolarDisabledObeyed
<1>4. CASE Configure \/ Tick
  BY <1>4 DEF Configure, Tick, SolarDisabledObeyed
<1>5. CASE UNCHANGED vars
  BY <1>5 DEF vars, SolarDisabledObeyed, ManualState
<1> QED
  BY <1>1, <1>2, <1>3, <1>4, <1>5 DEF Next, ByHand

(* Without solar a run that is left alone lasts no longer than a manual    *)
(* operation and the daily run that takes it over, for any settings that   *)
(* may change at any time, and any weather.                                *)
THEOREM RunsEndHolds == Spec => []RunsEnd
<1>1. Init => Left
  BY DEF Init, Left, Running
<1>2. TypeOK /\ Left => RunsEnd
  <2> SUFFICES ASSUME TypeOK, Left, checked, cfg.solarDisabled, state \in Running
               PROVE  unasked < ManualHours(cfg) + AtMost(DailyHours(cfg), Night)
    BY DEF RunsEnd
  <2>1. /\ unasked \in Nat /\ sinceStart \in Nat /\ hour \in Nat
        /\ ManualHours(cfg) \in Nat /\ DailyHours(cfg) \in Nat /\ DailyHours(cfg) >= 1
    BY Hours, Caps DEF TypeOK, Night
  <2>2. AtMost(DailyHours(cfg), Night) \in {DailyHours(cfg), Night}
    BY DEF AtMost
  <2>3. CASE Alone
    <3>1. unasked < ManualHours(cfg)
      BY <2>3 DEF Alone
    <3> QED
      BY <2>1, <2>2, <3>1 DEF Night
  <2>4. CASE TakenOver
    <3>1. /\ unasked =< sinceStart + ManualHours(cfg)
          /\ sinceStart < DailyHours(cfg) /\ sinceStart < Night
      BY <2>1, <2>4 DEF TakenOver, Night
    <3> QED
      BY <2>1, <2>2, <3>1 DEF Night
  <2> QED
    BY <2>3, <2>4 DEF Left
<1> QED
  BY <1>1, <1>2, InitType, StepType, StepLeft, PTL DEF Spec

(* A solar run that nobody asked for is stopped within the hour after      *)
(* solar is disabled, or when it is an hour old.                           *)
THEOREM SolarDisabledObeyedHolds == Spec => []SolarDisabledObeyed
<1>1. Init => SolarDisabledObeyed
  BY DEF Init, SolarDisabledObeyed
<1> QED
  BY <1>1, InitType, StepType, StepSolar, PTL DEF Spec

-----------------------------------------------------------------------------
(* The loop never stops a pump that has run for less than an hour, other   *)
(* than to disable it, whatever the temperatures do.                       *)
THEOREM NoShortRunsHolds == Spec => NoShortRuns
<1>1. TypeOK /\ [Next]_vars =>
        [state' = "OFF" /\ state \in Running /\ ~marked' => sinceStart >= 1]_vars
  <2> SUFFICES ASSUME TypeOK, Next,
                      state' = "OFF", state \in Running, ~marked'
               PROVE  sinceStart >= 1
    OBVIOUS
  <2>1. Iterate
    BY DEF Next, ByHand, StopByHand, StartByHand, StopAll, SetSwitches,
           Configure, Tick, Running
  <2>2. ~NoChange
    BY DEF NoChange, Running
  <2>3. PICK t \in Weather, u \in Weather : Automatic(t, u)
    BY <2>1, <2>2 DEF Iterate
  <2>4. RanEnough \/ DailyOver
    BY <2>2, <2>3 DEF Automatic, Reenables, SetState, SetSwitches, Running
  <2>5. DailyHours(cfg) \in Nat /\ DailyHours(cfg) >= 1 /\ sinceStart \in Int
    BY Hours DEF TypeOK
  <2> QED
    BY <2>4, <2>5 DEF RanEnough, DailyOver
<1> QED
  BY <1>1, TypeCorrect, PTL DEF Spec, NoShortRuns

-----------------------------------------------------------------------------
(* In the early morning the loop leaves no pump off for which the daily    *)
(* run is due, so that the hours of waiting are those since the morning.   *)
Waiting ==
  /\ Due /\ checked => hour >= Night
  /\ \/ waited = 0
     \/ hour >= Night /\ waited + Night =< hour
     \/ hour = 0 /\ waited + Night =< 24

(* Off for long enough in the early morning, the loop turns the pumps on,  *)
(* or disables them.                                                       *)
LEMMA NightStarts ==
  ASSUME TypeOK, Iterate, Due, hour < Night
  PROVE  state' # "OFF"
<1>1. ~ManualState /\ DailyDue /\ state = "OFF"
  BY DEF Due, DailyDue
<1>2. PICK t \in Weather, u \in Weather : Automatic(t, u)
  BY <1>1 DEF Iterate
<1> QED
  BY <1>1, <1>2
  DEF Automatic, Reenables, DailyOver, SetState, SetSwitches

LEMMA OneLater ==
  ASSUME NEW a \in Int, NEW b \in Int, NEW c \in Int, a + 6 =< b, c =< a + 1
  PROVE  c + 6 =< b + 1
  OBVIOUS

(* A step keeps the pumps waiting for the night and no longer.             *)
LEMMA StepWaiting ==
  ASSUME TypeOK, TypeOK', Waiting, [Next]_vars
  PROVE  Waiting'
<1>1. /\ hour \in 0..23 /\ waited \in Nat /\ sinceStop \in Nat
      /\ FreqHours(cfg) \in Nat /\ FreqHours(cfg) > 0
  BY Hours, Caps DEF TypeOK
<1>2. CASE Iterate
  <2>1. UNCHANGED <<hour, waited, cfg>>
    BY <1>2 DEF Iterate
  <2>2. ASSUME Due' PROVE hour >= Night
    <3>1. CASE NoChange
      <4>1. Due /\ state' = "OFF"
        BY <2>1, <2>2, <3>1 DEF Due, NoChange, ManualState
      <4> QED
        BY <1>1, <1>2, <4>1, NightStarts DEF Night
    <3>2. ASSUME NEW s \in State, SetSwitches(s, FALSE) PROVE FALSE
      BY <1>1, <2>1, <2>2, <3>2 DEF SetSwitches, Due, Running
    <3> QED
      BY <1>2, <3>1, <3>2, IterateCommands
  <2> QED
    BY <2>1, <2>2 DEF Waiting
<1>3. CASE ByHand
  <2>1. UNCHANGED <<hour, waited, cfg, checked>>
    BY <1>3 DEF ByHand, StartByHand, StopByHand
  <2>2. ~Due'
    BY <1>1, <1>3, <2>1
    DEF ByHand, StartByHand, StopByHand, StopAll, SetSwitches, Running, Due
  <2> QED
    BY <2>1, <2>2 DEF Waiting
<1>4. CASE Configure
  BY <1>4 DEF Waiting, Configure
<1>5. CASE Tick
  <2>1. /\ checked /\ ~checked'
        /\ hour' = IF hour = 23 THEN 0 ELSE hour + 1
    BY <1>1, <1>5 DEF Tick
  <2>2. CASE ~Due
    BY <1>5, <2>1, <2>2 DEF Tick, Waiting
  <2>3. CASE Due
    <3>1. waited' \in Nat /\ waited' =< waited + 1
      BY <1>1, <1>5 DEF Tick, Capped
    <3>2. hour >= Night
      BY <2>1, <2>3 DEF Waiting
    <3>3. waited + Night =< hour
      BY <1>1, <3>2 DEF Waiting, Night
    <3>4. waited' + Night =< hour + 1
      <4>1. waited \in Int /\ hour \in Int /\ waited' \in Int
        BY <1>1, <3>1
      <4> QED
        BY <3>1, <3>3, <4>1, OneLater DEF Night
    <3>5. CASE hour = 23
      <4>1. hour' = 0 /\ waited' + Night =< 24
        BY <2>1, <3>4, <3>5
      <4> QED
        BY <2>1, <4>1 DEF Waiting
    <3>6. CASE hour # 23
      <4>1. hour' = hour + 1
        BY <2>1, <3>6
      <4>2. hour' >= Night
        BY <1>1, <3>2, <4>1 DEF Night
      <4> QED
        BY <2>1, <3>4, <4>1, <4>2 DEF Waiting
    <3> QED
      BY <3>5, <3>6
  <2> QED
    BY <2>2, <2>3
<1>6. CASE UNCHANGED vars
  BY <1>6 DEF vars, Waiting, Due, ManualState
<1> QED
  BY <1>2, <1>3, <1>4, <1>5, <1>6 DEF Next

(* The daily run: pumps that have been off for the configured frequency    *)
(* start again within the wait for the night, for any settings that may    *)
(* change at any time.                                                     *)
THEOREM DailyRunHolds == Spec => []DailyRun
<1>1. Init => Waiting
  BY Hours DEF Init, Waiting, Due, Night
<1>2. TypeOK /\ Waiting => DailyRun
  BY DEF TypeOK, Waiting, DailyRun, Night
<1> QED
  BY <1>1, <1>2, InitType, StepType, StepWaiting, PTL DEF Spec

-----------------------------------------------------------------------------
(* The switches as the loop takes them are those that SwitchPanel          *)
(* promises while commands do not meet: hold is the manual operation that  *)
(* the loop asks for.                                                      *)
Panel == INSTANCE SwitchPanel WITH
  mode <- state,
  hold <- ManualState,
  locked <- FALSE,
  sure <- TRUE

(* A command by hand puts a manual operation in force, one of the loop     *)
(* none.                                                                   *)
LEMMA CommandHolds ==
  ASSUME TypeOK, NEW s, NEW manual \in BOOLEAN, SetSwitches(s, manual), cfg' = cfg
  PROVE  state' = s /\ ManualState' = manual
<1>1. ManualHours(cfg) \in Nat /\ ManualHours(cfg) >= 2
  BY Hours DEF TypeOK
<1> QED
  BY <1>1 DEF SetSwitches, ManualState

(* An iteration that commands anything gives an automatic command of       *)
(* SwitchPanel: none that starts the pump alone, and one that leaves       *)
(* DISABLED for OFF only.                                                  *)
LEMMA IterateActs ==
  ASSUME Iterate
  PROVE  \/ NoChange
         \/ /\ ~ManualState
            /\ \E s \in {"DISABLED", "OFF", "SWEEP", "SOLAR", "MIXING"} :
                 /\ SetSwitches(s, FALSE)
                 /\ state = "DISABLED" => s \in {"OFF", "DISABLED"}
<1> SUFFICES ASSUME ~NoChange, ~ManualState,
                    NEW t \in Weather, NEW u \in Weather, Automatic(t, u)
             PROVE  \E s \in {"DISABLED", "OFF", "SWEEP", "SOLAR", "MIXING"} :
                      /\ SetSwitches(s, FALSE)
                      /\ state = "DISABLED" => s \in {"OFF", "DISABLED"}
  BY DEF Iterate
<1> QED
  BY DEF Automatic, SetState, StopAll, Reenables

(* A step that changes no state changes nothing on the panel, or the       *)
(* manual operation lapses or holds again.                                 *)
LEMMA HoldChanges ==
  ASSUME TypeOK, TypeOK', state' = state
  PROVE  Panel!Next \/ UNCHANGED Panel!vars
<1>1. ManualState \in BOOLEAN /\ ManualState' \in BOOLEAN
  BY DEF TypeOK, ManualState
<1>2. ManualState /\ ~ManualState' => Panel!Lapse
  BY <1>1 DEF Panel!Lapse
<1>3. ~ManualState /\ ManualState' => Panel!Revive
  BY <1>1 DEF Panel!Revive
<1>4. ManualState' = ManualState => UNCHANGED Panel!vars
  BY DEF Panel!vars
<1> QED
  BY <1>1, <1>2, <1>3, <1>4 DEF Panel!Next, Panel!Sure

(* The layer below: every step of the loop, of people and of time is one   *)
(* of SwitchPanel, which Switches implements.                              *)
THEOREM ImplementsPanelHolds == Spec => Panel!Spec
<1>1. Init => Panel!Init
  BY DEF Init, Panel!Init, ManualState
<1>2. ASSUME TypeOK, TypeOK', [Next]_vars
      PROVE  [Panel!Next]_Panel!vars
  <2>1. ASSUME Panel!Sure PROVE Panel!Next
    BY <2>1 DEF Panel!Next
  <2>2. CASE Iterate
    <3>1. CASE NoChange
      BY <1>2, <3>1, HoldChanges DEF NoChange
    <3>2. ASSUME NEW s \in {"DISABLED", "OFF", "SWEEP", "SOLAR", "MIXING"},
                 ~ManualState, SetSwitches(s, FALSE),
                 state = "DISABLED" => s \in {"OFF", "DISABLED"}
          PROVE  Panel!Automatic(s)
      <4>1. state' = s /\ ManualState' = FALSE
        BY <1>2, <2>2, <3>2, CommandHolds DEF Iterate
      <4>2. ManualState = FALSE
        BY <1>2, <3>2 DEF TypeOK, ManualState
      <4> QED
        BY <3>2, <4>1, <4>2 DEF Panel!Automatic
    <3> QED
      BY <2>1, <2>2, <3>1, <3>2, IterateActs DEF Panel!Sure
  <2>3. ASSUME NEW s \in Running, StartByHand(s)
        PROVE  Panel!Next
    <3>1. state' = s /\ ManualState' = TRUE
      BY <1>2, <2>3, CommandHolds DEF StartByHand
    <3>2. Panel!StartByHand(s)
      BY <2>3, <3>1 DEF StartByHand, Panel!StartByHand
    <3> QED
      BY <2>1, <3>2 DEF Panel!Sure, Panel!Pumping, Running
  <2>4. CASE StopByHand
    <3>1. /\ state' = (IF state = "DISABLED" THEN "DISABLED" ELSE "OFF")
          /\ ManualState' = TRUE
      <4>1. PICK s \in State : /\ s = IF state = "DISABLED" THEN "DISABLED" ELSE "OFF"
                               /\ SetSwitches(s, TRUE)
        BY <2>4 DEF StopByHand, StopAll, State
      <4>2. SetSwitches(s, TRUE)
        BY <4>1
      <4>3. state' = s /\ ManualState' = TRUE
        BY <1>2, <2>4, <4>2, CommandHolds DEF StopByHand
      <4> QED
        BY <4>1, <4>3
    <3>2. Panel!StopByHand
      BY <3>1 DEF Panel!StopByHand
    <3> QED
      BY <2>1, <3>2 DEF Panel!Sure
  <2>5. CASE Configure \/ Tick \/ UNCHANGED vars
    BY <1>2, <2>5, HoldChanges DEF Configure, Tick, vars
  <2> QED
    BY <1>2, <2>2, <2>3, <2>4, <2>5 DEF Next, ByHand
<1>3. TypeOK /\ TypeOK' /\ [Next]_vars => [Panel!Next]_Panel!vars
  BY <1>2
<1> QED
  BY <1>1, <1>3, TypeCorrect, PTL DEF Spec, Panel!Spec
=============================================================================
