------------------------------- MODULE Probes -------------------------------
(***************************************************************************)
(* The thermometers together: the two probes, the pool's thermometer that  *)
(* remembers what the pump's probe has read while the pump ran, and those  *)
(* who read them: Update and RunPumpsIfNeeded of the control loop          *)
(* (poolpump.go), its RRD update and its status lines, and the web page.   *)
(* Update gives up at the first probe that refuses its readings, and what  *)
(* follows in it (the other thermometers, the button's setting) is left as *)
(* it is; Temperature refreshes a value older than a minute.               *)
(*                                                                         *)
(* A probe keeps the promise of Probe, which Thermometer implements.  The  *)
(* pump is started and stopped by anybody at any time.  A tick is an       *)
(* iteration of the loop: five seconds and what refused readings cost.     *)
(***************************************************************************)
EXTENDS Naturals

CONSTANTS
  Minute,    \* ticks after which a temperature is too old
  Patience   \* of Probe

ASSUME ProbesAssumption == Minute \in Nat \ {0} /\ Patience \in Nat

VARIABLES
  good,      \* per probe: its sensor works
  misses,    \* per probe: readings refused since its sensor or its water
             \* has changed or has given only a few readings
  steady,    \* per probe: ticks since then, as far as they matter
  age,       \* per probe: ticks since "updated", as far as they matter
  at,        \* where the loop's iteration is
  on,        \* the pump runs
  flow,      \* how the water was when the pump's probe was read
  pool,      \* how it was for the pool's temperature
  sampled,   \* history: Update has begun, or been through, since the start
             \* of the latest run of the pump that it has seen
  setting,   \* ButtonDisabled
  disabled   \* Button.disabled

sensors == <<good, misses, steady>>
temps == <<age, flow>>
run == <<on, sampled>>
button == <<setting, disabled>>
vars == <<sensors, temps, pool, at, run, button>>

Probe == {"pump", "roof"}
Water == {"running", "still"}
Stale == Minute + Patience + 1     \* the bounds of age and steady
Settling == Patience + 1

-----------------------------------------------------------------------------
(* NewPoolPumpController and Start have updated all thermometers, or the   *)
(* program would have ended.  The pump does not run yet.                   *)
Init ==
  /\ good \in [Probe -> BOOLEAN]
  /\ misses = [p \in Probe |-> 0] /\ steady = [p \in Probe |-> 0]
  /\ age = [p \in Probe |-> 0] /\ at = "wait"
  /\ on = FALSE /\ flow = "still" /\ pool = "still" /\ sampled = "no"
  /\ setting \in BOOLEAN /\ disabled = setting

-----------------------------------------------------------------------------
(* The sensor of p fails or recovers, or what it measures changes; or an   *)
(* update of p, before and after it, has only a few readings.              *)
Change(p) ==
  /\ good' \in {good, [good EXCEPT ![p] = ~@]}
  /\ misses' = [misses EXCEPT ![p] = 0]
  /\ steady' = [steady EXCEPT ![p] = 0]
  /\ UNCHANGED <<temps, pool, at, run, button>>

StartPump ==
  /\ ~on /\ on' = TRUE
  /\ sampled' = "no"
  /\ UNCHANGED <<sensors, temps, pool, at, button>>

StopPump ==
  /\ on /\ on' = FALSE
  /\ sampled' = (IF sampled = "begun" THEN "no" ELSE sampled)
  /\ UNCHANGED <<sensors, temps, pool, at, button>>

Configure ==
  /\ setting' = ~setting
  /\ UNCHANGED <<sensors, temps, pool, at, run, disabled>>

-----------------------------------------------------------------------------
(* GpioThermometer.Update, as Probe promises.                              *)
Accept(p) ==
  /\ age' = [age EXCEPT ![p] = 0]
  /\ flow' = (IF p # "pump" THEN flow ELSE IF on THEN "running" ELSE "still")
  /\ UNCHANGED sensors

Refuse(p) ==
  /\ good[p] => misses[p] < Patience
  /\ misses' = (IF good[p] THEN [misses EXCEPT ![p] = @ + 1] ELSE misses)
  /\ UNCHANGED <<good, steady, temps>>

Goto(place) == at' = place

(* PoolPumpController.Update, step by step.                                *)
UpdateProbe(p, next) ==
  /\ at = p
  /\ \/ Accept(p) /\ Goto(next)
     \/ Refuse(p) /\ Goto("readPump")
  /\ sampled' = (IF p = "pump" /\ on /\ sampled = "no" THEN "begun" ELSE sampled)
  /\ UNCHANGED <<pool, on, button>>

\* mutant: a thermometer that does not select
Unselected == flow

\* SelectiveThermometer.Update with the filter of RunningWaterThermometer
Selected == IF on THEN flow ELSE pool

\* mutant: the button is never enabled again
ButtonDisables == setting \/ disabled

\* "if ppc.config.cfg.ButtonDisabled"
ButtonSetting == setting

UpdatePool ==
  /\ at = "pool"
  /\ pool' = Selected
  /\ disabled' = ButtonSetting
  /\ sampled' = (IF on /\ sampled = "begun" THEN "yes" ELSE sampled)
  /\ Goto("readPump")
  /\ UNCHANGED <<sensors, temps, on, setting>>

-----------------------------------------------------------------------------
\* mutant: what Update has left behind is good enough
NeverTooOld(p) == FALSE

\* "time.Now().After(t.updated.Add(time.Minute))"
TooOld(p) == age[p] > Minute

(* GpioThermometer.Temperature.                                            *)
Temperature(p) ==
  IF TooOld(p) THEN Accept(p) \/ Refuse(p) ELSE UNCHANGED <<sensors, temps>>

Read(p, place, next) ==
  /\ at = place
  /\ Temperature(p)
  /\ Goto(next)
  /\ UNCHANGED <<pool, run, button>>

(* RunPumpsIfNeeded reads both temperatures and acts, or returns before it *)
(* does.                                                                   *)
SkipDecision ==
  /\ at = "readPump" /\ Goto("rrdPump")
  /\ UNCHANGED <<sensors, temps, pool, run, button>>

Act ==
  /\ at = "act" /\ Goto("rrdPump")
  /\ UNCHANGED <<sensors, temps, pool, run, button>>

Decide ==
  \/ Read("pump", "readPump", "readRoof") \/ Read("roof", "readRoof", "act")
  \/ SkipDecision \/ Act

UpdateRrd ==
  Read("pump", "rrdPump", "rrdRoof") \/ Read("roof", "rrdRoof", "wait")

(* The front page shows the roof's temperature, at any time; the loop asks *)
(* for both again in the rest of its decision and for its status lines.    *)
AskAgain(p) ==
  /\ p = "roof" \/ at \in {"readRoof", "act", "wait"}
  /\ Temperature(p)
  /\ UNCHANGED <<pool, at, run, button>>

Older(f, most) == [p \in Probe |-> IF f[p] < most THEN f[p] + 1 ELSE most]

(* The next iteration of runLoop.                                          *)
Iterate ==
  /\ at = "wait" /\ Goto("pump")
  /\ age' = Older(age, Stale) /\ steady' = Older(steady, Settling)
  /\ UNCHANGED <<good, misses, flow, pool, run, button>>

-----------------------------------------------------------------------------
Loop ==
  \/ Iterate \/ UpdateProbe("pump", "roof") \/ UpdateProbe("roof", "pool")
  \/ UpdatePool \/ Decide \/ UpdateRrd

Next ==
  \/ Loop \/ Configure \/ StartPump \/ StopPump
  \/ \E p \in Probe : AskAgain(p) \/ Change(p)

(* The control loop goes on.                                               *)
Spec == Init /\ [][Next]_vars /\ WF_vars(Loop)

-----------------------------------------------------------------------------
TypeOK ==
  /\ good \in [Probe -> BOOLEAN]
  /\ misses \in [Probe -> 0..Patience] /\ steady \in [Probe -> 0..Settling]
  /\ age \in [Probe -> 0..Stale]
  /\ at \in {"wait", "readPump", "readRoof", "act", "pool", "rrdPump", "rrdRoof"}
              \cup Probe
  /\ on \in BOOLEAN /\ {flow, pool} \subseteq Water
  /\ sampled \in {"no", "begun", "yes"}
  /\ setting \in BOOLEAN /\ disabled \in BOOLEAN

(* RunPumpsIfNeeded decides from temperatures of the last minute, give or  *)
(* take the readings that a change may spoil, for every sensor that works: *)
(* the death of the pump's probe, which ends every Update before the       *)
(* roof's, does not make the controller act on a roof of long ago.         *)
DecisionFresh ==
  at = "act" =>
    \A p \in Probe : good[p] /\ steady[p] > Patience => age[p] =< Minute + Patience

(* "remembers the temperature of the water when the pumps were running"    *)
(* (poolpump.go:39): it does once an Update has begun and ended in the     *)
(* latest run.  A run that an Update only ends in may leave it with water  *)
(* that stood: the probe is read first, the state of the pump afterwards.  *)
PoolFromRun == sampled = "yes" => pool = "running"

(* "Disable button" (server.go:548) is obeyed, and taken back, as long as  *)
(* both sensors work, give all their readings and measure what no longer   *)
(* changes.  A dead one suspends the setting: Update does not get there.   *)
ButtonObeyed ==
  <>[](\A p \in Probe : good[p] /\ steady[p] > Patience) => []<>(disabled = setting)
=============================================================================
