------------------------------ MODULE PumpLoop ------------------------------
(***************************************************************************)
(* The decisions of the control loop over time: RunPumpsIfNeeded of        *)
(* poolpump.go with the clock, the temperatures and the configuration, and *)
(* the commands people give meanwhile.  Commands take effect at once here, *)
(* as SwitchPanel promises and Switches delivers to a command that meets   *)
(* no other.                                                               *)
(*                                                                         *)
(* A tick is an hour.  Commands are given in the first minutes of an hour  *)
(* and the loop, which iterates every five seconds, iterates at least once *)
(* in each, later than that: "longer than n hours" is "n ticks or more".   *)
(***************************************************************************)
EXTENDS Integers

CONSTANTS
  Settings,   \* what the configuration may be set to
  Weather,    \* what the probes may read: [water, roof]
  StartCap,   \* bound: ages of a start are told apart up to this many hours
  StopCap     \* bound: and ages of a stop

AtLeast(hours, least) == IF hours < least THEN least ELSE hours
AtMost(hours, most)   == IF hours < most THEN hours ELSE most

(* The times that a configuration c means.                                 *)
ManualHours(c) == AtLeast(c.runTime, 2)              \* ManualState
DailyHours(c)  == AtLeast(c.runTime, 1)              \* "runtime"
FreqHours(c)   == AtLeast(24 * c.dailyFrequency - 6, 12)
Night          == 6                                  \* "Hour() < 6"

ASSUME PumpLoopAssumption ==
  /\ Settings \subseteq
       [disabled : BOOLEAN, solarDisabled : BOOLEAN,
        target : Int, tolerance : Int, deltaT : Int,
        dailyFrequency : Int,   \* days between automated runs
        runTime : Int]          \* hours
  /\ Weather \subseteq [water : Int, roof : Int]
  /\ StartCap \in Nat /\ StopCap \in Nat
  /\ \A c \in Settings :
       ManualHours(c) < StartCap /\ ManualHours(c) =< StopCap /\ FreqHours(c) =< StopCap

VARIABLES
  state,       \* Switches.state; the pump is on iff it is in Running
  marked,      \* manualOp is the time of the latest start or stop
  sinceStart,  \* hours since the pump's latest start, at most StartCap
  sinceStop,   \* hours since the pump's latest stop, at most StopCap
  hour,        \* of the day
  cfg,         \* the configuration
  checked,     \* the loop has iterated in this hour
  unasked,     \* history: hours that the pump has been running without solar
               \* since it was started, last commanded by hand or configured
  waited       \* history: hours in a row in which the daily run was due

vars == <<state, marked, sinceStart, sinceStop, hour, cfg, checked, unasked, waited>>

Running == {"PUMP", "SWEEP", "SOLAR", "MIXING"}
State == Running \cup {"OFF", "DISABLED"}

-----------------------------------------------------------------------------
(* ManualState: the latest start or stop was manual and is recent.  The    *)
(* latest is the start exactly when the pump is on.                        *)
ManualState ==
  marked /\ (IF state \in Running THEN sinceStart ELSE sinceStop) < ManualHours(cfg)

ShouldCool(t) ==
  /\ ~cfg.solarDisabled
  /\ t.water > cfg.target + cfg.tolerance /\ t.water > t.roof + cfg.deltaT

\* mutant: the setting forgotten
ShouldWarmAnyway(t) ==
  t.water < cfg.target - cfg.tolerance /\ t.water < t.roof - cfg.deltaT

ShouldWarm(t) ==
  /\ ~cfg.solarDisabled
  /\ t.water < cfg.target - cfg.tolerance /\ t.water < t.roof - cfg.deltaT

UsePanels(t) == ShouldCool(t) \/ ShouldWarm(t)

(* "Wide deltaT between target and temp ..., run sweep"                    *)
Wide(t) ==
  t.water < cfg.target - cfg.deltaT \/ t.water > cfg.target + cfg.tolerance

-----------------------------------------------------------------------------
(* newSwitches and the loop's first iteration are seconds apart.           *)
Init ==
  /\ state = "OFF" /\ marked = FALSE
  /\ sinceStart = 0 /\ sinceStop = 0
  /\ hour \in 0..23
  /\ cfg \in Settings
  /\ checked = FALSE
  /\ unasked = 0 /\ waited = 0

(* setSwitches: every command restarts the clock of a start or of a stop.  *)
SetSwitches(s, manual) ==
  /\ state' = s /\ marked' = manual
  /\ IF s \in Running THEN sinceStart' = 0 /\ UNCHANGED sinceStop
                      ELSE sinceStop' = 0 /\ UNCHANGED sinceStart
  /\ unasked' = IF manual \/ s \notin Running THEN 0 ELSE unasked

StopAll(manual) ==
  SetSwitches(IF state = "DISABLED" THEN "DISABLED" ELSE "OFF", manual)

NoChange == UNCHANGED <<state, marked, sinceStart, sinceStop, unasked>>

(* SetState for an automatic operation outside a manual one.               *)
SetState(s) ==
  IF state \in {s, "DISABLED"} THEN NoChange ELSE SetSwitches(s, FALSE)

\* mutant: stop as soon as there is no reason to run
RanEnoughAtOnce == TRUE

\* "GetStartTime().Add(time.Hour).Before(time.Now())"
RanEnough == sinceStart >= 1

\* mutant: every other daily run
DailyDueTwice == sinceStop >= 2 * FreqHours(cfg) /\ hour < Night

\* "Since(GetStopTime()) > freqHours && Hour() < 6"
DailyDue == sinceStop >= FreqHours(cfg) /\ hour < Night

\* mutant: an hour too long
DailyOverLate == sinceStart > DailyHours(cfg) /\ state \in {"SWEEP", "DISABLED"}

(* "Since(GetStartTime()) > runtime", after SetState(SWEEP) may just have  *)
(* started the pump.                                                       *)
DailyOver == sinceStart >= DailyHours(cfg) /\ state \in {"SWEEP", "DISABLED"}

\* mutant: a negation lost
ReenablesDisabled ==
  state = "DISABLED" /\ cfg.disabled /\ ~cfg.solarDisabled

(* The loop leaves DISABLED only if solar is enabled, too.                 *)
Reenables == state = "DISABLED" /\ ~cfg.disabled /\ ~cfg.solarDisabled

(* One iteration of the loop.  A temperature older than a minute is read   *)
(* again when it is asked for, so that t, from which it decides whether to *)
(* use the panels, and u, from which it decides how, may differ.           *)
Automatic(t, u) ==
  \/ Reenables /\ SetSwitches("OFF", FALSE)
  \/ cfg.disabled /\ state = "DISABLED" /\ NoChange
  \/ cfg.disabled /\ state # "DISABLED" /\ SetSwitches("DISABLED", FALSE)
  \/ /\ ~cfg.disabled /\ ~Reenables
     /\ \/ /\ UsePanels(t)
           /\ IF state = "MIXING" THEN NoChange
              ELSE SetState(IF Wide(u) THEN "MIXING" ELSE "SOLAR")
        \/ /\ ~UsePanels(t) /\ DailyDue
           /\ IF DailyOver THEN StopAll(FALSE) ELSE SetState("SWEEP")
        \/ /\ ~UsePanels(t) /\ ~DailyDue
           /\ IF state \in Running /\ RanEnough THEN StopAll(FALSE) ELSE NoChange

Iterate ==
  /\ IF ManualState THEN NoChange ELSE \E t, u \in Weather : Automatic(t, u)
  /\ checked' = TRUE
  /\ UNCHANGED <<hour, cfg, waited>>

-----------------------------------------------------------------------------
(* A person, through HomeKit or the button, starts the pumps or changes    *)
(* what they do, ...                                                       *)
StartByHand(s) ==
  /\ state \notin {"DISABLED", s}
  /\ SetSwitches(s, TRUE)
  /\ UNCHANGED <<hour, cfg, checked, waited>>

(* ... or stops them.  HomeKit may show a pump on that is disabled.        *)
StopByHand ==
  /\ state # "OFF"
  /\ StopAll(TRUE)
  /\ UNCHANGED <<hour, cfg, checked, waited>>

(* The form of the configuration page changes any of the settings.         *)
Configure ==
  /\ \E c \in Settings \ {cfg} : cfg' = c
  /\ checked' = FALSE /\ unasked' = 0
  /\ UNCHANGED <<state, marked, sinceStart, sinceStop, hour, waited>>

Capped(n, cap) == IF n < cap THEN n + 1 ELSE n

(* The pumps have been off for the configured frequency and nobody wants   *)
(* them to be off.                                                         *)
Due == state = "OFF" /\ sinceStop >= FreqHours(cfg) /\ ~ManualState

Tick ==
  /\ checked
  /\ checked' = FALSE
  /\ hour' = (hour + 1) % 24
  /\ sinceStart' = Capped(sinceStart, StartCap)
  /\ sinceStop' = Capped(sinceStop, StopCap)
  /\ unasked' = IF state \in Running /\ cfg.solarDisabled
                THEN Capped(unasked, StartCap + Night) ELSE 0
  /\ waited' = IF Due THEN Capped(waited, 24) ELSE 0
  /\ UNCHANGED <<state, marked, cfg>>

ByHand == StopByHand \/ \E s \in Running : StartByHand(s)

Next == Iterate \/ ByHand \/ Configure \/ Tick

(* The loop iterates and time passes.                                      *)
Fairness == WF_vars(Iterate) /\ SF_vars(Tick)

Spec == Init /\ [][Next]_vars /\ Fairness

-----------------------------------------------------------------------------
TypeOK ==
  /\ state \in State /\ marked \in BOOLEAN
  /\ sinceStart \in 0..StartCap /\ sinceStop \in 0..StopCap
  /\ hour \in 0..23
  /\ cfg \in Settings
  /\ checked \in BOOLEAN
  /\ unasked \in 0..(StartCap + Night) /\ waited \in 0..24

(* The daily run: pumps that have been off for the configured frequency    *)
(* start again within the wait for the night, unless somebody commands     *)
(* them or sets another frequency, and whatever weather and settings do in *)
(* between.                                                                *)
DailyRun == waited =< 24 - Night

(* Without solar, a run that is left alone ends: it lasts no longer than a *)
(* manual operation and the daily run that may take it over before it      *)
(* ends, although that restarts the clock that its end is measured from    *)
(* (relays.go:95).                                                         *)
RunsEnd ==
  checked /\ cfg.solarDisabled /\ state \in Running =>
    unasked < ManualHours(cfg) + AtMost(DailyHours(cfg), Night)

(* "Disable solar" (server.go:549) stops a solar run as soon as it is an   *)
(* hour old, unless somebody asked for it.                                 *)
SolarDisabledObeyed ==
  checked /\ cfg.solarDisabled /\ state \in {"SOLAR", "MIXING"} =>
    ManualState \/ sinceStart < 1

(* The loop does not stop a pump, other than to disable it, that has run   *)
(* for less than an hour: temperatures at a threshold do not make it       *)
(* flutter.                                                                *)
NoShortRuns ==
  [][state' = "OFF" /\ state \in Running /\ ~marked' => sinceStart >= 1]_vars

(* Settings that are left enabled are obeyed: the loop leaves DISABLED,    *)
(* unless people keep commanding the pumps.                                *)
Reenabled ==
  <>[](~cfg.disabled /\ ~cfg.solarDisabled) /\ <>[][~ByHand]_vars
    => <>[](state # "DISABLED")
=============================================================================
