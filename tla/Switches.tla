------------------------------ MODULE Switches ------------------------------
(***************************************************************************)
(* The pump, sweep and solar switches (switches.go) and the four           *)
(* goroutines that command them: the control loop, the button, HomeKit and *)
(* the termination handler.  Switches has no lock.  A command is modelled  *)
(* at the granularity of its accesses to shared state: decide, check, set  *)
(* the pump, set the sweep, set the solar valve, mark the operation as     *)
(* manual, record the state.  The steps of several commands interleave.    *)
(* What a command still promises then depends on whether it has met        *)
(* another one: two history variables, met and sound, tell.                *)
(*                                                                         *)
(* Temperatures, the daily schedule and the clock are left to PumpLoop:    *)
(* here the control loop may want any state it can ever ask for.           *)
(***************************************************************************)
EXTENDS Naturals

CONSTANTS
  Starts,       \* bound: settings that the program may be started with
  Ends,         \* bound: phases in which the process may end
  MaxRequests   \* bound: commands given by people in a behaviour

State == {"DISABLED", "OFF", "PUMP", "SWEEP", "SOLAR", "MIXING"}
Running == {"PUMP", "SWEEP", "SOLAR", "MIXING"}   \* state > OFF
Threads == {"loop", "button", "homekit", "main"}
Switch == {"pump", "sweep", "solar"}

VARIABLES
  state,      \* Switches.state
  relay,      \* which of the pump, the sweep and the valve are on
  shown,      \* the values HomeKit shows for the three accessories
  marked,     \* manualOp is the time of the latest start or stop of the pump
  fresh,      \* manualOp is no older than the configured run time
  cfg,        \* the Disabled and SolarDisabled settings
  call,       \* per goroutine: the command it is carrying out
  phase,      \* progress of the shutdown
  exited,     \* the process is gone
  late,       \* history: somebody has given a command since Stop began
  met,        \* history: goroutines whose latest command has met another
  sound,      \* history: a command that has met no other was the last to set
              \* the switches, and none have met since
  requests    \* commands given by people so far

vars == <<state, relay, shown, marked, fresh, cfg, call, phase, exited,
          late, met, sound, requests>>

\* not part of the program
history == <<late, met, sound>>

Phases == {"running", "stopping", "signalled", "deaf", "disabling", "ended"}

Settings == [disabled : BOOLEAN, solarDisabled : BOOLEAN]

ASSUME SwitchesAssumption ==
  /\ Starts \subseteq Settings /\ Starts # {}
  /\ Ends \subseteq Phases
  /\ MaxRequests \in Nat

Call == [at     : {"idle", "decide", "check", "stopAll", "pump", "sweep",
                   "solar", "mark", "commit", "disable", "sync"},
         to     : State,       \* target, or the state the loop has read
         manual : BOOLEAN,
         then   : {"return", "sync", "daily", "disable"}]

Idle == [at |-> "idle", to |-> "OFF", manual |-> FALSE, then |-> "return"]

-----------------------------------------------------------------------------
\* mutant: MIXING forgets the sweep
RelaysOfNoMixing(s) ==
  [w \in Switch |-> CASE w = "pump"  -> s \in Running
                      [] w = "sweep" -> s = "SWEEP"
                      [] w = "solar" -> s \in {"SOLAR", "MIXING"}]

(* What SetState turns on for a state; StopAll and Disable turn all off.   *)
RelaysOf(s) ==
  [w \in Switch |-> CASE w = "pump"  -> s \in Running
                      [] w = "sweep" -> s \in {"SWEEP", "MIXING"}
                      [] w = "solar" -> s \in {"SOLAR", "MIXING"}]

\* mutant: a manual operation that never runs out
ManualForever == marked

(* ManualState: the latest start or stop was manual and is recent.         *)
ManualState == marked /\ fresh

Others(t) == Threads \ {t}

(* A command may begin when its goroutine is free.                         *)
MayBegin(t) ==
  /\ ~exited
  /\ call[t] = Idle

(* The commands that t meets when it begins one.                           *)
Busy == {u \in Threads : call[u] # Idle}
Meet(t) ==
  IF Busy = {} THEN met' = met \ {t} /\ UNCHANGED sound
               ELSE met' = met \cup Busy \cup {t} /\ sound' = FALSE

Begin(t, at, to, manual, then) ==
  /\ MayBegin(t)
  /\ Meet(t)
  /\ call' = [call EXCEPT ![t] =
                [at |-> at, to |-> to, manual |-> manual, then |-> then]]

Goto(t, at) == call' = [call EXCEPT ![t].at = at]

(* What follows a finished SetState, StopAll or setSwitches.               *)
After(t) ==
  CASE call[t].then = "return"  -> call' = [call EXCEPT ![t] = Idle]
    [] call[t].then = "sync"    -> Goto(t, "sync")
    [] call[t].then = "disable" -> Goto(t, "disable")
    [] call[t].then = "daily"   ->
         \/ call' = [call EXCEPT ![t].at = "stopAll", ![t].then = "sync"]
         \/ Goto(t, "sync")

-----------------------------------------------------------------------------
\* mutant: new relays are left as they were found
AsFound(w) == relay[w]

\* newRelay's TurnOff, NewSolarValve's
AtStart(w) == FALSE

(* newSwitches has stopped everything and bound the accessories.           *)
Init ==
  /\ state = "OFF"
  /\ relay = [w \in Switch |-> FALSE]
  /\ shown = [w \in Switch |-> FALSE]
  /\ marked = FALSE /\ fresh = FALSE
  /\ cfg \in Starts
  /\ call = [t \in Threads |-> Idle]
  /\ phase = "running" /\ exited = FALSE
  /\ late = FALSE /\ met = {} /\ sound = TRUE
  /\ requests = 0

-----------------------------------------------------------------------------
(* People: the HomeKit callbacks of bindHK, the button callback of         *)
(* PoolPumpController.Start.                                               *)
HomeKitTarget(w, on) ==
  CASE w = "sweep" /\ state = "SOLAR"  -> IF on THEN "MIXING" ELSE state
    [] w = "sweep" /\ state = "MIXING" -> IF on THEN state ELSE "SOLAR"
    [] w = "sweep" /\ state \notin {"SOLAR", "MIXING"} ->
         IF on THEN "SWEEP" ELSE "PUMP"
    [] w = "solar" /\ state = "SWEEP"  -> state
    [] w = "solar" /\ state = "MIXING" -> IF on THEN "MIXING" ELSE "SWEEP"
    [] w = "solar" /\ state = "SOLAR"  -> IF on THEN state ELSE "PUMP"
    [] w = "solar" /\ state \notin {"SWEEP", "MIXING", "SOLAR"} ->
         IF on THEN "SOLAR" ELSE "OFF"
    [] w = "pump" -> "PUMP"

(* hc delivers a request only when it changes the shown value.             *)
HomeKit(w) ==
  /\ requests < MaxRequests
  /\ LET on == ~shown[w] IN
     /\ shown' = [shown EXCEPT ![w] = on]
     /\ IF w = "pump" /\ ~on
        THEN Begin("homekit", "stopAll", "OFF", TRUE, "return")
        ELSE Begin("homekit", "check", HomeKitTarget(w, on), TRUE, "return")
  /\ requests' = requests + 1
  /\ late' = (phase # "running")
  /\ UNCHANGED <<state, relay, marked, fresh, cfg, phase, exited>>

\* mutant: the button steps past the last state
ButtonTargetCycles ==
  CASE state = "OFF"    -> "PUMP"
    [] state = "PUMP"   -> "SWEEP"
    [] state = "SWEEP"  -> "SOLAR"
    [] state = "SOLAR"  -> "MIXING"
    [] state = "MIXING" -> "Unknown"

ButtonTarget ==
  CASE state = "OFF"   -> "PUMP"
    [] state = "PUMP"  -> "SWEEP"
    [] state = "SOLAR" -> "MIXING"
    [] OTHER           -> "OFF"

Button ==
  /\ requests < MaxRequests
  /\ phase \in {"running", "stopping", "signalled"}
  /\ state # "DISABLED"
  /\ Begin("button", "check", ButtonTarget, TRUE, "return")
  /\ requests' = requests + 1
  /\ late' = (phase # "running")
  /\ UNCHANGED <<state, relay, shown, marked, fresh, cfg, phase, exited>>

(* The configuration page changes a setting, at any time.  With a longer   *)
(* run time a manual operation holds again that had run out, and may take  *)
(* an automatic command unawares.                                          *)
Revive ==
  /\ marked /\ ~fresh
  /\ fresh' = TRUE
  /\ IF call["loop"] # Idle /\ ~call["loop"].manual
     THEN met' = met \cup {"loop"} /\ sound' = FALSE
     ELSE UNCHANGED <<met, sound>>
  /\ UNCHANGED cfg

Configure ==
  /\ ~exited /\ requests < MaxRequests
  /\ \/ cfg' = [cfg EXCEPT !.disabled = ~@] /\ UNCHANGED <<fresh, met, sound>>
     \/ cfg' = [cfg EXCEPT !.solarDisabled = ~@] /\ UNCHANGED <<fresh, met, sound>>
     \/ Revive
  /\ requests' = requests + 1
  /\ UNCHANGED <<state, relay, shown, marked, call, phase, exited, late>>

(* The run time (two hours or more) passes since the last manual           *)
(* operation, or is shortened: between commands, which take milliseconds,  *)
(* and not while Stop waits for the end of an iteration of the loop, which *)
(* is within two hours of its own StopAll.                                 *)
Expire ==
  /\ ~exited /\ fresh /\ phase # "stopping"
  /\ \A t \in Threads : call[t] = Idle
  /\ fresh' = FALSE
  /\ UNCHANGED <<state, relay, shown, marked, cfg, call, phase, exited, history, requests>>

-----------------------------------------------------------------------------
(* The control loop: RunPumpsIfNeeded reads the state, ...                 *)
LoopRead ==
  /\ phase \in {"running", "stopping"}
  /\ Begin("loop", "decide", state, FALSE, "sync")
  /\ UNCHANGED <<state, relay, shown, marked, fresh, cfg, phase, exited, late, requests>>

\* "if ppc.switches.ManualState(ppc.config.cfg.RunTime)"
LoopYields == ManualState

(* ... and decides from it, the manual mark and the configuration.  Which  *)
(* of the automatic operations the temperatures and the clock ask for is   *)
(* open here.                                                              *)
LoopDecide ==
  LET saw == call["loop"].to
      reenable == saw = "DISABLED" /\ ~cfg.disabled /\ ~cfg.solarDisabled
      Rest   == Goto("loop", "sync")
      Set(s) == call' = [call EXCEPT !["loop"].at = "pump", !["loop"].to = s]
      Ask(s, then) ==
        call' = [call EXCEPT !["loop"] =
          [at |-> "check", to |-> s, manual |-> FALSE, then |-> then]]
  IN
  /\ call["loop"].at = "decide"
  /\ \/ LoopYields /\ Rest
     \/ ~LoopYields /\ reenable /\ Set("OFF")
     \/ ~LoopYields /\ cfg.disabled /\ saw = "DISABLED" /\ Rest
     \/ ~LoopYields /\ cfg.disabled /\ saw # "DISABLED" /\ Set("DISABLED")
     \/ /\ ~LoopYields /\ ~reenable /\ ~cfg.disabled
        /\ \/ ~cfg.solarDisabled /\ saw # "MIXING"
              /\ \E s \in {"MIXING", "SOLAR"} : Ask(s, "sync")
           \/ Ask("SWEEP", "daily")
           \/ saw \in Running /\ Goto("loop", "stopAll")
           \/ Rest
  /\ UNCHANGED <<state, relay, shown, marked, fresh, cfg, phase, exited, history, requests>>

(* UpdateRrd ends an iteration: SolarValve.isOn refreshes the accessory.   *)
LoopSync ==
  /\ call["loop"].at = "sync"
  /\ shown' = [shown EXCEPT !["solar"] = relay["solar"]]
  /\ call' = [call EXCEPT !["loop"] = Idle]
  /\ UNCHANGED <<state, relay, marked, fresh, cfg, phase, exited, history, requests>>

-----------------------------------------------------------------------------
(* SetState: the early returns.                                            *)
Check(t) ==
  /\ call[t].at = "check"
  /\ IF \/ state = call[t].to
        \/ state = "DISABLED"
        \/ ManualState /\ ~call[t].manual
     THEN After(t)
     ELSE Goto(t, IF call[t].to = "OFF" THEN "stopAll" ELSE "pump")
  /\ UNCHANGED <<state, relay, shown, marked, fresh, cfg, phase, exited, history, requests>>

\* mutant: StopAll forgets that the switches are disabled
StopTargetAlwaysOff == "OFF"

StopTarget == IF state = "DISABLED" THEN "DISABLED" ELSE "OFF"

(* StopAll: a disabled controller stays disabled.                          *)
StopAll(t) ==
  /\ call[t].at = "stopAll"
  /\ call' = [call EXCEPT ![t].at = "pump", ![t].to = StopTarget]
  /\ UNCHANGED <<state, relay, shown, marked, fresh, cfg, phase, exited, history, requests>>

\* mutant: a relay that forgets to tell its accessory when it turns off
ShownUnlessOff(w, on) == IF on THEN TRUE ELSE shown[w]

\* Relay.TurnOn and TurnOff refresh the accessory
ShownAs(w, on) == on

(* setSwitches: the pump relay.  A start or a stop makes the earlier       *)
(* manual mark void.                                                       *)
SetPump(t) ==
  /\ call[t].at = "pump"
  /\ LET on == RelaysOf(call[t].to)["pump"] IN
     /\ relay' = [relay EXCEPT !["pump"] = on]
     /\ shown' = [shown EXCEPT !["pump"] = ShownAs("pump", on)]
  /\ marked' = FALSE
  /\ Goto(t, "sweep")
  /\ UNCHANGED <<state, fresh, cfg, phase, exited, history, requests>>

SetSweep(t) ==
  /\ call[t].at = "sweep"
  /\ LET on == RelaysOf(call[t].to)["sweep"] IN
     /\ relay' = [relay EXCEPT !["sweep"] = on]
     /\ shown' = [shown EXCEPT !["sweep"] = ShownAs("sweep", on)]
  /\ Goto(t, "solar")
  /\ UNCHANGED <<state, marked, fresh, cfg, phase, exited, history, requests>>

(* The valve has a lock of its own (SolarValve); its accessory is not      *)
(* refreshed here.                                                         *)
SetSolar(t) ==
  /\ call[t].at = "solar"
  /\ relay' = [relay EXCEPT !["solar"] = RelaysOf(call[t].to)["solar"]]
  /\ Goto(t, "mark")
  /\ UNCHANGED <<state, shown, marked, fresh, cfg, phase, exited, history, requests>>

\* mutant: the mark forgotten
MarksNever(t) == FALSE

\* "if isManual"
Marks(t) == call[t].manual

Mark(t) ==
  /\ call[t].at = "mark"
  /\ IF Marks(t) THEN marked' = TRUE /\ fresh' = TRUE
                 ELSE UNCHANGED <<marked, fresh>>
  /\ Goto(t, "commit")
  /\ UNCHANGED <<state, relay, shown, cfg, phase, exited, history, requests>>

Commit(t) ==
  /\ call[t].at = "commit"
  /\ state' = call[t].to
  /\ After(t)
  /\ sound' = (t \notin met)
  /\ UNCHANGED <<relay, shown, marked, fresh, cfg, phase, exited, late, met, requests>>

-----------------------------------------------------------------------------
\* mutant: Stop stops the pumps as the loop does
BeginStopAutomatic ==
  /\ phase = "running"
  /\ Begin("main", "stopAll", "OFF", FALSE, "return")
  /\ phase' = "stopping"
  /\ UNCHANGED <<state, relay, shown, marked, fresh, cfg, exited, late, requests>>

(* Shutdown: Stop by the termination handler, ...                          *)
BeginStop ==
  /\ phase = "running"
  /\ Begin("main", "stopAll", "OFF", TRUE, "return")
  /\ phase' = "stopping"
  /\ UNCHANGED <<state, relay, shown, marked, fresh, cfg, exited, late, requests>>

\* mutant: the loop skips its select while a manual operation holds
SignalUnlessManual ==
  /\ ~exited /\ ~ManualState
  /\ phase = "stopping" /\ call["main"] = Idle /\ call["loop"] = Idle
  /\ phase' = "signalled"
  /\ UNCHANGED <<state, relay, shown, marked, fresh, cfg, call, exited, history, requests>>

(* ... which then meets the loop in its select on the done channel, ...    *)
Signal ==
  /\ ~exited
  /\ phase = "stopping" /\ call["main"] = Idle /\ call["loop"] = Idle
  /\ phase' = "signalled"
  /\ UNCHANGED <<state, relay, shown, marked, fresh, cfg, call, exited, history, requests>>

(* ... the loop meets the button in its select (button.Stop) ...           *)
StopButton ==
  /\ ~exited
  /\ phase = "signalled" /\ call["button"] = Idle
  /\ phase' = "deaf"
  /\ UNCHANGED <<state, relay, shown, marked, fresh, cfg, call, exited, history, requests>>

\* mutant: the loop only stops the pumps
BeginDisableForgets ==
  /\ phase = "deaf"
  /\ Begin("loop", "stopAll", "OFF", TRUE, "return")
  /\ phase' = "disabling"
  /\ UNCHANGED <<state, relay, shown, marked, fresh, cfg, exited, late, requests>>

(* ... and disables the switches.                                          *)
BeginDisable ==
  /\ phase = "deaf"
  /\ Begin("loop", "stopAll", "OFF", TRUE, "disable")
  /\ phase' = "disabling"
  /\ UNCHANGED <<state, relay, shown, marked, fresh, cfg, exited, late, requests>>

Disable ==
  /\ call["loop"].at = "disable"
  /\ state' = "DISABLED"
  /\ call' = [call EXCEPT !["loop"] = Idle]
  /\ UNCHANGED <<relay, shown, marked, fresh, cfg, phase, exited, history, requests>>

(* "keepRunning = false": there is no further iteration.                   *)
LeaveLoop ==
  /\ ~exited
  /\ phase = "disabling" /\ call["loop"] = Idle
  /\ phase' = "ended"
  /\ UNCHANGED <<state, relay, shown, marked, fresh, cfg, call, exited, history, requests>>

(* The process ends.  A shutdown makes ListenAndServeTLS return an error   *)
(* and startServer calls Fatal, any time after the signal; an error of the *)
(* server, or a kill, ends it at any other time.  The pins stay as they    *)
(* are.                                                                    *)
Exit ==
  /\ ~exited /\ phase \in Ends
  /\ exited' = TRUE
  /\ UNCHANGED <<state, relay, shown, marked, fresh, cfg, call, phase, history, requests>>

(* Somebody starts the program again.  Its settings may be older ones.     *)
Restart ==
  /\ exited /\ requests < MaxRequests
  /\ state' = "OFF"
  /\ relay' = [w \in Switch |-> AtStart(w)]
  /\ shown' = [w \in Switch |-> AtStart(w)]
  /\ marked' = FALSE /\ fresh' = FALSE
  /\ cfg' \in Starts
  /\ call' = [t \in Threads |-> Idle]
  /\ phase' = "running" /\ exited' = FALSE
  /\ late' = FALSE /\ met' = {} /\ sound' = TRUE
  /\ requests' = requests + 1

-----------------------------------------------------------------------------
Step(t) ==
  /\ ~exited
  /\ \/ Check(t) \/ StopAll(t) \/ SetPump(t) \/ SetSweep(t) \/ SetSolar(t)
     \/ Mark(t) \/ Commit(t)

LoopStep == ~exited /\ (LoopDecide \/ LoopSync \/ Disable)

Shutdown == Signal \/ StopButton \/ BeginDisable \/ LeaveLoop

Next ==
  \/ \E w \in Switch : HomeKit(w)
  \/ Button \/ Configure \/ Expire
  \/ LoopRead \/ LoopStep
  \/ \E t \in Threads : Step(t)
  \/ BeginStop \/ Shutdown \/ Exit \/ Restart

(* Goroutines run and the loop's timer fires again and again (weak         *)
(* fairness).  Hours pass between two iterations of the loop, and the loop *)
(* takes a pending done rather than wait for its timer (strong: both are   *)
(* disabled while the loop is busy).  Nobody has to press anything, nobody *)
(* has to stop the program, and the button need not meet the loop: a       *)
(* disabled one that is pressed again and again never does (Button).       *)
Fairness ==
  /\ \A t \in Threads : WF_vars(Step(t))
  /\ WF_vars(LoopRead) /\ WF_vars(LoopStep) /\ SF_vars(Expire)
  /\ SF_vars(Signal) /\ WF_vars(BeginDisable) /\ WF_vars(LeaveLoop)

Spec == Init /\ [][Next]_vars /\ Fairness

-----------------------------------------------------------------------------
TypeOK ==
  /\ state \in State
  /\ relay \in [Switch -> BOOLEAN] /\ shown \in [Switch -> BOOLEAN]
  /\ marked \in BOOLEAN /\ fresh \in BOOLEAN
  /\ cfg \in Settings
  /\ call \in [Threads -> Call]
  /\ phase \in Phases /\ exited \in BOOLEAN
  /\ late \in BOOLEAN /\ met \subseteq Threads /\ sound \in BOOLEAN
  /\ requests \in 0..MaxRequests

Quiet == \A t \in Threads : call[t] = Idle

(* While no command is in progress, and if the last one to set the         *)
(* switches met no other, the relays are those of the recorded state:      *)
(* "PUMP means that the main pump is running", and so on                   *)
(* (switches.go:10-26).  Commands that met may leave any mixture of the    *)
(* two behind; the next one by itself puts it right.                       *)
RelaysMatchState ==
  Quiet /\ sound => /\ relay["pump"]  <=> state \notin {"DISABLED", "OFF"}
                    /\ relay["sweep"] <=> state \in {"SWEEP", "MIXING"}
                    /\ relay["solar"] <=> state \in {"SOLAR", "MIXING"}

(* Then, unless the switches are disabled, HomeKit also shows the pump and *)
(* the sweep as they are, although it changes what it shows before its     *)
(* request is carried out, or refused.                                     *)
AccessoriesHonest ==
  Quiet /\ sound /\ state # "DISABLED" =>
    shown["pump"] = relay["pump"] /\ shown["sweep"] = relay["sweep"]


(* A manual command that has met no other holds once it has been carried   *)
(* out, whatever was in progress before: its mark is the time of the       *)
(* pump's latest start or stop, which the loop compares it with.           *)
ManualHolds ==
  [][\A t \in Threads \ met :
       ~exited /\ call[t].at = "commit" /\ call[t].manual /\ call'[t] # call[t]
       => ManualState']_vars

(* While the switches are sound, and unless they are disabled (SetState    *)
(* refuses then), a HomeKit request to turn something off never asks for   *)
(* the pump to be started, although the sweep's callback maps "off" to     *)
(* PUMP in the states it does not name (switches.go:106-111).              *)
OffNeverStarts ==
  [][\A w \in Switch :
       sound /\ sound' /\ call["homekit"] = Idle /\ call'["homekit"] # Idle
         /\ shown[w] /\ ~shown'[w] /\ state # "DISABLED"
       => relay["pump"] \/ ~RelaysOf(call'["homekit"].to)["pump"]]_vars

(* Switches implements SwitchPanel, which is sure of itself while no       *)
(* command in progress has met another: a command takes effect when it     *)
(* sets the pump, and from then until it is recorded its own target and    *)
(* mark are the ones in force.                                             *)
Smooth == \A t \in Threads : call[t] # Idle => t \notin met
Writing == {t \in Threads : call[t].at \in {"sweep", "solar", "mark", "commit"}}
Writer == CHOOSE t \in Writing : TRUE

(* The loop has given its last command.                                    *)
Down == phase \in {"disabling", "ended"} /\ call["loop"] = Idle

Panel == INSTANCE SwitchPanel WITH
  mode   <- IF Writing = {} THEN state ELSE call[Writer].to,
  hold   <- IF Writing = {} THEN ManualState ELSE call[Writer].manual,
  locked <- Down,
  sure   <- Smooth

ImplementsPanel == Panel!Spec

(* "Turn off the pumps, and don't let them turn back on"                   *)
(* (poolpump.go:195): once the control loop has ended nothing runs,        *)
(* whatever HomeKit asks for afterwards, if the loop's last command has    *)
(* met no other; one that is past SetState's checks then may act after it. *)
StaysOff == phase = "ended" /\ "loop" \notin met => \A w \in Switch : ~relay[w]

(* "Stop stops all of the pumps" (poolpump.go:236): if its StopAll has met *)
(* no other command, then from the moment that the termination handler has *)
(* met the loop nothing runs, in the process or after its end, unless a    *)
(* person has started something since Stop began.  Then the end may come   *)
(* before the loop disables the switches.                                  *)
OffAfterStop ==
  phase \notin {"running", "stopping"} /\ ~late /\ "main" \notin met =>
    \A w \in Switch : ~relay[w]

(* "DISABLED means that the pumps are not allowed to run" (switches.go:13):*)
(* a pump that runs in that state is stopped again.                        *)
DisabledMeansOff ==
  []<>(exited \/ (state = "DISABLED" => ~relay["pump"]))

(* The setting "Disable all pumps" (server.go:547), once left on, is       *)
(* obeyed: the loop reaches DISABLED for good, after the manual operation  *)
(* that may hold has run out.                                              *)
DisabledObeyed ==
  <>[](cfg.disabled /\ phase = "running" /\ ~exited) => <>[](state = "DISABLED")

(* A shutdown that has begun ends, or the process exits first, unless the  *)
(* button never answers the loop: it cannot hang anywhere else.            *)
ShutdownEnds ==
  phase = "stopping" ~> (exited \/ phase = "ended" \/ [](phase = "signalled"))
=============================================================================
