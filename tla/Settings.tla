------------------------------ MODULE Settings ------------------------------
(***************************************************************************)
(* The adjustments of the two thermometers, which live in three places:    *)
(* in the thermometers, in the configuration and in the configuration      *)
(* file.  They are changed by HTTP handlers (the calibration of server.go  *)
(* and thermometer.go, the form of the configuration page) and copied by   *)
(* the control loop (SyncAdjustments); the process may be killed at any    *)
(* step and started again.  The other settings share the file and fare     *)
(* the same.  Handlers run in goroutines of their own and share no lock.   *)
(***************************************************************************)
EXTENDS Naturals

CONSTANTS
  Handlers,    \* HTTP requests that may be in progress at the same time
  Values,      \* adjustments
  Default,     \* defaultPumpAdjustment = defaultRoofAdjustment
  MaxRequests, \* bound: requests
  MaxCrashes   \* bound: times the process is killed

ASSUME SettingsAssumption ==
  /\ Default \in Values
  /\ "main" \notin Handlers
  /\ MaxRequests \in Nat /\ MaxCrashes \in Nat

VARIABLES
  adjust,     \* GpioThermometer.adjust, per probe
  cfg,        \* PumpAdjustment and RoofAdjustment
  file,       \* the configuration file
  persist,    \* the -p flag of this run of the program
  up,         \* the program runs
  act,        \* per handler and for the start: what it is doing
  measured,   \* history: per handler, what it has calibrated and nobody
              \* has overwritten in the thermometers or the configuration
  mixed,      \* history: handlers have overlapped since the last save that
              \* began and ended alone
  requests, crashes

vars == <<adjust, cfg, file, persist, up, act, measured, mixed,
          requests, crashes>>

Probe == {"pump", "roof"}
Config == [Probe -> Values]
Defaults == [p \in Probe |-> Default]
Actors == Handlers \cup {"main"}

(* WriteFile truncates the file before it writes it.                       *)
File == [kind : {"whole"}, of : Config]
          \cup [kind : {"missing", "broken"}, of : {Defaults}]
Missing == [kind |-> "missing", of |-> Defaults]
Broken == [kind |-> "broken", of |-> Defaults]
Whole(c) == [kind |-> "whole", of |-> c]

Act == [at : {"idle", "pump", "roof", "keepPump", "keepRoof",
              "form", "syncPump", "formRoof", "formRoofFound", "syncRoof",
              "marshal", "truncate", "write"},
        buf : Config,      \* what Save has marshalled
        had : Config]      \* history: cfg when the handler began
Idle == [at |-> "idle", buf |-> Defaults, had |-> Defaults]

At(a, at) == up /\ act[a].at = at
Goto(a, at) == act' = [act EXCEPT ![a].at = at]
Leave(a) == act' = [act EXCEPT ![a] = Idle]

-----------------------------------------------------------------------------
(* The program has never run, or has left its file behind.                 *)
Init ==
  /\ file \in {Missing} \cup {Whole(c) : c \in Config}
  /\ up = FALSE /\ persist = FALSE
  /\ cfg = Defaults /\ adjust = Defaults
  /\ act = [a \in Actors |-> Idle]
  /\ measured = [h \in Handlers |-> {}]
  /\ mixed = "no"
  /\ requests = 0 /\ crashes = 0

StartConfig == file.of

(* NewConfig reads the file whatever the flag says; a file it cannot read  *)
(* is replaced by the defaults.  NewPoolPumpController copies the          *)
(* adjustments to the thermometers.                                        *)
StartUp ==
  /\ ~up /\ up' = TRUE
  /\ persist' \in BOOLEAN
  /\ cfg' = StartConfig
  /\ adjust' = StartConfig
  /\ act' = [a \in Actors |->
       IF a = "main" /\ file.kind # "whole" THEN [Idle EXCEPT !.at = "marshal"]
                                            ELSE Idle]
  /\ measured' = [h \in Handlers |-> {}] /\ mixed' = "no"
  /\ UNCHANGED <<file, requests, crashes>>

(* The process is killed.  (What it was doing is kept to be compared with  *)
(* what the next one finds.)                                               *)
Crash ==
  /\ up /\ crashes < MaxCrashes
  /\ up' = FALSE
  /\ crashes' = crashes + 1
  /\ UNCHANGED <<adjust, cfg, file, persist, act, measured, mixed, requests>>

-----------------------------------------------------------------------------
Alone(a) == \A b \in Actors \ {a} : act[b].at = "idle"

Serve(h, at) ==
  /\ At(h, "idle") /\ At("main", "idle")
  /\ requests < MaxRequests
  /\ requests' = requests + 1
  /\ mixed' = (IF Alone(h) THEN mixed ELSE "yes")
  /\ measured' = [measured EXCEPT ![h] = {}]
  /\ act' = [act EXCEPT ![h] = [Idle EXCEPT !.at = at, !.had = cfg]]

(* runCalibrationHandler: the pump's probe, then the roof's.               *)
BeginCalibration(h) ==
  /\ Serve(h, "pump")
  /\ UNCHANGED <<adjust, cfg, file, persist, up, crashes>>

InForce(calibrated, values) ==
  [h \in Handlers |-> {m \in calibrated[h] : values[m[1]] = m[2]}]

(* GpioThermometer.Calibrate takes a while and ends by setting adjust, or  *)
(* fails; then the handler gives up.                                       *)
Calibrate(h, p, next) ==
  /\ At(h, p)
  /\ \/ \E v \in Values :
          /\ adjust' = [adjust EXCEPT ![p] = v]
          /\ measured' = InForce([measured EXCEPT ![h] = @ \cup {<<p, v>>}],
                                 adjust')
          /\ Goto(h, next)
     \/ Leave(h) /\ UNCHANGED <<adjust, measured>>
  /\ UNCHANGED <<cfg, file, persist, up, mixed, requests, crashes>>

\* mutant: the copy forgotten
KeptBefore(p) == cfg[p]

\* "ppc.config.cfg.PumpAdjustment = ppc.pumpTemp.adjust"
Kept(p) == adjust[p]

(* PersistCalibration: copy both adjustments to the configuration, save.   *)
Keep(h, p, at, next) ==
  /\ At(h, at)
  /\ cfg' = [cfg EXCEPT ![p] = Kept(p)]
  /\ Goto(h, next)
  /\ UNCHANGED <<adjust, file, persist, up, measured, mixed, requests, crashes>>

\* mutant: a changed value does not count as found
FormNextForgets == "idle"

\* "foundone = true"
FormNext == "marshal"

(* processForm: the pump's adjustment, the roof's, then the other settings.*)
SubmitForm(h) ==
  /\ Serve(h, "form")
  /\ UNCHANGED <<adjust, cfg, file, persist, up, crashes>>

FormChanges(h, p, next) ==
  /\ \E v \in Values \ {cfg[p]} : cfg' = [cfg EXCEPT ![p] = v]
  /\ measured' = [g \in Handlers |-> {m \in measured[g] : m[1] # p}]
  /\ Goto(h, next)

FormPump(h) ==
  /\ At(h, "form")
  /\ \/ FormChanges(h, "pump", "syncPump")
     \/ Goto(h, "formRoof") /\ UNCHANGED <<cfg, measured>>
  /\ UNCHANGED <<adjust, file, persist, up, mixed, requests, crashes>>

(* With nothing found so far, one of the other settings may have changed.  *)
FormRoof(h, at) ==
  /\ At(h, at)
  /\ \/ FormChanges(h, "roof", "syncRoof")
     \/ Goto(h, "marshal") /\ UNCHANGED <<cfg, measured>>
     \/ at = "formRoof" /\ Leave(h) /\ UNCHANGED <<cfg, measured>>
  /\ UNCHANGED <<adjust, file, persist, up, mixed, requests, crashes>>

\* mutant: only the pump's adjustment
SyncedPumpOnly == [adjust EXCEPT !["pump"] = cfg["pump"]]

\* SyncAdjustments
Synced == cfg

FormSync(h, at, next) ==
  /\ At(h, at)
  /\ adjust' = Synced
  /\ measured' = InForce(measured, adjust')
  /\ Goto(h, next)
  /\ UNCHANGED <<cfg, file, persist, up, mixed, requests, crashes>>

(* The control loop does the same every five seconds.                      *)
LoopSync ==
  /\ up /\ At("main", "idle")
  /\ adjust' = Synced
  /\ measured' = InForce(measured, adjust')
  /\ UNCHANGED <<cfg, file, persist, up, act, mixed, requests, crashes>>

-----------------------------------------------------------------------------
(* Save: marshal the configuration, truncate the file, write it.           *)
Marshal(a) ==
  /\ At(a, "marshal")
  /\ IF persist THEN act' = [act EXCEPT ![a].at = "truncate", ![a].buf = cfg]
                ELSE Leave(a)
  /\ mixed' = (IF mixed = "yes" /\ Alone(a) THEN "saving" ELSE mixed)
  /\ UNCHANGED <<adjust, cfg, file, persist, up, measured, requests, crashes>>

Truncate(a) ==
  /\ At(a, "truncate")
  /\ file' = Broken
  /\ Goto(a, "write")
  /\ UNCHANGED <<adjust, cfg, persist, up, measured, mixed, requests, crashes>>

(* Over what another Save has written since, the result may be a mixture.  *)
Write(a) ==
  /\ At(a, "write")
  /\ \/ file' = Whole(act[a].buf)
     \/ file.kind = "whole" /\ file.of # act[a].buf /\ file' = Broken
  /\ mixed' = (IF mixed = "saving" THEN "no" ELSE mixed)
  /\ Leave(a)
  /\ UNCHANGED <<adjust, cfg, persist, up, measured, requests, crashes>>

Save(a) == Marshal(a) \/ Truncate(a) \/ Write(a)

Step(h) ==
  \/ Calibrate(h, "pump", "roof") \/ Calibrate(h, "roof", "keepPump")
  \/ Keep(h, "pump", "keepPump", "keepRoof")
  \/ Keep(h, "roof", "keepRoof", "marshal")
  \/ FormPump(h) \/ FormSync(h, "syncPump", "formRoofFound")
  \/ FormRoof(h, "formRoof") \/ FormRoof(h, "formRoofFound")
  \/ FormSync(h, "syncRoof", FormNext)

Next ==
  \/ StartUp \/ Crash \/ LoopSync
  \/ \E h \in Handlers : BeginCalibration(h) \/ SubmitForm(h) \/ Step(h)
  \/ \E a \in Actors : Save(a)

(* The program is started again, handlers finish, the loop iterates.       *)
Fairness ==
  /\ WF_vars(StartUp) /\ WF_vars(LoopSync)
  /\ \A h \in Handlers : WF_vars(Step(h))
  /\ \A a \in Actors : WF_vars(Save(a))

Spec == Init /\ [][Next]_vars /\ Fairness

-----------------------------------------------------------------------------
TypeOK ==
  /\ adjust \in Config /\ cfg \in Config /\ file \in File
  /\ persist \in BOOLEAN /\ up \in BOOLEAN
  /\ act \in [Actors -> Act]
  /\ measured \in [Handlers -> SUBSET (Probe \X Values)]
  /\ mixed \in {"no", "saving", "yes"}
  /\ requests \in 0..MaxRequests /\ crashes \in 0..MaxCrashes

(* "Save commits the current configuration settings to the configuration   *)
(* file" (config.go:132): when no handler is busy a program that persists  *)
(* its settings has them in the file, crashes and restarts included,       *)
(* unless handlers have overlapped since the last save by a lone one.      *)
FileIsCurrent ==
  up /\ persist /\ mixed = "no" /\ (\A a \in Actors : act[a] = Idle) => file = Whole(cfg)

(* The thermometers end up with the configured adjustments, whatever a     *)
(* calibration that failed half way has left in them.                      *)
AdjustmentsAgree == []<>(up /\ adjust = cfg)

(* "PersistCalibration saves the callibration data" (poolpump.go:242):     *)
(* what a handler writes to the file is what it has calibrated, both       *)
(* probes, as far as neither the control loop nor another handler has      *)
(* overwritten it meanwhile.  SyncAdjustments may, in between the two      *)
(* calibrations, and then the old value is saved.                          *)
CalibrationSaved ==
  \A h \in Handlers :
    up /\ act[h].at = "write" =>
      \A m \in measured[h] : act[h].buf[m[1]] = m[2]

(* "so they aren't lost on restart" (config.go:132): a program that        *)
(* persists its settings starts again with those it had when it was        *)
(* killed, or had before the request that was in progress then.  Two       *)
(* crashes may lose them: one between the truncation of the file and its   *)
(* writing, and one while handlers overlap.                                *)
SettingsSurvive ==
  [][~up /\ up' /\ persist /\ mixed = "no"
       /\ (\A a \in Actors : act[a].at # "write")
     => cfg' \in {cfg} \cup {act[h].had : h \in {g \in Handlers : act[g] # Idle}}]_vars
=============================================================================
