--------------------------- MODULE SettingsProofs ---------------------------
(***************************************************************************)
(* Proofs about Settings, for any number of handlers, adjustments,         *)
(* requests and crashes.                                                   *)
(***************************************************************************)
EXTENDS Settings, TLAPS

Stages ==
  {"idle", "pump", "roof", "keepPump", "keepRoof", "form", "syncPump",
   "formRoof", "formRoofFound", "syncRoof", "marshal", "truncate", "write"}

(* The defaults are a configuration, and an idle actor is one.             *)
LEMMA IdleType == Defaults \in Config /\ Idle \in Act
<1>1. Defaults \in Config
  BY SettingsAssumption DEF SettingsAssumption, Defaults, Config
<1> QED
  BY <1>1 DEF Idle, Act

(* The kinds of file.                                                      *)
LEMMA FileTypes ==
  /\ Missing \in File /\ Broken \in File
  /\ \A c \in Config : Whole(c) \in File
  /\ \A f \in File : f.of \in Config /\ f.kind \in {"whole", "missing", "broken"}
  BY IdleType DEF File, Missing, Broken, Whole

(* An actor that moves on or leaves is an actor still.                     *)
LEMMA MoveType ==
  ASSUME TypeOK, NEW a \in Actors, NEW at \in Stages, Goto(a, at) \/ Leave(a)
  PROVE  act' \in [Actors -> Act]
  BY IdleType DEF TypeOK, Goto, Leave, Act, Stages

(* A request begins.                                                       *)
LEMMA ServeType ==
  ASSUME TypeOK, NEW h \in Handlers, NEW at \in {"pump", "form"}, Serve(h, at),
         UNCHANGED <<adjust, cfg, file, persist, up, crashes>>
  PROVE  TypeOK'
<1>1. act' \in [Actors -> Act]
  <2>1. h \in Actors
    BY DEF Actors
  <2>2. [Idle EXCEPT !.at = at, !.had = cfg] \in Act
    BY IdleType DEF TypeOK, Act, Idle
  <2> QED
    BY <2>1, <2>2 DEF TypeOK, Serve
<1>2. measured' \in [Handlers -> SUBSET (Probe \X Values)]
  BY DEF TypeOK, Serve
<1>3. mixed' \in {"no", "saving", "yes"}
  BY DEF TypeOK, Serve
<1>4. requests' \in 0..MaxRequests
  BY SettingsAssumption DEF SettingsAssumption, TypeOK, Serve
<1> QED
  BY <1>1, <1>2, <1>3, <1>4 DEF TypeOK

(* What has been measured is filtered.                                     *)
LEMMA InForceType ==
  ASSUME NEW m \in [Handlers -> SUBSET (Probe \X Values)], NEW values
  PROVE  InForce(m, values) \in [Handlers -> SUBSET (Probe \X Values)]
  BY DEF InForce

(* A step of a handler keeps the types.                                    *)
LEMMA StepOfHandlerType ==
  ASSUME TypeOK, NEW h \in Handlers, Step(h)
  PROVE  TypeOK'
<1>0. h \in Actors
  BY DEF Actors
<1>1. ASSUME NEW p \in Probe, NEW next \in Stages, Calibrate(h, p, next)
      PROVE  TypeOK'
  <2>1. act' \in [Actors -> Act]
    BY <1>0, <1>1, MoveType DEF Calibrate
  <2>2. CASE UNCHANGED <<adjust, measured>>
    BY <1>1, <2>1, <2>2 DEF TypeOK, Calibrate
  <2>3. ASSUME NEW v \in Values, adjust' = [adjust EXCEPT ![p] = v],
               measured' = InForce([measured EXCEPT ![h] = @ \cup {<<p, v>>}],
                                   adjust')
        PROVE  TypeOK'
    <3>1. [measured EXCEPT ![h] = @ \cup {<<p, v>>}]
            \in [Handlers -> SUBSET (Probe \X Values)]
      BY DEF TypeOK
    <3>2. measured' \in [Handlers -> SUBSET (Probe \X Values)]
      BY <2>3, <3>1, InForceType
    <3>3. adjust' \in Config
      BY <2>3 DEF TypeOK, Config
    <3> QED
      BY <1>1, <2>1, <3>2, <3>3 DEF TypeOK, Calibrate
  <2> QED
    BY <1>1, <2>2, <2>3 DEF Calibrate
<1>2. ASSUME NEW p \in Probe, NEW at, NEW next \in Stages, Keep(h, p, at, next)
      PROVE  TypeOK'
  <2>1. act' \in [Actors -> Act]
    BY <1>0, <1>2, MoveType DEF Keep
  <2>2. cfg' \in Config
    BY <1>2 DEF TypeOK, Keep, Kept, Config
  <2> QED
    BY <1>2, <2>1, <2>2 DEF TypeOK, Keep
<1>3. ASSUME NEW p \in Probe, NEW next \in Stages, FormChanges(h, p, next)
      PROVE  /\ act' \in [Actors -> Act] /\ cfg' \in Config
             /\ measured' \in [Handlers -> SUBSET (Probe \X Values)]
  <2>1. act' \in [Actors -> Act]
    BY <1>0, <1>3, MoveType DEF FormChanges
  <2>2. cfg' \in Config
    BY <1>3 DEF TypeOK, FormChanges, Config
  <2>3. measured' \in [Handlers -> SUBSET (Probe \X Values)]
    BY <1>3 DEF TypeOK, FormChanges
  <2> QED
    BY <2>1, <2>2, <2>3
<1>4. CASE FormPump(h)
  <2>1. "syncPump" \in Stages /\ "formRoof" \in Stages /\ "pump" \in Probe
    BY DEF Stages, Probe
  <2>2. CASE FormChanges(h, "pump", "syncPump")
    BY <1>3, <1>4, <2>1, <2>2 DEF TypeOK, FormPump
  <2>3. CASE Goto(h, "formRoof") /\ UNCHANGED <<cfg, measured>>
    BY <1>0, <1>4, <2>1, <2>3, MoveType DEF TypeOK, FormPump
  <2> QED
    BY <1>4, <2>2, <2>3 DEF FormPump
<1>5. ASSUME NEW at, FormRoof(h, at) PROVE TypeOK'
  <2>1. "syncRoof" \in Stages /\ "marshal" \in Stages /\ "roof" \in Probe
    BY DEF Stages, Probe
  <2>2. CASE FormChanges(h, "roof", "syncRoof")
    BY <1>3, <1>5, <2>1, <2>2 DEF TypeOK, FormRoof
  <2>3. CASE UNCHANGED <<cfg, measured>> /\ (Goto(h, "marshal") \/ Leave(h))
    BY <1>0, <1>5, <2>1, <2>3, MoveType DEF TypeOK, FormRoof
  <2> QED
    BY <1>5, <2>2, <2>3 DEF FormRoof
<1>6. ASSUME NEW at, NEW next \in Stages, FormSync(h, at, next) PROVE TypeOK'
  <2>1. act' \in [Actors -> Act]
    BY <1>0, <1>6, MoveType DEF FormSync
  <2>2. measured' \in [Handlers -> SUBSET (Probe \X Values)]
    BY <1>6, InForceType DEF TypeOK, FormSync
  <2> QED
    BY <1>6, <2>1, <2>2 DEF TypeOK, FormSync, Synced
<1> QED
  BY <1>1, <1>2, <1>4, <1>5, <1>6 DEF Step, Stages, Probe, FormNext

(* One step keeps the types.                                               *)
LEMMA StepType == TypeOK /\ [Next]_vars => TypeOK'
<1> SUFFICES ASSUME TypeOK, [Next]_vars PROVE TypeOK'
  OBVIOUS
<1>1. CASE StartUp
  <2>1. act' \in [Actors -> Act]
    <3>1. [Idle EXCEPT !.at = "marshal"] \in Act
      BY IdleType DEF Act, Idle
    <3> QED
      BY <1>1, <3>1, IdleType DEF StartUp
  <2>2. measured' \in [Handlers -> SUBSET (Probe \X Values)]
    BY <1>1 DEF StartUp
  <2>3. cfg' \in Config /\ adjust' \in Config
    BY <1>1, FileTypes DEF TypeOK, StartUp, StartConfig
  <2> QED
    BY <1>1, <2>1, <2>2, <2>3 DEF TypeOK, StartUp
<1>2. CASE Crash
  <2>1. crashes' \in 0..MaxCrashes
    BY <1>2, SettingsAssumption DEF SettingsAssumption, TypeOK, Crash
  <2> QED
    BY <1>2, <2>1 DEF TypeOK, Crash
<1>3. CASE LoopSync
  <2>1. measured' \in [Handlers -> SUBSET (Probe \X Values)]
    BY <1>3, InForceType DEF TypeOK, LoopSync
  <2> QED
    BY <1>3, <2>1 DEF TypeOK, LoopSync, Synced
<1>4. ASSUME NEW h \in Handlers, BeginCalibration(h) \/ SubmitForm(h)
      PROVE  TypeOK'
  BY <1>4, ServeType DEF BeginCalibration, SubmitForm
<1>5. ASSUME NEW h \in Handlers, Step(h) PROVE TypeOK'
  BY <1>5, StepOfHandlerType
<1>6. ASSUME NEW a \in Actors, Marshal(a) PROVE TypeOK'
  <2>1. act' \in [Actors -> Act]
    <3>1. CASE Leave(a)
      BY <3>1, IdleType DEF TypeOK, Leave
    <3>2. CASE act' = [act EXCEPT ![a].at = "truncate", ![a].buf = cfg]
      BY <3>2 DEF TypeOK, Act
    <3> QED
      BY <1>6, <3>1, <3>2 DEF Marshal
  <2> QED
    BY <1>6, <2>1 DEF TypeOK, Marshal
<1>7. ASSUME NEW a \in Actors, Truncate(a) PROVE TypeOK'
  BY <1>7, MoveType, FileTypes DEF TypeOK, Truncate, Stages
<1>8. ASSUME NEW a \in Actors, Write(a) PROVE TypeOK'
  <2>1. act' \in [Actors -> Act]
    BY <1>8, IdleType DEF TypeOK, Write, Leave
  <2>2. file' \in File
    BY <1>8, FileTypes DEF TypeOK, Write, Act
  <2> QED
    BY <1>8, <2>1, <2>2 DEF TypeOK, Write
<1>9. CASE UNCHANGED vars
  BY <1>9 DEF TypeOK, vars
<1> QED
  BY <1>1, <1>2, <1>3, <1>4, <1>5, <1>6, <1>7, <1>8, <1>9 DEF Next, Save

(* The first values have the right types.                                  *)
LEMMA InitType == Init => TypeOK
<1> SUFFICES ASSUME Init PROVE TypeOK
  OBVIOUS
<1>1. act \in [Actors -> Act] /\ measured \in [Handlers -> SUBSET (Probe \X Values)]
  BY IdleType DEF Init
<1>2. file \in File
  BY FileTypes DEF Init
<1>3. requests \in 0..MaxRequests /\ crashes \in 0..MaxCrashes
  BY SettingsAssumption DEF SettingsAssumption, Init
<1> QED
  BY <1>1, <1>2, <1>3, IdleType DEF Init, TypeOK

(* The variables keep their types.                                         *)
THEOREM TypeCorrect == Spec => []TypeOK
  BY InitType, StepType, PTL DEF Spec

-----------------------------------------------------------------------------
FormStages == {"form", "syncPump", "formRoof", "formRoofFound", "syncRoof"}

(* What a handler has measured is in the thermometers; once it has copied  *)
(* it, in the configuration; and once it has marshalled it, in what it     *)
(* will write.                                                             *)
Honest(h) ==
  \A m \in measured[h] :
    /\ adjust[m[1]] = m[2]
    /\ act[h].at = "keepRoof" /\ m[1] = "pump" => cfg[m[1]] = m[2]
    /\ act[h].at = "marshal" => cfg[m[1]] = m[2]
    /\ act[h].at \in {"truncate", "write"} => act[h].buf[m[1]] = m[2]
    /\ act[h].at \notin FormStages

HonestInv == \A h \in Handlers : Honest(h)

(* Unless handlers have overlapped at most one actor is busy, and where    *)
(* the file stands is told by how far it has got.                          *)
Early == {"pump", "roof", "keepPump", "form", "formRoof"}
Late == {"keepRoof", "syncPump", "formRoofFound", "syncRoof", "marshal"}
Busy(a) == act[a].at # "idle"

Lone == mixed # "yes" => \A a, b \in Actors : Busy(a) /\ Busy(b) => a = b

FileOf(a) ==
  /\ a = "main" => act[a].at \in {"idle", "marshal", "truncate", "write"}
  /\ act[a].at \in {"truncate", "write"} => act[a].buf = cfg
  /\ act[a].at = "write" => file = Broken
  /\ mixed = "no" /\ act[a].at \in Early => cfg = act[a].had /\ file = Whole(cfg)
  /\ mixed = "no" /\ a # "main" /\ act[a].at \in Late \cup {"truncate"}
       => file = Whole(act[a].had)
  /\ mixed = "no" /\ a = "main" /\ act[a].at \in {"marshal", "truncate"}
       => file.of = cfg

FileInv ==
  /\ Lone
  /\ persist /\ mixed # "yes" => \A a \in Actors : FileOf(a)
  /\ persist /\ mixed = "saving"
       => \E a \in Actors : act[a].at \in {"truncate", "write"}
  /\ persist /\ mixed = "no" /\ (\A a \in Actors : ~Busy(a)) => file = Whole(cfg)

-----------------------------------------------------------------------------
(* To move on or to leave touches nobody else's record.                    *)
LEMMA Moves ==
  ASSUME TypeOK, NEW a \in Actors
  PROVE  /\ \A at \in Stages : Goto(a, at) =>
              /\ act'[a].at = at /\ act'[a].buf = act[a].buf
              /\ act'[a].had = act[a].had
              /\ \A b \in Actors \ {a} : act'[b] = act[b]
         /\ Leave(a) => /\ act'[a] = Idle /\ act'[a].at = "idle"
                        /\ \A b \in Actors \ {a} : act'[b] = act[b]
  BY DEF TypeOK, Goto, Leave, Act, Idle

(* What is in force has been measured and is in the thermometers.          *)
LEMMA InForceHolds ==
  ASSUME NEW calibrated, NEW values, NEW h \in Handlers,
         NEW m \in InForce(calibrated, values)[h]
  PROVE  m \in calibrated[h] /\ values[m[1]] = m[2]
  BY DEF InForce

(* Who has only moved on, or not moved at all, remains honest while the    *)
(* configuration, and the part of the measurements still in force, agree.  *)
LEMMA StayHonest ==
  ASSUME NEW h \in Handlers, Honest(h), UNCHANGED <<cfg, act[h]>>,
         \A m \in measured'[h] : m \in measured[h] /\ adjust'[m[1]] = m[2]
  PROVE  Honest(h)'
  BY DEF Honest

(* One step keeps the handlers honest.                                     *)
LEMMA StepHonest ==
  ASSUME TypeOK, HonestInv, [Next]_vars
  PROVE  HonestInv'
<1>0. Handlers \subseteq Actors /\ \A h \in Handlers : Honest(h)
  BY DEF Actors, HonestInv
<1>1. CASE StartUp
  BY <1>1 DEF StartUp, HonestInv, Honest
<1>2. CASE Crash \/ UNCHANGED vars
  BY <1>2 DEF Crash, vars, HonestInv, Honest
<1>3. CASE LoopSync
  <2> SUFFICES ASSUME NEW g \in Handlers PROVE Honest(g)'
    BY DEF HonestInv
  <2>1. \A m \in measured'[g] : m \in measured[g] /\ adjust'[m[1]] = m[2]
    BY <1>3, InForceHolds DEF LoopSync
  <2> QED
    BY <1>0, <1>3, <2>1, StayHonest DEF LoopSync
<1>4. ASSUME NEW h \in Handlers, NEW at, Serve(h, at), UNCHANGED <<adjust, cfg>>
      PROVE  HonestInv'
  <2> SUFFICES ASSUME NEW g \in Handlers PROVE Honest(g)'
    BY DEF HonestInv
  <2>1. CASE g = h
    BY <1>4, <2>1 DEF TypeOK, Serve, Honest
  <2>2. CASE g # h
    <3>1. UNCHANGED <<cfg, act[g]>> /\ measured'[g] = measured[g]
      BY <1>0, <1>4, <2>2 DEF TypeOK, Serve
    <3> QED
      BY <1>0, <1>4, <3>1, StayHonest DEF Honest
  <2> QED
    BY <2>1, <2>2
<1>5. ASSUME NEW h \in Handlers, NEW p \in Probe,
             NEW next \in {"roof", "keepPump"}, Calibrate(h, p, next)
      PROVE  HonestInv'
  <2>0. next \in Stages /\ h \in Actors
    BY <1>0 DEF Stages
  <2> SUFFICES ASSUME NEW g \in Handlers PROVE Honest(g)'
    BY DEF HonestInv
  <2>1. CASE Leave(h) /\ UNCHANGED <<adjust, measured>>
    <3>1. CASE g = h
      BY <1>0, <1>5, <2>0, <2>1, <3>1, Moves DEF Honest, Calibrate, FormStages
    <3>2. CASE g # h
      <4>1. act'[g] = act[g]
        BY <1>0, <2>0, <2>1, <3>2, Moves
      <4> QED
        BY <1>0, <1>5, <2>1, <4>1, StayHonest DEF Honest, Calibrate
    <3> QED
      BY <3>1, <3>2
  <2>2. ASSUME NEW v \in Values, Goto(h, next),
               measured' = InForce([measured EXCEPT ![h] = @ \cup {<<p, v>>}],
                                   adjust')
        PROVE  Honest(g)'
    <3>1. \A m \in measured'[g] : adjust'[m[1]] = m[2]
      BY <2>2, InForceHolds
    <3>2. CASE g = h
      BY <2>0, <2>2, <3>1, <3>2, Moves DEF Honest, FormStages
    <3>3. CASE g # h
      <4>1. act'[g] = act[g]
        BY <1>0, <2>0, <2>2, <3>3, Moves
      <4>2. \A m \in measured'[g] : m \in measured[g]
        <5>1. [measured EXCEPT ![h] = @ \cup {<<p, v>>}][g] = measured[g]
          BY <3>3 DEF TypeOK
        <5> QED
          BY <2>2, <5>1, InForceHolds
      <4> QED
        BY <1>0, <1>5, <3>1, <4>1, <4>2, StayHonest DEF Calibrate
    <3> QED
      BY <3>2, <3>3
  <2> QED
    BY <1>5, <2>1, <2>2 DEF Calibrate
<1>6. ASSUME NEW h \in Handlers, NEW p \in Probe, NEW at, NEW next,
             <<p, at, next>> \in {<<"pump", "keepPump", "keepRoof">>,
                                 <<"roof", "keepRoof", "marshal">>},
             Keep(h, p, at, next)
      PROVE  HonestInv'
  <2>0. next \in Stages /\ h \in Actors
    BY <1>0, <1>6 DEF Stages
  <2> SUFFICES ASSUME NEW g \in Handlers, NEW m \in measured'[g]
               PROVE  /\ adjust'[m[1]] = m[2]
                      /\ act'[g].at = "keepRoof" /\ m[1] = "pump" => cfg'[m[1]] = m[2]
                      /\ act'[g].at = "marshal" => cfg'[m[1]] = m[2]
                      /\ act'[g].at \in {"truncate", "write"}
                           => act'[g].buf[m[1]] = m[2]
                      /\ act'[g].at \notin FormStages
    BY DEF HonestInv, Honest
  <2>1. /\ m \in measured[g] /\ adjust[m[1]] = m[2] /\ adjust' = adjust
        /\ m[1] \in Probe
    BY <1>0, <1>6 DEF Honest, Keep, TypeOK
  <2>2. /\ cfg'[p] = adjust[p]
        /\ \A q \in Probe \ {p} : cfg'[q] = cfg[q]
    BY <1>6 DEF Keep, Kept, TypeOK, Config
  <2>3. cfg[m[1]] = m[2] => cfg'[m[1]] = m[2]
    BY <2>1, <2>2
  <2>4. CASE g = h
    <3>1. act'[g].at = next
      BY <1>6, <2>0, <2>4, Moves DEF Keep
    <3>2. CASE next = "keepRoof"
      BY <1>6, <2>1, <2>2, <3>1, <3>2 DEF FormStages
    <3>3. CASE next = "marshal"
      <4>1. p = "roof" /\ act[g].at = "keepRoof"
        BY <1>6, <2>4, <3>3 DEF Keep, At
      <4>2. cfg'[m[1]] = m[2]
        BY <1>0, <2>1, <2>2, <4>1 DEF Honest, Probe
      <4> QED
        BY <2>1, <3>1, <3>3, <4>2 DEF FormStages
    <3> QED
      BY <1>6, <3>2, <3>3
  <2>5. CASE g # h
    <3>1. act'[g] = act[g]
      BY <1>0, <1>6, <2>0, <2>5, Moves DEF Keep
    <3> QED
      BY <1>0, <2>1, <2>3, <3>1 DEF Honest
  <2> QED
    BY <2>4, <2>5
<1>7. ASSUME NEW h \in Handlers, act[h].at \in FormStages, NEW next \in Stages,
             Goto(h, next) \/ Leave(h),
             \A g \in Handlers : \A m \in measured'[g] :
               /\ m \in measured[g] /\ adjust'[m[1]] = m[2]
               /\ cfg'[m[1]] = cfg[m[1]]
      PROVE  HonestInv'
  <2>1. measured'[h] = {}
    BY <1>0, <1>7 DEF Honest
  <2>2. \A g \in Handlers \ {h} : act'[g] = act[g]
    BY <1>0, <1>7, Moves
  <2> QED
    BY <1>0, <1>7, <2>1, <2>2 DEF HonestInv, Honest
<1>8. ASSUME NEW h \in Handlers, NEW p \in Probe, NEW next \in Stages,
             act[h].at \in FormStages, UNCHANGED adjust, FormChanges(h, p, next)
      PROVE  HonestInv'
  <2>1. ASSUME NEW g \in Handlers, NEW m \in measured'[g]
        PROVE  /\ m \in measured[g] /\ adjust'[m[1]] = m[2]
               /\ cfg'[m[1]] = cfg[m[1]]
    <3>1. m \in measured[g] /\ m[1] # p
      BY <1>8, <2>1 DEF FormChanges
    <3>2. m[1] \in Probe /\ adjust[m[1]] = m[2]
      BY <1>0, <3>1 DEF TypeOK, Honest
    <3> QED
      BY <1>8, <3>1, <3>2 DEF FormChanges, TypeOK, Config
  <2> QED
    BY <1>7, <1>8, <2>1 DEF FormChanges
<1>9. ASSUME NEW h \in Handlers, NEW next \in Stages,
             act[h].at \in FormStages, UNCHANGED <<adjust, cfg, measured>>,
             Goto(h, next) \/ Leave(h)
      PROVE  HonestInv'
  BY <1>0, <1>7, <1>9 DEF Honest
<1>10. ASSUME NEW h \in Handlers, NEW at \in FormStages, NEW next \in Stages,
              FormSync(h, at, next)
       PROVE  HonestInv'
  <2>1. \A g \in Handlers : \A m \in measured'[g] :
          m \in measured[g] /\ adjust'[m[1]] = m[2]
    BY <1>10, InForceHolds DEF FormSync
  <2> QED
    BY <1>7, <1>10, <2>1 DEF FormSync, At
<1>11. ASSUME NEW h \in Handlers, Step(h) PROVE HonestInv'
  <2>1. CASE FormPump(h)
    BY <1>8, <1>9, <1>11, <2>1 DEF FormPump, At, FormStages, Stages, Probe
  <2>2. ASSUME NEW at \in {"formRoof", "formRoofFound"}, FormRoof(h, at)
        PROVE  HonestInv'
    BY <1>8, <1>9, <1>11, <2>2 DEF FormRoof, At, FormStages, Stages, Probe
  <2>3. Calibrate(h, "pump", "roof") \/ Calibrate(h, "roof", "keepPump")
          => HonestInv'
    BY <1>5 DEF Probe
  <2>4. Keep(h, "pump", "keepPump", "keepRoof")
          \/ Keep(h, "roof", "keepRoof", "marshal") => HonestInv'
    BY <1>6 DEF Probe
  <2>5. FormSync(h, "syncPump", "formRoofFound")
          \/ FormSync(h, "syncRoof", FormNext) => HonestInv'
    BY <1>10 DEF FormStages, Stages, FormNext
  <2> QED
    BY <1>11, <2>1, <2>2, <2>3, <2>4, <2>5 DEF Step
<1>12. ASSUME NEW a \in Actors, Save(a) PROVE HonestInv'
  <2> SUFFICES ASSUME NEW g \in Handlers PROVE Honest(g)'
    BY DEF HonestInv
  <2>1. UNCHANGED <<adjust, cfg, measured>> /\ Honest(g) /\ g \in Actors
    BY <1>0, <1>12 DEF Save, Marshal, Truncate, Write
  <2>2. CASE act'[g] = act[g]
    BY <2>1, <2>2 DEF Honest
  <2>3. CASE g = a
    <3>1. CASE Marshal(a)
      <4>1. CASE Leave(a)
        BY <2>1, <2>3, <4>1, Moves DEF Honest, FormStages
      <4>2. CASE act' = [act EXCEPT ![a].at = "truncate", ![a].buf = cfg]
        <5>1. act[g].at = "marshal" /\ act'[g].at = "truncate" /\ act'[g].buf = cfg
          BY <2>1, <2>3, <3>1, <4>2 DEF TypeOK, Act, Marshal, At
        <5> QED
          BY <2>1, <5>1 DEF Honest, FormStages
      <4> QED
        BY <3>1, <4>1, <4>2 DEF Marshal
    <3>2. CASE Truncate(a)
      <4>1. act[g].at = "truncate" /\ act'[g].at = "write" /\ act'[g].buf = act[g].buf
        BY <2>1, <2>3, <3>2, Moves DEF Truncate, At, Stages
      <4> QED
        BY <2>1, <4>1 DEF Honest, FormStages
    <3>3. CASE Write(a)
      BY <2>1, <2>3, <3>3, Moves DEF Write, Honest, FormStages
    <3> QED
      BY <1>12, <3>1, <3>2, <3>3 DEF Save
  <2>4. CASE g # a
    <3>1. act'[g] = act[g]
      BY <1>12, <2>1, <2>4, Moves DEF Save, Marshal, Truncate, Write, TypeOK, Stages
    <3> QED
      BY <2>2, <3>1
  <2> QED
    BY <2>3, <2>4
<1> QED
  BY <1>1, <1>2, <1>3, <1>4, <1>11, <1>12 DEF Next, BeginCalibration, SubmitForm

(* What is written is what has been calibrated, and nobody overwrote.      *)
THEOREM CalibrationSavedHolds == Spec => []CalibrationSaved
<1>1. Init => HonestInv
  BY DEF Init, HonestInv, Honest
<1>2. TypeOK /\ HonestInv /\ [Next]_vars => HonestInv'
  BY StepHonest
<1>3. HonestInv => CalibrationSaved
  BY DEF HonestInv, Honest, CalibrationSaved
<1> QED
  BY <1>1, <1>2, <1>3, TypeCorrect, PTL DEF Spec

-----------------------------------------------------------------------------
(* Alone: nobody else is busy.                                             *)
LEMMA AloneBusy ==
  ASSUME NEW a \in Actors
  PROVE  Alone(a) <=> \A b \in Actors : Busy(b) => b = a
  BY DEF Alone, Busy

(* At most one actor is busy until handlers overlap.                       *)
LEMMA StepLone ==
  ASSUME TypeOK, Lone, [Next]_vars
  PROVE  Lone'
<1> USE DEF Lone, Busy
<1>0. Handlers \subseteq Actors
  BY DEF Actors
<1>1. CASE StartUp
  <2>1. \A b \in Actors : act'[b].at # "idle" => b = "main"
    BY <1>1 DEF StartUp, Idle
  <2> QED
    BY <2>1
<1>2. CASE Crash \/ LoopSync \/ UNCHANGED vars
  BY <1>2 DEF Crash, LoopSync, vars
<1>3. ASSUME NEW h \in Handlers, NEW at, Serve(h, at) PROVE Lone'
  <2> SUFFICES ASSUME mixed' # "yes" PROVE Lone'
    OBVIOUS
  <2>1. \A b \in Actors \ {h} : act[b].at = "idle"
    BY <1>3 DEF Serve, Alone
  <2>2. \A b \in Actors \ {h} : act'[b] = act[b]
    BY <1>3 DEF Serve, TypeOK
  <2> QED
    BY <2>1, <2>2
<1>4. ASSUME NEW a \in Actors, Busy(a), mixed' # "yes",
             mixed # "yes" \/ Alone(a),
             \A b \in Actors \ {a} : act'[b] = act[b]
      PROVE  Lone'
  BY <1>4 DEF Alone
<1>5. ASSUME NEW h \in Handlers, Step(h) PROVE Lone'
  <2>1. Busy(h) /\ mixed' = mixed
    BY <1>5 DEF Step, Calibrate, Keep, FormPump, FormRoof, FormSync, At
  <2>2. /\ h \in Actors
        /\ \E next \in Stages : Goto(h, next) \/ Leave(h)
    BY <1>0, <1>5 DEF Step, Calibrate, Keep, FormPump, FormRoof, FormSync,
                    FormChanges, Stages, FormNext
  <2>3. \A b \in Actors \ {h} : act'[b] = act[b]
    BY <2>2, Moves
  <2> QED
    BY <1>4, <2>1, <2>2, <2>3
<1>6. ASSUME NEW a \in Actors, Save(a) PROVE Lone'
  <2>1. Busy(a)
    BY <1>6 DEF Save, Marshal, Truncate, Write, At
  <2>2. \A b \in Actors \ {a} : act'[b] = act[b]
    BY <1>6, Moves DEF Save, Marshal, Truncate, Write, TypeOK, Stages
  <2>3. mixed' # "yes" => mixed # "yes" \/ Alone(a)
    BY <1>6 DEF Save, Marshal, Truncate, Write
  <2> QED
    BY <1>4, <2>1, <2>2, <2>3
<1> QED
  BY <1>1, <1>2, <1>3, <1>5, <1>6 DEF Next, BeginCalibration, SubmitForm

(* A lone handler's step, by how far it had got and how far it gets.       *)
LEMMA StepStages ==
  ASSUME TypeOK, NEW h \in Handlers, Step(h)
  PROVE  /\ UNCHANGED <<file, persist, mixed>>
         /\ \A b \in Actors \ {h} : act'[b] = act[b]
         /\ act[h].at \in Early \cup Late
         /\ \/ /\ act[h].at \in Early /\ UNCHANGED cfg
               /\ act'[h].at = "idle"
            \/ /\ act[h].at \in Early /\ UNCHANGED cfg
               /\ act'[h].at \in Early /\ act'[h].had = act[h].had
            \/ act'[h].at \in Late /\ act'[h].had = act[h].had
<1> USE DEF At, Early, Late, Stages
<1>0. h \in Actors
  BY DEF Actors
<1>1. CASE Calibrate(h, "pump", "roof") \/ Calibrate(h, "roof", "keepPump")
  BY <1>0, <1>1, Moves DEF Calibrate
<1>2. CASE Keep(h, "pump", "keepPump", "keepRoof")
             \/ Keep(h, "roof", "keepRoof", "marshal")
  BY <1>0, <1>2, Moves DEF Keep
<1>3. CASE FormPump(h)
  BY <1>0, <1>3, Moves DEF FormPump, FormChanges
<1>4. CASE FormRoof(h, "formRoof") \/ FormRoof(h, "formRoofFound")
  BY <1>0, <1>4, Moves DEF FormRoof, FormChanges
<1>5. CASE FormSync(h, "syncPump", "formRoofFound")
             \/ FormSync(h, "syncRoof", FormNext)
  BY <1>0, <1>5, Moves DEF FormSync, FormNext
<1> QED
  BY <1>1, <1>2, <1>3, <1>4, <1>5 DEF Step

(* One step keeps the file where the busy actor says it stands.            *)
LEMMA StepFile ==
  ASSUME TypeOK, FileInv, [Next]_vars
  PROVE  FileInv'
<1> USE DEF Busy
<1>0. Handlers \subseteq Actors /\ "main" \in Actors /\ "main" \notin Handlers
  BY SettingsAssumption DEF SettingsAssumption, Actors
<1>1. Lone /\ Lone'
  BY StepLone DEF FileInv
<1>2. ASSUME NEW a \in Actors, ~Busy(a)' PROVE FileOf(a)'
  BY <1>2 DEF FileOf, Early, Late
<1>3. CASE StartUp
  <2>1. mixed' = "no" /\ cfg' = file.of /\ file' = file
    BY <1>3 DEF StartUp, StartConfig
  <2>2. CASE file.kind = "whole"
    <3>1. file = Whole(file.of)
      BY <2>2 DEF TypeOK, File, Whole
    <3>2. \A a \in Actors : ~Busy(a)'
      BY <1>3, <2>2 DEF StartUp, Idle
    <3> QED
      BY <1>1, <1>2, <2>1, <3>1, <3>2 DEF FileInv
  <2>3. CASE file.kind # "whole"
    <3>1. /\ act'["main"].at = "marshal"
          /\ \A a \in Actors \ {"main"} : ~Busy(a)'
      BY <1>0, <1>3, <2>3 DEF StartUp, Idle
    <3>2. FileOf("main")'
      BY <2>1, <3>1 DEF FileOf, Early
    <3> QED
      BY <1>0, <1>1, <1>2, <2>1, <3>1, <3>2 DEF FileInv
  <2> QED
    BY <2>2, <2>3
<1>4. CASE Crash \/ LoopSync \/ UNCHANGED vars
  BY <1>1, <1>4 DEF Crash, LoopSync, vars, FileInv, FileOf
<1>5. ASSUME NEW h \in Handlers, NEW at \in {"pump", "form"}, Serve(h, at),
             UNCHANGED <<cfg, file, persist>>
      PROVE  FileInv'
  <2> SUFFICES ASSUME persist, mixed' # "yes" PROVE FileInv'
    BY <1>1, <1>5 DEF FileInv
  <2>1. \A a \in Actors : ~Busy(a)
    BY <1>5 DEF Serve, Alone, At
  <2>2. mixed = "no" /\ mixed' = "no" /\ file = Whole(cfg)
    BY <1>5, <2>1 DEF Serve, FileInv, TypeOK
  <2>3. /\ \A a \in Actors \ {h} : ~Busy(a)'
        /\ act'[h].at = at /\ act'[h].had = cfg
    BY <1>0, <1>5, <2>1 DEF Serve, TypeOK, Idle
  <2>4. FileOf(h)'
    BY <1>0, <1>5, <2>2, <2>3 DEF FileOf, Early, Late
  <2> QED
    BY <1>0, <1>1, <1>2, <2>2, <2>3, <2>4 DEF FileInv
<1>6. ASSUME NEW h \in Handlers, Step(h) PROVE FileInv'
  <2>1. UNCHANGED <<file, persist, mixed>>
    BY <1>6, StepStages
  <2> SUFFICES ASSUME persist, mixed # "yes" PROVE FileInv'
    BY <1>1, <2>1 DEF FileInv
  <2>2. act[h].at \in Early \cup Late
    BY <1>6, StepStages
  <2>3. \A a \in Actors \ {h} : ~Busy(a)
    BY <1>0, <1>1, <2>2 DEF Lone, Early, Late
  <2>4. \A a \in Actors \ {h} : ~Busy(a)'
    BY <1>6, <2>3, StepStages
  <2>5. mixed = "no" /\ FileOf(h)
    BY <1>0, <2>2, <2>3 DEF FileInv, TypeOK, Early, Late
  <2>6. FileOf(h)' /\ (~Busy(h)' => file' = Whole(cfg'))
    BY <1>0, <1>6, <2>1, <2>2, <2>5, StepStages DEF FileOf, Early, Late
  <2> QED
    BY <1>0, <1>1, <1>2, <2>1, <2>4, <2>5, <2>6 DEF FileInv
<1>7. ASSUME NEW a \in Actors, Save(a) PROVE FileInv'
  <2>1. UNCHANGED <<cfg, persist>>
    BY <1>7 DEF Save, Marshal, Truncate, Write
  <2> SUFFICES ASSUME persist, mixed' # "yes" PROVE FileInv'
    BY <1>1, <2>1 DEF FileInv
  <2>2. Busy(a)
    BY <1>7 DEF Save, Marshal, Truncate, Write, At
  <2>3. \A b \in Actors \ {a} : ~Busy(b)
    BY <1>1, <1>7, <2>2 DEF Lone, Alone, Save, Marshal, Truncate, Write
  <2>4. \A b \in Actors \ {a} : ~Busy(b)'
    BY <1>7, <2>3, Moves DEF Save, Marshal, Truncate, Write, TypeOK, Stages
  <2>5. mixed # "yes" => FileOf(a)
    BY DEF FileInv
  <2>6. CASE Marshal(a)
    <3>1. /\ act'[a].at = "truncate" /\ act'[a].buf = cfg
          /\ act'[a].had = act[a].had /\ file' = file /\ act[a].at = "marshal"
      BY <2>6 DEF Marshal, TypeOK, Act, At
    <3>2. mixed' = "no" => mixed = "no"
      BY <2>6 DEF Marshal
    <3>3. FileOf(a)'
      BY <2>1, <2>5, <3>1, <3>2 DEF FileOf, Early, Late
    <3> QED
      BY <1>1, <1>2, <2>4, <3>1, <3>3 DEF FileInv
  <2>7. CASE Truncate(a)
    <3>1. /\ act[a].at = "truncate" /\ act'[a].at = "write"
          /\ act'[a].buf = act[a].buf /\ file' = Broken /\ mixed' = mixed
      BY <2>7, Moves DEF Truncate, At, Stages
    <3>2. FileOf(a)'
      BY <2>1, <2>5, <3>1 DEF FileOf, Early, Late
    <3> QED
      BY <1>1, <1>2, <2>4, <3>1, <3>2 DEF FileInv
  <2>8. CASE Write(a)
    <3>1. act[a].at = "write" /\ ~Busy(a)'
      BY <2>8, Moves DEF Write, At
    <3>2. mixed # "yes" /\ mixed' = "no"
      BY <2>8 DEF Write, TypeOK
    <3>3. act[a].buf = cfg /\ file = Broken
      BY <2>5, <3>1, <3>2 DEF FileOf
    <3>4. file' = Whole(cfg')
      BY <2>1, <2>8, <3>3 DEF Write, Broken
    <3> QED
      BY <1>1, <1>2, <2>4, <3>1, <3>2, <3>4 DEF FileInv
  <2> QED
    BY <1>7, <2>6, <2>7, <2>8 DEF Save
<1> QED
  BY <1>3, <1>4, <1>5, <1>6, <1>7 DEF Next, BeginCalibration, SubmitForm

(* The place in the file of every step, for every state.                   *)
LEMMA FileInvariant == Spec => [](TypeOK /\ FileInv)
<1>1. Init => FileInv
  BY DEF Init, FileInv, Lone, Busy, Idle
<1>2. TypeOK /\ FileInv /\ [Next]_vars => FileInv'
  BY StepFile
<1> QED
  BY <1>1, <1>2, TypeCorrect, PTL DEF Spec

(* When nobody is busy the file holds the configuration.                   *)
THEOREM FileIsCurrentHolds == Spec => []FileIsCurrent
<1>1. FileInv => FileIsCurrent
  BY DEF FileInv, FileIsCurrent, Busy, Idle
<1> QED
  BY <1>1, FileInvariant, PTL

(* A start finds the settings of the end, or of before the last request.   *)
THEOREM SettingsSurviveHolds == Spec => SettingsSurvive
<1> DEFINE Found ==
      ~up /\ up' /\ persist /\ mixed = "no"
        /\ (\A a \in Actors : act[a].at # "write")
      => cfg' \in {cfg} \cup {act[h].had : h \in {g \in Handlers : act[g] # Idle}}
<1>1. TypeOK /\ FileInv /\ [Next]_vars => [Found]_vars
  <2> SUFFICES ASSUME TypeOK, FileInv, [Next]_vars, ~up, up', persist,
                      mixed = "no", \A a \in Actors : act[a].at # "write"
               PROVE  cfg' \in {cfg} \cup
                        {act[h].had : h \in {g \in Handlers : act[g] # Idle}}
    OBVIOUS
  <2>1. cfg' = file.of
    BY DEF Next, StartUp, StartConfig, Crash, LoopSync, BeginCalibration,
           SubmitForm, Serve, Step, Calibrate, Keep, FormPump, FormRoof,
           FormSync, Save, Marshal, Truncate, Write, At, vars
  <2>2. CASE \A a \in Actors : ~Busy(a)
    BY <2>1, <2>2 DEF FileInv, Whole
  <2>3. ASSUME NEW a \in Actors, Busy(a)
        PROVE  cfg' \in {cfg} \cup
                 {act[h].had : h \in {g \in Handlers : act[g] # Idle}}
    <3>1. FileOf(a)
      BY DEF FileInv
    <3>2. CASE a = "main"
      BY <2>1, <2>3, <3>1, <3>2 DEF FileOf, Busy
    <3>3. CASE a # "main"
      <4>1. a \in Handlers /\ act[a] # Idle
        BY <2>3, <3>3 DEF Actors, Busy, Idle
      <4>2. act[a].at \in Early \cup Late \cup {"truncate"}
        BY <2>3 DEF TypeOK, Act, Busy, Early, Late
      <4>3. file.of = act[a].had
        BY <3>1, <3>3, <4>2 DEF FileOf, Whole
      <4> QED
        BY <2>1, <4>1, <4>3
    <3> QED
      BY <3>2, <3>3
  <2> QED
    BY <2>2, <2>3
<1> QED
  BY <1>1, FileInvariant, PTL DEF Spec, SettingsSurvive
=============================================================================
