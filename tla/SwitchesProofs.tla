--------------------------- MODULE SwitchesProofs ---------------------------
(***************************************************************************)
(* Proofs about Switches: the types, what a command keeps together that    *)
(* meets no other, and what a shutdown keeps whatever else is in progress, *)
(* for any number of requests, all interleavings of their steps and an end *)
(* of the process in any of the phases.                                    *)
(***************************************************************************)
EXTENDS Switches, TLAPS

Places ==
  {"idle", "decide", "check", "stopAll", "pump", "sweep", "solar", "mark",
   "commit", "disable", "sync"}
Sequels == {"return", "sync", "daily", "disable"}

(* A free goroutine is of its type.                                        *)
LEMMA IdleType == Idle \in Call
  BY DEF Idle, Call, State

(* Free goroutines are of their types.                                     *)
LEMMA FreeType == [t \in Threads |-> Idle] \in [Threads -> Call]
  BY IdleType

(* So are the relays of a new program.                                     *)
LEMMA StartType == [w \in Switch |-> AtStart(w)] \in [Switch -> BOOLEAN]
  BY DEF AtStart

(* A step of a command changes where its goroutine is and leaves the other *)
(* goroutines where they are.                                              *)
LEMMA Moves ==
  ASSUME TypeOK, NEW t \in Threads, NEW at \in Places, Goto(t, at)
  PROVE  /\ call' \in [Threads -> Call]
         /\ call'[t].at = at /\ call'[t].to = call[t].to
         /\ call'[t].manual = call[t].manual /\ call'[t].then = call[t].then
         /\ \A u \in Others(t) : call'[u] = call[u]
  BY DEF TypeOK, Goto, Call, Others, Places

(* A finished command ends, or the goroutine goes on to its sequel.        *)
LEMMA Finishes ==
  ASSUME TypeOK, NEW t \in Threads, After(t)
  PROVE  /\ call' \in [Threads -> Call]
         /\ \A u \in Others(t) : call'[u] = call[u]
         /\ call[t].then = "return" => call'[t] = Idle
         /\ call[t].then # "return" =>
              /\ call'[t].to = call[t].to /\ call'[t].manual = call[t].manual
         /\ call[t].then = "sync" =>
              call'[t].at = "sync" /\ call'[t].then = "sync"
         /\ call[t].then = "disable" =>
              call'[t].at = "disable" /\ call'[t].then = "disable"
         /\ call[t].then = "daily" =>
              \/ call'[t].at = "stopAll" /\ call'[t].then = "sync"
              \/ call'[t].at = "sync" /\ call'[t].then = "daily"
<1>1. call[t] \in Call /\ call[t].then \in Sequels
  BY DEF TypeOK, Call, Sequels
<1>2. CASE call[t].then = "return"
  BY <1>2, IdleType DEF TypeOK, After, Others
<1>3. CASE call[t].then = "sync"
  BY <1>3, Moves DEF After, Places
<1>4. CASE call[t].then = "disable"
  BY <1>4, Moves DEF After, Places
<1>5. CASE call[t].then = "daily"
  <2>1. CASE Goto(t, "sync")
    BY <1>5, <2>1, Moves DEF Places
  <2>2. CASE call' = [call EXCEPT ![t].at = "stopAll", ![t].then = "sync"]
    <3>1. PICK c \in Call :
            /\ c.at = "stopAll" /\ c.to = call[t].to
            /\ c.manual = call[t].manual /\ c.then = "sync"
            /\ call' = [call EXCEPT ![t] = c]
      <4>1. [call[t] EXCEPT !.at = "stopAll", !.then = "sync"] \in Call
        BY <1>1 DEF Call
      <4> QED
        BY <1>1, <2>2, <4>1 DEF TypeOK, Call
    <3> QED
      BY <1>5, <3>1 DEF TypeOK, Others
  <2> QED
    BY <1>5, <2>1, <2>2 DEF After
<1> QED
  BY <1>1, <1>2, <1>3, <1>4, <1>5 DEF Sequels

(* A command begins when its goroutine is free.                            *)
LEMMA Begins ==
  ASSUME TypeOK, NEW t \in Threads, NEW at \in Places, NEW to \in State,
         NEW manual \in BOOLEAN, NEW then \in Sequels,
         Begin(t, at, to, manual, then)
  PROVE  /\ call' \in [Threads -> Call]
         /\ ~exited /\ call[t] = Idle
         /\ call'[t] = [at |-> at, to |-> to, manual |-> manual, then |-> then]
         /\ \A u \in Others(t) : call'[u] = call[u]
         /\ met' \subseteq Threads /\ sound' \in BOOLEAN
  BY DEF TypeOK, Begin, MayBegin, Meet, Busy, Call, Others, Places, Sequels

(* The callers ask for states.                                             *)
LEMMA TargetType ==
  ASSUME TypeOK
  PROVE  /\ ButtonTarget \in State \ {"DISABLED"} /\ StopTarget \in {"OFF", "DISABLED"}
         /\ \A w \in Switch, on \in BOOLEAN : HomeKitTarget(w, on) \in State
  BY DEF TypeOK, ButtonTarget, StopTarget, HomeKitTarget, State, Switch

(* StopAll asks for its target and touches nobody else.                    *)
LEMMA StopsHere ==
  ASSUME TypeOK, NEW t \in Threads, StopAll(t)
  PROVE  /\ call' \in [Threads -> Call]
         /\ call'[t].at = "pump" /\ call'[t].to = StopTarget
         /\ call'[t].manual = call[t].manual /\ call'[t].then = call[t].then
         /\ \A u \in Others(t) : call'[u] = call[u]
<1> DEFINE moved == [call EXCEPT ![t].at = "pump"]
<1>1. call \in [Threads -> Call] /\ StopTarget \in State
  BY TargetType DEF TypeOK, State
<1>2. /\ moved \in [Threads -> Call] /\ moved[t].at = "pump"
      /\ moved[t].manual = call[t].manual /\ moved[t].then = call[t].then
      /\ \A u \in Others(t) : moved[u] = call[u]
  BY <1>1 DEF Call, Others
<1>3. call' = [moved EXCEPT ![t].to = StopTarget]
  BY <1>1 DEF StopAll
<1> HIDE DEF moved
<1> QED
  BY <1>1, <1>2, <1>3 DEF Call, Others

(* What HomeKit and the button begin.                                      *)
LEMMA HomeKitBegins ==
  ASSUME TypeOK, NEW w \in Switch, HomeKit(w)
  PROVE  \/ Begin("homekit", "stopAll", "OFF", TRUE, "return")
         \/ \E on \in BOOLEAN : 
              Begin("homekit", "check", HomeKitTarget(w, on), TRUE, "return")
  BY DEF TypeOK, HomeKit, Switch

(* What the loop decides: to rest, to switch to DISABLED or back to OFF, to *)
(* stop the pumps or to ask for a state that it is entitled to.            *)
LEMMA LoopDecides ==
  ASSUME TypeOK, LoopDecide
  PROVE  /\ call' \in [Threads -> Call]
         /\ \A u \in Others("loop") : call'[u] = call[u]
         /\ \/ Goto("loop", "sync")
            \/ /\ ~ManualState
               /\ \/ Goto("loop", "stopAll")
                  \/ \E s \in {"OFF", "DISABLED"} :
                       call'["loop"] = [call["loop"] EXCEPT !.at = "pump", !.to = s]
                  \/ \E s \in {"MIXING", "SOLAR", "SWEEP"}, then \in {"sync", "daily"} :
                       call'["loop"] = [at |-> "check", to |-> s,
                                        manual |-> FALSE, then |-> then]
<1>1. "loop" \in Threads /\ call["loop"] \in Call
  BY DEF TypeOK, Threads
<1>2. CASE Goto("loop", "sync")
  BY <1>1, <1>2, Moves DEF Places
<1>3. CASE Goto("loop", "stopAll") /\ ~ManualState
  BY <1>1, <1>3, Moves DEF Places
<1>4. ASSUME NEW s \in {"OFF", "DISABLED"}, ~ManualState,
             call' = [call EXCEPT !["loop"].at = "pump", !["loop"].to = s]
      PROVE  /\ call' \in [Threads -> Call]
             /\ \A u \in Others("loop") : call'[u] = call[u]
             /\ call'["loop"] = [call["loop"] EXCEPT !.at = "pump", !.to = s]
  <2> DEFINE c == [call["loop"] EXCEPT !.at = "pump", !.to = s]
  <2>1. c \in Call
    BY <1>1 DEF Call, State
  <2>2. call' = [call EXCEPT !["loop"] = c]
    BY <1>1, <1>4 DEF TypeOK, Call
  <2> QED
    BY <1>1, <2>1, <2>2 DEF TypeOK, Others
<1>5. ASSUME NEW s \in {"MIXING", "SOLAR", "SWEEP"},
             NEW then \in {"sync", "daily"}, ~ManualState,
             call' = [call EXCEPT !["loop"] =
                        [at |-> "check", to |-> s, manual |-> FALSE,
                         then |-> then]]
      PROVE  /\ call' \in [Threads -> Call]
             /\ \A u \in Others("loop") : call'[u] = call[u]
             /\ call'["loop"] = [at |-> "check", to |-> s, manual |-> FALSE,
                                 then |-> then]
  BY <1>1, <1>5 DEF TypeOK, Call, Others, State
<1> QED
  BY <1>2, <1>3, <1>4, <1>5 DEF LoopDecide, LoopYields

(* One step keeps the types.                                               *)
LEMMA StepType == TypeOK /\ [Next]_vars => TypeOK'
<1> SUFFICES ASSUME TypeOK, [Next]_vars PROVE TypeOK'
  OBVIOUS
<1> USE DEF TypeOK, Settings, history
<1>1. ASSUME NEW w \in Switch, HomeKit(w) PROVE TypeOK'
  <2>1. PICK at \in Places, to \in State :
          Begin("homekit", at, to, TRUE, "return")
    BY <1>1, HomeKitBegins, TargetType DEF Places, State
  <2>2. call' \in [Threads -> Call] /\ met' \subseteq Threads /\ sound' \in BOOLEAN
    BY <2>1, Begins DEF Threads, Sequels
  <2> QED
    BY <1>1, <2>2, SwitchesAssumption DEF HomeKit, SwitchesAssumption
<1>2. CASE Button
  <2>1. call' \in [Threads -> Call] /\ met' \subseteq Threads /\ sound' \in BOOLEAN
    BY <1>2, Begins, TargetType DEF Button, Threads, Places, Sequels
  <2> QED
    BY <1>2, <2>1, SwitchesAssumption DEF Button, SwitchesAssumption
<1>3. CASE Configure
  <2>1. cfg' \in Settings /\ fresh' \in BOOLEAN
    BY <1>3 DEF Configure, Revive
  <2>2. met' \subseteq Threads /\ sound' \in BOOLEAN
    BY <1>3 DEF Configure, Revive, Threads
  <2> QED
    BY <1>3, <2>1, <2>2, SwitchesAssumption DEF Configure, SwitchesAssumption
<1>4. CASE Expire
  BY <1>4 DEF Expire
<1>5. CASE LoopRead
  BY <1>5, Begins DEF LoopRead, Threads, Places, Sequels
<1>6. CASE LoopDecide
  <2>1. call' \in [Threads -> Call]
    BY <1>6, LoopDecides
  <2> QED
    BY <1>6, <2>1 DEF LoopDecide
<1>7. CASE LoopSync
  BY <1>7 DEF LoopSync, Call, Idle, State, Threads, Switch
<1>8. CASE Disable
  BY <1>8 DEF Disable, Call, Idle, State, Threads, Phases
<1>9. ASSUME NEW t \in Threads, Check(t) PROVE TypeOK'
  BY <1>9, Moves, Finishes DEF Check, Places
<1>10. ASSUME NEW t \in Threads, StopAll(t) PROVE TypeOK'
  <2>1. call' \in [Threads -> Call]
    BY <1>10, StopsHere
  <2> QED
    BY <1>10, <2>1 DEF StopAll
<1>11. ASSUME NEW t \in Threads, SetPump(t) PROVE TypeOK'
  <2>1. RelaysOf(call[t].to)["pump"] \in BOOLEAN
    BY DEF RelaysOf, Switch
  <2> QED
    BY <1>11, <2>1, Moves DEF SetPump, Places, ShownAs
<1>12. ASSUME NEW t \in Threads, SetSweep(t) PROVE TypeOK'
  <2>1. RelaysOf(call[t].to)["sweep"] \in BOOLEAN
    BY DEF RelaysOf, Switch
  <2> QED
    BY <1>12, <2>1, Moves DEF SetSweep, Places, ShownAs
<1>13. ASSUME NEW t \in Threads, SetSolar(t) PROVE TypeOK'
  <2>1. RelaysOf(call[t].to)["solar"] \in BOOLEAN
    BY DEF RelaysOf, Switch
  <2> QED
    BY <1>13, <2>1, Moves DEF SetSolar, Places
<1>14. ASSUME NEW t \in Threads, Mark(t) PROVE TypeOK'
  BY <1>14, Moves DEF Mark, Places
<1>15. ASSUME NEW t \in Threads, Commit(t) PROVE TypeOK'
  <2>1. state' \in State
    BY <1>15 DEF Commit, Call
  <2> QED
    BY <1>15, <2>1, Finishes DEF Commit
<1>16. CASE BeginStop
  BY <1>16, Begins DEF BeginStop, Threads, Places, Sequels, State, Phases
<1>17. CASE Shutdown
  <2>1. CASE BeginDisable
    <3>1. /\ "loop" \in Threads /\ "stopAll" \in Places /\ "OFF" \in State
          /\ "disable" \in Sequels
      BY DEF Threads, Places, State, Sequels
    <3>2. Begin("loop", "stopAll", "OFF", TRUE, "disable")
      BY <2>1 DEF BeginDisable
    <3>3. call' \in [Threads -> Call] /\ met' \subseteq Threads /\ sound' \in BOOLEAN
      BY <3>1, <3>2, Begins
    <3> QED
      BY <2>1, <3>3 DEF BeginDisable, Phases
  <2> QED
    BY <1>17, <2>1 DEF Shutdown, Signal, StopButton, LeaveLoop, Phases
<1>18. CASE Exit
  BY <1>18 DEF Exit
<1>19. CASE Restart
  <2>1. state' \in State /\ phase' \in Phases
    BY <1>19 DEF Restart, State, Phases
  <2>2. relay' \in [Switch -> BOOLEAN] /\ shown' \in [Switch -> BOOLEAN]
    BY <1>19, StartType DEF Restart
  <2>3. call' \in [Threads -> Call]
    BY <1>19, FreeType DEF Restart
  <2>4. requests' \in 0..MaxRequests
    BY <1>19, SwitchesAssumption DEF Restart, SwitchesAssumption
  <2>5. cfg' \in Settings
    BY <1>19, SwitchesAssumption DEF Restart, SwitchesAssumption
  <2> QED
    BY <1>19, <2>1, <2>2, <2>3, <2>4, <2>5 DEF Restart
<1>20. CASE UNCHANGED vars
  BY <1>20 DEF vars
<1> QED
  BY <1>1, <1>2, <1>3, <1>4, <1>5, <1>6, <1>7, <1>8, <1>9, <1>10, <1>11,
     <1>12, <1>13, <1>14, <1>15, <1>16, <1>17, <1>18, <1>19, <1>20
  DEF Next, Step, LoopStep

(* The variables keep their types, however commands interleave.            *)
THEOREM TypeCorrect == Spec => []TypeOK
<1>1. Init => TypeOK
  <2> SUFFICES ASSUME Init PROVE TypeOK
    OBVIOUS
  <2>1. state \in State /\ phase \in Phases
    BY DEF Init, State, Phases
  <2>2. call \in [Threads -> Call]
    BY FreeType DEF Init
  <2>3. requests \in 0..MaxRequests /\ cfg \in Settings
    BY SwitchesAssumption DEF Init, SwitchesAssumption
  <2> QED
    BY <2>1, <2>2, <2>3 DEF Init, TypeOK
<1>2. TypeOK /\ [Next]_vars => TypeOK'
  BY StepType
<1> QED
  BY <1>1, <1>2, PTL DEF Spec

(***************************************************************************)
(* What a command keeps together that meets no other, and what the         *)
(* shutdown keeps in any case.                                             *)
(***************************************************************************)
Early == {"check", "stopAll", "pump"}
Late == {"sweep", "solar", "mark", "commit"}
StopTargets == {"OFF", "DISABLED"}
Stage(t) == call[t].at

(* Commands that are in progress at the same time have met.                *)
Pairs ==
  \A t \in Threads : \A u \in Others(t) :
    call[t] # Idle /\ call[u] # Idle => t \in met

(* Who gives which commands, and in which phase of the shutdown; those of  *)
(* the shutdown stop the pumps.                                            *)
OrderOf(t) ==
  LET c == call[t] IN
  /\ IF t = "loop"
     THEN /\ c.then # "return" /\ c.at # "idle"
          /\ c.then = "disable" <=> phase = "disabling"
          /\ c.manual <=> phase = "disabling"
          /\ phase = "disabling" => c.at \notin {"decide", "check", "sync"}
          /\ c.at = "disable" => phase = "disabling"
          /\ c.at = "check" => c.to \in {"MIXING", "SOLAR", "SWEEP"}
          /\ phase \in {"running", "stopping", "disabling"}
     ELSE /\ c.then = "return" /\ c.manual /\ c.at \in Early \cup Late
          /\ c.at = "check" => c.to # "DISABLED" /\ t # "main"
          /\ t = "main" => phase = "stopping"
  /\ (c.at \in Late \/ c.at = "pump") /\ (t = "main" \/ c.then = "disable") =>
       c.to \in StopTargets

Orders == \A t \in Threads : call[t] # Idle => OrderOf(t)

(* Targets of writes: disabled switches are left for OFF by the loop only. *)
TargetOf(t) ==
  LET c == call[t] IN
  /\ c.at = "pump" /\ c.manual =>
       (c.to \in Running /\ state # "DISABLED") \/ c.to = StopTarget
  /\ c.at = "pump" /\ ~c.manual =>
       c.to # "PUMP" /\ (state = "DISABLED" => c.to \in StopTargets)
  /\ c.at = "disable" => state \in StopTargets /\ sound

Targets == \A t \in Threads : call[t] # Idle => TargetOf(t)

(* The manual mark while a command is carried out.                         *)
MarkOf(t) ==
  LET c == call[t] IN
  /\ c.at \in Early /\ ~c.manual => ~ManualState
  /\ c.at \in {"sweep", "solar", "mark"} => ~marked
  /\ c.at = "commit" => (marked <=> c.manual) /\ (c.manual => fresh)

MarksKept == \A t \in Threads : call[t] # Idle => MarkOf(t)

(* The switches written so far are those of the target.                    *)
Written(t) ==
  CASE Stage(t) = "sweep" -> {"pump"}
    [] Stage(t) = "solar" -> {"pump", "sweep"}
    [] Stage(t) \in {"mark", "commit"} -> Switch
    [] OTHER -> {}

Relays ==
  /\ Writing = {} /\ sound => \A w \in Switch : relay[w] = RelaysOf(state)[w]
  /\ \A t \in Writing : \A w \in Written(t) : relay[w] = RelaysOf(call[t].to)[w]

(* HomeKit has asked for something that will be carried out.               *)
Asked ==
  \/ Stage("homekit") \in {"stopAll", "pump"}
  \/ Stage("homekit") = "check" /\ call["homekit"].to # state

Shows ==
  /\ Writing = {} /\ sound /\ state # "DISABLED" /\ ~Asked =>
       \A w \in {"pump", "sweep"} : shown[w] = relay[w]
  /\ \A t \in Writing : \A w \in Written(t) \ {"solar"} : shown[w] = relay[w]

(* What holds while no command in progress has met another.                *)
Alone == Targets /\ MarksKept /\ Relays /\ Shows

(* The shutdown.                                                           *)
Ended ==
  Down /\ "loop" \notin met =>
    /\ state = "DISABLED" /\ \A w \in Switch : ~relay[w]
    /\ \A t \in Threads :
         Stage(t) \in Late \cup {"pump"} => call[t].to = "DISABLED"

Stopped ==
  phase # "running" /\ ~late /\ "main" \notin met =>
    /\ call["button"] = Idle /\ call["homekit"] = Idle
    /\ call["main"] = Idle =>
         /\ state \in StopTargets /\ \A w \in Switch : ~relay[w]
         /\ phase = "stopping" =>
              ManualState /\ Stage("loop") \in {"idle", "decide", "sync"}

Kept ==
  /\ Pairs /\ Orders /\ Ended /\ Stopped
  /\ sound => Smooth
  /\ Smooth => Alone

(* What the switches are in each state.                                    *)
LEMMA RelaysAre ==
  ASSUME NEW s
  PROVE  /\ RelaysOf(s)["pump"] <=> s \in Running
         /\ RelaysOf(s)["sweep"] <=> s \in {"SWEEP", "MIXING"}
         /\ RelaysOf(s)["solar"] <=> s \in {"SOLAR", "MIXING"}
         /\ \A w \in Switch : RelaysOf(s)[w] \in BOOLEAN
<1>1. RelaysOf(s)["pump"] <=> s \in Running
  BY DEF RelaysOf, Switch
<1>2. RelaysOf(s)["sweep"] <=> s \in {"SWEEP", "MIXING"}
  BY DEF RelaysOf, Switch
<1>3. RelaysOf(s)["solar"] <=> s \in {"SOLAR", "MIXING"}
  BY DEF RelaysOf, Switch
<1>4. \A w \in Switch : RelaysOf(s)[w] \in BOOLEAN
  <2>1. RelaysOf(s)["pump"] \in BOOLEAN
    BY DEF RelaysOf, Switch
  <2>2. RelaysOf(s)["sweep"] \in BOOLEAN
    BY DEF RelaysOf, Switch
  <2>3. RelaysOf(s)["solar"] \in BOOLEAN
    BY DEF RelaysOf, Switch
  <2> QED
    BY <2>1, <2>2, <2>3 DEF Switch
<1> QED
  BY <1>1, <1>2, <1>3, <1>4

(* A target that stops the pumps has everything off.                       *)
LEMMA StopsAll ==
  ASSUME NEW s \in StopTargets, NEW w \in Switch
  PROVE  ~RelaysOf(s)[w]
  BY RelaysAre DEF StopTargets, Switch, Running

(* The sets of stages do not meet.                                         *)
LEMMA Stages ==
  /\ "idle" \notin Early \cup Late /\ Early \cap Late = {}
  /\ {"decide", "disable", "sync"} \cap (Early \cup Late) = {}
  /\ Idle.at = "idle"
  BY DEF Early, Late, Idle

(* A busy goroutine has met another, or it is the only one.                *)
LEMMA Lonely ==
  ASSUME TypeOK, Pairs, NEW t \in Threads, call[t] # Idle
  PROVE  /\ t \in met <=> ~Smooth
         /\ Smooth =>
              /\ \A u \in Threads \ {t} : call[u] = Idle /\ Stage(u) = "idle"
              /\ Stage(t) \in Late => Writing = {t}
              /\ Stage(t) \notin Late => Writing = {}
              /\ t = "homekit" \/ ~Asked
<1>1. t \in met <=> ~Smooth
  BY DEF Pairs, Smooth, Others
<1>2. Smooth => \A u \in Threads \ {t} : call[u] = Idle /\ Stage(u) = "idle"
  BY DEF Pairs, Smooth, Others, Idle, Stage
<1> QED
  BY <1>1, <1>2 DEF Writing, Late, Stage, Asked, Idle, Threads

(* The next three lemmas collect what a step has to keep when it leaves    *)
(* every goroutine but t free: if t writes, ...                            *)
LEMMA AloneWriting ==
  ASSUME NEW t \in Threads, \A u \in Threads \ {t} : call'[u] = Idle,
         Stage(t)' \in Late, TargetOf(t)', MarkOf(t)',
         \A w \in Written(t)' : relay'[w] = RelaysOf(call'[t].to)[w],
         \A w \in Written(t)' \ {"solar"} : shown'[w] = relay'[w]
  PROVE  Alone'
<1>1. \A u \in Threads \ {t} : Stage(u)' = "idle"
  BY Stages DEF Stage
<1>2. Writing' = {t}
  BY <1>1, Stages DEF Writing, Late, Stage
<1>3. Targets' /\ MarksKept'
  BY DEF Targets, MarksKept
<1>4. Relays' /\ Shows'
  BY <1>2 DEF Relays, Shows
<1> QED
  BY <1>3, <1>4 DEF Alone

(* ... if it is busy and does not write, ...                               *)
LEMMA AloneBusy ==
  ASSUME NEW t \in Threads, \A u \in Threads \ {t} : call'[u] = Idle,
         Stage(t)' \notin Late, TargetOf(t)', MarkOf(t)',
         sound' => \A w \in Switch : relay'[w] = RelaysOf(state')[w],
         sound' /\ state' # "DISABLED" /\ ~Asked' =>
           \A w \in {"pump", "sweep"} : shown'[w] = relay'[w]
  PROVE  Alone'
<1>1. \A u \in Threads \ {t} : Stage(u)' = "idle"
  BY Stages DEF Stage
<1>2. Writing' = {}
  BY <1>1, Stages DEF Writing, Late, Stage
<1>3. Targets' /\ MarksKept'
  BY DEF Targets, MarksKept
<1>4. Relays' /\ Shows'
  BY <1>2 DEF Relays, Shows
<1> QED
  BY <1>3, <1>4 DEF Alone

(* ... and if it is free as well.                                          *)
LEMMA AloneFree ==
  ASSUME \A t \in Threads : call'[t] = Idle,
         sound' => \A w \in Switch : relay'[w] = RelaysOf(state')[w],
         sound' /\ state' # "DISABLED" =>
           \A w \in {"pump", "sweep"} : shown'[w] = relay'[w]
  PROVE  Alone'
<1>1. \A t \in Threads : Stage(t)' = "idle"
  BY Stages DEF Stage
<1>2. Writing' = {} /\ ~Asked'
  BY <1>1, Stages DEF Writing, Late, Stage, Asked, Threads
<1>3. Targets' /\ MarksKept'
  BY DEF Targets, MarksKept
<1>4. Relays' /\ Shows'
  BY <1>2 DEF Relays, Shows
<1> QED
  BY <1>3, <1>4 DEF Alone

(* The next lemmas collect what any step has to keep that belongs to a     *)
(* command in progress.  A goroutine that has met another stays so until   *)
(* its command ends; ...                                                   *)
LEMMA StepMeets ==
  ASSUME TypeOK, Kept, NEW t \in Threads, call[t] # Idle,
         \A u \in Others(t) : call'[u] = call[u], met' = met,
         sound' => sound \/ t \notin met
  PROVE  /\ Pairs' /\ (sound' => Smooth')
         /\ ~Smooth => (Smooth' => Alone')
<1>1. Pairs
  BY DEF Kept
<1>2. \A u \in Threads : call'[u] # Idle => call[u] # Idle
  BY DEF Others
<1>3. Pairs'
  BY <1>1, <1>2 DEF Pairs, Others
<1>4. t \in met <=> ~Smooth
  BY <1>1, Lonely
<1>5. Smooth => Smooth'
  BY <1>2 DEF Smooth
<1>6. sound' => Smooth
  BY <1>4 DEF Kept
<1>7. ASSUME ~Smooth, Smooth' PROVE Alone'
  <2>1. ~sound' /\ t \in met
    BY <1>4, <1>6, <1>7
  <2>2. \A u \in Threads : call'[u] = Idle
    <3>1. \A u \in Threads : call[u] # Idle => u \in met
      BY <1>1, <1>7, Lonely
    <3> QED
      BY <1>2, <1>7, <3>1 DEF Smooth
  <2> QED
    BY <2>1, <2>2, AloneFree
<1> QED
  BY <1>3, <1>5, <1>6, <1>7

(* ... after the loop's last command the others write DISABLED only, ...   *)
LEMMA StepEnded ==
  ASSUME TypeOK, Kept, NEW t \in Threads, call[t] # Idle,
         \A u \in Others(t) : call'[u] = call[u], UNCHANGED <<met, phase>>,
         t = "loop" /\ phase = "disabling" => call'[t] # Idle,
         state' = state \/ (call[t].at \in Late /\ state' = call[t].to),
         \A w \in Switch :
           \/ relay'[w] = relay[w]
           \/ /\ call[t].at \in Late \cup {"pump"}
              /\ relay'[w] = RelaysOf(call[t].to)[w],
         t # "loop" /\ call'[t].at \in Late \cup {"pump"} =>
           \/ call[t].at \in Late \cup {"pump"} /\ call'[t].to = call[t].to
           \/ call'[t].to = StopTarget
           \/ state # "DISABLED"
  PROVE  Ended'
<1> USE DEF Stage
<1> SUFFICES ASSUME Down', "loop" \notin met
             PROVE  /\ state' = "DISABLED" /\ \A w \in Switch : ~relay'[w]
                    /\ \A u \in Threads :
                         Stage(u)' \in Late \cup {"pump"} => call'[u].to = "DISABLED"
  BY DEF Ended
<1>1. t # "loop"
  BY DEF Kept, Orders, OrderOf, Down
<1>2. Down
  BY <1>1 DEF Down, Others, Threads
<1>3. /\ state = "DISABLED" /\ \A w \in Switch : ~relay[w]
      /\ \A u \in Threads :
           Stage(u) \in Late \cup {"pump"} => call[u].to = "DISABLED"
  BY <1>2 DEF Kept, Ended
<1>4. state' = "DISABLED"
  BY <1>3
<1>5. \A w \in Switch : ~relay'[w]
  <2>1. call[t].at \in Late \cup {"pump"} => call[t].to \in StopTargets
    BY <1>3 DEF StopTargets
  <2> QED
    BY <1>3, <2>1, StopsAll
<1>6. ASSUME NEW u \in Threads, Stage(u)' \in Late \cup {"pump"}
      PROVE  call'[u].to = "DISABLED"
  <2>1. CASE u # t
    BY <1>3, <1>6, <2>1 DEF Others
  <2>2. CASE u = t
    BY <1>1, <1>3, <1>6, <2>2 DEF StopTarget
  <2> QED
    BY <2>1, <2>2
<1> QED
  BY <1>4, <1>5, <1>6

(* ... and between Stop and the loop's last command nothing is started.    *)
LEMMA StepStopped ==
  ASSUME TypeOK, Kept, NEW t \in Threads, call[t] # Idle,
         \A u \in Others(t) : call'[u] = call[u], UNCHANGED <<met, phase, late>>,
         \/ state' = state
         \/ call[t].at \in Late /\ state' = call[t].to
         \/ state' = "DISABLED",
         \A w \in Switch :
           \/ relay'[w] = relay[w]
           \/ /\ call[t].at \in Late \cup {"pump"}
              /\ relay'[w] = RelaysOf(call[t].to)[w],
         t = "loop" /\ call[t].at \in {"decide", "sync"} =>
           /\ ManualState' = ManualState
           /\ ManualState => call'[t].at \in {"idle", "sync"},
         t = "main" /\ Smooth /\ call'[t] = Idle =>
           /\ state' \in StopTargets /\ \A w \in Switch : ~relay'[w]
           /\ ManualState'
  PROVE  Stopped'
<1> USE DEF Stage
<1> SUFFICES ASSUME phase # "running", ~late, "main" \notin met
             PROVE  /\ call'["button"] = Idle /\ call'["homekit"] = Idle
                    /\ call'["main"] = Idle =>
                         /\ state' \in StopTargets /\ \A w \in Switch : ~relay'[w]
                         /\ phase = "stopping" =>
                              ManualState' /\ Stage("loop")' \in {"idle", "decide", "sync"}
  BY DEF Stopped
<1>1. call["button"] = Idle /\ call["homekit"] = Idle
  BY DEF Kept, Stopped
<1>2. t \in {"loop", "main"}
  BY <1>1 DEF Threads
<1>3. call'["button"] = Idle /\ call'["homekit"] = Idle
  BY <1>1, <1>2 DEF Others, Threads
<1>4. CASE t = "main"
  <2>1. Smooth /\ call["loop"] = Idle
    BY <1>4, Lonely DEF Kept, Threads
  <2>2. call'["loop"] = Idle
    BY <1>4, <2>1 DEF Others, Threads
  <2> QED
    BY <1>3, <1>4, <2>1, <2>2, Stages
<1>5. CASE t = "loop" /\ call["main"] = Idle
  <2>1. /\ state \in StopTargets /\ \A w \in Switch : ~relay[w]
        /\ phase = "stopping" =>
             ManualState /\ Stage("loop") \in {"idle", "decide", "sync"}
    BY <1>5 DEF Kept, Stopped
  <2>2. OrderOf(t)
    BY DEF Kept, Orders
  <2>3. CASE phase = "stopping"
    <3>1. call[t].at \in {"decide", "sync"} /\ call[t].at \notin Late \cup {"pump"}
      BY <1>5, <2>1, <2>2, <2>3 DEF OrderOf, Late
    <3> QED
      BY <1>3, <1>5, <2>1, <3>1 DEF StopTargets
  <2>4. CASE phase # "stopping"
    <3>1. call[t].then = "disable"
      BY <1>5, <2>2, <2>4 DEF OrderOf
    <3>2. call[t].at \in Late \cup {"pump"} => call[t].to \in StopTargets
      BY <2>2, <3>1 DEF OrderOf
    <3> QED
      BY <1>3, <2>1, <2>4, <3>2, StopsAll DEF StopTargets
  <2> QED
    BY <2>3, <2>4
<1>6. CASE t = "loop" /\ call["main"] # Idle
  BY <1>3, <1>6 DEF Others, Threads
<1> QED
  BY <1>2, <1>4, <1>5, <1>6

(* So much for the parts that any step of a command keeps.                 *)
LEMMA KeptStep ==
  ASSUME TypeOK, Kept, NEW t \in Threads, call[t] # Idle,
         \A u \in Others(t) : call'[u] = call[u], UNCHANGED <<met, phase>>,
         sound' => sound \/ t \notin met,
         call'[t] # Idle => OrderOf(t)', Ended', Stopped',
         Smooth => Alone'
  PROVE  Kept'
<1>1. Orders'
  BY DEF Kept, Orders, OrderOf, Others
<1> QED
  BY <1>1, StepMeets DEF Kept

(* What holds before a step of a command by t.                             *)
LEMMA InCommand ==
  ASSUME TypeOK, Kept, NEW t \in Threads, call[t].at \in Early \cup Late
  PROVE  /\ call[t] # Idle /\ call[t] \in Call /\ OrderOf(t)
         /\ Smooth =>
              /\ \A u \in Threads \ {t} : call[u] = Idle
              /\ call[t].at \in Late => Writing = {t}
              /\ call[t].at \notin Late =>
                   /\ Writing = {}
                   /\ sound => \A w \in Switch : relay[w] = RelaysOf(state)[w]
                   /\ t = "homekit" \/ ~Asked
              /\ TargetOf(t) /\ MarkOf(t)
<1> USE Stages DEF Stage
<1>1. call[t] # Idle /\ call[t] \in Call /\ OrderOf(t)
  BY DEF TypeOK, Kept, Orders
<1>2. Smooth =>
        /\ \A u \in Threads \ {t} : call[u] = Idle
        /\ call[t].at \in Late => Writing = {t}
        /\ call[t].at \notin Late => Writing = {}
        /\ t = "homekit" \/ ~Asked
  BY <1>1, Lonely DEF Kept
<1>3. Smooth => TargetOf(t) /\ MarkOf(t)
  BY <1>1 DEF Kept, Alone, Targets, MarksKept
<1> QED
  BY <1>1, <1>2, <1>3 DEF Kept, Alone, Relays

(* The early returns of SetState.                                          *)
LEMMA KeptCheck ==
  ASSUME TypeOK, TypeOK', Kept, NEW t \in Threads, Check(t)
  PROVE  Kept'
<1> USE Stages DEF Stage
<1> DEFINE Refused ==
      state = call[t].to \/ state = "DISABLED" \/ (ManualState /\ ~call[t].manual)
<1>1. call[t].at = "check" /\ call[t].at \in Early \cup Late /\ call[t].at \notin Late
  BY DEF Check, Early, Late
<1>2. call[t] # Idle /\ call[t] \in Call /\ OrderOf(t)
  BY <1>1, InCommand
<1>3. UNCHANGED <<state, relay, shown, marked, fresh, phase, late, met, sound>>
  BY DEF Check, history
<1>4. ASSUME Smooth
      PROVE  /\ \A u \in Threads \ {t} : call[u] = Idle
             /\ t = "homekit" \/ ~Asked
             /\ TargetOf(t) /\ MarkOf(t)
             /\ sound' => \A w \in Switch : relay'[w] = RelaysOf(state')[w]
             /\ sound' /\ state' # "DISABLED" /\ ~Asked =>
                  \A w \in {"pump", "sweep"} : shown'[w] = relay'[w]
  BY <1>1, <1>3, <1>4, InCommand DEF Kept, Alone, Shows
<1>5. t # "main" /\ (phase # "disabling" \/ t # "loop")
  BY <1>1, <1>2 DEF OrderOf
<1>6. CASE Refused /\ After(t)
  <2>1. \A u \in Others(t) : call'[u] = call[u]
    BY <1>6, Finishes
  <2>2. t # "loop" => call'[t] = Idle
    BY <1>2, <1>6, Finishes DEF OrderOf
  <2>3. t = "loop" =>
          /\ call[t].then \in {"sync", "daily"} /\ ~call[t].manual
          /\ phase \in {"running", "stopping"}
    BY <1>1, <1>2 DEF OrderOf, Call
  <2>4. t = "loop" =>
          /\ call'[t].at \in {"sync", "stopAll"}
          /\ call'[t].then \in {"sync", "daily"} /\ ~call'[t].manual
    BY <1>6, <2>3, Finishes
  <2>5. call'[t] # Idle => OrderOf(t)'
    BY <1>3, <2>2, <2>3, <2>4 DEF OrderOf, Late
  <2>6. Ended'
    BY <1>1, <1>2, <1>3, <2>1, <2>2, <2>3, StepEnded
  <2>7. Stopped'
    BY <1>1, <1>2, <1>3, <1>5, <2>1, StepStopped
  <2>8. ASSUME Smooth PROVE Alone'
    <3>1. \A u \in Threads \ {t} : call'[u] = Idle
      BY <1>4, <2>1, <2>8 DEF Others
    <3>2. sound' /\ state' # "DISABLED" =>
            \A w \in {"pump", "sweep"} : shown'[w] = relay'[w]
      <4>1. CASE ~Asked
        BY <1>4, <2>8, <4>1
      <4>2. CASE Asked
        <5>1. t = "homekit" /\ call[t].to # state /\ call[t].manual
          BY <1>1, <1>2, <1>4, <2>8, <4>2 DEF Asked, OrderOf
        <5> QED
          BY <1>3, <1>6, <5>1
      <4> QED
        BY <4>1, <4>2
    <3>3. CASE t # "loop"
      <4>1. \A u \in Threads : call'[u] = Idle
        BY <2>2, <3>1, <3>3
      <4>2. sound' => \A w \in Switch : relay'[w] = RelaysOf(state')[w]
        BY <1>4, <2>8
      <4> QED
        BY <3>2, <4>1, <4>2, AloneFree
    <3>4. CASE t = "loop"
      <4>1. ~ManualState
        BY <1>1, <1>4, <2>3, <2>8, <3>4 DEF MarkOf, Early
      <4>2. TargetOf(t)' /\ MarkOf(t)'
        BY <1>3, <2>4, <3>4, <4>1 DEF TargetOf, MarkOf, ManualState, Early
      <4>3. Stage(t)' \notin Late
        BY <2>4, <3>4 DEF Late
      <4>4. sound' => \A w \in Switch : relay'[w] = RelaysOf(state')[w]
        BY <1>4, <2>8
      <4> QED
        BY <3>1, <3>2, <4>2, <4>3, <4>4, AloneBusy
    <3> QED
      BY <3>3, <3>4
  <2> QED
    BY <1>2, <1>3, <2>1, <2>5, <2>6, <2>7, <2>8, KeptStep
<1>7. CASE ~Refused /\ Goto(t, IF call[t].to = "OFF" THEN "stopAll" ELSE "pump")
  <2>1. /\ \A u \in Others(t) : call'[u] = call[u]
        /\ call'[t].at = IF call[t].to = "OFF" THEN "stopAll" ELSE "pump"
        /\ call'[t].to = call[t].to /\ call'[t].manual = call[t].manual
        /\ call'[t].then = call[t].then
    BY <1>7, Moves DEF Places
  <2>2. t # "main" /\ call[t].then # "disable"
    BY <1>1, <1>2 DEF OrderOf
  <2>3. OrderOf(t)'
    BY <1>1, <1>2, <1>3, <2>1, <2>2 DEF OrderOf, Early, Late
  <2>4. Stage(t)' \notin Late /\ Stage(t)' # "idle"
    BY <2>1 DEF Late
  <2>5. Ended'
    BY <1>2, <1>3, <1>7, <2>1, <2>4, StepEnded
  <2>6. Stopped'
    BY <1>1, <1>2, <1>3, <2>1, <2>2, StepStopped
  <2>7. ASSUME Smooth PROVE Alone'
    <3>1. call[t].to = "OFF" \/ call[t].to \in Running
      BY <1>1, <1>2 DEF OrderOf, Call, State, Running
    <3>2. ~call[t].manual => call[t].to \in {"MIXING", "SOLAR", "SWEEP"}
      BY <1>1, <1>2 DEF OrderOf
    <3>3. TargetOf(t)'
      BY <1>3, <1>7, <2>1, <3>1, <3>2 DEF TargetOf
    <3>4. MarkOf(t)'
      BY <1>1, <1>3, <1>4, <2>1, <2>7 DEF MarkOf, ManualState, Early
    <3>5. \A u \in Threads \ {t} : call'[u] = Idle
      BY <1>4, <2>1, <2>7 DEF Others
    <3>6. ~Asked' => ~Asked
      BY <1>4, <2>1, <2>7 DEF Asked, Threads
    <3>7. /\ sound' => \A w \in Switch : relay'[w] = RelaysOf(state')[w]
          /\ sound' /\ state' # "DISABLED" /\ ~Asked =>
               \A w \in {"pump", "sweep"} : shown'[w] = relay'[w]
      BY <1>4, <2>7
    <3> QED
      BY <2>4, <3>3, <3>4, <3>5, <3>6, <3>7, AloneBusy
  <2> QED
    BY <1>2, <1>3, <2>1, <2>3, <2>5, <2>6, <2>7, KeptStep
<1> QED
  BY <1>6, <1>7 DEF Check

(* StopAll chooses OFF, or DISABLED.                                       *)
LEMMA KeptStopAll ==
  ASSUME TypeOK, TypeOK', Kept, NEW t \in Threads, StopAll(t)
  PROVE  Kept'
<1> USE Stages DEF Stage
<1>1. /\ call[t].at = "stopAll" /\ call[t].at \in Early \cup Late
      /\ call[t].at \notin Late
  BY DEF StopAll, Early, Late
<1>2. UNCHANGED <<state, relay, shown, marked, fresh, phase, late, met, sound>>
  BY DEF StopAll, history
<1>3. /\ call'[t].at = "pump" /\ call'[t].to = StopTarget
      /\ call'[t].manual = call[t].manual /\ call'[t].then = call[t].then
      /\ \A u \in Others(t) : call'[u] = call[u]
  BY StopsHere
<1>4. call[t] # Idle /\ OrderOf(t)
  BY <1>1, InCommand
<1>5. StopTarget \in StopTargets /\ StopTarget' = StopTarget
      /\ (state = "DISABLED" => StopTarget = "DISABLED")
  BY <1>2 DEF StopTarget, StopTargets
<1>6. OrderOf(t)'
  BY <1>1, <1>2, <1>3, <1>4, <1>5 DEF OrderOf, Early, Late
<1>7. call'[t] # Idle /\ Stage(t)' \notin Late
  BY <1>3 DEF Late
<1>8. Ended'
  BY <1>2, <1>3, <1>4, <1>7, StepEnded
<1>9. Stopped'
  BY <1>1, <1>2, <1>3, <1>4, <1>7, StepStopped
<1>10. ASSUME Smooth PROVE Alone'
  <2>1. TargetOf(t)'
    BY <1>2, <1>3, <1>5 DEF TargetOf, StopTargets
  <2>2. MarkOf(t)'
    BY <1>1, <1>2, <1>3, <1>10, InCommand DEF MarkOf, ManualState, Early, Late
  <2>3. \A u \in Threads \ {t} : call'[u] = Idle
    BY <1>1, <1>3, <1>10, InCommand DEF Others
  <2>4. sound' /\ state' # "DISABLED" /\ ~Asked' =>
          \A w \in {"pump", "sweep"} : shown'[w] = relay'[w]
    <3>1. ~Asked' => ~Asked
      BY <1>1, <1>3, <1>10, InCommand DEF Asked, Threads
    <3> QED
      BY <1>1, <1>2, <1>10, <3>1, InCommand DEF Kept, Alone, Shows
  <2>5. sound' => \A w \in Switch : relay'[w] = RelaysOf(state')[w]
    BY <1>1, <1>2, <1>10, InCommand
  <2> QED
    BY <1>7, <2>1, <2>2, <2>3, <2>4, <2>5, AloneBusy
<1> QED
  BY <1>2, <1>3, <1>4, <1>6, <1>8, <1>9, <1>10, KeptStep

(* A step of setSwitches: what all of them have in common.                 *)
LEMMA KeptWrites ==
  ASSUME TypeOK, TypeOK', Kept, NEW t \in Threads,
         call[t].at \in Late \cup {"pump"}, NEW at \in Late, Goto(t, at),
         UNCHANGED <<state, phase, late, met, sound>>,
         \A w \in Switch :
           relay'[w] = relay[w] \/ relay'[w] = RelaysOf(call[t].to)[w],
         Smooth =>
           /\ MarkOf(t)'
           /\ \A w \in Written(t)' : relay'[w] = RelaysOf(call[t].to)[w]
           /\ \A w \in Written(t)' \ {"solar"} : shown'[w] = relay'[w]
  PROVE  Kept'
<1> USE Stages DEF Stage
<1>1. call[t].at \in Early \cup Late
  BY DEF Early
<1>2. /\ \A u \in Others(t) : call'[u] = call[u]
      /\ call'[t].at = at /\ call'[t].to = call[t].to
      /\ call'[t].manual = call[t].manual /\ call'[t].then = call[t].then
  BY Moves DEF Places, Late
<1>3. call[t] # Idle /\ OrderOf(t)
  BY <1>1, InCommand
<1>4. OrderOf(t)' /\ call'[t] # Idle
  BY <1>2, <1>3 DEF OrderOf, Late
<1>5. Ended'
  BY <1>2, <1>3, <1>4, StepEnded
<1>6. Stopped'
  BY <1>2, <1>3, <1>4, StepStopped DEF Late
<1>7. ASSUME Smooth PROVE Alone'
  <2>1. \A u \in Threads \ {t} : call'[u] = Idle
    BY <1>1, <1>2, <1>7, InCommand DEF Others
  <2>2. TargetOf(t)'
    BY <1>2 DEF TargetOf, Late
  <2> QED
    BY <1>2, <1>7, <2>1, <2>2, AloneWriting
<1> QED
  BY <1>2, <1>3, <1>4, <1>5, <1>6, <1>7, KeptStep

(* setSwitches sets the pump; an earlier mark is void.                     *)
LEMMA KeptSetPump ==
  ASSUME TypeOK, TypeOK', Kept, NEW t \in Threads, SetPump(t)
  PROVE  Kept'
<1>1. call[t].at = "pump" /\ "sweep" \in Late
  BY DEF SetPump, Late
<1>2. call'[t].at = "sweep" /\ call'[t].to = call[t].to
  BY Moves DEF SetPump, Places
<1>3. /\ relay'["pump"] = RelaysOf(call[t].to)["pump"]
      /\ shown'["pump"] = relay'["pump"]
  BY DEF SetPump, TypeOK, Switch, ShownAs
<1>4. MarkOf(t)'
  BY <1>2 DEF SetPump, MarkOf, Early
<1>5. Written(t)' = {"pump"}
  BY <1>2 DEF Written, Stage
<1>6. \A w \in Switch :
        relay'[w] = relay[w] \/ relay'[w] = RelaysOf(call[t].to)[w]
  BY <1>3 DEF SetPump, TypeOK
<1> QED
  BY <1>1, <1>3, <1>4, <1>5, <1>6, KeptWrites DEF SetPump, history

(* The sweep: the pump is written already.                                 *)
LEMMA KeptSetSweep ==
  ASSUME TypeOK, TypeOK', Kept, NEW t \in Threads, SetSweep(t)
  PROVE  Kept'
<1>1. /\ call[t].at = "sweep" /\ {"sweep", "solar"} \subseteq Late
      /\ call[t].at \in Early \cup Late
  BY DEF SetSweep, Late
<1>2. call'[t].at = "solar" /\ call'[t].to = call[t].to
  BY Moves DEF SetSweep, Places
<1>3. Smooth =>
        relay["pump"] = RelaysOf(call[t].to)["pump"] /\ shown["pump"] = relay["pump"]
  BY <1>1, InCommand DEF Kept, Alone, Relays, Shows, Written, Stage
<1>4. /\ relay'["sweep"] = RelaysOf(call[t].to)["sweep"]
      /\ shown'["sweep"] = relay'["sweep"]
  BY DEF SetSweep, TypeOK, Switch, ShownAs
<1>5. relay'["pump"] = relay["pump"] /\ shown'["pump"] = shown["pump"]
  BY DEF SetSweep, TypeOK, Switch
<1>6. Smooth => MarkOf(t)'
  BY <1>1, <1>2, InCommand DEF SetSweep, MarkOf, Early
<1>7. Written(t)' = {"pump", "sweep"}
  BY <1>2 DEF Written, Stage
<1>8. \A w \in Switch :
        relay'[w] = relay[w] \/ relay'[w] = RelaysOf(call[t].to)[w]
  BY <1>4 DEF SetSweep, TypeOK
<1> QED
  BY <1>1, <1>3, <1>4, <1>5, <1>6, <1>7, <1>8, KeptWrites DEF SetSweep, history

(* The valve: both of the others are written already.                      *)
LEMMA KeptSetSolar ==
  ASSUME TypeOK, TypeOK', Kept, NEW t \in Threads, SetSolar(t)
  PROVE  Kept'
<1>1. /\ call[t].at = "solar" /\ {"mark", "solar"} \subseteq Late
      /\ call[t].at \in Early \cup Late
  BY DEF SetSolar, Late
<1>2. call'[t].at = "mark" /\ call'[t].to = call[t].to
  BY Moves DEF SetSolar, Places
<1>3. Smooth => \A w \in {"pump", "sweep"} :
        relay[w] = RelaysOf(call[t].to)[w] /\ shown[w] = relay[w]
  BY <1>1, InCommand DEF Kept, Alone, Relays, Shows, Written, Stage
<1>4. relay'["solar"] = RelaysOf(call[t].to)["solar"]
  BY DEF SetSolar, TypeOK, Switch
<1>5. \A w \in {"pump", "sweep"} : relay'[w] = relay[w] /\ shown'[w] = shown[w]
  BY DEF SetSolar, TypeOK, Switch
<1>6. Smooth => MarkOf(t)'
  BY <1>1, <1>2, InCommand DEF SetSolar, MarkOf, Early
<1>7. Written(t)' = Switch
  BY <1>2 DEF Written, Stage
<1>8. \A w \in Switch :
        relay'[w] = relay[w] \/ relay'[w] = RelaysOf(call[t].to)[w]
  BY <1>4 DEF SetSolar, TypeOK
<1> QED
  BY <1>1, <1>3, <1>4, <1>5, <1>6, <1>7, <1>8, KeptWrites DEF SetSolar, Switch, history

(* The mark: all switches are written already.                             *)
LEMMA KeptMark ==
  ASSUME TypeOK, TypeOK', Kept, NEW t \in Threads, Mark(t)
  PROVE  Kept'
<1>1. /\ call[t].at = "mark" /\ {"mark", "commit"} \subseteq Late
      /\ call[t].at \in Early \cup Late
  BY DEF Mark, Late
<1>2. /\ call'[t].at = "commit" /\ call'[t].to = call[t].to
      /\ call'[t].manual = call[t].manual
  BY Moves DEF Mark, Places
<1>3. Smooth =>
        /\ \A w \in Switch : relay[w] = RelaysOf(call[t].to)[w]
        /\ \A w \in Switch \ {"solar"} : shown[w] = relay[w]
  BY <1>1, InCommand DEF Kept, Alone, Relays, Shows, Written, Stage
<1>4. Smooth => MarkOf(t)'
  BY <1>1, <1>2, InCommand DEF Mark, Marks, MarkOf, Early
<1>5. Written(t)' = Switch
  BY <1>2 DEF Written, Stage
<1> QED
  BY <1>1, <1>3, <1>4, <1>5, KeptWrites DEF Mark, history

(* The end of setSwitches: a command that has met no other leaves the      *)
(* switches sound, whatever they were.                                     *)
LEMMA KeptCommit ==
  ASSUME TypeOK, TypeOK', Kept, NEW t \in Threads, Commit(t)
  PROVE  Kept'
<1> USE Stages DEF Stage
<1>1. call[t].at = "commit" /\ call[t].at \in Late /\ call[t].at \in Early \cup Late
  BY DEF Commit, Late
<1>2. /\ state' = call[t].to /\ After(t) /\ sound' = (t \notin met)
      /\ UNCHANGED <<relay, shown, marked, fresh, phase, late, met>>
  BY DEF Commit
<1>3. /\ call[t] # Idle /\ call[t] \in Call /\ OrderOf(t)
      /\ \A u \in Others(t) : call'[u] = call[u]
  BY <1>1, <1>2, InCommand, Finishes
<1>4. t # "loop" => call'[t] = Idle
  BY <1>2, <1>3, Finishes DEF OrderOf
<1>5. t = "loop" /\ phase = "disabling" =>
        call'[t].at = "disable" /\ call'[t].then = "disable" /\ call'[t].manual
  BY <1>2, <1>3, Finishes DEF OrderOf
<1>6. t = "loop" /\ phase # "disabling" =>
        /\ call'[t].at \in {"sync", "stopAll"}
        /\ call'[t].then \in {"sync", "daily"} /\ ~call'[t].manual
        /\ ~call[t].manual
  <2>1. t = "loop" /\ phase # "disabling" =>
          call[t].then \in {"sync", "daily"} /\ ~call[t].manual
    BY <1>3 DEF OrderOf, Call
  <2> QED
    BY <1>2, <2>1, Finishes
<1>7. ASSUME Smooth
      PROVE  /\ TargetOf(t) /\ MarkOf(t)
             /\ \A u \in Threads \ {t} : call'[u] = Idle
             /\ \A w \in Switch : relay'[w] = RelaysOf(state')[w]
             /\ \A w \in {"pump", "sweep"} : shown'[w] = relay'[w]
             /\ sound'
  <2>1. \A w \in Switch : relay'[w] = RelaysOf(state')[w]
    BY <1>1, <1>2, <1>7, InCommand DEF Kept, Alone, Relays, Written
  <2>2. \A w \in {"pump", "sweep"} : shown'[w] = relay'[w]
    BY <1>1, <1>2, <1>7, InCommand DEF Kept, Alone, Shows, Written, Switch
  <2>3. sound'
    BY <1>2, <1>3, <1>7 DEF Smooth
  <2> QED
    BY <1>1, <1>3, <1>7, <2>1, <2>2, <2>3, InCommand DEF Others
<1>8. call'[t] # Idle => OrderOf(t)'
  BY <1>2, <1>3, <1>4, <1>5, <1>6 DEF OrderOf, Late
<1>9. Ended'
  BY <1>1, <1>2, <1>3, <1>4, <1>5, StepEnded DEF Late
<1>10. Stopped'
  <2>1. t = "main" /\ Smooth /\ call'[t] = Idle =>
          /\ state' \in StopTargets /\ \A w \in Switch : ~relay'[w]
          /\ ManualState'
    <3> SUFFICES ASSUME t = "main", Smooth
                 PROVE  /\ state' \in StopTargets /\ \A w \in Switch : ~relay'[w]
                        /\ ManualState'
      OBVIOUS
    <3>1. state' \in StopTargets
      BY <1>1, <1>2, <1>3 DEF OrderOf
    <3>2. \A w \in Switch : ~relay'[w]
      BY <1>7, <3>1, StopsAll
    <3>3. ManualState'
      BY <1>1, <1>2, <1>3, <1>7 DEF OrderOf, MarkOf, ManualState
    <3> QED
      BY <3>1, <3>2, <3>3
  <2> QED
    BY <1>1, <1>2, <1>3, <2>1, StepStopped
<1>11. ASSUME Smooth PROVE Alone'
  <2>1. CASE t # "loop"
    <3>1. \A u \in Threads : call'[u] = Idle
      BY <1>4, <1>7, <1>11, <2>1
    <3> QED
      BY <1>7, <1>11, <3>1, AloneFree
  <2>2. CASE t = "loop" /\ phase = "disabling"
    <3>1. state' \in StopTargets
      BY <1>1, <1>2, <1>3, <2>2 DEF OrderOf
    <3>2. TargetOf(t)' /\ MarkOf(t)' /\ Stage(t)' \notin Late
      BY <1>5, <1>7, <1>11, <2>2, <3>1 DEF TargetOf, MarkOf, Late, Early
    <3> QED
      BY <1>7, <1>11, <3>2, AloneBusy
  <2>3. CASE t = "loop" /\ phase # "disabling"
    <3>1. ~ManualState
      BY <1>1, <1>6, <1>7, <1>11, <2>3 DEF MarkOf, ManualState
    <3>2. TargetOf(t)' /\ MarkOf(t)' /\ Stage(t)' \notin Late
      BY <1>2, <1>6, <2>3, <3>1 DEF TargetOf, MarkOf, ManualState, Early, Late
    <3> QED
      BY <1>7, <1>11, <3>2, AloneBusy
  <2> QED
    BY <2>1, <2>2, <2>3
<1> QED
  BY <1>2, <1>3, <1>8, <1>9, <1>10, <1>11, KeptStep

(* What holds when every goroutine is free.                                *)
LEMMA Free ==
  ASSUME Kept, \A t \in Threads : call[t] = Idle
  PROVE  /\ Smooth /\ Writing = {}
         /\ sound => \A w \in Switch : relay[w] = RelaysOf(state)[w]
         /\ sound /\ state # "DISABLED" =>
              \A w \in {"pump", "sweep"} : shown[w] = relay[w]
<1>1. \A t \in Threads : Stage(t) = "idle"
  BY Stages DEF Stage
<1>2. Writing = {} /\ ~Asked /\ Smooth
  BY <1>1, Stages DEF Writing, Late, Stage, Asked, Threads, Smooth
<1> QED
  BY <1>2 DEF Kept, Alone, Relays, Shows

(* A command that begins meets those in progress, or there are none.       *)
LEMMA Beginning ==
  ASSUME TypeOK, Pairs, NEW t \in Threads, NEW at \in Places,
         NEW to \in State, NEW manual \in BOOLEAN, NEW then \in Sequels,
         Begin(t, at, to, manual, then), at # "idle"
  PROVE  /\ call[t] = Idle /\ ~exited /\ call'[t] # Idle
         /\ call'[t].at = at /\ call'[t].to = to /\ call'[t].manual = manual
         /\ call'[t].then = then
         /\ \A u \in Others(t) : call'[u] = call[u]
         /\ \A u \in Others(t) : u \notin met' => u \notin met /\ call[u] = Idle
         /\ Pairs' /\ (sound' => sound /\ Smooth')
         /\ Smooth' =>
              /\ \A u \in Threads : call[u] = Idle
              /\ \A u \in Threads \ {t} : call'[u] = Idle
         /\ t \notin met' => \A u \in Threads : call[u] = Idle
<1>1. /\ call'[t] = [at |-> at, to |-> to, manual |-> manual, then |-> then]
      /\ \A u \in Others(t) : call'[u] = call[u]
      /\ ~exited /\ call[t] = Idle
      /\ Busy = {} => met' = met \ {t} /\ sound' = sound
      /\ Busy # {} => met' = met \cup Busy \cup {t} /\ sound' = FALSE
  <2>1. Busy = {} => met' = met \ {t} /\ sound' = sound
    BY DEF Begin, Meet
  <2>2. Busy # {} => met' = met \cup Busy \cup {t} /\ sound' = FALSE
    BY DEF Begin, Meet
  <2>3. /\ call'[t] = [at |-> at, to |-> to, manual |-> manual, then |-> then]
        /\ \A u \in Others(t) : call'[u] = call[u]
        /\ ~exited /\ call[t] = Idle
    BY Begins
  <2> QED
    BY <2>1, <2>2, <2>3
<1>2. /\ call'[t] # Idle /\ call'[t].at = at /\ call'[t].to = to
      /\ call'[t].manual = manual /\ call'[t].then = then
  BY <1>1 DEF Idle
<1>3. CASE Busy = {}
  <2>1. \A u \in Threads : call[u] = Idle
    BY <1>3 DEF Busy
  <2>2. \A u \in Threads \ {t} : call'[u] = Idle
    BY <1>1, <2>1 DEF Others
  <2>3. Pairs' /\ Smooth'
    BY <1>1, <1>3, <2>2 DEF Pairs, Smooth, Others
  <2> QED
    BY <1>1, <1>2, <1>3, <2>1, <2>2, <2>3 DEF Others
<1>4. CASE Busy # {}
  <2>1. \A u \in Threads : call'[u] # Idle => u \in met'
    BY <1>1, <1>4 DEF Busy, Others
  <2>2. Pairs' /\ ~Smooth'
    BY <1>2, <2>1 DEF Pairs, Smooth
  <2> QED
    BY <1>1, <1>2, <1>4, <2>2 DEF Others, Busy
<1> QED
  BY <1>3, <1>4

(* A person's command begins.                                              *)
LEMMA KeptAsks ==
  ASSUME TypeOK, Kept, NEW t \in {"homekit", "button"},
         NEW at \in {"check", "stopAll"}, NEW to \in State \ {"DISABLED"},
         Begin(t, at, to, TRUE, "return"),
         UNCHANGED <<state, relay, marked, fresh, phase>>,
         late' = (phase # "running"),
         Smooth' /\ sound' /\ state' # "DISABLED" /\ ~Asked' =>
           \A w \in {"pump", "sweep"} : shown'[w] = relay'[w]
  PROVE  Kept'
<1> USE Stages DEF Stage
<1>1. /\ t \in Threads /\ t # "loop" /\ t # "main" /\ at \in Places
      /\ at # "idle" /\ "return" \in Sequels /\ TRUE \in BOOLEAN
  BY DEF Threads, Places, Sequels
<1>2. Pairs
  BY DEF Kept
<1>3. /\ call[t] = Idle /\ call'[t] # Idle
      /\ call'[t].at = at /\ call'[t].to = to /\ call'[t].manual
      /\ call'[t].then = "return"
      /\ \A u \in Others(t) : call'[u] = call[u]
      /\ \A u \in Others(t) : u \notin met' => u \notin met /\ call[u] = Idle
      /\ Pairs' /\ (sound' => sound /\ Smooth')
      /\ Smooth' =>
           /\ \A u \in Threads : call[u] = Idle
           /\ \A u \in Threads \ {t} : call'[u] = Idle
  <2>1. call'[t] = [at |-> at, to |-> to, manual |-> TRUE, then |-> "return"]
    BY <1>1, Begins
  <2>2. call[t] = Idle /\ call'[t] # Idle
    BY <1>1, <1>2, Beginning
  <2>3. /\ \A u \in Others(t) : call'[u] = call[u]
        /\ \A u \in Others(t) : u \notin met' => u \notin met /\ call[u] = Idle
    BY <1>1, <1>2, Beginning
  <2>4. /\ Pairs' /\ (sound' => sound /\ Smooth')
        /\ Smooth' =>
             /\ \A u \in Threads : call[u] = Idle
             /\ \A u \in Threads \ {t} : call'[u] = Idle
    BY <1>1, <1>2, Beginning
  <2> QED
    BY <2>1, <2>2, <2>3, <2>4
<1>4. OrderOf(t)' /\ TargetOf(t)' /\ MarkOf(t)'
  BY <1>1, <1>3 DEF OrderOf, TargetOf, MarkOf, Early, Late
<1>5. Orders'
  BY <1>3, <1>4 DEF Kept, Orders, OrderOf, Others
<1>6. Ended'
  <2> SUFFICES ASSUME Down', "loop" \notin met'
               PROVE  /\ state' = "DISABLED" /\ \A w \in Switch : ~relay'[w]
                      /\ \A u \in Threads :
                           Stage(u)' \in Late \cup {"pump"} => call'[u].to = "DISABLED"
    BY DEF Ended
  <2>1. Down /\ "loop" \notin met
    BY <1>1, <1>3 DEF Down, Others, Threads
  <2> QED
    BY <1>3, <2>1 DEF Kept, Ended, Others, Late
<1>7. Stopped'
  BY DEF Stopped
<1>8. ASSUME Smooth' PROVE Alone'
  <2>1. Stage(t)' \notin Late
    BY <1>3 DEF Late
  <2>2. sound' => \A w \in Switch : relay'[w] = RelaysOf(state')[w]
    BY <1>3, <1>8, Free
  <2> QED
    BY <1>1, <1>3, <1>4, <1>8, <2>1, <2>2, AloneBusy
<1> QED
  BY <1>3, <1>5, <1>6, <1>7, <1>8 DEF Kept

(* HomeKit asks for something else than there is when the switches are     *)
(* sound.                                                                  *)
LEMMA KeptHomeKit ==
  ASSUME TypeOK, TypeOK', Kept, NEW w \in Switch, HomeKit(w)
  PROVE  Kept'
<1> DEFINE on == ~shown[w]
<1>1. PICK at \in {"check", "stopAll"}, to \in State \ {"DISABLED"} :
        /\ Begin("homekit", at, to, TRUE, "return")
        /\ w = "pump" /\ ~on => at = "stopAll"
        /\ at = "check" => to = HomeKitTarget(w, on)
  <2>1. CASE w = "pump" /\ ~on
    BY <2>1 DEF HomeKit, State
  <2>2. CASE ~(w = "pump" /\ ~on)
    <3>1. HomeKitTarget(w, on) \in State \ {"DISABLED"}
      BY <2>2 DEF HomeKitTarget, TypeOK, State, Switch
    <3> QED
      BY <2>2, <3>1 DEF HomeKit
  <2> QED
    BY <2>1, <2>2
<1>2. /\ UNCHANGED <<state, relay, marked, fresh, phase>>
      /\ late' = (phase # "running")
      /\ shown' = [shown EXCEPT ![w] = on]
  BY DEF HomeKit
<1>3. Smooth' /\ sound' /\ state' # "DISABLED" /\ ~Asked' =>
        \A v \in {"pump", "sweep"} : shown'[v] = relay'[v]
  <2> SUFFICES ASSUME Smooth', sound', state' # "DISABLED", ~Asked'
               PROVE  \A v \in {"pump", "sweep"} : shown'[v] = relay'[v]
    OBVIOUS
  <2>1. /\ "homekit" \in Threads /\ at \in Places /\ "return" \in Sequels
        /\ at # "idle" /\ Pairs /\ TRUE \in BOOLEAN
    BY DEF Threads, Places, Sequels, Kept
  <2>2. /\ sound /\ \A u \in Threads : call[u] = Idle
        /\ call'["homekit"].at = at /\ call'["homekit"].to = to
    BY <1>1, <2>1, Beginning
  <2>3. at = "check" /\ to = state
    BY <1>2, <2>2 DEF Asked, Stage
  <2>4. w \in {"pump", "sweep"} => shown[w] = relay[w] /\ relay[w] = RelaysOf(state)[w]
    BY <1>2, <2>1, <2>2, Free DEF Switch
  <2>5. w # "pump"
    BY <1>1, <2>3, <2>4, RelaysAre DEF HomeKitTarget, TypeOK, Running, Switch
  <2>6. w # "sweep"
    BY <1>1, <2>3, <2>4, RelaysAre DEF HomeKitTarget, TypeOK, Switch
  <2>7. \A v \in {"pump", "sweep"} : shown'[v] = shown[v]
    BY <1>2, <2>5, <2>6 DEF TypeOK, Switch
  <2>8. \A v \in {"pump", "sweep"} : shown[v] = relay[v]
    BY <1>2, <2>2, Free
  <2> QED
    BY <1>2, <2>7, <2>8
<1> QED
  BY <1>1, <1>2, <1>3, KeptAsks

(* The button's request is never for DISABLED.                             *)
LEMMA KeptButton ==
  ASSUME TypeOK, TypeOK', Kept, Button
  PROVE  Kept'
<1>1. ButtonTarget \in State \ {"DISABLED"}
  BY TargetType
<1>2. /\ Begin("button", "check", ButtonTarget, TRUE, "return")
      /\ UNCHANGED <<state, relay, shown, marked, fresh, phase>>
      /\ late' = (phase # "running")
  BY DEF Button
<1>3. Smooth' /\ sound' /\ state' # "DISABLED" =>
        \A w \in {"pump", "sweep"} : shown'[w] = relay'[w]
  <2>1. /\ "button" \in Threads /\ "check" \in Places /\ "return" \in Sequels
        /\ ButtonTarget \in State /\ Pairs /\ TRUE \in BOOLEAN
    BY <1>1 DEF Threads, Places, Sequels, Kept
  <2>2. Smooth' => \A u \in Threads : call[u] = Idle
    BY <1>2, <2>1, Beginning
  <2>3. sound' => sound
    BY <1>2, <2>1, Beginning
  <2> QED
    BY <1>2, <2>2, <2>3, Free
<1> QED
  BY <1>1, <1>2, <1>3, KeptAsks

(* A setting changes, the run time passes, or a longer one makes a manual  *)
(* operation hold again.                                                   *)
LEMMA KeptQuiet ==
  ASSUME Kept,
         UNCHANGED <<state, relay, shown, marked, call, phase, late>>,
         \/ UNCHANGED <<fresh, met, sound>>
         \/ /\ phase # "stopping" /\ \A t \in Threads : call[t] = Idle
            /\ UNCHANGED <<met, sound>>
         \/ fresh' = TRUE /\ UNCHANGED <<met, sound>>
              /\ (call["loop"] = Idle \/ call["loop"].manual)
         \/ fresh' = TRUE /\ met' = met \cup {"loop"} /\ sound' = FALSE
              /\ call["loop"] # Idle
  PROVE  Kept'
<1>1. /\ Writing' = Writing /\ Asked' = Asked /\ StopTarget' = StopTarget
      /\ Down' = Down
      /\ \A t \in Threads : Written(t)' = Written(t) /\ Stage(t)' = Stage(t)
  BY DEF Writing, Asked, Stage, StopTarget, Down, Written
<1>2. Pairs' /\ Orders'
  <2>1. Pairs'
    BY DEF Kept, Pairs
  <2>2. Orders'
    BY DEF Kept, Orders, OrderOf
  <2> QED
    BY <2>1, <2>2
<1>3. Ended'
  BY <1>1 DEF Kept, Ended
<1>4. Stopped'
  <2>1. phase = "stopping" /\ ManualState => ManualState'
    BY DEF ManualState
  <2>2. "main" \notin met' => "main" \notin met
    OBVIOUS
  <2> QED
    BY <1>1, <2>1, <2>2 DEF Kept, Stopped, Threads
<1>5. (Smooth' => Smooth) /\ (sound' => Smooth')
  BY DEF Kept, Smooth, Threads
<1>6. ASSUME Smooth' PROVE Alone'
  <2>1. sound' = sound /\ Alone
    BY <1>5, <1>6 DEF Kept, Smooth, Threads
  <2>2. Targets' /\ Relays' /\ Shows'
    BY <1>1, <2>1 DEF Alone, Targets, TargetOf, Relays, Shows, Writing
  <2>3. MarksKept'
    <3>1. \A t \in Threads : call[t] # Idle /\ ~call[t].manual => t = "loop"
      BY DEF Kept, Orders, OrderOf
    <3>2. call["loop"] # Idle /\ fresh' # fresh => call["loop"].manual
      BY <1>6 DEF Smooth, Threads
    <3> QED
      BY <2>1, <3>1, <3>2 DEF Alone, MarksKept, MarkOf, ManualState
  <2> QED
    BY <2>2, <2>3 DEF Alone
<1> QED
  BY <1>2, <1>3, <1>4, <1>5, <1>6 DEF Kept

(* The loop: it reads the state, ...                                       *)
LEMMA KeptLoopRead ==
  ASSUME TypeOK, TypeOK', Kept, LoopRead
  PROVE  Kept'
<1> USE Stages DEF Stage
<1>1. /\ "loop" \in Threads /\ "decide" \in Places /\ "decide" # "idle"
      /\ "sync" \in Sequels /\ state \in State /\ FALSE \in BOOLEAN
      /\ "main" \in Others("loop") /\ Pairs
  BY DEF Threads, Places, Sequels, TypeOK, Others, Kept
<1>2. /\ Begin("loop", "decide", state, FALSE, "sync")
      /\ UNCHANGED <<state, relay, shown, marked, fresh, phase, late>>
      /\ phase \in {"running", "stopping"}
  BY DEF LoopRead
<1>3. /\ call["loop"] = Idle
      /\ \A u \in Others("loop") : call'[u] = call[u]
      /\ \A u \in Others("loop") : u \notin met' => u \notin met /\ call[u] = Idle
      /\ Pairs' /\ (sound' => sound /\ Smooth')
      /\ Smooth' =>
           /\ \A u \in Threads : call[u] = Idle
           /\ \A u \in Threads \ {"loop"} : call'[u] = Idle
  BY <1>1, <1>2, Beginning
<1>4. /\ call'["loop"].at = "decide" /\ ~call'["loop"].manual
      /\ call'["loop"].then = "sync" /\ call'["loop"] # Idle
  <2>1. call'["loop"] =
          [at |-> "decide", to |-> state, manual |-> FALSE, then |-> "sync"]
    BY <1>1, <1>2, Begins
  <2> QED
    BY <2>1
<1>5. OrderOf("loop")' /\ TargetOf("loop")' /\ MarkOf("loop")'
  BY <1>2, <1>4 DEF OrderOf, TargetOf, MarkOf, Early, Late
<1>6. Orders'
  BY <1>2, <1>3, <1>5 DEF Kept, Orders, OrderOf, Others
<1>7. Ended'
  BY <1>2 DEF Ended, Down
<1>8. Stopped'
  BY <1>1, <1>2, <1>3, <1>4 DEF Kept, Stopped, ManualState, Others, Threads
<1>9. ASSUME Smooth' PROVE Alone'
  <2>1. Stage("loop")' \notin Late
    BY <1>4 DEF Late
  <2>2. /\ sound' => \A w \in Switch : relay'[w] = RelaysOf(state')[w]
        /\ sound' /\ state' # "DISABLED" /\ ~Asked' =>
             \A w \in {"pump", "sweep"} : shown'[w] = relay'[w]
    BY <1>2, <1>3, <1>9, Free
  <2> QED
    BY <1>1, <1>3, <1>5, <1>9, <2>1, <2>2, AloneBusy
<1> QED
  BY <1>3, <1>6, <1>7, <1>8, <1>9 DEF Kept

(* What holds while the loop decides, synchronises the accessory or is     *)
(* about to disable.                                                       *)
LEMMA InLoop ==
  ASSUME TypeOK, Kept, call["loop"].at \in {"decide", "sync", "disable"}
  PROVE  /\ "loop" \in Threads /\ call["loop"] # Idle /\ call["loop"] \in Call
         /\ OrderOf("loop")
         /\ Smooth =>
              /\ \A t \in Threads \ {"loop"} : call[t] = Idle
              /\ TargetOf("loop") /\ MarkOf("loop") /\ Writing = {}
              /\ sound => \A w \in Switch : relay[w] = RelaysOf(state)[w]
              /\ sound /\ state # "DISABLED" =>
                   \A w \in {"pump", "sweep"} : shown[w] = relay[w]
<1> USE Stages DEF Stage
<1>1. "loop" \in Threads /\ call["loop"] # Idle /\ call["loop"] \in Call
  BY DEF TypeOK, Threads
<1>2. Smooth =>
        /\ \A t \in Threads \ {"loop"} : call[t] = Idle
        /\ Writing = {} /\ ~Asked
  BY <1>1, Lonely DEF Kept
<1>3. Smooth => TargetOf("loop") /\ MarkOf("loop")
  BY <1>1 DEF Kept, Alone, Targets, MarksKept
<1> QED
  BY <1>1, <1>2, <1>3 DEF Kept, Orders, Alone, Relays, Shows

(* ... decides, ...                                                        *)
LEMMA KeptLoopDecide ==
  ASSUME TypeOK, TypeOK', Kept, LoopDecide
  PROVE  Kept'
<1> USE Stages DEF Stage
<1>1. call["loop"].at = "decide" /\ call["loop"].at \notin Late \cup {"pump"}
  BY DEF LoopDecide, Late
<1>2. /\ "loop" \in Threads /\ call["loop"] # Idle /\ call["loop"] \in Call
      /\ OrderOf("loop")
      /\ Smooth => \A t \in Threads \ {"loop"} : call[t] = Idle
  BY <1>1, InLoop
<1>3. /\ UNCHANGED <<state, relay, shown, marked, fresh, phase, late, met, sound>>
      /\ ManualState' = ManualState
  BY DEF LoopDecide, ManualState, history
<1>4. /\ \A u \in Others("loop") : call'[u] = call[u]
      /\ phase \in {"running", "stopping"} /\ ~call["loop"].manual
      /\ call["loop"].then \notin {"return", "disable"}
  BY <1>1, <1>2, LoopDecides DEF OrderOf
<1>5. /\ call'["loop"].at \in Early \cup {"sync"} /\ ~call'["loop"].manual
      /\ call'["loop"].then \notin {"return", "disable"}
      /\ call'["loop"].at = "check" =>
           call'["loop"].to \in {"MIXING", "SOLAR", "SWEEP"}
      /\ call'["loop"].at = "pump" => call'["loop"].to \in StopTargets
      /\ call'["loop"].at \in Early => ~ManualState
  <2>1. CASE Goto("loop", "sync")
    BY <1>2, <1>4, <2>1, Moves DEF Places, Early
  <2>2. CASE Goto("loop", "stopAll") /\ ~ManualState
    BY <1>2, <1>4, <2>2, Moves DEF Places, Early
  <2>3. CASE /\ ~ManualState
             /\ \E s \in {"OFF", "DISABLED"} :
                  call'["loop"] = [call["loop"] EXCEPT !.at = "pump", !.to = s]
    BY <1>2, <1>4, <2>3 DEF Call, Early, StopTargets
  <2>4. CASE /\ ~ManualState
             /\ \E s \in {"MIXING", "SOLAR", "SWEEP"}, then \in {"sync", "daily"} :
                  call'["loop"] = [at |-> "check", to |-> s, manual |-> FALSE,
                                   then |-> then]
    BY <2>4 DEF Early
  <2> QED
    BY <2>1, <2>2, <2>3, <2>4, LoopDecides
<1>6. OrderOf("loop")' /\ Stage("loop")' \notin Late /\ Stage("loop")' # "idle"
  BY <1>3, <1>4, <1>5 DEF OrderOf, Early, Late
<1>7. Ended'
  BY <1>3, <1>4 DEF Ended, Down
<1>8. Stopped'
  <2>1. ManualState => call'["loop"].at \in {"idle", "sync"}
    BY <1>5
  <2>2. "loop" # "main" /\ state' = state /\ \A w \in Switch : relay'[w] = relay[w]
    BY <1>3
  <2> QED
    BY <1>1, <1>2, <1>3, <1>4, <2>1, <2>2, StepStopped
<1>9. ASSUME Smooth PROVE Alone'
  <2>1. TargetOf("loop")' /\ MarkOf("loop")'
    BY <1>3, <1>5, <1>6 DEF TargetOf, MarkOf, Early, Late, StopTargets
  <2>2. /\ \A u \in Threads \ {"loop"} : call'[u] = Idle
        /\ sound' => \A w \in Switch : relay'[w] = RelaysOf(state')[w]
        /\ sound' /\ state' # "DISABLED" =>
             \A w \in {"pump", "sweep"} : shown'[w] = relay'[w]
    BY <1>1, <1>3, <1>4, <1>9, InLoop DEF Others
  <2> QED
    BY <1>2, <1>6, <2>1, <2>2, AloneBusy
<1> QED
  BY <1>2, <1>3, <1>4, <1>6, <1>7, <1>8, <1>9, KeptStep

(* ... and ends its iteration; at its own end it disables the switches.    *)
LEMMA KeptLoopSync ==
  ASSUME TypeOK, TypeOK', Kept, LoopSync
  PROVE  Kept'
<1> USE Stages DEF Stage
<1>1. /\ call["loop"].at = "sync" /\ call' = [call EXCEPT !["loop"] = Idle]
      /\ UNCHANGED <<state, relay, marked, fresh, phase, late, met, sound>>
      /\ shown'["pump"] = shown["pump"] /\ shown'["sweep"] = shown["sweep"]
  BY DEF LoopSync, TypeOK, Switch, history
<1>2. /\ "loop" \in Threads /\ call["loop"] # Idle /\ OrderOf("loop")
      /\ call'["loop"] = Idle /\ \A u \in Others("loop") : call'[u] = call[u]
  BY <1>1, InLoop DEF TypeOK, Others
<1>3. Ended'
  BY <1>1, <1>2 DEF OrderOf, Ended, Down
<1>4. Stopped'
  <2>1. "loop" # "main" /\ call'["loop"].at = "idle" /\ ManualState' = ManualState
    BY <1>1, <1>2 DEF ManualState
  <2> QED
    BY <1>1, <1>2, <2>1, StepStopped
<1>5. ASSUME Smooth PROVE Alone'
  <2>1. \A u \in Threads : call'[u] = Idle
    BY <1>1, <1>2, <1>5, InLoop DEF Others
  <2> QED
    BY <1>1, <1>5, <2>1, InLoop, AloneFree
<1> QED
  BY <1>1, <1>2, <1>3, <1>4, <1>5, KeptStep

(* Disable follows a StopAll, so that nothing runs.                        *)
LEMMA KeptDisable ==
  ASSUME TypeOK, TypeOK', Kept, Disable
  PROVE  Kept'
<1> USE Stages DEF Stage
<1>1. /\ call["loop"].at = "disable" /\ call' = [call EXCEPT !["loop"] = Idle]
      /\ state' = "DISABLED"
      /\ UNCHANGED <<relay, phase, late, met, sound>>
  BY DEF Disable, history
<1>2. /\ "loop" \in Threads /\ call["loop"] # Idle /\ OrderOf("loop")
      /\ call'["loop"] = Idle /\ \A u \in Others("loop") : call'[u] = call[u]
  BY <1>1, InLoop DEF TypeOK, Others
<1>3. Smooth =>
        /\ \A u \in Threads : call'[u] = Idle
        /\ \A w \in Switch : ~relay'[w]
        /\ \A w \in Switch : relay'[w] = RelaysOf("DISABLED")[w]
  <2> SUFFICES ASSUME Smooth
               PROVE  /\ \A u \in Threads : call'[u] = Idle
                      /\ \A w \in Switch : ~relay'[w]
                      /\ \A w \in Switch : relay'[w] = RelaysOf("DISABLED")[w]
    OBVIOUS
  <2>1. /\ state \in StopTargets
        /\ \A w \in Switch : relay[w] = RelaysOf(state)[w]
    BY <1>1, InLoop DEF TargetOf
  <2>2. \A w \in Switch : RelaysOf(state)[w] = RelaysOf("DISABLED")[w]
    BY <2>1, RelaysAre DEF Switch, StopTargets, Running
  <2>3. \A u \in Threads : call'[u] = Idle
    BY <1>1, <1>2, InLoop DEF Others
  <2> QED
    BY <1>1, <2>1, <2>2, <2>3, StopsAll
<1>4. Ended'
  <2>1. "loop" \notin met => Smooth
    BY <1>2, Lonely DEF Kept
  <2> QED
    BY <1>1, <1>3, <2>1 DEF Ended, Late
<1>5. Stopped'
  <2>1. "loop" # "main" /\ call["loop"].at \notin {"decide", "sync"}
    BY <1>1
  <2> QED
    BY <1>1, <1>2, <2>1, StepStopped
<1>6. Smooth => Alone'
  BY <1>1, <1>3, AloneFree
<1> QED
  BY <1>1, <1>2, <1>4, <1>5, <1>6, KeptStep

(* The termination handler's command.                                      *)
LEMMA KeptBeginStop ==
  ASSUME TypeOK, TypeOK', Kept, BeginStop
  PROVE  Kept'
<1> USE Stages DEF Stage
<1>1. /\ "main" \in Threads /\ "stopAll" \in Places /\ "OFF" \in State
      /\ "stopAll" # "idle" /\ "return" \in Sequels /\ TRUE \in BOOLEAN
      /\ "loop" \in Others("main") /\ Pairs
  BY DEF Threads, Places, State, Sequels, Others, Kept
<1>2. /\ Begin("main", "stopAll", "OFF", TRUE, "return")
      /\ UNCHANGED <<state, relay, shown>>
      /\ phase = "running" /\ phase' = "stopping"
  BY DEF BeginStop
<1>3. /\ call["main"] = Idle
      /\ \A u \in Others("main") : call'[u] = call[u]
      /\ Pairs' /\ (sound' => sound /\ Smooth')
      /\ Smooth' =>
           /\ \A u \in Threads : call[u] = Idle
           /\ \A u \in Threads \ {"main"} : call'[u] = Idle
      /\ "main" \notin met' => \A u \in Threads : call[u] = Idle
  BY <1>1, <1>2, Beginning
<1>4. /\ call'["main"].at = "stopAll" /\ call'["main"].manual
      /\ call'["main"].then = "return" /\ call'["main"] # Idle
  <2>1. call'["main"] =
          [at |-> "stopAll", to |-> "OFF", manual |-> TRUE, then |-> "return"]
    BY <1>1, <1>2, Begins
  <2> QED
    BY <2>1
<1>5. OrderOf("main")' /\ TargetOf("main")' /\ MarkOf("main")'
  BY <1>2, <1>4 DEF OrderOf, TargetOf, MarkOf, Early, Late
<1>6. Orders'
  BY <1>2, <1>3, <1>5 DEF Kept, Orders, OrderOf, Others
<1>7. Ended'
  BY <1>2 DEF Ended, Down
<1>8. Stopped'
  BY <1>2, <1>3, <1>4 DEF Stopped, Others, Threads
<1>9. ASSUME Smooth' PROVE Alone'
  <2>1. Stage("main")' \notin Late
    BY <1>4 DEF Late
  <2>2. /\ sound' => \A w \in Switch : relay'[w] = RelaysOf(state')[w]
        /\ sound' /\ state' # "DISABLED" /\ ~Asked' =>
             \A w \in {"pump", "sweep"} : shown'[w] = relay'[w]
    BY <1>2, <1>3, <1>9, Free
  <2> QED
    BY <1>1, <1>3, <1>5, <1>9, <2>1, <2>2, AloneBusy
<1> QED
  BY <1>3, <1>6, <1>7, <1>8, <1>9 DEF Kept

(* The loop's last command.                                                *)
LEMMA KeptBeginDisable ==
  ASSUME TypeOK, TypeOK', Kept, BeginDisable
  PROVE  Kept'
<1> USE Stages DEF Stage
<1>1. /\ "loop" \in Threads /\ "stopAll" \in Places /\ "OFF" \in State
      /\ "stopAll" # "idle" /\ "disable" \in Sequels /\ TRUE \in BOOLEAN
      /\ "main" \in Others("loop") /\ Pairs
  BY DEF Threads, Places, State, Sequels, Others, Kept
<1>2. /\ Begin("loop", "stopAll", "OFF", TRUE, "disable")
      /\ UNCHANGED <<state, relay, shown, late>>
      /\ phase = "deaf" /\ phase' = "disabling"
  BY DEF BeginDisable
<1>3. /\ \A u \in Others("loop") : call'[u] = call[u]
      /\ \A u \in Others("loop") : u \notin met' => u \notin met /\ call[u] = Idle
      /\ Pairs' /\ (sound' => sound /\ Smooth')
      /\ Smooth' =>
           /\ \A u \in Threads : call[u] = Idle
           /\ \A u \in Threads \ {"loop"} : call'[u] = Idle
  BY <1>1, <1>2, Beginning
<1>4. /\ call'["loop"].at = "stopAll" /\ call'["loop"].manual
      /\ call'["loop"].then = "disable" /\ call'["loop"] # Idle
  <2>1. call'["loop"] =
          [at |-> "stopAll", to |-> "OFF", manual |-> TRUE, then |-> "disable"]
    BY <1>1, <1>2, Begins
  <2> QED
    BY <2>1
<1>5. OrderOf("loop")' /\ TargetOf("loop")' /\ MarkOf("loop")'
  BY <1>2, <1>4 DEF OrderOf, TargetOf, MarkOf, Early, Late
<1>6. Orders'
  BY <1>2, <1>3, <1>5 DEF Kept, Orders, OrderOf, Others
<1>7. Ended'
  BY <1>4 DEF Ended, Down
<1>8. Stopped'
  BY <1>1, <1>2, <1>3 DEF Kept, Stopped, Others, Threads
<1>9. ASSUME Smooth' PROVE Alone'
  <2>1. Stage("loop")' \notin Late
    BY <1>4 DEF Late
  <2>2. /\ sound' => \A w \in Switch : relay'[w] = RelaysOf(state')[w]
        /\ sound' /\ state' # "DISABLED" /\ ~Asked' =>
             \A w \in {"pump", "sweep"} : shown'[w] = relay'[w]
    BY <1>2, <1>3, <1>9, Free
  <2> QED
    BY <1>1, <1>3, <1>5, <1>9, <2>1, <2>2, AloneBusy
<1> QED
  BY <1>3, <1>6, <1>7, <1>8, <1>9 DEF Kept

(* The termination handler meets the loop, the loop meets the button, the  *)
(* loop ends.                                                              *)
LEMMA KeptPhase ==
  ASSUME Kept, Signal \/ StopButton \/ LeaveLoop
  PROVE  Kept'
<1> USE DEF history
<1>1. /\ UNCHANGED <<state, relay, shown, marked, fresh, call, late, met, sound>>
      /\ \/ /\ phase = "stopping" /\ phase' = "signalled"
            /\ call["main"] = Idle /\ call["loop"] = Idle
         \/ phase = "signalled" /\ phase' = "deaf"
         \/ phase = "disabling" /\ phase' = "ended" /\ call["loop"] = Idle
  BY DEF Signal, StopButton, LeaveLoop
<1>2. call["loop"] = Idle /\ call["main"] = Idle
  BY <1>1 DEF Kept, Orders, OrderOf, Threads
<1>3. /\ Writing' = Writing /\ Asked' = Asked /\ StopTarget' = StopTarget
      /\ \A t \in Threads : Written(t)' = Written(t) /\ Stage(t)' = Stage(t)
  BY <1>1 DEF Writing, Asked, Stage, StopTarget, Written
<1>4. Pairs' /\ Smooth' = Smooth
  BY <1>1 DEF Kept, Pairs, Smooth
<1>5. Orders'
  BY <1>1, <1>2 DEF Kept, Orders, OrderOf
<1>6. Ended'
  BY <1>1, <1>3 DEF Kept, Ended, Down
<1>7. Stopped'
  BY <1>1, <1>2 DEF Kept, Stopped
<1>8. Alone => Alone'
  BY <1>1, <1>3
  DEF Alone, Targets, TargetOf, MarksKept, MarkOf, ManualState, Relays, Shows, Writing
<1> QED
  BY <1>1, <1>4, <1>5, <1>6, <1>7, <1>8 DEF Kept

(* Every step keeps what commands keep.                                    *)
LEMMA StepKept ==
  ASSUME TypeOK, Kept, [Next]_vars
  PROVE  Kept'
<1> USE StepType DEF history
<1>1. ASSUME NEW w \in Switch, HomeKit(w) PROVE Kept'
  BY <1>1, KeptHomeKit
<1>2. CASE Button
  BY <1>2, KeptButton
<1>3. CASE Configure
  <2>1. UNCHANGED <<state, relay, shown, marked, call, phase, late>>
    BY <1>3 DEF Configure
  <2>2. CASE UNCHANGED <<fresh, met, sound>>
    BY <2>1, <2>2, KeptQuiet
  <2>3. CASE Revive
    BY <2>1, <2>3, KeptQuiet DEF Revive
  <2> QED
    BY <1>3, <2>2, <2>3 DEF Configure
<1>4. CASE Expire
  BY <1>4, KeptQuiet DEF Expire
<1>5. CASE LoopRead
  BY <1>5, KeptLoopRead
<1>6. CASE LoopStep
  BY <1>6, KeptLoopDecide, KeptLoopSync, KeptDisable DEF LoopStep
<1>7. ASSUME NEW t \in Threads, Step(t) PROVE Kept'
  BY <1>7, KeptCheck, KeptStopAll, KeptSetPump, KeptSetSweep, KeptSetSolar,
     KeptMark, KeptCommit
  DEF Step
<1>8. CASE BeginStop
  BY <1>8, KeptBeginStop
<1>9. CASE Shutdown
  BY <1>9, KeptPhase, KeptBeginDisable DEF Shutdown
<1>10. CASE Exit
  BY <1>10, KeptQuiet DEF Exit
<1>11. CASE Restart
  <2>1. /\ \A t \in Threads : call'[t] = Idle
        /\ \A w \in Switch : relay'[w] = FALSE /\ shown'[w] = relay'[w]
        /\ state' = "OFF" /\ phase' = "running" /\ met' = {}
    BY <1>11 DEF Restart, AtStart
  <2>2. \A w \in Switch : relay'[w] = RelaysOf("OFF")[w]
    <3>1. \A w \in Switch : ~RelaysOf("OFF")[w]
      BY RelaysAre DEF Switch, Running
    <3> QED
      BY <2>1, <3>1, RelaysAre
  <2>3. Alone'
    BY <2>1, <2>2, AloneFree DEF Switch
  <2> QED
    BY <2>1, <2>3 DEF Kept, Pairs, Orders, Ended, Stopped, Smooth, Down
<1>12. CASE UNCHANGED vars
  BY <1>12, KeptQuiet DEF vars
<1> QED
  BY <1>1, <1>2, <1>3, <1>4, <1>5, <1>6, <1>7, <1>8, <1>9, <1>10, <1>11,
     <1>12
  DEF Next

(* So they do in every state.                                              *)
LEMMA KeptAlways == Spec => [](TypeOK /\ Kept)
<1>1. Init => Kept
  <2> SUFFICES ASSUME Init PROVE Kept
    OBVIOUS
  <2>1. /\ \A t \in Threads : call[t] = Idle
        /\ \A w \in Switch : relay[w] = FALSE /\ shown[w] = FALSE
        /\ state = "OFF" /\ phase = "running" /\ met = {}
    BY DEF Init
  <2>2. \A t \in Threads : Stage(t) = "idle"
    BY <2>1, Stages DEF Stage
  <2>3. Writing = {}
    BY <2>2, Stages DEF Writing, Late, Stage
  <2>4. \A w \in Switch : ~RelaysOf("OFF")[w]
    BY RelaysAre DEF Switch, Running
  <2>5. Relays /\ Shows
    BY <2>1, <2>3, <2>4, RelaysAre DEF Relays, Shows, Switch
  <2> QED
    BY <2>1, <2>5
    DEF Kept, Pairs, Smooth, Alone, Orders, Targets, MarksKept, Ended, Stopped, Down
<1>2. TypeOK /\ Kept /\ [Next]_vars => Kept'
  BY StepKept
<1> QED
  BY <1>1, <1>2, TypeCorrect, PTL DEF Spec

(***************************************************************************)
(* The properties.                                                         *)
(***************************************************************************)
(* Without a command in progress, and after one that met no other, the     *)
(* relays are those of the state.                                          *)
THEOREM RelaysMatchStateHolds == Spec => []RelaysMatchState
<1>1. TypeOK /\ Kept => RelaysMatchState
  <2> SUFFICES ASSUME TypeOK, Kept, Quiet, sound PROVE RelaysMatchState
    BY DEF RelaysMatchState
  <2>1. \A w \in Switch : relay[w] = RelaysOf(state)[w]
    BY Free DEF Quiet
  <2>2. state \in Running <=> state \notin {"DISABLED", "OFF"}
    BY DEF TypeOK, State, Running
  <2> QED
    BY <2>1, <2>2, RelaysAre DEF RelaysMatchState, Switch
<1> QED
  BY <1>1, KeptAlways, PTL

(* Then HomeKit shows the pump and the sweep as they are.                  *)
THEOREM AccessoriesHonestHolds == Spec => []AccessoriesHonest
<1>1. Kept => AccessoriesHonest
  BY Free DEF AccessoriesHonest, Quiet
<1> QED
  BY <1>1, KeptAlways, PTL

(* A controller that has ended keeps everything off, whatever is asked of  *)
(* it, if its last command met no other.                                   *)
THEOREM StaysOffHolds == Spec => []StaysOff
<1>1. Kept => StaysOff
  <2> SUFFICES ASSUME Kept, phase = "ended", "loop" \notin met
               PROVE  \A w \in Switch : ~relay[w]
    BY DEF StaysOff
  <2>1. Down
    BY DEF Kept, Orders, OrderOf, Down, Threads
  <2> QED
    BY <2>1 DEF Kept, Ended
<1> QED
  BY <1>1, KeptAlways, PTL

(* From the meeting with the loop on nothing runs that nobody has started, *)
(* if Stop's command met no other.                                         *)
THEOREM OffAfterStopHolds == Spec => []OffAfterStop
<1>1. Kept => OffAfterStop
  <2> SUFFICES ASSUME Kept, phase \notin {"running", "stopping"}, ~late,
                      "main" \notin met
               PROVE  \A w \in Switch : ~relay[w]
    BY DEF OffAfterStop
  <2>1. call["main"] = Idle
    BY DEF Kept, Orders, OrderOf, Threads
  <2> QED
    BY <2>1 DEF Kept, Stopped
<1> QED
  BY <1>1, KeptAlways, PTL

(* The mark of a manual command is that of the latest start or stop.       *)
THEOREM ManualOperationHolds == Spec => ManualHolds
<1> DEFINE Holds ==
      \A t \in Threads \ met :
        ~exited /\ call[t].at = "commit" /\ call[t].manual /\ call'[t] # call[t]
        => ManualState'
<1>1. TypeOK /\ Kept /\ [Next]_vars => [Holds]_vars
  <2> SUFFICES ASSUME TypeOK, Kept, [Next]_vars, NEW t \in Threads \ met, ~exited,
                      call[t].at = "commit", call[t].manual, call'[t] # call[t]
               PROVE  ManualState'
    OBVIOUS
  <2>1. /\ call[t] # Idle /\ MarkOf(t)
        /\ \A u \in Threads \ {t} : call[u] = Idle
    <3>1. call[t].at \in Early \cup Late /\ call[t] # Idle
      BY Stages DEF Late
    <3>2. Smooth
      BY <3>1, Lonely DEF Kept
    <3> QED
      BY <3>1, <3>2, InCommand
  <2>2. ManualState
    BY <2>1 DEF MarkOf, ManualState
  <2>3. UNCHANGED <<marked, fresh>>
    <3>1. CASE \E u \in Threads : Step(u)
      <4>1. PICK u \in Threads : Step(u)
        BY <3>1
      <4>2. u = t
        BY <2>1, <4>1 DEF Step, Check, StopAll, SetPump, SetSweep, SetSolar,
           Mark, Commit, Idle
      <4> QED
        BY <4>1, <4>2 DEF Step, Check, StopAll, SetPump, SetSweep, SetSolar,
           Mark, Commit
    <3>2. CASE ~\E u \in Threads : Step(u)
      BY <2>1, <3>2
      DEF Next, HomeKit, Button, Configure, Expire, LoopRead, LoopStep,
          LoopDecide, LoopSync, Disable, BeginStop, Shutdown, Signal,
          StopButton, BeginDisable, LeaveLoop, Exit, Restart, vars
    <3> QED
      BY <3>1, <3>2
  <2> QED
    BY <2>2, <2>3 DEF ManualState
<1> QED
  BY <1>1, KeptAlways, PTL DEF Spec, ManualHolds


(* Only HomeKit's callbacks make its goroutine busy.                       *)
LEMMA StepsOfOthers ==
  ASSUME TypeOK, [Next]_vars, call["homekit"] = Idle, call'["homekit"] # Idle
  PROVE  \E w \in Switch : HomeKit(w)
<1> SUFFICES ASSUME ~\E w \in Switch : HomeKit(w) PROVE call'["homekit"] = Idle
  OBVIOUS
<1> USE DEF Threads, Places, Sequels, Others
<1>1. CASE Button \/ LoopRead \/ BeginStop \/ BeginDisable
  <2>1. CASE Button
    BY <2>1, Begins, TargetType DEF Button
  <2>2. CASE LoopRead
    BY <2>2, Begins DEF LoopRead, TypeOK
  <2>3. CASE BeginStop
    BY <2>3, Begins DEF BeginStop, State
  <2>4. CASE BeginDisable
    <3>1. Begin("loop", "stopAll", "OFF", TRUE, "disable") /\ "OFF" \in State
      BY <2>4 DEF BeginDisable, State
    <3>2. \A u \in Others("loop") : call'[u] = call[u]
      BY <3>1, Begins
    <3> QED
      BY <3>2
  <2> QED
    BY <1>1, <2>1, <2>2, <2>3, <2>4
<1>2. CASE LoopDecide
  BY <1>2, LoopDecides
<1>3. ASSUME NEW t \in Threads, Step(t) PROVE call'["homekit"] = Idle
  <2>1. t # "homekit"
    BY <1>3 DEF Step, Check, StopAll, SetPump, SetSweep, SetSolar, Mark,
       Commit, Idle
  <2>2. CASE StopAll(t)
    BY <2>1, <2>2, StopsHere
  <2>3. CASE Commit(t) \/ After(t)
    BY <2>1, <2>3, Finishes DEF Commit
  <2>4. ASSUME NEW at \in Places, Goto(t, at) PROVE call'["homekit"] = Idle
    BY <2>1, <2>4, Moves
  <2> QED
    BY <1>3, <2>2, <2>3, <2>4 DEF Step, Check, SetPump, SetSweep, SetSolar, Mark
<1>4. CASE \/ Configure \/ Expire \/ LoopSync \/ Disable \/ Signal \/ StopButton
           \/ LeaveLoop \/ Exit \/ Restart \/ UNCHANGED vars
  BY <1>4 DEF Configure, Expire, LoopSync, Disable, Signal, StopButton,
     LeaveLoop, Exit, Restart, vars, TypeOK
<1> QED
  BY <1>1, <1>2, <1>3, <1>4 DEF Next, LoopStep, Shutdown

(* HomeKit's requests to turn something off start nothing, while the       *)
(* switches are sound.                                                     *)
THEOREM OffNeverStartsHolds == Spec => OffNeverStarts
<1> DEFINE Unstarted(w) ==
      sound /\ sound' /\ call["homekit"] = Idle /\ call'["homekit"] # Idle
        /\ shown[w] /\ ~shown'[w] /\ state # "DISABLED"
      => relay["pump"] \/ ~RelaysOf(call'["homekit"].to)["pump"]
<1>1. TypeOK /\ Kept /\ [Next]_vars => [\A w \in Switch : Unstarted(w)]_vars
  <2> SUFFICES ASSUME TypeOK, Kept, [Next]_vars, NEW w \in Switch, sound, sound',
                      call["homekit"] = Idle, call'["homekit"] # Idle,
                      shown[w], ~shown'[w], state # "DISABLED", ~relay["pump"]
               PROVE  ~RelaysOf(call'["homekit"].to)["pump"]
    OBVIOUS
  <2>1. \E v \in Switch : HomeKit(v)
    BY StepsOfOthers
  <2>2. HomeKit(w)
    BY <2>1 DEF HomeKit, TypeOK
  <2>3. PICK at \in {"check", "stopAll"}, to \in State :
          /\ Begin("homekit", at, to, TRUE, "return")
          /\ to = IF w = "pump" THEN "OFF" ELSE HomeKitTarget(w, FALSE)
    <3>1. ~shown[w] = FALSE
      BY DEF TypeOK
    <3> QED
      BY <2>2, <3>1, TargetType DEF HomeKit, State
  <2>4. call'["homekit"].to = to /\ \A t \in Threads : call[t] = Idle
    <3>1. "homekit" \in Threads /\ at \in Places /\ at # "idle" /\ "return" \in Sequels
      BY DEF Threads, Places, Sequels
    <3> QED
      BY <2>3, <3>1, Beginning DEF Kept
  <2>5. state = "OFF" /\ ~relay["sweep"]
    <3>1. \A v \in Switch : relay[v] = RelaysOf(state)[v]
      BY <2>4, Free
    <3> QED
      BY <3>1, RelaysAre DEF TypeOK, State, Running, Switch
  <2>6. w # "sweep"
    BY <2>4, <2>5, Free
  <2>7. to = "OFF"
    BY <2>3, <2>5, <2>6 DEF HomeKitTarget, Switch
  <2> QED
    BY <2>4, <2>7, RelaysAre DEF Running
<1> QED
  BY <1>1, KeptAlways, PTL DEF Spec, OffNeverStarts

(***************************************************************************)
(* Switches implements SwitchPanel.                                        *)
(***************************************************************************)
(* What the panel shows: the target and the mark of the command that       *)
(* writes, or else what is recorded.                                       *)
Mode == IF Writing = {} THEN state ELSE call[Writer].to
Hold == IF Writing = {} THEN ManualState ELSE call[Writer].manual

LEMMA Recorded ==
  ASSUME Writing = {} PROVE Mode = state /\ Hold = ManualState
  BY DEF Mode, Hold

LEMMA WriterShown ==
  ASSUME NEW t \in Threads, Writing = {t}
  PROVE  Mode = call[t].to /\ Hold = call[t].manual
  BY DEF Mode, Hold, Writer

(* A step that neither begins nor ends a writing changes nothing on the    *)
(* panel.                                                                  *)
LEMMA Unseen ==
  ASSUME UNCHANGED <<state, marked, fresh>>,
         \/ Writing = {} /\ Writing' = {}
         \/ \E t \in Threads :
              /\ Writing = {t} /\ Writing' = {t}
              /\ call'[t].to = call[t].to /\ call'[t].manual = call[t].manual
  PROVE  UNCHANGED <<Mode, Hold>>
<1>1. CASE Writing = {} /\ Writing' = {}
  <2>1. Mode' = state' /\ Hold' = ManualState'
    BY <1>1 DEF Mode, Hold
  <2> QED
    BY <1>1, <2>1, Recorded DEF ManualState
<1>2. ASSUME NEW t \in Threads, Writing = {t}, Writing' = {t},
             call'[t].to = call[t].to, call'[t].manual = call[t].manual
      PROVE  UNCHANGED <<Mode, Hold>>
  <2>1. Mode' = call'[t].to /\ Hold' = call'[t].manual
    BY <1>2 DEF Mode, Hold, Writer
  <2> QED
    BY <1>2, <2>1, WriterShown
<1> QED
  BY <1>1, <1>2

(* Whether t writes after a step that leaves the others free.              *)
LEMMA NextWriting ==
  ASSUME NEW t \in Threads, \A u \in Threads \ {t} : call'[u] = Idle
  PROVE  /\ call'[t].at \in Late => Writing' = {t}
         /\ call'[t].at \notin Late => Writing' = {}
<1>1. \A u \in Threads \ {t} : call'[u].at \notin Late
  BY DEF Idle, Late
<1> QED
  BY <1>1 DEF Writing, Late

(* The loop locks the panel when it disables, and nothing unlocks it but a *)
(* new start.                                                              *)
LEMMA Locking ==
  ASSUME TypeOK, Kept, [Next]_vars, ~Restart
  PROVE  (Down => Down') /\ (~Disable => Down' = Down)
<1> USE DEF Threads, Places, Sequels, Others
<1>1. ASSUME NEW w \in Switch, HomeKit(w) PROVE Down' = Down
  <2>1. PICK at \in Places, to \in State :
          Begin("homekit", at, to, TRUE, "return")
    BY <1>1, HomeKitBegins, TargetType DEF State
  <2>2. call'["loop"] = call["loop"]
    BY <2>1, Begins
  <2> QED
    BY <1>1, <2>2 DEF HomeKit, Down
<1>2. CASE Button
  <2>1. call'["loop"] = call["loop"]
    BY <1>2, Begins, TargetType DEF Button
  <2> QED
    BY <1>2, <2>1 DEF Button, Down
<1>3. CASE LoopRead \/ BeginStop
  BY <1>3 DEF LoopRead, BeginStop, Down
<1>4. CASE BeginDisable
  <2>1. Begin("loop", "stopAll", "OFF", TRUE, "disable") /\ "OFF" \in State
    BY <1>4 DEF BeginDisable, State
  <2>2. call'["loop"] # Idle
    <3>1. call'["loop"] = [at |-> "stopAll", to |-> "OFF", manual |-> TRUE,
                           then |-> "disable"]
      BY <2>1, Begins
    <3> QED
      BY <3>1 DEF Idle
  <2>3. ~Down /\ ~Down'
    BY <1>4, <2>2 DEF BeginDisable, Down
  <2> QED
    BY <2>3 DEF Down
<1>5. CASE LoopDecide \/ LoopSync
  <2>1. call["loop"].at \in {"decide", "sync"} /\ phase' = phase
    BY <1>5 DEF LoopDecide, LoopSync
  <2>2. phase \notin {"disabling", "ended"}
    BY <2>1, InLoop DEF OrderOf
  <2> QED
    BY <2>1, <2>2 DEF Down
<1>6. CASE Disable
  BY <1>6 DEF Disable, Down, Idle
<1>7. ASSUME NEW t \in Threads, Step(t) PROVE Down' = Down
  <2>1. call[t].at \in Early \cup Late /\ phase' = phase
    BY <1>7 DEF Step, Check, StopAll, SetPump, SetSweep, SetSolar, Mark,
       Commit, Early, Late
  <2>2. call[t] # Idle /\ OrderOf(t)
    BY <2>1, InCommand
  <2>3. CASE t # "loop"
    <3>1. call'["loop"] = call["loop"]
      <4>1. CASE StopAll(t)
        BY <2>3, <4>1, StopsHere
      <4>2. CASE Commit(t) \/ After(t)
        BY <2>3, <4>2, Finishes DEF Commit
      <4>3. ASSUME NEW at \in Places, Goto(t, at)
            PROVE  call'["loop"] = call["loop"]
        BY <2>3, <4>3, Moves
      <4> QED
        BY <1>7, <4>1, <4>2, <4>3
        DEF Step, Check, SetPump, SetSweep, SetSolar, Mark
    <3> QED
      BY <2>1, <3>1 DEF Down
  <2>4. CASE t = "loop"
    <3>1. call[t].then \in {"sync", "daily", "disable"}
      BY <2>2, <2>4 DEF OrderOf, TypeOK, Call
    <3>2. call'[t].at # "idle"
      <4>1. CASE StopAll(t)
        BY <4>1, StopsHere
      <4>2. CASE Commit(t) \/ After(t)
        BY <3>1, <4>2, Finishes DEF Commit
      <4>3. ASSUME NEW at \in Places \ {"idle"}, Goto(t, at)
            PROVE  call'[t].at # "idle"
        BY <4>3, Moves
      <4> QED
        BY <1>7, <4>1, <4>2, <4>3
        DEF Step, Check, SetPump, SetSweep, SetSolar, Mark
    <3> QED
      BY <2>2, <2>4, <3>2 DEF Down, Idle
  <2> QED
    BY <2>3, <2>4
<1>8. CASE \/ Configure \/ Expire \/ Signal \/ StopButton \/ LeaveLoop \/ Exit
           \/ UNCHANGED vars
  BY <1>8 DEF Configure, Expire, Signal, StopButton, LeaveLoop, Exit, vars, Down
<1> QED
  BY <1>1, <1>2, <1>3, <1>4, <1>5, <1>6, <1>7, <1>8 DEF Next, LoopStep, Shutdown

(* The panel as it is mapped.                                              *)
Unchanged == UNCHANGED <<Mode, Hold, Down, Smooth>>
Sees == Panel!Next \/ Unchanged

(* The steps of SwitchPanel while it is sure of itself, ...                *)
LEMMA SureSteps ==
  ASSUME Smooth, Smooth'
  PROVE
  /\ UNCHANGED <<Mode, Hold>> /\ Down' = Down => Sees
  /\ \A s \in Running :
       /\ Mode # "DISABLED" /\ Mode' = s /\ Hold' = TRUE /\ Down' = Down
       => Sees
  /\ /\ Mode' = IF Mode = "DISABLED" THEN "DISABLED" ELSE "OFF"
     /\ Hold' = TRUE /\ Down' = Down
     => Sees
  /\ \A s \in State \ {"PUMP"} :
       /\ ~Hold /\ ~Down /\ (Mode = "DISABLED" => s \in StopTargets)
       /\ Mode' = s /\ Hold' = Hold /\ Down' = Down
       => Sees
  /\ Hold /\ Hold' = FALSE /\ Mode' = Mode /\ Down' = Down => Sees
  /\ ~Hold /\ Hold' = TRUE /\ Mode' = Mode /\ Down' = Down => Sees
  /\ Mode' = "DISABLED" /\ Down' = TRUE /\ Hold' = Hold => Sees
<1> USE DEF Mode, Hold
<1>1. ASSUME Panel!Sure PROVE Sees
  BY <1>1 DEF Panel!Next, Sees
<1>2. ASSUME UNCHANGED <<Mode, Hold>>, Down' = Down PROVE Sees
  <2>1. Smooth' = Smooth
    BY DEF Smooth
  <2> QED
    BY <1>2, <2>1 DEF Sees, Unchanged
<1>3. ASSUME NEW s \in Running, Mode # "DISABLED", Mode' = s, Hold' = TRUE,
             Down' = Down
      PROVE  Sees
  <2>1. Panel!StartByHand(s)
    BY <1>3 DEF Panel!StartByHand
  <2>2. s \in Panel!Pumping
    BY DEF Running, Panel!Pumping
  <2> QED
    BY <1>1, <2>1, <2>2 DEF Panel!Sure
<1>4. ASSUME Mode' = IF Mode = "DISABLED" THEN "DISABLED" ELSE "OFF",
             Hold' = TRUE, Down' = Down
      PROVE  Sees
  BY <1>1, <1>4 DEF Panel!Sure, Panel!StopByHand
<1>5. ASSUME NEW s \in State \ {"PUMP"}, ~Hold, ~Down,
             Mode = "DISABLED" => s \in StopTargets,
             Mode' = s, Hold' = Hold, Down' = Down
      PROVE  Sees
  <2>1. Panel!Automatic(s)
    BY <1>5 DEF Panel!Automatic, StopTargets
  <2>2. s \in {"DISABLED", "OFF", "SWEEP", "SOLAR", "MIXING"}
    BY DEF State
  <2> QED
    BY <1>1, <2>1, <2>2 DEF Panel!Sure
<1>6. ASSUME Hold, Hold' = FALSE, Mode' = Mode, Down' = Down PROVE Sees
  BY <1>1, <1>6 DEF Panel!Sure, Panel!Lapse
<1>7. ASSUME ~Hold, Hold' = TRUE, Mode' = Mode, Down' = Down PROVE Sees
  BY <1>1, <1>7 DEF Panel!Sure, Panel!Revive
<1>8. ASSUME Mode' = "DISABLED", Down' = TRUE, Hold' = Hold PROVE Sees
  BY <1>1, <1>8 DEF Panel!Sure, Panel!Lock
<1> QED
  BY <1>2, <1>3, <1>4, <1>5, <1>6, <1>7, <1>8

(* ... and the others.                                                     *)
LEMMA UnsureSteps ==
  /\ (~Smooth \/ ~Smooth') /\ (Down => Down') => Sees
  /\ Mode' = "OFF" /\ Hold' = FALSE /\ Down' = FALSE /\ Smooth' = TRUE => Sees
<1>1. (~Smooth \/ ~Smooth') /\ (Down => Down') => Panel!Collide
  BY DEF Panel!Collide
<1>2. Mode' = "OFF" /\ Hold' = FALSE /\ Down' = FALSE /\ Smooth' = TRUE
      => Panel!Restart
  BY DEF Panel!Restart, Mode, Hold
<1> QED
  BY <1>1, <1>2 DEF Panel!Next, Sees

(* A command takes effect when it sets the pump.                           *)
LEMMA TakesEffect ==
  ASSUME TypeOK, Kept, Smooth, Smooth', NEW t \in Threads, SetPump(t), Down' = Down
  PROVE  Sees
<1>1. call[t].at = "pump" /\ call[t].at \in Early \cup Late /\ call[t].at \notin Late
  BY DEF SetPump, Early, Late
<1>2. /\ \A u \in Threads \ {t} : call'[u] = Idle
      /\ call'[t].at = "sweep" /\ call'[t].to = call[t].to
      /\ call'[t].manual = call[t].manual
  BY <1>1, InCommand, Moves DEF SetPump, Places, Others
<1>3. Mode = state /\ Hold = ManualState
  BY <1>1, InCommand, Recorded
<1>4. Mode' = call[t].to /\ Hold' = call[t].manual
  <2>1. Writing' = {t}
    BY <1>2, NextWriting DEF Late
  <2>2. Mode' = call'[t].to /\ Hold' = call'[t].manual
    BY <2>1 DEF Mode, Hold, Writer
  <2> QED
    BY <1>2, <2>2
<1>5. /\ OrderOf(t) /\ TargetOf(t) /\ MarkOf(t) /\ call[t] # Idle
      /\ call[t].manual \in BOOLEAN /\ call[t].to \in State
  BY <1>1, InCommand DEF Call
<1>6. CASE call[t].manual
  <2>1. (call[t].to \in Running /\ state # "DISABLED") \/ call[t].to = StopTarget
    BY <1>1, <1>5, <1>6 DEF TargetOf
  <2>2. Hold' = TRUE
    BY <1>4, <1>5, <1>6
  <2> QED
    BY <1>3, <1>4, <2>1, <2>2, SureSteps DEF StopTarget
<1>7. CASE ~call[t].manual
  <2>1. /\ call[t].to # "PUMP" /\ (state = "DISABLED" => call[t].to \in StopTargets)
        /\ ~ManualState
    BY <1>1, <1>5, <1>7 DEF TargetOf, MarkOf, Early
  <2>2. ~Down
    <3>1. t = "loop"
      BY <1>5, <1>7 DEF OrderOf
    <3> QED
      BY <1>5, <3>1 DEF Down
  <2>3. ~Hold /\ Hold' = Hold
    <3>1. ManualState = FALSE
      BY <2>1 DEF ManualState, TypeOK
    <3>2. call[t].manual = FALSE
      BY <1>5, <1>7
    <3> QED
      BY <1>3, <1>4, <3>1, <3>2
  <2> QED
    BY <1>3, <1>4, <1>5, <2>1, <2>2, <2>3, SureSteps
<1> QED
  BY <1>6, <1>7

(* Recording it changes nothing any more.                                  *)
LEMMA RecordsEffect ==
  ASSUME TypeOK, TypeOK', Kept, Smooth, NEW t \in Threads, Commit(t)
  PROVE  UNCHANGED <<Mode, Hold>>
<1>1. call[t].at = "commit" /\ call[t].at \in Late /\ call[t].at \in Early \cup Late
  BY DEF Commit, Late
<1>2. Mode = call[t].to /\ Hold = call[t].manual
  BY <1>1, InCommand, WriterShown
<1>3. /\ \A u \in Threads \ {t} : call'[u] = Idle
      /\ call'[t].at \notin Late
  <2>1. \A u \in Threads \ {t} : call'[u] = Idle
    BY <1>1, InCommand, Finishes DEF Commit, Others
  <2>2. call[t].then \in Sequels
    BY DEF TypeOK, Call, Sequels
  <2>3. call'[t] = Idle \/ call'[t].at \in {"sync", "disable", "stopAll"}
    BY <2>2, Finishes DEF Commit, Sequels
  <2> QED
    BY <2>1, <2>3 DEF Late, Idle
<1>4. Mode' = state' /\ Hold' = ManualState'
  <2>1. Writing' = {}
    BY <1>3, NextWriting
  <2> QED
    BY <2>1 DEF Mode, Hold
<1>5. ManualState' = ManualState /\ state' = call[t].to
  BY DEF Commit, ManualState
<1>6. ManualState = call[t].manual
  <2>1. (marked <=> call[t].manual) /\ (call[t].manual => fresh)
    BY <1>1, InCommand DEF MarkOf
  <2>2. call[t].manual \in BOOLEAN
    BY DEF TypeOK, Call
  <2> QED
    BY <2>1, <2>2 DEF ManualState, TypeOK
<1> QED
  BY <1>2, <1>4, <1>5, <1>6

(* The other steps of a command are not seen.                              *)
LEMMA UnseenSteps ==
  ASSUME TypeOK, Kept, Smooth, NEW t \in Threads,
         Check(t) \/ StopAll(t) \/ SetSweep(t) \/ SetSolar(t) \/ Mark(t)
  PROVE  UNCHANGED <<Mode, Hold>>
<1>1. CASE Check(t) \/ StopAll(t)
  <2>1. /\ call[t].at \in Early \cup Late /\ call[t].at \notin Late
        /\ UNCHANGED <<state, marked, fresh>>
    BY <1>1 DEF Check, StopAll, Early, Late
  <2>2. Writing = {} /\ \A u \in Threads \ {t} : call[u] = Idle
    BY <2>1, InCommand
  <2>3. \A u \in Threads \ {t} : call'[u] = Idle
    <3>1. CASE Check(t)
      BY <2>2, <3>1, Moves, Finishes DEF Check, Places, Others
    <3>2. CASE StopAll(t)
      BY <2>2, <3>2, StopsHere DEF Others
    <3> QED
      BY <1>1, <3>1, <3>2
  <2>4. call'[t].at \notin Late
    <3>1. CASE StopAll(t)
      BY <3>1, StopsHere DEF Late
    <3>2. CASE After(t)
      <4>1. call[t].then \in Sequels
        BY DEF TypeOK, Call, Sequels
      <4>2. call'[t] = Idle \/ call'[t].at \in {"sync", "disable", "stopAll"}
        BY <3>2, <4>1, Finishes DEF Sequels
      <4> QED
        BY <4>2 DEF Late, Idle
    <3>3. ASSUME NEW at \in {"stopAll", "pump"}, Goto(t, at)
          PROVE  call'[t].at \notin Late
      BY <3>3, Moves DEF Places, Late
    <3> QED
      BY <1>1, <3>1, <3>2, <3>3 DEF Check
  <2> QED
    BY <2>1, <2>2, <2>3, <2>4, NextWriting, Unseen
<1>2. CASE SetSweep(t) \/ SetSolar(t)
  <2>1. /\ call[t].at \in Late /\ call[t].at \in Early \cup Late
        /\ UNCHANGED <<state, marked, fresh>>
    BY <1>2 DEF SetSweep, SetSolar, Late
  <2>2. PICK at \in Late \cap Places : Goto(t, at)
    BY <1>2 DEF SetSweep, SetSolar, Late, Places
  <2>3. /\ \A u \in Threads \ {t} : call'[u] = Idle
        /\ call'[t].at \in Late /\ call'[t].to = call[t].to
        /\ call'[t].manual = call[t].manual
    BY <2>1, <2>2, InCommand, Moves DEF Others
  <2> QED
    BY <2>1, <2>3, InCommand, NextWriting, Unseen
<1>3. CASE Mark(t)
  <2>1. /\ call[t].at \in Late /\ call[t].at \in Early \cup Late
        /\ state' = state /\ Goto(t, "commit")
    BY <1>3 DEF Mark, Late
  <2>2. /\ \A u \in Threads \ {t} : call'[u] = Idle
        /\ call'[t].at = "commit" /\ call'[t].to = call[t].to
        /\ call'[t].manual = call[t].manual
    BY <2>1, InCommand, Moves DEF Others, Places
  <2>3. Writing = {t} /\ Writing' = {t}
    BY <2>1, <2>2, InCommand, NextWriting DEF Late
  <2>4. Mode' = call'[t].to /\ Hold' = call'[t].manual
    BY <2>3 DEF Mode, Hold, Writer
  <2> QED
    BY <2>2, <2>3, <2>4, WriterShown
<1> QED
  BY <1>1, <1>2, <1>3

(* Nor is the beginning of a command.                                      *)
LEMMA UnseenBeginnings ==
  ASSUME TypeOK, Kept, Smooth', NEW t \in Threads,
         NEW at \in {"check", "stopAll", "decide"}, NEW to \in State,
         NEW manual \in BOOLEAN, NEW then \in Sequels,
         Begin(t, at, to, manual, then), UNCHANGED <<state, marked, fresh>>
  PROVE  UNCHANGED <<Mode, Hold>>
<1>1. at \in Places /\ at # "idle" /\ at \notin Late
  BY DEF Places, Late
<1>2. /\ \A u \in Threads : call[u] = Idle
      /\ \A u \in Threads \ {t} : call'[u] = Idle
      /\ call'[t].at = at
  BY <1>1, Beginning DEF Kept
<1>3. Writing = {} /\ Writing' = {}
  BY <1>1, <1>2, Free, NextWriting
<1> QED
  BY <1>3, Unseen

(* Disabling locks the panel, ...                                          *)
LEMMA Locks ==
  ASSUME TypeOK, Kept, Smooth, Smooth', Disable
  PROVE  Sees
<1>1. /\ call["loop"].at = "disable" /\ state' = "DISABLED"
      /\ call' = [call EXCEPT !["loop"] = Idle] /\ ManualState' = ManualState
      /\ phase' = phase
  BY DEF Disable, ManualState
<1>2. /\ "loop" \in Threads /\ \A u \in Threads \ {"loop"} : call[u] = Idle
      /\ Writing = {} /\ OrderOf("loop")
  BY <1>1, InLoop
<1>3. \A t \in Threads : call'[t] = Idle
  BY <1>1, <1>2 DEF TypeOK
<1>4. Writing' = {}
  BY <1>2, <1>3, NextWriting DEF Idle, Late
<1>5. Mode' = "DISABLED" /\ Hold' = Hold
  BY <1>1, <1>2, <1>4 DEF Mode, Hold
<1>6. Down' = TRUE
  BY <1>1, <1>2, <1>3 DEF Down, OrderOf
<1> QED
  BY <1>5, <1>6, SureSteps

(* ... a manual operation lapses, ...                                      *)
LEMMA Lapses ==
  ASSUME TypeOK, Kept, Smooth, Smooth', Expire, Down' = Down
  PROVE  Sees
<1>1. Writing = {} /\ Writing' = {}
  BY Free DEF Expire, Writing
<1>2. /\ Mode = state /\ Hold = (marked /\ fresh)
      /\ Mode' = state' /\ Hold' = (marked' /\ fresh')
  BY <1>1 DEF Mode, Hold, ManualState
<1>3. state' = state /\ marked' = marked /\ fresh' = FALSE /\ fresh
  BY DEF Expire
<1>4. CASE marked
  BY <1>2, <1>3, <1>4, SureSteps
<1>5. CASE ~marked
  BY <1>2, <1>3, <1>5, SureSteps
<1> QED
  BY <1>4, <1>5

(* ... and holds again.                                                    *)
LEMMA Revives ==
  ASSUME TypeOK, Revive, UNCHANGED <<state, marked, call>>, Down' = Down,
         Smooth, Smooth'
  PROVE  Sees
<1>1. Writing' = Writing
  BY DEF Writing
<1>2. CASE Writing = {}
  <2>1. Mode = state /\ Hold = (marked /\ fresh)
    BY <1>2, Recorded DEF ManualState
  <2>2. Mode' = state' /\ Hold' = (marked' /\ fresh')
    BY <1>1, <1>2 DEF Mode, Hold, ManualState
  <2>3. Hold = FALSE /\ Hold' = TRUE
    BY <2>1, <2>2 DEF Revive, TypeOK
  <2> QED
    BY <2>1, <2>2, <2>3, SureSteps
<1>3. CASE Writing # {}
  <2>1. Mode' = Mode /\ Hold' = Hold
    BY <1>1, <1>3 DEF Mode, Hold, Writer
  <2> QED
    BY <2>1, SureSteps
<1> QED
  BY <1>2, <1>3

(* The loop's own steps are not seen.                                      *)
LEMMA UnseenLoop ==
  ASSUME TypeOK, Kept, Smooth, LoopDecide \/ LoopSync
  PROVE  UNCHANGED <<Mode, Hold>>
<1>1. /\ call["loop"].at \in {"decide", "sync"}
      /\ UNCHANGED <<state, marked, fresh>>
  BY DEF LoopDecide, LoopSync
<1>2. /\ "loop" \in Threads /\ \A u \in Threads \ {"loop"} : call[u] = Idle
      /\ Writing = {}
  BY <1>1, InLoop
<1>3. /\ \A u \in Threads \ {"loop"} : call'[u] = Idle
      /\ call'["loop"].at \notin Late
  <2>1. CASE LoopSync
    BY <1>2, <2>1 DEF LoopSync, TypeOK, Idle, Late
  <2>2. CASE LoopDecide
    <3>1. \A u \in Threads \ {"loop"} : call'[u] = Idle
      BY <1>2, <2>2, LoopDecides DEF Others
    <3>2. call'["loop"].at \in {"sync", "stopAll", "pump", "check"}
      <4>1. CASE Goto("loop", "sync") \/ Goto("loop", "stopAll")
        BY <1>2, <4>1, Moves DEF Places
      <4>2. CASE \E s \in {"OFF", "DISABLED"} :
                   call'["loop"] = [call["loop"] EXCEPT !.at = "pump", !.to = s]
        BY <1>2, <4>2 DEF TypeOK, Call
      <4> QED
        BY <2>2, <4>1, <4>2, LoopDecides
    <3> QED
      BY <3>1, <3>2 DEF Late
  <2> QED
    BY <2>1, <2>2
<1> QED
  BY <1>1, <1>2, <1>3, NextWriting, Unseen

(* While the panel is sure of itself, every step is one of its own or is   *)
(* not seen.                                                               *)
LEMMA StepPanel ==
  ASSUME TypeOK, TypeOK', Kept, [Next]_vars, ~Restart, Smooth, Smooth'
  PROVE  Sees
<1> DEFINE Same == UNCHANGED <<Mode, Hold>>
<1>1. CASE Disable
  BY <1>1, Locks
<1> SUFFICES ASSUME ~Disable PROVE Sees
  BY <1>1
<1>2. Down' = Down
  BY Locking
<1>3. Same => Sees
  BY <1>2, SureSteps
<1>4. ASSUME NEW w \in Switch, HomeKit(w) PROVE Same
  <2>1. PICK at \in {"check", "stopAll"}, to \in State :
          Begin("homekit", at, to, TRUE, "return")
    BY <1>4, HomeKitBegins, TargetType DEF State
  <2> QED
    BY <1>4, <2>1, UnseenBeginnings DEF HomeKit, Threads, Sequels
<1>5. Button => Same
  BY UnseenBeginnings, TargetType DEF Button, Threads, Sequels
<1>6. LoopRead => Same
  BY UnseenBeginnings DEF LoopRead, Threads, Sequels, TypeOK
<1>7. BeginStop => Same
  BY UnseenBeginnings DEF BeginStop, Threads, Sequels, State
<1>8. BeginDisable => Same
  BY UnseenBeginnings DEF BeginDisable, Threads, Sequels, State
<1>9. CASE Configure
  <2>1. UNCHANGED <<state, marked, call>>
    BY <1>9 DEF Configure
  <2>2. fresh' = fresh => Same
    BY <2>1 DEF Mode, Hold, Writing, Writer, ManualState
  <2>3. Revive => Sees
    BY <1>2, <2>1, Revives
  <2> QED
    BY <1>3, <1>9, <2>2, <2>3 DEF Configure
<1>10. Expire => Sees
  BY <1>2, Lapses
<1>11. LoopDecide \/ LoopSync => Same
  BY UnseenLoop
<1>12. ASSUME NEW t \in Threads, Step(t) PROVE Sees
  BY <1>2, <1>3, <1>12, TakesEffect, RecordsEffect, UnseenSteps DEF Step
<1>13. CASE Signal \/ StopButton \/ LeaveLoop \/ Exit \/ UNCHANGED vars
  <2>1. UNCHANGED <<state, marked, fresh, call>>
    BY <1>13 DEF Signal, StopButton, LeaveLoop, Exit, vars
  <2>2. Same
    BY <2>1 DEF Mode, Hold, Writing, Writer, ManualState
  <2> QED
    BY <1>3, <2>2
<1> HIDE DEF Same
<1> QED
  BY <1>3, <1>4, <1>5, <1>6, <1>7, <1>8, <1>9, <1>10, <1>11, <1>12, <1>13
  DEF Next, LoopStep, Shutdown

(* Commands take effect at once, hold and are not interfered with, as      *)
(* SwitchPanel promises: those that meet no other, whatever has happened   *)
(* before them.                                                            *)
THEOREM ImplementsPanelHolds == Spec => ImplementsPanel
<1>1. Init => Panel!Init
  <2> SUFFICES ASSUME Init PROVE Panel!Init
    OBVIOUS
  <2>1. /\ Writing = {} /\ state = "OFF" /\ ManualState = FALSE /\ Down = FALSE
        /\ Smooth = TRUE
    BY DEF Init, Writing, Idle, ManualState, Down, Smooth
  <2> QED
    BY <2>1 DEF Panel!Init
<1>2. TypeOK /\ TypeOK' /\ Kept /\ [Next]_vars => [Panel!Next]_Panel!vars
  <2> SUFFICES ASSUME TypeOK, TypeOK', Kept, [Next]_vars
               PROVE  [Panel!Next]_Panel!vars
    OBVIOUS
  <2>1. ASSUME Restart PROVE Sees
    <3>1. /\ \A t \in Threads : call'[t] = Idle
          /\ state' = "OFF" /\ marked' = FALSE /\ phase' = "running"
      BY <2>1 DEF Restart
    <3>2. Writing' = {}
      BY <3>1 DEF Writing, Idle
    <3>3. Mode' = "OFF" /\ Hold' = FALSE /\ Down' = FALSE
      BY <3>1, <3>2 DEF Mode, Hold, ManualState, Down
    <3>4. Smooth' = TRUE
      BY <3>1 DEF Smooth
    <3> QED
      BY <3>3, <3>4, UnsureSteps
  <2>2. ASSUME ~Restart, ~Smooth \/ ~Smooth' PROVE Sees
    BY <2>2, Locking, UnsureSteps
  <2>3. ASSUME ~Restart, Smooth, Smooth' PROVE Sees
    BY <2>3, StepPanel
  <2>4. Sees
    BY <2>1, <2>2, <2>3 DEF Smooth
  <2> QED
    BY <2>4 DEF Sees, Unchanged, Panel!vars, Mode, Hold
<1> QED
  BY <1>1, <1>2, KeptAlways, TypeCorrect, PTL DEF Spec, ImplementsPanel, Panel!Spec
=============================================================================
