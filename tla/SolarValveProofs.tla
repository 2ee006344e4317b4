-------------------------- MODULE SolarValveProofs --------------------------
(***************************************************************************)
(* Proofs about SolarValve, for any set of callers, any motor time and any *)
(* number of commands; and, in the last part, about ValveProcess: what     *)
(* holds of one run of the program holds across any number of ends and     *)
(* restarts, at any step.                                                  *)
(***************************************************************************)
EXTENDS ValveProcess, TLAPS

(* The mutex: whoever is inside setState holds it, and nobody else is.     *)
Mutex ==
  /\ \A c \in Callers : pc[c] # "idle" <=> mtx = c
  /\ \A c \in Callers : pc[c] # "idle" => led = dir[c]

(* Inside setState, the relay of the other direction is already released   *)
(* when this one is about to be engaged.                                   *)
Released ==
  \A c \in Callers : pc[c] = "engage" => IF dir[c] THEN ~rev ELSE ~fwd

(* A sleeping cleanup captured a number that has been issued, and if that  *)
(* is still the latest, its sleep ends no earlier than the motor time.     *)
SleepsLongEnough ==
  \A n \in Commands :
    cleaner[n].at = "asleep" =>
      /\ cleaner[n].got =< cid
      /\ cleaner[n].got = cid => age + cleaner[n].left >= Timeout

(* The cleanup of the latest command is on watch until both relays are     *)
(* off, and it is never late.                                              *)
OnWatch(k) ==
  \/ k.at = "spawned" /\ age = 0
  \/ k.at = "asleep" /\ k.got = cid /\ age + k.left = Timeout
  \/ k.at = "fwdOff" /\ mtx = NoCaller
  \/ k.at = "revOff" /\ mtx = NoCaller /\ ~fwd
  \/ k.at = "done" /\ mtx = NoCaller /\ ~fwd /\ ~rev

Watched ==
  /\ mtx # NoCaller => age = 0 /\ cid > 0
  /\ cid > 0 => OnWatch(cleaner[cid])
  /\ cid = 0 => ~fwd /\ ~rev
  /\ \A n \in Commands : n > cid => cleaner[n].at = "none"

-----------------------------------------------------------------------------
(* NewSolarValve leaves every variable with its type.                      *)
LEMMA InitType == Init => TypeOK
<1> SUFFICES ASSUME Init PROVE TypeOK
  OBVIOUS
<1>1. [at |-> "none", got |-> 0, left |-> 0] \in Cleaner
  BY ValveAssumption DEF ValveAssumption, Cleaner
<1>2. cleaner \in [Commands -> Cleaner]
  BY <1>1 DEF Init
<1>3. dir \in [Callers -> BOOLEAN]
  BY Zenon DEF Init
<1>4. pc \in [Callers -> {"idle", "release", "engage", "finish"}]
  BY DEF Init
<1>5. cid \in 0..MaxCalls /\ age \in 0..Timeout /\ pos \in 0..Timeout
  BY ValveAssumption DEF ValveAssumption, Init
<1> QED
  BY <1>2, <1>3, <1>4, <1>5 DEF Init, TypeOK

(* One step keeps the types.                                               *)
LEMMA StepType == TypeOK /\ [Next]_vars => TypeOK'
<1> SUFFICES ASSUME TypeOK, [Next]_vars PROVE TypeOK'
  OBVIOUS
<1> USE ValveAssumption DEF ValveAssumption
<1>1. ASSUME NEW c \in Callers, NEW d \in BOOLEAN, Begin(c, d) PROVE TypeOK'
  BY <1>1 DEF TypeOK, Begin, StartCommand, Commands, Cleaner
<1>2. ASSUME NEW c \in Callers, Step(c) PROVE TypeOK'
  BY <1>2 DEF TypeOK, Step, Release, Engage, Finish
<1>3. ASSUME NEW n \in Commands, Capture(n) PROVE TypeOK'
  BY <1>3 DEF TypeOK, Capture, SleepTime, Cleaner
<1>4. ASSUME NEW n \in Commands, Check(n) PROVE TypeOK'
  <2>1. cleaner' \in [Commands -> Cleaner]
    BY <1>4 DEF TypeOK, Check, Cleaner
  <2> QED
    BY <1>4, <2>1 DEF TypeOK, Check
<1>5. ASSUME NEW n \in Commands, FwdOff(n) \/ RevOff(n) PROVE TypeOK'
  <2>1. CASE FwdOff(n)
    BY <2>1 DEF TypeOK, FwdOff, Cleaner
  <2>2. CASE RevOff(n)
    BY <2>2 DEF TypeOK, RevOff, Cleaner
  <2> QED
    BY <1>5, <2>1, <2>2
<1>6. CASE Tick
  <2>1. cleaner' \in [Commands -> Cleaner]
    BY <1>6 DEF TypeOK, Tick, TimeMayPass, Cleaner
  <2>2. pos' \in 0..Timeout
    BY <1>6 DEF TypeOK, Tick, Moved
  <2> QED
    BY <1>6, <2>1, <2>2 DEF TypeOK, Tick
<1>7. CASE UNCHANGED vars
  BY <1>7 DEF TypeOK, vars
<1> QED
  BY <1>1, <1>2, <1>3, <1>4, <1>5, <1>6, <1>7 DEF Next, Cleanup

(* The variables keep their types.                                         *)
THEOREM TypeCorrect == Spec => []TypeOK
  BY InitType, StepType, PTL DEF Spec

-----------------------------------------------------------------------------
(* The part of the invariant about the relays and the LED, one lemma per   *)
(* kind of step.                                                           *)
Wired == Mutex /\ Released /\ Interlock /\ LedShowsStatus

(* A new command, which takes the mutex, keeps the relays' invariant.      *)
LEMMA BeginWired ==
  ASSUME TypeOK, Wired, NEW c \in Callers, NEW d \in BOOLEAN, Begin(c, d)
  PROVE  Wired'
<1> USE ValveAssumption DEF ValveAssumption, Begin, StartCommand
<1>1. Mutex'
  BY DEF TypeOK, Wired, Mutex
<1>2. Released'
  BY DEF TypeOK, Wired, Mutex, Released
<1>3. Interlock' /\ LedShowsStatus'
  BY DEF Wired, Interlock, LedShowsStatus
<1> QED
  BY <1>1, <1>2, <1>3 DEF Wired

(* The rest of setState keeps it: the opposite relay is released first,    *)
(* and the status is written before the mutex is given back.               *)
LEMMA StepWired ==
  ASSUME TypeOK, Wired, NEW c \in Callers, Step(c)
  PROVE  Wired'
<1> USE ValveAssumption DEF ValveAssumption, Wired
<1>1. CASE Release(c)
  BY <1>1 DEF TypeOK, Mutex, Released, Interlock, LedShowsStatus, Release
<1>2. CASE Engage(c)
  BY <1>2 DEF TypeOK, Mutex, Released, Interlock, LedShowsStatus, Engage
<1>3. CASE Finish(c)
  BY <1>3 DEF TypeOK, Mutex, Released, Interlock, LedShowsStatus, Finish
<1> QED
  BY <1>1, <1>2, <1>3 DEF Step

(* A cleanup keeps it, although it does not take the mutex: it only ever   *)
(* releases relays.                                                        *)
LEMMA CleanupWired ==
  ASSUME TypeOK, Wired, NEW n \in Commands, Cleanup(n)
  PROVE  Wired'
  BY DEF TypeOK, Wired, Mutex, Released, Interlock, LedShowsStatus,
         Cleanup, Capture, Check, FwdOff, RevOff

(* Time, and a stutter, keep it.                                           *)
LEMMA TickWired ==
  ASSUME TypeOK, Wired, Tick \/ UNCHANGED vars
  PROVE  Wired'
  BY DEF TypeOK, Wired, Mutex, Released, Interlock, LedShowsStatus, Tick, vars

(* Before the first command nothing is engaged and nobody holds the mutex. *)
LEMMA InitWired == Init => Wired
  BY ValveAssumption DEF ValveAssumption, Init, Wired, Mutex, Released,
                         Interlock, LedShowsStatus

(* The mutex, the order of the two relays and the LED are inductive        *)
(* together.                                                               *)
LEMMA WiredStep == TypeOK /\ Wired /\ [Next]_vars => (TypeOK /\ Wired)'
  BY StepType, BeginWired, StepWired, CleanupWired, TickWired DEF Next

(* They hold at any time.                                                  *)
THEOREM WiredAlways == Spec => [](TypeOK /\ Wired)
  BY InitType, InitWired, WiredStep, PTL DEF Spec

(* At no time are both relays engaged, whatever the number of callers and  *)
(* whatever the commands and cleanups interleave (relays.go:22).           *)
THEOREM InterlockHolds == Spec => []Interlock
<1>1. Wired => Interlock
  BY DEF Wired
<1> QED
  BY <1>1, WiredAlways, PTL

(* The LED and the status agree whenever no command is in progress.        *)
THEOREM LedHolds == Spec => []LedShowsStatus
<1>1. Wired => LedShowsStatus
  BY DEF Wired
<1> QED
  BY <1>1, WiredAlways, PTL

-----------------------------------------------------------------------------
(* A cleanup that could still decide to stop the motor sleeps long enough. *)
LEMMA StepSleepsLongEnough ==
  TypeOK /\ SleepsLongEnough /\ [Next]_vars => SleepsLongEnough'
<1> SUFFICES ASSUME TypeOK, SleepsLongEnough, [Next]_vars
             PROVE  SleepsLongEnough'
  OBVIOUS
<1> USE ValveAssumption DEF ValveAssumption, TypeOK, SleepsLongEnough, Cleaner
<1>1. ASSUME NEW c \in Callers, NEW d \in BOOLEAN, Begin(c, d)
      PROVE  SleepsLongEnough'
  BY <1>1 DEF Begin, StartCommand
<1>2. ASSUME NEW c \in Callers, Step(c) PROVE SleepsLongEnough'
  BY <1>2 DEF Step, Release, Engage, Finish
<1>3. ASSUME NEW n \in Commands, Capture(n) PROVE SleepsLongEnough'
  BY <1>3 DEF Capture, SleepTime
<1>4. ASSUME NEW n \in Commands, Check(n) \/ FwdOff(n) \/ RevOff(n)
      PROVE  SleepsLongEnough'
  BY <1>4 DEF Check, FwdOff, RevOff
<1>5. CASE Tick
  <2> SUFFICES ASSUME NEW n \in Commands, cleaner'[n].at = "asleep"
               PROVE  /\ cleaner'[n].got =< cid'
                      /\ cleaner'[n].got = cid'
                           => age' + cleaner'[n].left >= Timeout
    OBVIOUS
  <2>1. /\ cleaner[n].at = "asleep"
        /\ cleaner'[n].got = cleaner[n].got
        /\ cleaner'[n].left = cleaner[n].left - 1
    BY <1>5 DEF Tick
  <2>2. cleaner[n].left \in Nat \ {0} /\ cleaner[n].got \in Nat
    BY <1>5, <2>1 DEF Tick, TimeMayPass
  <2>3. cid' = cid /\ age' = IF age < Timeout THEN age + 1 ELSE age
    BY <1>5 DEF Tick
  <2>4. /\ cleaner[n].got =< cid
        /\ cleaner[n].got = cid => age + cleaner[n].left >= Timeout
    BY <2>1
  <2>5. cid \in Nat /\ age \in Nat /\ Timeout \in Nat
    OBVIOUS
  <2>6. /\ cleaner'[n].got =< cid'
        /\ cleaner'[n].got = cid' => age' + cleaner'[n].left >= Timeout
    <3> HIDE DEF ValveAssumption, TypeOK, SleepsLongEnough, Cleaner
    <3> QED
      BY <2>1, <2>2, <2>3, <2>4, <2>5
  <2> QED
    BY <2>6
<1>6. CASE UNCHANGED vars
  BY <1>6 DEF vars
<1> QED
  BY <1>1, <1>2, <1>3, <1>4, <1>5, <1>6 DEF Next, Cleanup

(* At any time every sleeping cleanup that could still stop the motor has  *)
(* as much sleep left as the latest command needs.                         *)
THEOREM SleepsHold == Spec => [](TypeOK /\ SleepsLongEnough)
<1>1. Init => SleepsLongEnough
  BY DEF Init, SleepsLongEnough
<1> QED
  BY <1>1, InitType, StepType, StepSleepsLongEnough, PTL DEF Spec

(* No cleanup decides to stop the motor before the latest command has had  *)
(* its full motor time, for every number of callers and commands.          *)
THEOREM StopsOnlyWhenDueHolds == Spec => StopsOnlyWhenDue
<1> DEFINE Due == \A n \in Commands :
             cleaner[n].at = "asleep" /\ cleaner'[n].at = "fwdOff"
               => age = Timeout
<1>1. TypeOK /\ SleepsLongEnough /\ [Next]_vars => [Due]_vars
  <2> SUFFICES ASSUME TypeOK, SleepsLongEnough, Next, NEW n \in Commands,
                      cleaner[n].at = "asleep", cleaner'[n].at = "fwdOff"
               PROVE  age = Timeout
    OBVIOUS
  <2> USE ValveAssumption DEF ValveAssumption, TypeOK, Commands, Cleaner
  <2>a. ASSUME NEW c \in Callers, NEW d \in BOOLEAN, Begin(c, d) PROVE FALSE
    BY <2>a DEF Begin, StartCommand
  <2>b. ASSUME NEW c \in Callers, Step(c) PROVE FALSE
    BY <2>b DEF Step, Release, Engage, Finish
  <2>c. ASSUME NEW m \in Commands, Capture(m) \/ FwdOff(m) \/ RevOff(m)
        PROVE  FALSE
    BY <2>c DEF Capture, FwdOff, RevOff
  <2>d. ASSUME Tick PROVE FALSE
    BY <2>d DEF Tick
  <2>e. ASSUME NEW m \in Commands, Check(m) PROVE m = n
    BY <2>e DEF Check
  <2>1. Check(n)
    <3> HIDE DEF ValveAssumption, TypeOK, Commands, Cleaner
    <3>1. PICK m \in Commands : Check(m)
      BY <2>a, <2>b, <2>c, <2>d DEF Next, Cleanup
    <3> QED
      BY <3>1, <2>e
  <2>2. cleaner[n].left = 0 /\ cleaner[n].got = cid
    BY <2>1 DEF TypeOK, Cleaner, Check, StillLatest
  <2> QED
    BY <2>2, ValveAssumption DEF ValveAssumption, TypeOK, SleepsLongEnough
<1> QED
  BY <1>1, SleepsHold, PTL DEF Spec, StopsOnlyWhenDue

-----------------------------------------------------------------------------
(* The inductive invariant behind OffByTimeout.                            *)
IInv == TypeOK /\ Wired /\ Watched

(* A new command comes with a cleanup that watches over it.                *)
LEMMA BeginWatched ==
  ASSUME IInv, NEW c \in Callers, NEW d \in BOOLEAN, Begin(c, d)
  PROVE  Watched'
  BY ValveAssumption
  DEF ValveAssumption, IInv, TypeOK, Commands, Cleaner, Watched, OnWatch,
      Begin, StartCommand

(* While setState is in progress the cleanup of its command has not yet    *)
(* slept, so that engaging a relay is safe.                                *)
LEMMA StepWatched ==
  ASSUME IInv, NEW c \in Callers, Step(c)
  PROVE  Watched'
<1>1. pc[c] # "idle"
  BY DEF Step, Release, Engage, Finish
<1>2. mtx = c /\ mtx # NoCaller
  BY <1>1, ValveAssumption DEF ValveAssumption, IInv, Wired, Mutex
<1>3. cleaner[cid].at \in {"spawned", "asleep"} /\ OnWatch(cleaner[cid])
  BY <1>2 DEF IInv, TypeOK, Watched, OnWatch
<1> QED
  BY <1>2, <1>3 DEF IInv, TypeOK, Watched, OnWatch,
                    Step, Release, Engage, Finish

(* The cleanup of the latest command stays on watch until it has released  *)
(* both relays; a superseded one does not disturb it.                      *)
LEMMA CleanupWatched ==
  ASSUME IInv, NEW n \in Commands, Cleanup(n)
  PROVE  Watched'
<1> USE ValveAssumption DEF ValveAssumption, IInv, TypeOK, Commands, Cleaner,
                            Watched, OnWatch
<1>1. n =< cid
  BY DEF Cleanup, Capture, Check, FwdOff, RevOff
<1>2. CASE Capture(n)
  BY <1>1, <1>2 DEF Capture, SleepTime
<1>3. CASE Check(n)
  BY <1>1, <1>3 DEF Check, StillLatest
<1>4. CASE FwdOff(n)
  BY <1>1, <1>4 DEF FwdOff
<1>5. CASE RevOff(n)
  BY <1>1, <1>5 DEF RevOff
<1> QED
  BY <1>2, <1>3, <1>4, <1>5 DEF Cleanup

(* Time shortens the sleep of the cleanup on watch by as much as the motor *)
(* has run longer.                                                         *)
LEMMA TickWatched ==
  ASSUME IInv, Tick
  PROVE  Watched'
<1>1. mtx = NoCaller
  BY DEF IInv, TypeOK, Wired, Mutex, Tick, TimeMayPass
<1>2. ASSUME cid > 0 PROVE OnWatch(cleaner[cid])'
  <2>1. cid \in Commands /\ OnWatch(cleaner[cid])
    BY <1>2 DEF IInv, TypeOK, Commands, Watched
  <2>2. CASE cleaner[cid].at = "asleep"
    <3>1. cleaner[cid].got = cid /\ age + cleaner[cid].left = Timeout
      BY <2>1, <2>2 DEF OnWatch
    <3>2. cleaner[cid].left \in Nat \ {0}
      BY <2>1, <2>2, ValveAssumption
      DEF ValveAssumption, IInv, TypeOK, Cleaner, Tick, TimeMayPass
    <3>3. age \in Nat /\ Timeout \in Nat
      BY ValveAssumption DEF ValveAssumption, IInv, TypeOK
    <3>4. cid' = cid /\ age' = age + 1
      BY <3>1, <3>2, <3>3 DEF Tick
    <3>5. cleaner'[cid] = [cleaner[cid] EXCEPT !.left = @ - 1]
      BY <2>1, <2>2 DEF Tick
    <3>6. /\ cleaner'[cid].at = "asleep"
          /\ cleaner'[cid].got = cid
          /\ cleaner'[cid].left = cleaner[cid].left - 1
      BY <2>1, <2>2, <3>1, <3>5 DEF IInv, TypeOK, Cleaner
    <3> QED
      BY <3>1, <3>2, <3>3, <3>4, <3>6 DEF OnWatch
  <2>3. CASE cleaner[cid].at = "done"
    BY <2>1, <2>3 DEF OnWatch, Tick
  <2> QED
    BY <2>1, <2>2, <2>3 DEF OnWatch, Tick, TimeMayPass
<1>3. \A n \in Commands : n > cid => cleaner'[n].at = "none"
  BY DEF IInv, Watched, Tick
<1> QED
  BY <1>1, <1>2, <1>3 DEF IInv, Watched, Tick

(* Nothing has to be watched before the first command.                     *)
LEMMA InitIInv == Init => IInv
<1>1. Init => Watched
  BY ValveAssumption DEF ValveAssumption, Init, Watched
<1> QED
  BY <1>1, InitType, InitWired DEF IInv

(* A step leaves the motor watched over.                                   *)
LEMMA StepIInv == IInv /\ [Next]_vars => IInv'
<1>1. IInv /\ [Next]_vars => Watched'
  <2> SUFFICES ASSUME IInv, [Next]_vars PROVE Watched'
    OBVIOUS
  <2>1. CASE UNCHANGED vars
    BY <2>1 DEF vars, IInv, Watched, OnWatch
  <2> QED
    BY <2>1, BeginWatched, StepWatched, CleanupWatched, TickWatched DEF Next
<1> QED
  BY <1>1, WiredStep DEF IInv

(* The motor is at any time watched over by the cleanup of the latest      *)
(* command, whenever each cleanup has captured its number.                 *)
THEOREM WatchedAlways == Spec => []IInv
  BY InitIInv, StepIInv, PTL DEF Spec

(* While the motor is watched over it does not run longer than it may.     *)
LEMMA IInvOff == IInv => OffByTimeout
  BY ValveAssumption
  DEF ValveAssumption, IInv, TypeOK, Commands, Cleaner, Watched, OnWatch,
      OffByTimeout, TimeMayPass

(* Timeout after the latest command the motor is off, however many callers *)
(* commanded the valve and however late each cleanup captured its number.  *)
THEOREM OffByTimeoutHolds == Spec => []OffByTimeout
  BY IInvOff, WatchedAlways, PTL

-----------------------------------------------------------------------------
(* Nothing of an ended process is left but the pins.                       *)
Blank ==
  /\ pc = [c \in Callers |-> "idle"] /\ dir = [c \in Callers |-> FALSE]
  /\ cleaner = NoCommands

(* The invariant of the running process, and what the pins keep of it when *)
(* it is gone.                                                             *)
Across ==
  /\ up \in BOOLEAN
  /\ TypeOK /\ Interlock
  /\ up => IInv
  /\ ~up => Blank

(* The program is started for the first time.                              *)
LEMMA AcrossInit == ProcessInit => Across
  BY InitIInv DEF ProcessInit, Across, IInv, Wired

(* A running process keeps its own invariant.                              *)
LEMMA AcrossRun ==
  ASSUME Across, Run
  PROVE  Across'
<1>1. IInv'
  BY StepIInv DEF Across, Run
<1> QED
  BY <1>1 DEF Across, Run, IInv, Wired

(* The end of the process moves no pin.                                    *)
LEMMA AcrossExit ==
  ASSUME Across, Exit
  PROVE  Across'
<1>1. /\ cleaner' \in [Commands -> Cleaner]
  <2>1. [at |-> "none", got |-> 0, left |-> 0] \in Cleaner
    BY ValveAssumption DEF ValveAssumption, Cleaner
  <2> QED
    BY <2>1 DEF Exit, NoCommands
<1>2. pc' \in [Callers -> {"idle", "release", "engage", "finish"}]
  BY DEF Exit
<1>3. dir' \in [Callers -> BOOLEAN]
  BY Zenon DEF Exit
<1>4. cid' \in 0..MaxCalls
  BY ValveAssumption DEF ValveAssumption, Exit
<1>5. TypeOK'
  BY <1>1, <1>2, <1>3, <1>4 DEF Across, TypeOK, Exit
<1> QED
  BY <1>5 DEF Across, Exit, Interlock, Blank

(* Nor does time.                                                          *)
LEMMA AcrossWait ==
  ASSUME Across, Wait
  PROVE  Across'
<1>1. pos' \in 0..Timeout /\ age' \in 0..Timeout
  BY ValveAssumption DEF ValveAssumption, Across, TypeOK, Wait, Moved
<1> QED
  BY <1>1 DEF Across, TypeOK, Interlock, Wait, Blank

(* A new process releases both relays before its first command, and a      *)
(* cleanup watches over that command: the invariant holds again, whatever  *)
(* the end of the earlier process has left engaged.                        *)
LEMMA AcrossRestart ==
  ASSUME Across, NEW c \in Callers, Restart(c)
  PROVE  Across'
<1> USE ValveAssumption DEF ValveAssumption
<1>1. Blank /\ TypeOK
  BY DEF Across, Restart
<1>2. /\ pc' = [d \in Callers |-> IF d = c THEN "release" ELSE "idle"]
      /\ dir' = [d \in Callers |-> FALSE]
  BY <1>1 DEF Blank, Restart
<1>3. /\ 1 \in Commands
      /\ cleaner' = [n \in Commands |->
           [at |-> IF n = 1 THEN "spawned" ELSE "none", got |-> 0, left |-> 0]]
  <2>1. 1 \in Commands
    BY DEF Restart, Commands
  <2>2. cleaner = [n \in Commands |-> [at |-> "none", got |-> 0, left |-> 0]]
    BY <1>1 DEF Blank, NoCommands
  <2>3. cleaner' = [cleaner EXCEPT ![1] = [cleaner[1] EXCEPT !.at = "spawned"]]
    BY DEF Restart
  <2>4. [cleaner[1] EXCEPT !.at = "spawned"]
          = [at |-> "spawned", got |-> 0, left |-> 0]
    BY <2>1, <2>2
  <2>5. cleaner' = [n \in Commands |->
           IF n = 1 THEN [at |-> "spawned", got |-> 0, left |-> 0]
                    ELSE [at |-> "none", got |-> 0, left |-> 0]]
    BY <2>1, <2>2, <2>3, <2>4
  <2> QED
    BY <2>1, <2>5
<1>4. TypeOK'
  <2>1. cleaner' \in [Commands -> Cleaner]
    BY <1>3 DEF Cleaner
  <2>2. pc' \in [Callers -> {"idle", "release", "engage", "finish"}]
    BY <1>2
  <2>3. dir' \in [Callers -> BOOLEAN]
    BY <1>2, Zenon
  <2>4. cid' \in 0..MaxCalls /\ age' \in 0..Timeout
    BY DEF Restart
  <2> QED
    BY <1>1, <2>1, <2>2, <2>3, <2>4 DEF TypeOK, Restart
<1>5. Wired'
  <2>1. mtx' = c /\ c # NoCaller
    BY DEF Restart
  <2>2. Mutex'
    <3>1. led' = FALSE
      BY DEF Restart
    <3> QED
      BY <1>2, <2>1, <3>1 DEF Mutex
  <2> QED
    BY <1>2, <2>1, <2>2
    DEF Wired, Released, Interlock, LedShowsStatus, Restart
<1>6. Watched'
  BY <1>3 DEF Watched, OnWatch, Restart, Commands
<1> QED
  BY <1>4, <1>5, <1>6 DEF Across, Restart, IInv, Wired

(* Every step of the process, and a stutter, keeps the invariant.          *)
LEMMA AcrossStep == Across /\ [ProcessNext]_processVars => Across'
<1> SUFFICES ASSUME Across, [ProcessNext]_processVars PROVE Across'
  OBVIOUS
<1>1. CASE UNCHANGED processVars
  <2>1. UNCHANGED vars /\ up' = up
    BY <1>1 DEF processVars
  <2>2. up => IInv'
    BY <2>1, StepIInv DEF Across
  <2>3. TypeOK' /\ Interlock'
    BY <2>1, StepType DEF Across, Interlock, vars
  <2>4. ~up => Blank'
    BY <2>1 DEF Across, Blank, vars
  <2> QED
    BY <2>1, <2>2, <2>3, <2>4 DEF Across
<1> QED
  BY <1>1, AcrossRun, AcrossExit, AcrossWait, AcrossRestart DEF ProcessNext

(* At no time are both relays engaged, in a running process or after its   *)
(* end, whenever it ends and however often it is started again.            *)
THEOREM InterlockAcrossRestarts == ProcessSpec => []Interlock
<1>1. Across => Interlock
  BY DEF Across
<1> QED
  BY <1>1, AcrossInit, AcrossStep, PTL DEF ProcessSpec

(* In a running process the motor is off when its time is over, whatever   *)
(* was engaged when the process before it ended.                           *)
THEOREM OffWhileUpAlways == ProcessSpec => []OffWhileUp
<1>1. Across => OffWhileUp
  BY IInvOff DEF Across, OffWhileUp
<1> QED
  BY <1>1, AcrossInit, AcrossStep, PTL DEF ProcessSpec
=============================================================================
