----------------------------- MODULE SolarValve -----------------------------
(***************************************************************************)
(* The motorised solar valve of relays.go.  One relay drives the motor     *)
(* forward (water to the panels), the other drives it in reverse.          *)
(* SolarValve.setState engages one of them under a mutex and starts a      *)
(* cleanup goroutine that sleeps for the motor time and then releases both *)
(* relays, unless a newer command has been issued meanwhile.  The cleanup  *)
(* goroutines do NOT take the mutex.                                       *)
(*                                                                         *)
(* One step is one access to shared state: a relay call is one step.       *)
(* Time is a tick far longer than any run of a goroutine between two       *)
(* sleeps: a tick passes only when nobody can run (TimeMayPass).  Order    *)
(* inside a tick is arbitrary, so every race shorter than a tick is kept.  *)
(***************************************************************************)
EXTENDS Integers

CONSTANTS
  Callers,    \* goroutines that command the valve: control loop, button, ...
  NoCaller,   \* the mutex is free
  Timeout,    \* SolarValve.timeout in ticks, also the travel time of the valve
  MaxCalls    \* bound: commands issued in a behaviour

ASSUME ValveAssumption ==
  /\ NoCaller \notin Callers
  /\ Timeout \in Nat \ {0}
  /\ MaxCalls \in Nat

VARIABLES
  mtx,        \* holder of SolarValve.mtx
  cid,        \* SolarValve.cid, the number of the latest command
  status,     \* SolarValve.status, TRUE = on
  led,        \* the status LED pin
  fwd, rev,   \* the relay pins, TRUE = High = engaged
  pc, dir,    \* per caller: next step of setState and its argument
  cleaner,    \* per command: the cleanup goroutine it started
  age,        \* ticks since the latest command, saturating at Timeout
  pos         \* position of the valve body, 0 = bypass, Timeout = panels

vars == <<mtx, cid, status, led, fwd, rev, pc, dir, cleaner, age, pos>>

Commands == 1..MaxCalls

Cleaner == [at   : {"none", "spawned", "asleep", "fwdOff", "revOff", "done"},
            got  : 0..MaxCalls,  \* the cid captured before the sleep
            left : 0..Timeout]   \* ticks of sleep left

-----------------------------------------------------------------------------
(* NewSolarValve: both relays have been released, no command yet.  The     *)
(* body may have been left anywhere by an earlier run of the program.      *)
Init ==
  /\ mtx = NoCaller
  /\ cid = 0
  /\ status = FALSE /\ led = FALSE
  /\ fwd = FALSE /\ rev = FALSE
  /\ pc = [c \in Callers |-> "idle"]
  /\ dir = [c \in Callers |-> FALSE]
  /\ cleaner = [n \in Commands |-> [at |-> "none", got |-> 0, left |-> 0]]
  /\ age = Timeout
  /\ pos \in 0..Timeout

-----------------------------------------------------------------------------
(* setState(d): take the mutex, number the command, start its cleanup, set *)
(* the LED.                                                                *)
StartCommand(c, d) ==
  /\ pc[c] = "idle"
  /\ cid < MaxCalls
  /\ cid' = cid + 1
  /\ cleaner' = [cleaner EXCEPT ![cid + 1].at = "spawned"]
  /\ led' = d
  /\ dir' = [dir EXCEPT ![c] = d]
  /\ pc' = [pc EXCEPT ![c] = "release"]
  /\ mtx' = c
  /\ age' = 0
  /\ UNCHANGED <<status, fwd, rev, pos>>

\* mutant: setState without the mutex
BeginUnlocked(c, d) == StartCommand(c, d)

Begin(c, d) == mtx = NoCaller /\ StartCommand(c, d)

(* setState: release the relay of the opposite direction first, ...        *)
Release(c) ==
  /\ pc[c] = "release"
  /\ IF dir[c] THEN rev' = FALSE /\ UNCHANGED fwd
               ELSE fwd' = FALSE /\ UNCHANGED rev
  /\ pc' = [pc EXCEPT ![c] = "engage"]
  /\ UNCHANGED <<mtx, cid, status, led, dir, cleaner, age, pos>>

(* ... and, a millisecond later, engage the relay of this direction.       *)
Engage(c) ==
  /\ pc[c] = "engage"
  /\ IF dir[c] THEN fwd' = TRUE /\ UNCHANGED rev
               ELSE rev' = TRUE /\ UNCHANGED fwd
  /\ pc' = [pc EXCEPT ![c] = "finish"]
  /\ UNCHANGED <<mtx, cid, status, led, dir, cleaner, age, pos>>

(* setState: record the direction and release the mutex.                   *)
Finish(c) ==
  /\ pc[c] = "finish"
  /\ status' = dir[c]
  /\ mtx' = NoCaller
  /\ pc' = [pc EXCEPT ![c] = "idle"]
  /\ UNCHANGED <<cid, led, fwd, rev, dir, cleaner, age, pos>>

-----------------------------------------------------------------------------
\* "time.Sleep(s.timeout)"
SleepTime == Timeout

(* cleanup: the goroutine of command n gets to run, captures the number of *)
(* the latest command (maybe already a newer one than n) and sleeps.       *)
Capture(n) ==
  /\ cleaner[n].at = "spawned"
  /\ cleaner' = [cleaner EXCEPT ![n] =
                   [at |-> "asleep", got |-> cid, left |-> SleepTime]]
  /\ UNCHANGED <<mtx, cid, status, led, fwd, rev, pc, dir, age, pos>>

\* mutants: a cleanup that does not compare the command numbers, and one
\* that takes itself for superseded when it is not
AlwaysLatest(n) == TRUE
OnlyIfSuperseded(n) == cid # cleaner[n].got

\* "if s.cid == cid"
StillLatest(n) == cid = cleaner[n].got

(* cleanup: the sleep is over, and the decision is made without the mutex. *)
Check(n) ==
  /\ cleaner[n].at = "asleep" /\ cleaner[n].left = 0
  /\ cleaner' = [cleaner EXCEPT ![n].at =
                   IF StillLatest(n) THEN "fwdOff" ELSE "done"]
  /\ UNCHANGED <<mtx, cid, status, led, fwd, rev, pc, dir, age, pos>>

FwdOff(n) ==
  /\ cleaner[n].at = "fwdOff"
  /\ fwd' = FALSE
  /\ cleaner' = [cleaner EXCEPT ![n].at = "revOff"]
  /\ UNCHANGED <<mtx, cid, status, led, rev, pc, dir, age, pos>>

RevOff(n) ==
  /\ cleaner[n].at = "revOff"
  /\ rev' = FALSE
  /\ cleaner' = [cleaner EXCEPT ![n].at = "done"]
  /\ UNCHANGED <<mtx, cid, status, led, fwd, pc, dir, age, pos>>

-----------------------------------------------------------------------------
(* Nobody can run: no call in progress, every cleanup asleep or over.      *)
TimeMayPass ==
  /\ \A c \in Callers : pc[c] = "idle"
  /\ \A n \in Commands : \/ cleaner[n].at \in {"none", "done"}
                         \/ cleaner[n].at = "asleep" /\ cleaner[n].left > 0

(* The motor moves the valve body while a relay is engaged.                *)
Moved == CASE fwd /\ pos < Timeout -> pos + 1
           [] rev /\ pos > 0       -> pos - 1
           [] OTHER                -> pos

Tick ==
  /\ TimeMayPass
  /\ age' = IF age < Timeout THEN age + 1 ELSE age
  /\ cleaner' = [n \in Commands |->
                   IF cleaner[n].at = "asleep"
                   THEN [cleaner[n] EXCEPT !.left = @ - 1] ELSE cleaner[n]]
  /\ pos' = Moved
  /\ UNCHANGED <<mtx, cid, status, led, fwd, rev, pc, dir>>

-----------------------------------------------------------------------------
Step(c) == Release(c) \/ Engage(c) \/ Finish(c)

Cleanup(n) == Capture(n) \/ Check(n) \/ FwdOff(n) \/ RevOff(n)

Next ==
  \/ \E c \in Callers : (\E d \in BOOLEAN : Begin(c, d)) \/ Step(c)
  \/ \E n \in Commands : Cleanup(n)
  \/ Tick

(* Goroutines that can run do run, and time does not stop.  Nobody has to  *)
(* command the valve.                                                      *)
Fairness ==
  /\ \A c \in Callers : WF_vars(Step(c))
  /\ \A n \in Commands : WF_vars(Cleanup(n))
  /\ WF_vars(Tick)

Spec == Init /\ [][Next]_vars /\ Fairness

-----------------------------------------------------------------------------
TypeOK ==
  /\ mtx \in Callers \cup {NoCaller}
  /\ cid \in 0..MaxCalls
  /\ status \in BOOLEAN /\ led \in BOOLEAN
  /\ fwd \in BOOLEAN /\ rev \in BOOLEAN
  /\ pc \in [Callers -> {"idle", "release", "engage", "finish"}]
  /\ dir \in [Callers -> BOOLEAN]
  /\ cleaner \in [Commands -> Cleaner]
  /\ age \in 0..Timeout
  /\ pos \in 0..Timeout

(* "Only one can be engaged at any one time" (relays.go:22), whatever the  *)
(* commands and the cleanups interleave.                                   *)
Interlock == ~(fwd /\ rev)

(* "... and will shut off after a given timeout" (relays.go:22): once      *)
(* Timeout has passed since the latest command and every goroutine that    *)
(* was due has run, the motor is off.  A cleanup that captured its number  *)
(* late, or one superseded by a newer command, must not leave it running.  *)
OffByTimeout == age = Timeout /\ TimeMayPass => ~fwd /\ ~rev

(* While no command is being carried out the LED and SolarValve.status     *)
(* agree, although they are written at the two ends of setState.           *)
LedShowsStatus == mtx = NoCaller => led = status

(* A cleanup decides to stop the motor only when the latest command has    *)
(* had its full motor time: the cleanup of a superseded command, or one    *)
(* that started late, never cuts a newer command short by its decision.    *)
StopsOnlyWhenDue ==
  [][\A n \in Commands :
       cleaner[n].at = "asleep" /\ cleaner'[n].at = "fwdOff"
         => age = Timeout]_vars

(* A running motor is stopped by the cleanups alone, without any further   *)
(* command.                                                                *)
MotorStops == (fwd \/ rev) ~> (~fwd /\ ~rev)

(* "When set to ON, it runs the motor forward ..., when set to OFF, it     *)
(* runs the motor in reverse" (relays.go:143): when everything is at rest  *)
(* the valve body has reached the end that the status reports.             *)
AtRest == cid > 0 /\ TimeMayPass /\ \A n \in Commands : cleaner[n].at # "asleep"
FullTravel == AtRest => pos = IF status THEN Timeout ELSE 0
=============================================================================
