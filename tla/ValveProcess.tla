---------------------------- MODULE ValveProcess ----------------------------
(***************************************************************************)
(* The solar valve across the life of the process.  The process may end at *)
(* any step: killed, or by Fatal, which every shutdown ends in (startServer*)
(* in server.go).  Its goroutines are gone then, the sleeping cleanups     *)
(* included; the relay pins stay as they are and the motor with them.      *)
(* When it is started again newRelay releases both relays, and             *)
(* NewSolarValve gives a first command to turn off.                        *)
(***************************************************************************)
EXTENDS SolarValve

VARIABLE up      \* the process runs

processVars == <<vars, up>>

NoCommands == [n \in Commands |-> [at |-> "none", got |-> 0, left |-> 0]]

ProcessInit == Init /\ up = TRUE

Run == up /\ Next /\ UNCHANGED up

Exit ==
  /\ up /\ up' = FALSE
  /\ mtx' = NoCaller /\ cid' = 0 /\ status' = FALSE
  /\ pc' = [c \in Callers |-> "idle"] /\ dir' = [c \in Callers |-> FALSE]
  /\ cleaner' = NoCommands
  /\ UNCHANGED <<led, fwd, rev, age, pos>>

(* Time passes and the motor, if a relay is engaged, goes on.              *)
Wait ==
  /\ ~up
  /\ age' = (IF age < Timeout THEN age + 1 ELSE age)
  /\ pos' = Moved
  /\ UNCHANGED <<mtx, cid, status, led, fwd, rev, pc, dir, cleaner, up>>

(* ... and the first step of setState(FALSE), by the goroutine of main.    *)
Restart(c) ==
  /\ ~up /\ up' = TRUE
  /\ MaxCalls > 0
  /\ mtx' = c /\ cid' = 1 /\ status' = FALSE /\ led' = FALSE
  /\ fwd' = FALSE /\ rev' = FALSE
  /\ pc' = [pc EXCEPT ![c] = "release"] /\ dir' = [dir EXCEPT ![c] = FALSE]
  /\ cleaner' = [cleaner EXCEPT ![1].at = "spawned"]
  /\ age' = 0
  /\ UNCHANGED pos

ProcessNext == Run \/ Exit \/ Wait \/ \E c \in Callers : Restart(c)

ProcessSpec == ProcessInit /\ [][ProcessNext]_processVars

-----------------------------------------------------------------------------
(* While the process runs, whatever ended before it, the motor is off when *)
(* its time is over.                                                       *)
OffWhileUp == up => OffByTimeout

(* "... and will shut off after a given timeout" (relays.go:22), whether   *)
(* or not the process still runs.                                          *)
ShutsOff == age = Timeout /\ (up => TimeMayPass) => ~fwd /\ ~rev
=============================================================================
