---------------------------- MODULE ButtonProofs ----------------------------
(***************************************************************************)
(* Proofs about Button, for any times that stand in the order that the     *)
(* code's constants do.                                                    *)
(***************************************************************************)
EXTENDS Button, TLAPS

Places == {"wait", "edge", "callback", "sleep", "select", "stopped"}

(* The constants are numbers in this order.                                *)
LEMMA Times ==
  /\ Bounce \in Nat /\ Bounce > 0 /\ Second \in Nat /\ Second > 0
  /\ Noise \in Nat /\ Noise > 0 /\ UpdateEvery \in Nat /\ UpdateEvery > 0
  /\ CallbackTime \in Nat /\ CallbackTime =< Second
  BY ButtonAssumption DEF ButtonAssumption

(* Counting down, and up to a cap.                                         *)
LEMMA Down ==
  ASSUME NEW most \in Nat, NEW n \in 0..most
  PROVE  (IF n > 0 THEN n - 1 ELSE 0) \in 0..most
  OBVIOUS

(* One step keeps the types.                                               *)
LEMMA StepType == TypeOK /\ [Next]_vars => TypeOK'
<1> SUFFICES ASSUME TypeOK, [Next]_vars PROVE TypeOK'
  OBVIOUS
<1> USE DEF TypeOK, hand, ctl, wires, loop
<1>1. CASE Move
  <2>1. level' \in {Low, High} /\ edge' \in BOOLEAN
    BY <1>1 DEF Move, Contacts
  <2>2. noise' \in 0..Noise /\ calls' \in Nat
    BY <1>1, Times DEF Move
  <2> QED
    BY <1>1, <2>1, <2>2 DEF Move
<1>2. ASSUME NEW place \in Places, NEW ticks \in 0..Second, Goto(place, ticks)
      PROVE  at' \in Places /\ timer' \in 0..Second
  BY <1>2 DEF Goto
<1>3. 0 \in 0..Second /\ Second \in 0..Second /\ CallbackTime \in 0..Second
  BY Times
<1>4. CASE WakeUp
  BY <1>2, <1>3, <1>4 DEF WakeUp, Places
<1>5. CASE Ignore
  BY <1>2, <1>3, <1>5 DEF Ignore, DisabledSleep, Places
<1>6. CASE Push
  <2>1. since' \in 0..Bounce+1 /\ calls' \in Nat
    BY <1>6, Times DEF Push
  <2> QED
    BY <1>2, <1>3, <1>6, <2>1 DEF Push, Places
<1>7. CASE Dismiss
  BY <1>2, <1>3, <1>7 DEF Dismiss, AfterEdge, Places
<1>8. CASE Return
  BY <1>2, <1>3, <1>8 DEF Return, AfterEdge, Places
<1>9. CASE EndSleep
  BY <1>2, <1>3, <1>9 DEF EndSleep, Places
<1>10. CASE Select
  BY <1>2, <1>3, <1>10 DEF Select, Places
<1>11. CASE Update
  <2>1. update' \in 0..UpdateEvery
    BY <1>11, Times DEF Update
  <2> QED
    BY <1>11, <2>1 DEF Update
<1>12. CASE Stop
  BY <1>12 DEF Stop, StopBegun
<1>13. CASE Tick
  <2>1. level' \in {Low, High} /\ edge' \in BOOLEAN
    BY <1>13 DEF Tick, Contacts, Settled
  <2>2. timer' \in 0..Second /\ noise' \in 0..Noise /\ update' \in 0..UpdateEvery
    BY <1>13, Times, Down DEF Tick
  <2>3. since' \in 0..Bounce+1
    BY <1>13, Times DEF Tick
  <2> QED
    BY <1>13, <2>1, <2>2, <2>3 DEF Tick
<1>14. CASE UNCHANGED vars
  BY <1>14 DEF vars
<1> QED
  BY <1>1, <1>4, <1>5, <1>6, <1>7, <1>8, <1>9, <1>10, <1>11, <1>12, <1>13, <1>14
  DEF Next, Loop

(* The first values have the right types.                                  *)
LEMMA InitType == Init => TypeOK
<1> SUFFICES ASSUME Init PROVE TypeOK
  OBVIOUS
<1>1. /\ noise \in 0..Noise /\ timer \in 0..Second /\ since \in 0..Bounce+1
      /\ update \in 0..UpdateEvery /\ calls \in Nat
  BY Times DEF Init
<1> QED
  BY <1>1 DEF Init, TypeOK

(* The variables keep their types.                                         *)
THEOREM TypeCorrect == Spec => []TypeOK
  BY InitType, StepType, PTL DEF Spec

-----------------------------------------------------------------------------
(* Stop returns in the step in which the goroutine ends, and the goroutine *)
(* takes no step any more.                                                 *)
LEMMA StepFinal == StopIsFinal /\ [Next]_vars => StopIsFinal'
<1> SUFFICES ASSUME StopIsFinal, [Next]_vars PROVE StopIsFinal'
  OBVIOUS
<1> USE DEF StopIsFinal, Goto, loop
<1>1. CASE Move \/ Update \/ Stop \/ Tick
  BY <1>1 DEF Move, Update, Stop, Tick, StopBegun
<1>2. CASE Loop \/ Return
  BY <1>2 DEF Loop, WakeUp, Ignore, Push, Dismiss, EndSleep, Select, Return
<1>3. CASE UNCHANGED vars
  BY <1>3 DEF vars
<1> QED
  BY <1>1, <1>2, <1>3 DEF Next

(* Once Stop has returned no callback runs and none begins.                *)
THEOREM StopIsFinalHolds == Spec => []StopIsFinal
<1>1. Init => StopIsFinal
  BY DEF Init, StopIsFinal
<1> QED
  BY <1>1, StepFinal, PTL DEF Spec

-----------------------------------------------------------------------------
(* Neither the contacts nor a callback outlast the bouncetime, and the     *)
(* loop's period outlasts it and the sleep of a disabled button.           *)
Timing ==
  /\ Noise =< Bounce /\ CallbackTime =< Bounce
  /\ UpdateEvery > Second + Bounce

(* Within the bouncetime of a callback, whose movement has not ended: the  *)
(* contacts and the callback are done by its end, and a button disabled    *)
(* since then stays so for longer than its sleep may last.                 *)
Recent ==
  /\ noise > 0 => noise + since =< Bounce
  /\ at = "callback" => timer + since =< Bounce
  /\ since =< Bounce /\ disabled /\ stop = "no" => update + since >= UpdateEvery
  /\ since =< Bounce /\ at = "sleep" => disabled

(* After it: an edge that is still to be seen is one that a disabled       *)
(* button has slept through and will, disabled still, ignore.              *)
Remains(ticks) == disabled /\ (stop = "no" => update > ticks)

Over ==
  since > Bounce =>
    /\ edge => \/ at = "stopped"
               \/ at = "sleep" /\ Remains(timer)
               \/ at = "wait" /\ Remains(0)
    /\ at = "edge" => ~edge /\ Remains(0)

Once == calls =< 1 /\ (calls = 1 => Recent /\ Over)

(* Time within the bouncetime and after it.                                *)
LEMMA TickOnce ==
  ASSUME Timing, TypeOK, calls = 1, Recent, Over, Tick
  PROVE  (Recent /\ Over)'
<1> USE Times DEF Timing, TypeOK
<1>1. /\ timer' = (IF timer > 0 THEN timer - 1 ELSE 0)
      /\ since' = (IF since > Bounce THEN since ELSE since + 1)
      /\ noise' = (IF noise > 0 THEN noise - 1 ELSE 0)
      /\ update' = (IF update > 0 THEN update - 1 ELSE 0)
      /\ at' = at /\ disabled' = disabled /\ stop' = stop
  BY DEF Tick
<1>2. noise' > 0 => noise' + since' =< Bounce
  BY <1>1 DEF Recent
<1>3. at' = "callback" => timer' + since' =< Bounce
  BY <1>1 DEF Recent, Tick
<1>4. since' =< Bounce /\ disabled' /\ stop' = "no" => update' + since' >= UpdateEvery
  <2> SUFFICES ASSUME since' =< Bounce, disabled', stop' = "no"
               PROVE  update' + since' >= UpdateEvery
    OBVIOUS
  <2>1. since =< Bounce /\ since' = since + 1 /\ disabled /\ stop = "no"
    BY <1>1
  <2>2. update + since >= UpdateEvery
    BY <2>1 DEF Recent
  <2>3. update > 0
    BY <2>1, <2>2
  <2> QED
    BY <1>1, <2>1, <2>2, <2>3
<1>5. since' =< Bounce /\ at' = "sleep" => disabled'
  BY <1>1 DEF Recent
<1>6. Recent'
  BY <1>2, <1>3, <1>4, <1>5 DEF Recent
<1>7. since' > Bounce => edge' = edge
  BY <1>1 DEF Recent, Tick, wires
<1>8. ASSUME since > Bounce PROVE Over'
  BY <1>1, <1>7, <1>8 DEF Over, Remains, Tick
<1>9. ASSUME since = Bounce, edge' PROVE Over'
  <2>1. at \in {"stopped", "sleep"}
    <3>1. since' > Bounce
      BY <1>1, <1>9
    <3>2. edge
      BY <1>7, <1>9, <3>1
    <3>3. ~(at = "callback" /\ timer > 0)
      BY <1>9 DEF Recent
    <3> QED
      BY <3>2, <3>3 DEF Tick
  <2>2. CASE at = "stopped"
    BY <1>1, <2>2 DEF Over
  <2>3. CASE at = "sleep"
    <3>1. disabled /\ timer > 0
      BY <1>9, <2>3 DEF Recent, Tick
    <3>2. stop = "no" => update + since >= UpdateEvery
      BY <1>9, <3>1 DEF Recent
    <3>3. stop = "no" => update' > timer'
      BY <1>1, <1>9, <3>1, <3>2
    <3> QED
      BY <1>1, <2>3, <3>1, <3>3 DEF Over, Remains
  <2> QED
    BY <2>1, <2>2, <2>3
<1>10. CASE since = Bounce /\ ~edge'
  <2>1. at' # "edge"
    BY <1>1 DEF Tick
  <2> QED
    BY <1>6, <1>10, <2>1 DEF Over
<1>11. CASE since < Bounce
  <2>1. ~(since' > Bounce)
    BY <1>1, <1>11
  <2> QED
    BY <1>6, <2>1 DEF Over
<1>12. since > Bounce \/ since = Bounce \/ since < Bounce
  OBVIOUS
<1> QED
  BY <1>6, <1>8, <1>9, <1>10, <1>11, <1>12

(* One step keeps it at one callback.                                      *)
LEMMA StepOnce ==
  ASSUME Timing, TypeOK, Once, [Next]_vars
  PROVE  Once'
<1> USE Times DEF Timing
<1>1. CASE calls = 0 /\ ~Push
  <2>1. calls' = 0
    BY <1>1 DEF Next, Loop, Move, WakeUp, Ignore, Dismiss, EndSleep, Select,
                Return, Update, Stop, Tick, vars
  <2> QED
    BY <2>1 DEF Once
<1>2. CASE Push
  <2>1. calls = 0
    <3>1. calls \in {0, 1}
      BY DEF Once, TypeOK
    <3>2. calls # 1
      BY <1>2 DEF Push, Debounced, Once, Over, Remains
    <3> QED
      BY <3>1, <3>2
  <2>2. /\ since' = 0 /\ calls' = 1 /\ at' = "callback" /\ timer' = CallbackTime
        /\ noise' = noise /\ disabled' = FALSE
    BY <1>2, <2>1 DEF Push, Goto, hand, ctl, TypeOK
  <2>3. noise \in 0..Noise
    BY DEF TypeOK
  <2>4. Recent'
    BY <2>2, <2>3 DEF Recent
  <2>5. Over'
    BY <2>2 DEF Over
  <2> QED
    BY <2>2, <2>4, <2>5 DEF Once
<1>3. ASSUME calls = 1, ~Push, ~Move PROVE Once'
  <2>1. calls' = 1
    BY <1>3 DEF Next, Loop, WakeUp, Ignore, Dismiss, EndSleep, Select,
                Return, Update, Stop, Tick, vars
  <2> SUFFICES (Recent /\ Over)'
    BY <2>1 DEF Once
  <2>2. Recent /\ Over
    BY <1>3 DEF Once
  <2>3. CASE Tick
    BY <1>3, <2>2, <2>3, TickOnce
  <2>4. CASE WakeUp
    BY <2>2, <2>4 DEF WakeUp, Goto, hand, ctl, Recent, Over, Remains
  <2>5. CASE Ignore
    BY <2>2, <2>5 DEF Ignore, Goto, hand, ctl, wires, Recent, Over, Remains
  <2>6. CASE Dismiss
    <3>1. since =< Bounce \/ ~edge
      BY <2>2, <2>6 DEF Dismiss, Over, TypeOK
    <3> QED
      BY <2>2, <2>6, <3>1 DEF Dismiss, AfterEdge, Goto, hand, ctl, wires, Recent,
                              Over, Remains, TypeOK
  <2>7. CASE Return
    <3>1. since =< Bounce
      BY <2>2, <2>7 DEF Return, Recent, TypeOK
    <3> QED
      BY <2>2, <2>7, <3>1 DEF Return, AfterEdge, Goto, hand, ctl, wires, Recent,
                              Over, Remains, TypeOK
  <2>8. CASE EndSleep
    BY <2>2, <2>8 DEF EndSleep, Goto, hand, ctl, wires, Recent, Over, Remains
  <2>9. CASE Select
    BY <2>2, <2>9 DEF Select, Goto, hand, ctl, wires, Recent, Over, Remains
  <2>10. CASE Update
    <3>1. update = 0 /\ stop = "no" /\ stop' = "no" /\ update' = UpdateEvery
      BY <2>10 DEF Update
    <3>2. UNCHANGED <<noise, since, at, timer, edge>>
      BY <2>10 DEF Update, hand, wires, loop
    <3>3. ~(since =< Bounce /\ disabled)
      BY <2>2, <3>1 DEF Recent, TypeOK
    <3>4. Recent'
      BY <2>2, <3>1, <3>2, <3>3 DEF Recent, TypeOK
    <3>5. Over'
      BY <2>2, <3>1, <3>2 DEF Over, Remains, TypeOK
    <3> QED
      BY <3>4, <3>5
  <2>11. CASE Stop
    BY <2>2, <2>11 DEF Stop, StopBegun, hand, ctl, wires, loop, Recent, Over, Remains
  <2>12. CASE UNCHANGED vars
    BY <2>2, <2>12 DEF vars, Recent, Over, Remains
  <2> QED
    BY <1>3, <2>3, <2>4, <2>5, <2>6, <2>7, <2>8, <2>9, <2>10, <2>11, <2>12
    DEF Next, Loop
<1>4. CASE Move
  BY <1>4 DEF Move, Once
<1> QED
  <2>1. calls \in {0, 1}
    BY DEF Once, TypeOK
  <2> QED
    BY <1>1, <1>2, <1>3, <1>4, <2>1

(* The edges of one movement call back at most once.                       *)
THEOREM OncePerMovementHolds == ASSUME Timing PROVE Spec => []OncePerMovement
<1>1. Init => Once
  BY DEF Init, Once
<1>2. TypeOK /\ Once /\ [Next]_vars => Once'
  BY StepOnce
<1>3. Once => OncePerMovement
  BY DEF Once, OncePerMovement
<1> QED
  BY <1>1, <1>2, <1>3, TypeCorrect, PTL DEF Spec
=============================================================================
