------------------------------- MODULE Button -------------------------------
(***************************************************************************)
(* The push button and the goroutine that watches it (button.go).  The     *)
(* button closes the circuit to ground: pressed, the pin reads Low; the    *)
(* edges that wake the goroutine are rising, so a press is seen by the     *)
(* bouncing of its contacts.  Edges that nobody waits for collapse into    *)
(* one.  Times are in ticks; between two ticks the goroutine takes every   *)
(* step that does not wait for something.                                  *)
(***************************************************************************)
EXTENDS Naturals

CONSTANTS
  Bounce,       \* bouncetime
  Second,       \* what WaitForEdge waits, and what a disabled button sleeps
  Noise,        \* how long the contacts bounce after a movement
  CallbackTime, \* the longest a callback takes
  UpdateEvery   \* the period of the control loop, five seconds

ASSUME ButtonAssumption ==
  /\ {Bounce, Second, Noise, UpdateEvery} \subseteq Nat \ {0}
  /\ CallbackTime \in Nat /\ CallbackTime =< Second

VARIABLES
  held,      \* a finger is on the button
  level,     \* of the pin
  noise,     \* ticks for which the contacts will still bounce
  edge,      \* a rising edge waits to be seen
  at,        \* where the goroutine is
  timer,     \* ticks until its wait, sleep or callback is over
  since,     \* ticks since pushed, as far as they matter
  disabled,  \* Button.disabled
  update,    \* ticks until the control loop's next Update
  stop,      \* the call of Stop
  calls      \* history: callbacks since the button has last moved

hand == <<held, noise>>
ctl == <<disabled, update>>
wires == <<level, edge>>
loop == <<at, timer, since>>
vars == <<held, level, noise, edge, at, timer, since, disabled, update,
          stop, calls>>

Low == "low"
High == "high"
Settled(h) == IF h THEN Low ELSE High

Init ==
  /\ held = FALSE /\ level = High /\ noise = 0 /\ edge = FALSE
  /\ at = "wait" /\ timer = Second
  /\ since = Bounce + 1     \* "pushed: time.Now().Add(-1 * time.Second)"
  /\ disabled = FALSE /\ update = 0
  /\ stop = "no" /\ calls = 0

-----------------------------------------------------------------------------
(* The contacts bounce: any level, and a rising edge may have passed.      *)
Contacts(l) ==
  /\ level' = l
  /\ \/ edge' = TRUE
     \/ edge' = edge /\ ~(level = Low /\ l = High)

(* The finger comes or goes, not before the contacts are at rest.          *)
Move ==
  /\ noise = 0
  /\ held' = ~held /\ noise' = Noise
  /\ \E l \in {Low, High} : Contacts(l)
  /\ calls' = 0
  /\ UNCHANGED <<loop, ctl, stop>>

-----------------------------------------------------------------------------
DisabledSleep == Second

\* mutant: noise is not filtered
DebouncedAlways == TRUE

\* "b.pushed.Add(b.bouncetime).Before(now)"
Debounced == since > Bounce

\* mutant: on to the next edge
AfterEdgeContinue == "wait"

\* the select at the end of the loop's body
AfterEdge == "select"

Goto(place, ticks) == at' = place /\ timer' = ticks

(* WaitForEdge returns: with an edge, or for the time.                     *)
WakeUp ==
  /\ at = "wait"
  /\ \/ edge /\ edge' = FALSE /\ Goto("edge", 0)
     \/ ~edge /\ timer = 0 /\ UNCHANGED edge /\ Goto("select", 0)
  /\ UNCHANGED <<hand, level, since, ctl, stop, calls>>

(* A disabled button sleeps and goes on without the select.                *)
Ignore ==
  /\ at = "edge" /\ disabled
  /\ Goto("sleep", DisabledSleep)
  /\ UNCHANGED <<hand, wires, since, ctl, stop, calls>>

Push ==
  /\ at = "edge" /\ ~disabled
  /\ Debounced /\ level = Low
  /\ since' = 0 /\ calls' = calls + 1
  /\ Goto("callback", CallbackTime)
  /\ UNCHANGED <<hand, wires, ctl, stop>>

Dismiss ==
  /\ at = "edge" /\ ~disabled
  /\ ~(Debounced /\ level = Low)
  /\ Goto(AfterEdge, 0)
  /\ UNCHANGED <<hand, wires, since, ctl, stop, calls>>

(* The callback returns, at the latest when its time is over.              *)
Return ==
  /\ at = "callback"
  /\ Goto(AfterEdge, IF AfterEdge = "wait" THEN Second ELSE 0)
  /\ UNCHANGED <<hand, wires, since, ctl, stop, calls>>

EndSleep ==
  /\ at = "sleep" /\ timer = 0
  /\ Goto("wait", Second)
  /\ UNCHANGED <<hand, wires, since, ctl, stop, calls>>

(* "case <-b.done" takes the offer of a Stop that waits.                   *)
Select ==
  /\ at = "select"
  /\ IF stop = "waiting" THEN stop' = "returned" /\ Goto("stopped", 0)
     ELSE UNCHANGED stop /\ Goto("wait", Second)
  /\ UNCHANGED <<hand, wires, since, ctl, calls>>

Loop == WakeUp \/ Ignore \/ Push \/ Dismiss \/ EndSleep \/ Select

-----------------------------------------------------------------------------
\* mutant: the channel has a buffer
StopBegunBuffered == "returned"

\* the channel has no buffer: Stop waits for the select
StopBegun == "waiting"

(* The control loop's Update enables or disables the button, as configured;*)
(* in the end the control loop calls Stop.                                 *)
Update ==
  /\ stop = "no" /\ update = 0
  /\ disabled' \in BOOLEAN
  /\ update' = UpdateEvery
  /\ UNCHANGED <<hand, wires, loop, stop, calls>>

Stop ==
  /\ stop = "no"
  /\ stop' = StopBegun
  /\ UNCHANGED <<hand, wires, loop, ctl, calls>>

(* Time passes while the goroutine waits for something.                    *)
Tick ==
  /\ \/ at = "stopped"
     \/ at = "wait" /\ ~edge /\ timer > 0
     \/ at \in {"sleep", "callback"} /\ timer > 0
  /\ timer' = (IF timer > 0 THEN timer - 1 ELSE 0)
  /\ since' = (IF since > Bounce THEN since ELSE since + 1)
  /\ IF noise > 1 THEN \E l \in {Low, High} : Contacts(l)
     ELSE IF noise = 1 THEN Contacts(Settled(held))
     ELSE UNCHANGED wires
  /\ noise' = (IF noise > 0 THEN noise - 1 ELSE 0)
  /\ update' = (IF update > 0 THEN update - 1 ELSE 0)
  /\ UNCHANGED <<held, at, disabled, stop, calls>>

Next == Move \/ Loop \/ Return \/ Update \/ Stop \/ Tick

(* The goroutine runs, time passes and callbacks return; nobody has to     *)
(* press the button or to call Stop.                                       *)
Spec == Init /\ [][Next]_vars /\ WF_vars(Loop \/ Return) /\ WF_vars(Tick)

-----------------------------------------------------------------------------
TypeOK ==
  /\ held \in BOOLEAN /\ level \in {Low, High}
  /\ noise \in 0..Noise /\ edge \in BOOLEAN
  /\ at \in {"wait", "edge", "callback", "sleep", "select", "stopped"}
  /\ timer \in 0..Second /\ since \in 0..Bounce+1
  /\ disabled \in BOOLEAN /\ update \in 0..UpdateEvery
  /\ stop \in {"no", "waiting", "returned"}
  /\ calls \in Nat

(* "filter noise of up/down" (button.go:56): the edges of one movement of  *)
(* the finger call back at most once, those that arrive during a callback  *)
(* and are seen after it included, as long as neither the contacts nor a   *)
(* callback outlast the bouncetime.                                        *)
OncePerMovement == calls =< 1

(* "Stop kills the thread that is monitoring the button" (button.go:90):   *)
(* once Stop has returned no callback runs and none begins.                *)
StopIsFinal == stop = "returned" => at = "stopped"

(* Stop returns, unless the button is disabled and is pressed again in     *)
(* every second that the goroutine waits: then the loop's "continue"       *)
(* leaves out the select for ever (button.go:50).                          *)
StopReturns == stop = "waiting" ~> (stop = "returned" \/ (disabled /\ edge))
=============================================================================
