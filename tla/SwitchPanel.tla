---------------------------- MODULE SwitchPanel ----------------------------
(***************************************************************************)
(* What Switches promises to those who command it: each command takes      *)
(* effect at once, a command given by a person holds until it lapses, and  *)
(* nothing automatic happens while it holds.  Commands that meet void the  *)
(* promise while they are in progress, except that a panel that is locked  *)
(* stays so.                                                               *)
(***************************************************************************)

VARIABLES
  mode,     \* what the panel is set to
  hold,     \* a manual command is in force
  locked,   \* shut down for good
  sure      \* no command in progress has met another

vars == <<mode, hold, locked, sure>>

Pumping == {"PUMP", "SWEEP", "SOLAR", "MIXING"}

Init == mode = "OFF" /\ hold = FALSE /\ locked = FALSE /\ sure = TRUE

(* A person starts the pumps or changes what they do.                      *)
StartByHand(s) ==
  /\ mode # "DISABLED"
  /\ mode' = s /\ hold' = TRUE
  /\ UNCHANGED locked

(* A person stops the pumps; disabled switches stay disabled.              *)
StopByHand ==
  /\ mode' = IF mode = "DISABLED" THEN "DISABLED" ELSE "OFF"
  /\ hold' = TRUE
  /\ UNCHANGED locked

(* The controller acts on its own.  It never picks PUMP, and it leaves     *)
(* DISABLED for OFF only.                                                  *)
Automatic(s) ==
  /\ ~hold /\ ~locked
  /\ mode = "DISABLED" => s \in {"OFF", "DISABLED"}
  /\ mode' = s
  /\ UNCHANGED <<hold, locked>>

(* The manual command runs out, or holds again with a longer run time.     *)
Lapse == hold /\ hold' = FALSE /\ UNCHANGED <<mode, locked>>
Revive == ~hold /\ hold' = TRUE /\ UNCHANGED <<mode, locked>>

(* The controller has ended.                                               *)
Lock == mode' = "DISABLED" /\ locked' = TRUE /\ UNCHANGED hold

Sure ==
  \/ \E s \in Pumping : StartByHand(s)
  \/ StopByHand
  \/ \E s \in {"DISABLED", "OFF", "SWEEP", "SOLAR", "MIXING"} : Automatic(s)
  \/ Lapse \/ Revive \/ Lock

(* Commands have met, or the last of those that had has ended.             *)
Collide == (~sure \/ ~sure') /\ (locked => locked')

(* The controller starts again, after an end at any moment.                *)
Restart == mode' = "OFF" /\ hold' = FALSE /\ locked' = FALSE /\ sure' = TRUE

Next ==
  \/ sure /\ sure' /\ Sure
  \/ Collide
  \/ Restart

Spec == Init /\ [][Next]_vars
=============================================================================
