---------------------------- MODULE BreakHandshake ----------------------------
(***************************************************************************)
(* What wait_for_action and the step and resume messages promise each      *)
(* other, without the mutex, the condition variable or the two threads: a  *)
(* program runs or is stopped, one command slot holds the last command the *)
(* client gave, and a stopped program goes on by emptying the slot.        *)
(***************************************************************************)
CONSTANTS GoCommands, NoCommand

VARIABLES phase, slot
vars == <<phase, slot>>

Init == phase = "running" /\ slot = NoCommand

Stop == phase = "running" /\ phase' = "stopped" /\ UNCHANGED slot

\* A second command replaces one nobody took; one given early is kept.
Give(c) == slot' = c /\ UNCHANGED phase

Go ==
  /\ phase = "stopped"
  /\ slot # NoCommand
  /\ phase' = "running"
  /\ slot' = NoCommand

Next == Stop \/ Go \/ \E c \in GoCommands : Give(c)

Spec == Init /\ [][Next]_vars

FairSpec == Spec /\ WF_vars(Go)
=============================================================================
