------------------------- MODULE ParameterSchedule --------------------------
(***************************************************************************)
(* What a client of the chain parameters relies on: a schedule gives the   *)
(* parameters of every height, the tip moves along it, and an announcement *)
(* rewrites the schedule only from the tip plus the activation delay on.   *)
(* "They apply at activation_epoch_height so every honest node that        *)
(* processes the same blocks transitions at the same height"               *)
(* (chain_params.rs, 4-5) needs that much: as long as the tip does not go  *)
(* back, what was in force below it stays as it was, and at the tip itself *)
(* unless the delay is 0.  The tip may go back (set_chain_tip_height takes *)
(* any height), and what had been in force above it may then be rewritten. *)
(***************************************************************************)
EXTENDS Integers

CONSTANTS MaxHeight, MinDelay, Genesis

VARIABLES tip, schedule

Init == tip = 0 /\ schedule = [h \in 0..MaxHeight |-> Genesis]

MoveTip == tip' \in 0..MaxHeight /\ UNCHANGED schedule

\* The sum of the tip and the delay saturates, so that the last height can
\* always be announced for.
Announce ==
  /\ \A h \in 0..MaxHeight :
       h < tip + MinDelay /\ h < MaxHeight => schedule'[h] = schedule[h]
  /\ UNCHANGED tip

Next == MoveTip \/ Announce

Spec == Init /\ [][Next]_<<tip, schedule>>
=============================================================================
