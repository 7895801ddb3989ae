----------------------------- MODULE Countdown -----------------------------
(***************************************************************************)
(* What the Timer widget promises: a time that goes down by one a second   *)
(* while it runs, stays while it is paused, and grows by what is added.    *)
(* SmallScreen implements it.                                              *)
(***************************************************************************)
EXTENDS Naturals

CONSTANTS Durations, Additions
VARIABLES time, running

Init == time \in Durations /\ ~running

Second == running /\ time > 0 /\ time' = time - 1 /\ UNCHANGED running

\* It stops, or the next phase of a Pomodoro starts.
RunsOut ==
  /\ running /\ time = 0
  /\ \/ running' = FALSE /\ UNCHANGED time
     \/ time' \in Durations /\ UNCHANGED running

\* A timer that ran out starts over.
StartPause ==
  /\ running' = ~running
  /\ IF ~running /\ time = 0 THEN time' > 0 ELSE UNCHANGED time

Add == UNCHANGED running /\ \E m \in Additions : time' = time + m

\* Reset, or given other settings.
New == running' = FALSE /\ time' \in Durations

Next == Second \/ RunsOut \/ StartPause \/ Add \/ New

Spec == Init /\ [][Next]_<<time, running>>
=============================================================================
