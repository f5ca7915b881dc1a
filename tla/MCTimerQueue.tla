---------------------------- MODULE MCTimerQueue ----------------------------
(* TimerQueue on a small instance. *)
EXTENDS TimerQueue
=============================================================================
