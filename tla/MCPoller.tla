------------------------------ MODULE MCPoller -------------------------------
(* The poller on small instances. *)
EXTENDS Poller
=============================================================================
