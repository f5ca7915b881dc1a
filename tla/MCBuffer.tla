------------------------------- MODULE MCBuffer -------------------------------
(* Buffers on small instances. *)
EXTENDS Buffer
=============================================================================
