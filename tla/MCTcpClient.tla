----------------------------- MODULE MCTcpClient -----------------------------
(* TcpClient and Connector on small instances. *)
EXTENDS TcpClient
=============================================================================
