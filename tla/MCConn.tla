------------------------------- MODULE MCConn -------------------------------
(* Instances of Conn for TLC.                                              *)
EXTENDS Conn
=============================================================================
