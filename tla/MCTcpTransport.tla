---------------------------- MODULE MCTcpTransport ----------------------------
(***************************************************************************)
(* TcpTransport alone, for TLC.                                            *)
(***************************************************************************)
EXTENDS TcpTransport
===============================================================================
