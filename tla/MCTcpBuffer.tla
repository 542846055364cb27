---------------------------- MODULE MCTcpBuffer ----------------------------
(***************************************************************************)
(* A small instance of TcpBuffer for TLC.                                  *)
(***************************************************************************)
EXTENDS TcpBuffer
=============================================================================
