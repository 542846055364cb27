---------------------------- MODULE MCCallSetup ----------------------------
(***************************************************************************)
(* A client and the thread that accepts, with a pool of two FdEvents.      *)
(***************************************************************************)
EXTENDS CallSetup
=============================================================================
