----------------------------- MODULE MCIOThread -----------------------------
(***************************************************************************)
(* Small instance of IOThread for TLC.                                     *)
(***************************************************************************)
EXTENDS IOThread
=============================================================================
