--------------------------- MODULE MCAsyncLogger ---------------------------
(***************************************************************************)
(* Small instance of AsyncLogger for TLC.                                  *)
(***************************************************************************)
EXTENDS AsyncLogger
=============================================================================
