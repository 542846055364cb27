---------------------------- MODULE MCEventLoop ----------------------------
(***************************************************************************)
(* Small instances of EventLoop for TLC.                                   *)
(***************************************************************************)
EXTENDS EventLoop, TLC

\* The remote threads are interchangeable in the safety runs.
RemoteSymmetry == Permutations(Remotes)
=============================================================================
