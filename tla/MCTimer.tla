------------------------------ MODULE MCTimer ------------------------------
(***************************************************************************)
(* Small instances of Timer for TLC.                                       *)
(***************************************************************************)
EXTENDS Timer

CONSTANTS long, short

\* A long event and a short one: either may be inserted before the other.
MCInterval == [e \in TimeEvents |-> IF e = long THEN 2 ELSE 1]
=============================================================================
