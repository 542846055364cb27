----------------------------- MODULE MCRpcCall -----------------------------
(***************************************************************************)
(* RpcCall has no constants: one call against every behaviour of the peer. *)
(***************************************************************************)
EXTENDS RpcCall
=============================================================================
