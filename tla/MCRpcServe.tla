---------------------------- MODULE MCRpcServe ----------------------------
(***************************************************************************)
(* Small instances of RpcServe for TLC.                                    *)
(***************************************************************************)
EXTENDS RpcServe
=============================================================================
