----------------------------- MODULE MCRpcClient -----------------------------
(* RpcClient on small instances. *)
EXTENDS RpcClient

CONSTANTS c1, c2, approval, question   \* model values
=============================================================================
