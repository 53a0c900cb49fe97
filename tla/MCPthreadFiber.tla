--------------------------- MODULE MCPthreadFiber ----------------------------
(* PthreadFiber with the values TLC checks it for. *)
EXTENDS PthreadFiber, TLC
=============================================================================
