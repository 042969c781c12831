---------------------------- MODULE MCOperations ----------------------------
(* Every operation, with each limit set and unset, over three executions of *)
(* up to three checks in all.                                               *)
EXTENDS Operations

MCLimitValues == {0, 1}
=============================================================================
