----------------------------- MODULE MCFastDiag -----------------------------
(***************************************************************************)
(* FastDiag on every task of SmallKnowledgeBases with up to MaxLen         *)
(* constraints.                                                            *)
(***************************************************************************)
EXTENDS FastDiag, SmallKnowledgeBases

CONSTANT MaxLen

MCConstraint == 0 .. MaxLen
MCTasks == SmallTasks(MaxLen)
=============================================================================
