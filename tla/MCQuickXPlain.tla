--------------------------- MODULE MCQuickXPlain ----------------------------
(***************************************************************************)
(* QuickXPlain on every task of SmallKnowledgeBases with up to MaxLen      *)
(* constraints.                                                            *)
(***************************************************************************)
EXTENDS QuickXPlain, SmallKnowledgeBases

CONSTANT MaxLen

MCConstraint == 0 .. MaxLen
MCTasks == SmallTasks(MaxLen)
=============================================================================
