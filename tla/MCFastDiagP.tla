---------------------------- MODULE MCFastDiagP ----------------------------
(***************************************************************************)
(* FastDiagP on every knowledge base over MaxLen constraints whose         *)
(* conflicts all have one size of at most 3 or are any two of such sizes,  *)
(* asked first about the whole list and then about lists of it with        *)
(* another background.                                                     *)
(***************************************************************************)
EXTENDS FastDiagP, SmallKnowledgeBases

CONSTANT MaxLen

MCConstraint == 1 .. MaxLen

Whole == [i \in 1 .. MaxLen |-> i]
MCTasks ==
    [kb : KBs(MCConstraint), c : {Whole, Tail(Whole)}, b : {{}}]
        \cup [kb : KBs(MCConstraint), c : {Tail(Whole)}, b : {{1}}]
=============================================================================
