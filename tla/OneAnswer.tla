----------------------------- MODULE OneAnswer -----------------------------
(***************************************************************************)
(* What a direct algorithm (FastDiag, QuickXPlain) promises its labeler:   *)
(* asked about a task, it answers once, with one of the answers the task   *)
(* admits, and the answer stands.                                          *)
(***************************************************************************)
CONSTANTS
    Tasks,          \* the tasks it may be asked about
    Answers(_)      \* the answers each of them admits

VARIABLES
    task,           \* what was asked
    answered,       \* whether the answer was given
    answer          \* the answer, {} before

vars == <<task, answered, answer>>

Init ==
    /\ task \in Tasks
    /\ answered = FALSE
    /\ answer = {}

Answer ==
    /\ ~answered
    /\ answered' = TRUE
    /\ answer' \in Answers(task)
    /\ UNCHANGED task

Next == Answer

Spec == Init /\ [][Next]_vars
=============================================================================
