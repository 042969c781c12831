------------------------------ MODULE FastDiag ------------------------------
(***************************************************************************)
(* The FastDiag algorithm (explanation/operations/algorithms/fastdiag.py)  *)
(* as its HS-dag labeler calls it (hsdag/labeler/fastdiag_labeler.py):     *)
(* FastDiagLabeler.get_label checks the background, find_diagnosis starts  *)
(* the divide-and-conquer search _fd for a maximal satisfiable subset, and *)
(* the constraints left out of it are the diagnosis.                       *)
(*                                                                         *)
(* The recursion of _fd is a call stack: one action per way a call can go  *)
(* on.  Only the elements of delta, set_b and the returned lists matter to *)
(* the code (they are tested for emptiness, joined, subtracted and handed  *)
(* to the checker), so these are sets; set_c stays a list, for split cuts  *)
(* it in two at its middle.                                                *)
(***************************************************************************)
EXTENDS Constraints

CONSTANTS
    Constraint,     \* the constraints (assumption literals)
    Tasks           \* the tasks the labeler may be asked to label

ASSUME TasksAssumption == Tasks \subseteq TaskOf(Constraint)

VARIABLES
    task,           \* the parameters of get_label
    pc,             \* "label", "call" (_fd is entered), "return" (_fd returns), "done"
    arg,            \* the arguments of the call of _fd being entered
    ret,            \* the set the last call of _fd returned
    stack,          \* the calls of _fd waiting for a recursive call, innermost last
    diag            \* what get_label answers, {} for no label

vars == <<task, pc, arg, ret, stack, diag>>

\* The locals a suspended call of _fd keeps: its two halves, its background,
\* which recursive call it waits for, and delta1 once the first has returned.
Frame ==
    [c1 : Seq(Constraint), c2 : Seq(Constraint), b : SUBSET Constraint,
     at : {"first", "second"}, delta1 : SUBSET Constraint]

Arg == [delta : SUBSET Constraint, c : Seq(Constraint), b : SUBSET Constraint]

TypeOK ==
    /\ task \in TaskOf(Constraint)
    /\ pc \in {"label", "call", "return", "done"}
    /\ arg \in Arg
    /\ ret \in SUBSET Constraint
    /\ stack \in Seq(Frame)
    /\ diag \in SUBSET Constraint

----------------------------------------------------------------------------
Top == stack[Len(stack)]
Pop == SubSeq(stack, 1, Len(stack) - 1)

\* The guard of get_label: something to diagnose, on a consistent background.
Diagnosable(t) ==
    /\ Len(t.c) >= 1
    /\ t.b = {} \/ Consistent(t.kb, t.b)

\* The guard of find_diagnosis.
NothingToDiagnose(t) == Len(t.c) = 0 \/ Consistent(t.kb, t.b \cup SetC(t))

Init ==
    /\ task \in Tasks
    /\ pc = "label"
    /\ arg = [delta |-> {}, c |-> <<>>, b |-> {}]
    /\ ret = {}
    /\ stack = <<>>
    /\ diag = {}

\* get_label returns [] because of its own guard or of find_diagnosis's.
NoLabel ==
    /\ pc = "label"
    /\ ~Diagnosable(task) \/ NothingToDiagnose(task)
    /\ pc' = "done"
    /\ UNCHANGED <<task, arg, ret, stack, diag>>

\* find_diagnosis calls _fd([], C, B).
StartFd ==
    /\ pc = "label"
    /\ Diagnosable(task)
    /\ ~NothingToDiagnose(task)
    /\ pc' = "call"
    /\ arg' = [delta |-> {}, c |-> task.c, b |-> task.b]
    /\ UNCHANGED <<task, ret, stack, diag>>

\* _fd: "if delta != [] and consistent(B U C) return C".
Satisfied == arg.delta # {} /\ Consistent(task.kb, arg.b \cup Range(arg.c))

KeepAll ==
    /\ pc = "call"
    /\ Satisfied
    /\ ret' = Range(arg.c)
    /\ pc' = "return"
    /\ UNCHANGED <<task, arg, stack, diag>>

\* _fd: "if singleton(C) return []".
DropOne ==
    /\ pc = "call"
    /\ ~Satisfied
    /\ Len(arg.c) = 1
    /\ ret' = {}
    /\ pc' = "return"
    /\ UNCHANGED <<task, arg, stack, diag>>

\* The faulty variants of an action carry a Bug in their names; no specification
\* uses them, and each breaks a property that the action keeps.

\* The second half is searched before the first.
SearchFirstHalfBugOrder ==
    /\ pc = "call"
    /\ ~Satisfied
    /\ Len(arg.c) # 1
    /\ stack' = Append(stack, [c1 |-> SecondHalf(arg.c), c2 |-> FirstHalf(arg.c),
                               b |-> arg.b, at |-> "first", delta1 |-> {}])
    /\ arg' = [delta |-> Range(FirstHalf(arg.c)), c |-> SecondHalf(arg.c),
               b |-> arg.b]
    /\ UNCHANGED <<task, pc, ret, diag>>

\* _fd splits C and calls itself on the first half, with the second as delta.
SearchFirstHalf ==
    /\ pc = "call"
    /\ ~Satisfied
    /\ Len(arg.c) # 1
    /\ stack' = Append(stack, [c1 |-> FirstHalf(arg.c), c2 |-> SecondHalf(arg.c),
                               b |-> arg.b, at |-> "first", delta1 |-> {}])
    /\ arg' = [delta |-> Range(SecondHalf(arg.c)), c |-> FirstHalf(arg.c), b |-> arg.b]
    /\ UNCHANGED <<task, pc, ret, diag>>

\* The second half is searched with the delta that QuickXPlain would pass.
SearchSecondHalfBugDelta ==
    /\ pc = "return"
    /\ stack # <<>>
    /\ Top.at = "first"
    /\ stack' = [stack EXCEPT ![Len(stack)] = [@ EXCEPT !.at = "second", !.delta1 = ret]]
    /\ arg' = [delta |-> ret, c |-> Top.c2, b |-> Top.b \cup ret]
    /\ pc' = "call"
    /\ UNCHANGED <<task, ret, diag>>

\* delta1 does not join the background of the second half.
SearchSecondHalfBugBackground ==
    /\ pc = "return"
    /\ stack # <<>>
    /\ Top.at = "first"
    /\ stack' = [stack EXCEPT ![Len(stack)] = [@ EXCEPT !.at = "second", !.delta1 = ret]]
    /\ arg' = [delta |-> Range(Top.c1) \ ret, c |-> Top.c2, b |-> Top.b]
    /\ pc' = "call"
    /\ UNCHANGED <<task, ret, diag>>

\* The second recursive call is made over and over.
SearchSecondHalfBugLoop ==
    /\ pc = "return"
    /\ stack # <<>>
    /\ Top.at = "first"
    /\ stack' = [stack EXCEPT ![Len(stack)] = [@ EXCEPT !.delta1 = ret]]
    /\ arg' = [delta |-> Range(Top.c1) \ ret, c |-> Top.c2, b |-> Top.b \cup ret]
    /\ pc' = "call"
    /\ UNCHANGED <<task, ret, diag>>

\* The first recursive call returned delta1: _fd calls itself on the second
\* half, with what the first half lost as delta and delta1 in the background.
SearchSecondHalf ==
    /\ pc = "return"
    /\ stack # <<>>
    /\ Top.at = "first"
    /\ stack' = [stack EXCEPT ![Len(stack)] = [@ EXCEPT !.at = "second", !.delta1 = ret]]
    /\ arg' = [delta |-> Range(Top.c1) \ ret, c |-> Top.c2, b |-> Top.b \cup ret]
    /\ pc' = "call"
    /\ UNCHANGED <<task, ret, diag>>

\* The second recursive call returned delta2: "return delta1 + delta2".
JoinHalves ==
    /\ pc = "return"
    /\ stack # <<>>
    /\ Top.at = "second"
    /\ ret' = Top.delta1 \cup ret
    /\ stack' = Pop
    /\ UNCHANGED <<task, pc, arg, diag>>

\* The outermost _fd returned the subset to keep: the rest is the diagnosis.
FindDiagnosis ==
    /\ pc = "return"
    /\ stack = <<>>
    /\ diag' = SetC(task) \ ret
    /\ pc' = "done"
    /\ UNCHANGED <<task, arg, ret, stack>>

Next ==
    \/ NoLabel
    \/ StartFd
    \/ KeepAll
    \/ DropOne
    \/ SearchFirstHalf
    \/ SearchSecondHalf
    \/ JoinHalves
    \/ FindDiagnosis

Spec == Init /\ [][Next]_vars

\* A call of get_label runs to its end: nothing else is scheduled against it,
\* and each check of the solver returns.
FairSpec == Spec /\ WF_vars(Next)

----------------------------------------------------------------------------
\* The labeler promises one answer: a minimal diagnosis when the background is
\* consistent and C contradicts it, and no label otherwise.
Answers(t) ==
    IF Consistent(t.kb, t.b) /\ ~Consistent(t.kb, t.b \cup SetC(t))
    THEN MinimalDiagnoses(t)
    ELSE {{}}

Promise == INSTANCE OneAnswer WITH answered <- pc = "done", answer <- diag

\* get_label answers once, with a minimal diagnosis whenever there is something
\* to diagnose and with no label otherwise, and never revises its answer
\* (find_diagnosis and _fd, fastdiag.py; get_label, fastdiag_labeler.py).
AnswersWithMinimalDiagnosis == Promise!Spec

\* What a call of _fd on the list with elements S over background b returns: a
\* part of S that is satisfiable with b and to which no element of S can be
\* added back.
Maximal(b, S, X) ==
    /\ X \subseteq S
    /\ Consistent(task.kb, b \cup X)
    /\ \A x \in S \ X : ~Consistent(task.kb, b \cup X \cup {x})

\* The elements and the background of the call the i-th waiting call is waiting
\* for; of the outermost call for i = 0.
Asked(i) ==
    IF i = 0 THEN [S |-> SetC(task), b |-> task.b]
    ELSE IF stack[i].at = "first"
         THEN [S |-> Range(stack[i].c1), b |-> stack[i].b]
         ELSE [S |-> Range(stack[i].c2), b |-> stack[i].b \cup stack[i].delta1]

\* Each waiting call is the one the call above it asked for; it is on a
\* consistent background it contradicts; and delta1, once known, is maximal in
\* the first half.
FrameOK(i) ==
    LET f == stack[i] IN
    /\ f.c1 # <<>>
    /\ f.c2 # <<>>
    /\ Asked(i - 1) = [S |-> Range(f.c1) \cup Range(f.c2), b |-> f.b]
    /\ Consistent(task.kb, f.b)
    /\ ~Consistent(task.kb, f.b \cup Range(f.c1) \cup Range(f.c2))
    /\ f.at = "second" => Maximal(f.b, Range(f.c1), f.delta1)

\* _fd runs only on a contradicted consistent background.  A call of it is
\* entered with an empty delta only if the check it then skips would have failed
\* (the reason delta exists, fastdiag.py:82), and returns a maximal satisfiable
\* part of what it was given.
CallsOK ==
    /\ pc = "label" => stack = <<>>
    /\ pc # "done" => diag = {}
    /\ pc \in {"call", "return"} =>
        /\ Consistent(task.kb, task.b)
        /\ ~Consistent(task.kb, task.b \cup SetC(task))
        /\ \A i \in 1 .. Len(stack) : FrameOK(i)
    /\ pc = "call" =>
        /\ arg.c # <<>>
        /\ Asked(Len(stack)) = [S |-> Range(arg.c), b |-> arg.b]
        /\ Consistent(task.kb, arg.b)
        /\ arg.delta = {} => ~Consistent(task.kb, arg.b \cup Range(arg.c))
    /\ pc = "return" => Maximal(Asked(Len(stack)).b, Asked(Len(stack)).S, ret)

\* Divide and conquer finds the diagnosis the left-to-right scan would: the order
\* of set_c is the order in which constraints are kept (the halves are searched
\* in order, and delta1 joins the background of the second).
DiagnosisIsPreferred == pc = "done" /\ diag # {} => diag = SetC(task) \ PreferredSubset(task)

\* Every call of get_label returns: the recursion ends.
Termination == <>(pc = "done")
=============================================================================
