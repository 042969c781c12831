---------------------------- MODULE QuickXPlain ----------------------------
(***************************************************************************)
(* The QuickXPlain algorithm (explanation/operations/algorithms/           *)
(* quickxplain.py) as its HS-dag labeler calls it (hsdag/labeler/          *)
(* quickxplain_labeler.py): find_conflict checks that C contradicts the    *)
(* background and starts the divide-and-conquer search _qx.                *)
(*                                                                         *)
(* As in FastDiag, the recursion is a call stack and every list of which   *)
(* the code only uses the elements is a set.  Unlike FastDiag's labeler,   *)
(* nothing here checks that the background is consistent.                  *)
(***************************************************************************)
EXTENDS Constraints

CONSTANTS
    Constraint,     \* the constraints (assumption literals)
    Tasks           \* the tasks the labeler may be asked to label

ASSUME TasksAssumption == Tasks \subseteq TaskOf(Constraint)

VARIABLES
    task,           \* the parameters of get_label
    pc,             \* "label", "call" (_qx is entered), "return" (_qx returns), "done"
    arg,            \* the arguments of the call of _qx being entered
    ret,            \* the set the last call of _qx returned
    stack,          \* the calls of _qx waiting for a recursive call, innermost last
    conflict        \* what get_label answers, {} for no label

vars == <<task, pc, arg, ret, stack, conflict>>

\* The locals a suspended call of _qx keeps: its two halves, its background,
\* which recursive call it waits for, and cs1 once the first has returned.
Frame ==
    [c1 : Seq(Constraint), c2 : Seq(Constraint), b : SUBSET Constraint,
     at : {"first", "second"}, cs1 : SUBSET Constraint]

Arg == [d : SUBSET Constraint, c : Seq(Constraint), b : SUBSET Constraint]

TypeOK ==
    /\ task \in TaskOf(Constraint)
    /\ pc \in {"label", "call", "return", "done"}
    /\ arg \in Arg
    /\ ret \in SUBSET Constraint
    /\ stack \in Seq(Frame)
    /\ conflict \in SUBSET Constraint

----------------------------------------------------------------------------
Top == stack[Len(stack)]
Pop == SubSeq(stack, 1, Len(stack) - 1)

\* The guard of find_conflict.
NothingToExplain(t) == Len(t.c) = 0 \/ Consistent(t.kb, t.b \cup SetC(t))

Init ==
    /\ task \in Tasks
    /\ pc = "label"
    /\ arg = [d |-> {}, c |-> <<>>, b |-> {}]
    /\ ret = {}
    /\ stack = <<>>
    /\ conflict = {}

\* find_conflict returns [], and get_label no label.
NoLabel ==
    /\ pc = "label"
    /\ NothingToExplain(task)
    /\ pc' = "done"
    /\ UNCHANGED <<task, arg, ret, stack, conflict>>

\* find_conflict calls _qx([], C, B).
StartQx ==
    /\ pc = "label"
    /\ ~NothingToExplain(task)
    /\ pc' = "call"
    /\ arg' = [d |-> {}, c |-> task.c, b |-> task.b]
    /\ UNCHANGED <<task, ret, stack, conflict>>

\* _qx: "if D != [] and inconsistent(B) return []".
Explained == arg.d # {} /\ ~Consistent(task.kb, arg.b)

DropAll ==
    /\ pc = "call"
    /\ Explained
    /\ ret' = {}
    /\ pc' = "return"
    /\ UNCHANGED <<task, arg, stack, conflict>>

\* _qx: "if singleton(C) return C".
KeepOne ==
    /\ pc = "call"
    /\ ~Explained
    /\ Len(arg.c) = 1
    /\ ret' = Range(arg.c)
    /\ pc' = "return"
    /\ UNCHANGED <<task, arg, stack, conflict>>

\* The faulty variants of an action carry a Bug in their names; no specification
\* uses them, and each breaks a property that the action keeps.

\* The second half is searched before the first.
SearchFirstHalfBugOrder ==
    /\ pc = "call"
    /\ ~Explained
    /\ Len(arg.c) # 1
    /\ stack' = Append(stack, [c1 |-> SecondHalf(arg.c), c2 |-> FirstHalf(arg.c),
                               b |-> arg.b, at |-> "first", cs1 |-> {}])
    /\ arg' = [d |-> Range(FirstHalf(arg.c)), c |-> SecondHalf(arg.c),
               b |-> arg.b \cup Range(FirstHalf(arg.c))]
    /\ UNCHANGED <<task, pc, ret, conflict>>

\* _qx splits C and calls itself on the first half, the second in the background.
SearchFirstHalf ==
    /\ pc = "call"
    /\ ~Explained
    /\ Len(arg.c) # 1
    /\ stack' = Append(stack, [c1 |-> FirstHalf(arg.c), c2 |-> SecondHalf(arg.c),
                               b |-> arg.b, at |-> "first", cs1 |-> {}])
    /\ arg' = [d |-> Range(SecondHalf(arg.c)), c |-> FirstHalf(arg.c),
               b |-> arg.b \cup Range(SecondHalf(arg.c))]
    /\ UNCHANGED <<task, pc, ret, conflict>>

\* The second half is searched with the D that FastDiag would pass.
SearchSecondHalfBugDelta ==
    /\ pc = "return"
    /\ stack # <<>>
    /\ Top.at = "first"
    /\ stack' = [stack EXCEPT ![Len(stack)] = [@ EXCEPT !.at = "second", !.cs1 = ret]]
    /\ arg' = [d |-> Range(Top.c1) \ ret, c |-> Top.c2, b |-> Top.b \cup ret]
    /\ pc' = "call"
    /\ UNCHANGED <<task, ret, conflict>>

\* cs1 does not join the background of the second half.
SearchSecondHalfBugBackground ==
    /\ pc = "return"
    /\ stack # <<>>
    /\ Top.at = "first"
    /\ stack' = [stack EXCEPT ![Len(stack)] = [@ EXCEPT !.at = "second", !.cs1 = ret]]
    /\ arg' = [d |-> ret, c |-> Top.c2, b |-> Top.b]
    /\ pc' = "call"
    /\ UNCHANGED <<task, ret, conflict>>

\* The second recursive call is made over and over.
SearchSecondHalfBugLoop ==
    /\ pc = "return"
    /\ stack # <<>>
    /\ Top.at = "first"
    /\ stack' = [stack EXCEPT ![Len(stack)] = [@ EXCEPT !.cs1 = ret]]
    /\ arg' = [d |-> ret, c |-> Top.c2, b |-> Top.b \cup ret]
    /\ pc' = "call"
    /\ UNCHANGED <<task, ret, conflict>>

\* The first recursive call returned cs1: _qx calls itself on the second half,
\* with cs1 as D and in the background.
SearchSecondHalf ==
    /\ pc = "return"
    /\ stack # <<>>
    /\ Top.at = "first"
    /\ stack' = [stack EXCEPT ![Len(stack)] = [@ EXCEPT !.at = "second", !.cs1 = ret]]
    /\ arg' = [d |-> ret, c |-> Top.c2, b |-> Top.b \cup ret]
    /\ pc' = "call"
    /\ UNCHANGED <<task, ret, conflict>>

\* The second recursive call returned cs2: "return cs1 + cs2".
JoinHalves ==
    /\ pc = "return"
    /\ stack # <<>>
    /\ Top.at = "second"
    /\ ret' = Top.cs1 \cup ret
    /\ stack' = Pop
    /\ UNCHANGED <<task, pc, arg, conflict>>

\* The outermost _qx returned: find_conflict returns what it found.
FindConflict ==
    /\ pc = "return"
    /\ stack = <<>>
    /\ conflict' = ret
    /\ pc' = "done"
    /\ UNCHANGED <<task, arg, ret, stack>>

Next ==
    \/ NoLabel
    \/ StartQx
    \/ DropAll
    \/ KeepOne
    \/ SearchFirstHalf
    \/ SearchSecondHalf
    \/ JoinHalves
    \/ FindConflict

Spec == Init /\ [][Next]_vars

\* As for FastDiag: one thread runs the call to its end.
FairSpec == Spec /\ WF_vars(Next)

----------------------------------------------------------------------------
\* The labeler promises one answer: no label when there is nothing to explain, a
\* conflict otherwise, and a minimal one on a consistent background.
Answers(t) ==
    IF NothingToExplain(t) THEN {{}}
    ELSE IF Consistent(t.kb, t.b) THEN MinimalConflicts(t)
    ELSE {K \in SUBSET SetC(t) : IsConflict(t, K)}

Promise == INSTANCE OneAnswer WITH answered <- pc = "done", answer <- conflict

\* get_label answers once, with a conflict whenever there is something to
\* explain, and with a minimal one when the background is consistent
\* (find_conflict and _qx, quickxplain.py; get_label, quickxplain_labeler.py).
AnswersWithMinimalConflict == Promise!Spec

\* What a call of _qx on the list with elements S over background b returns: a
\* part of S that still contradicts b and, if the task's background was
\* consistent, no element of which can be spared.
Irreducible(b, S, X) ==
    /\ X \subseteq S
    /\ ~Consistent(task.kb, b \cup X)
    /\ Consistent(task.kb, task.b) =>
          \A x \in X : Consistent(task.kb, b \cup (X \ {x}))

\* The elements and the background of the call the i-th waiting call is waiting
\* for; of the outermost call for i = 0.
Asked(i) ==
    IF i = 0 THEN [S |-> SetC(task), b |-> task.b]
    ELSE IF stack[i].at = "first"
         THEN [S |-> Range(stack[i].c1), b |-> stack[i].b \cup Range(stack[i].c2)]
         ELSE [S |-> Range(stack[i].c2), b |-> stack[i].b \cup stack[i].cs1]

\* Each waiting call is the one the call above it asked for; its list contradicts
\* its background, which is consistent if the task's was; and cs1, once known, is
\* irreducible in the first half with the second half in the background.
FrameOK(i) ==
    LET f == stack[i] IN
    /\ f.c1 # <<>>
    /\ f.c2 # <<>>
    /\ Asked(i - 1) = [S |-> Range(f.c1) \cup Range(f.c2), b |-> f.b]
    /\ Consistent(task.kb, task.b) => Consistent(task.kb, f.b)
    /\ ~Consistent(task.kb, f.b \cup Range(f.c1) \cup Range(f.c2))
    /\ f.at = "second" => Irreducible(f.b \cup Range(f.c2), Range(f.c1), f.cs1)

\* _qx is entered only where C contradicts the background, with an empty D only
\* if the check it then skips would find the background consistent (the reason D
\* exists, quickxplain.py:76), and returns an irreducible part of what it was
\* given.
CallsOK ==
    /\ pc = "label" => stack = <<>>
    /\ pc # "done" => conflict = {}
    /\ pc \in {"call", "return"} =>
        /\ ~NothingToExplain(task)
        /\ \A i \in 1 .. Len(stack) : FrameOK(i)
    /\ pc = "call" =>
        /\ arg.c # <<>>
        /\ Asked(Len(stack)) = [S |-> Range(arg.c), b |-> arg.b]
        /\ ~Consistent(task.kb, arg.b \cup Range(arg.c))
        /\ arg.d = {} /\ Consistent(task.kb, task.b) => Consistent(task.kb, arg.b)
    /\ pc = "return" => Irreducible(Asked(Len(stack)).b, Asked(Len(stack)).S, ret)

\* Divide and conquer finds the conflict the left-to-right scan would: the first
\* constraints are the first to be spared (the first half is searched before the
\* second, with all of the second in its background).  That is for lists without
\* repetition: the scan decides on a constraint listed twice once and for all at its
\* first place, where _qx still has the other place in the background.
ConflictIsPreferred ==
    pc = "done" /\ conflict # {} /\ IsInjective(task.c) =>
        conflict = PreferredConflict(task)

\* Every call of get_label returns: the recursion ends.
Termination == <>(pc = "done")
=============================================================================
