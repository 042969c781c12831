------------------------------- MODULE KBDiag -------------------------------
(***************************************************************************)
(* The KBDiag algorithm (explanation/operations/algorithms/kbdiag.py) as   *)
(* its HS-dag labeler calls it (hsdag/labeler/kbdiag_labeler.py): a search *)
(* like FastDiag's for constraints to remove so that every positive test   *)
(* case is consistent with the rest and the negated negative test cases.   *)
(*                                                                         *)
(* A check is a round over test cases (is_consistent_test_cases), and a    *)
(* call of _mssDirect hands on only those that failed with the constraints *)
(* it was called with.  Parts of at most m constraints are not searched    *)
(* but dropped.                                                            *)
(*                                                                         *)
(* Test cases are assumption literals like constraints; of a round only    *)
(* which of them fail matters, so set_tc is a set.                         *)
(***************************************************************************)
EXTENDS Constraints, FiniteSets

CONSTANTS
    Constraint,     \* the constraints and the negated negative test cases
    TestCase,       \* the positive test cases
    Tasks           \* the tasks the labeler may be asked to label

TestTaskOf ==
    [kb  : SUBSET ((SUBSET (Constraint \cup TestCase)) \ {{}}),
     c   : Seq(Constraint),
     b   : SUBSET Constraint,
     neg : SUBSET Constraint,
     tc  : SUBSET TestCase,
     m   : Nat \ {0}]

ASSUME TasksAssumption == Tasks \subseteq TestTaskOf

VARIABLES
    task,           \* the parameters of get_label
    pc,             \* "label", "call" (_mssDirect is entered), "return" (it returns), "done"
    arg,            \* the arguments of the call of _mssDirect being entered
    ret,            \* the set the last call of _mssDirect returned
    stack,          \* the calls waiting for a recursive call, innermost last
    diag            \* what get_label answers, {} for no label

vars == <<task, pc, arg, ret, stack, diag>>

Frame ==
    [c1 : Seq(Constraint), c2 : Seq(Constraint), b : SUBSET Constraint,
     tc : SUBSET TestCase, at : {"first", "second"}, delta1 : SUBSET Constraint]

Arg ==
    [delta : SUBSET Constraint, c : Seq(Constraint), b : SUBSET Constraint,
     tc : SUBSET TestCase]

TypeOK ==
    /\ task \in TestTaskOf
    /\ pc \in {"label", "call", "return", "done"}
    /\ arg \in Arg
    /\ ret \in SUBSET Constraint
    /\ stack \in Seq(Frame)
    /\ diag \in SUBSET Constraint

----------------------------------------------------------------------------
Top == stack[Len(stack)]
Pop == SubSeq(stack, 1, Len(stack) - 1)

\* is_consistent_test_cases: the test cases of T that are inconsistent with S.
Failing(t, S, T) == {x \in T : ~Consistent(t.kb, S \cup {x})}

\* The guard of get_label; the negated test cases are not part of the check.
Diagnosable(t) ==
    /\ t.tc # {}
    /\ Len(t.c) > 1
    /\ t.b = {} \/ Failing(t, t.b, t.tc) = {}

\* The guards of find_diagnosis.
NothingToDiagnose(t) ==
    \/ t.neg # {} /\ Failing(t, t.neg, t.tc) # {}
    \/ Failing(t, t.b \cup t.neg \cup SetC(t), t.tc) = {}

Init ==
    /\ task \in Tasks
    /\ pc = "label"
    /\ arg = [delta |-> {}, c |-> <<>>, b |-> {}, tc |-> {}]
    /\ ret = {}
    /\ stack = <<>>
    /\ diag = {}

NoLabel ==
    /\ pc = "label"
    /\ ~Diagnosable(task) \/ NothingToDiagnose(task)
    /\ pc' = "done"
    /\ UNCHANGED <<task, arg, ret, stack, diag>>

\* find_diagnosis calls _mssDirect([], C, B + neg_tv, T'p).
StartMss ==
    /\ pc = "label"
    /\ Diagnosable(task)
    /\ ~NothingToDiagnose(task)
    /\ pc' = "call"
    /\ arg' = [delta |-> {}, c |-> task.c, b |-> task.b \cup task.neg,
               tc |-> Failing(task, task.b \cup task.neg \cup SetC(task), task.tc)]
    /\ UNCHANGED <<task, ret, stack, diag>>

\* The test cases a call goes on with: without delta all of them are known to fail.
StillFailing ==
    IF arg.delta = {} THEN arg.tc
    ELSE Failing(task, arg.b \cup Range(arg.c), arg.tc)

Satisfied == arg.delta # {} /\ StillFailing = {}

KeepAll ==
    /\ pc = "call"
    /\ Satisfied
    /\ ret' = Range(arg.c)
    /\ pc' = "return"
    /\ UNCHANGED <<task, arg, stack, diag>>

\* The faulty variants of an action carry a Bug in their names; no specification
\* uses them, and each breaks a property that the action keeps.

\* A part of exactly m constraints is neither dropped nor searched.
DropPartBug ==
    /\ pc = "call"
    /\ ~Satisfied
    /\ Len(arg.c) < task.m
    /\ ret' = {}
    /\ pc' = "return"
    /\ UNCHANGED <<task, arg, stack, diag>>

\* "if len(set_c) <= self.m return []"
DropPart ==
    /\ pc = "call"
    /\ ~Satisfied
    /\ Len(arg.c) <= task.m
    /\ ret' = {}
    /\ pc' = "return"
    /\ UNCHANGED <<task, arg, stack, diag>>

\* The second half is searched first.
SearchFirstHalfBugOrder ==
    /\ pc = "call"
    /\ ~Satisfied
    /\ Len(arg.c) > task.m
    /\ stack' = Append(stack, [c1 |-> SecondHalf(arg.c), c2 |-> FirstHalf(arg.c),
                               b |-> arg.b, tc |-> StillFailing,
                               at |-> "first", delta1 |-> {}])
    /\ arg' = [delta |-> Range(SecondHalf(arg.c)), c |-> SecondHalf(arg.c), b |-> arg.b,
               tc |-> StillFailing]
    /\ UNCHANGED <<task, pc, ret, diag>>

\* The first half is searched with itself as delta.
SearchFirstHalf ==
    /\ pc = "call"
    /\ ~Satisfied
    /\ Len(arg.c) > task.m
    /\ stack' = Append(stack, [c1 |-> FirstHalf(arg.c), c2 |-> SecondHalf(arg.c),
                               b |-> arg.b, tc |-> StillFailing,
                               at |-> "first", delta1 |-> {}])
    /\ arg' = [delta |-> Range(FirstHalf(arg.c)), c |-> FirstHalf(arg.c), b |-> arg.b,
               tc |-> StillFailing]
    /\ UNCHANGED <<task, pc, ret, diag>>

\* The second half is searched with the test cases that were left in the first.
SearchSecondHalfBugTests ==
    /\ pc = "return"
    /\ stack # <<>>
    /\ Top.at = "first"
    /\ stack' = [stack EXCEPT ![Len(stack)] = [@ EXCEPT !.at = "second", !.delta1 = ret]]
    /\ arg' = [delta |-> Range(Top.c1) \ ret, c |-> Top.c2, b |-> Top.b \cup ret,
               tc |-> StillFailing]
    /\ pc' = "call"
    /\ UNCHANGED <<task, ret, diag>>

\* delta1 does not join the background of the second half.
SearchSecondHalfBugBackground ==
    /\ pc = "return"
    /\ stack # <<>>
    /\ Top.at = "first"
    /\ stack' = [stack EXCEPT ![Len(stack)] = [@ EXCEPT !.at = "second", !.delta1 = ret]]
    /\ arg' = [delta |-> Range(Top.c1) \ ret, c |-> Top.c2, b |-> Top.b, tc |-> Top.tc]
    /\ pc' = "call"
    /\ UNCHANGED <<task, ret, diag>>

SearchSecondHalf ==
    /\ pc = "return"
    /\ stack # <<>>
    /\ Top.at = "first"
    /\ stack' = [stack EXCEPT ![Len(stack)] = [@ EXCEPT !.at = "second", !.delta1 = ret]]
    /\ arg' = [delta |-> Range(Top.c1) \ ret, c |-> Top.c2, b |-> Top.b \cup ret,
               tc |-> Top.tc]
    /\ pc' = "call"
    /\ UNCHANGED <<task, ret, diag>>

JoinHalves ==
    /\ pc = "return"
    /\ stack # <<>>
    /\ Top.at = "second"
    /\ ret' = Top.delta1 \cup ret
    /\ stack' = Pop
    /\ UNCHANGED <<task, pc, arg, diag>>

FindDiagnosis ==
    /\ pc = "return"
    /\ stack = <<>>
    /\ diag' = SetC(task) \ ret
    /\ pc' = "done"
    /\ UNCHANGED <<task, arg, ret, stack>>

Next ==
    \/ NoLabel
    \/ StartMss
    \/ KeepAll
    \/ DropPart
    \/ SearchFirstHalf
    \/ SearchSecondHalf
    \/ JoinHalves
    \/ FindDiagnosis

Spec == Init /\ [][Next]_vars

\* get_label runs in one thread, and each check of the solver returns.
FairSpec == Spec /\ WF_vars(Next)

----------------------------------------------------------------------------
\* Every test case is consistent with S.
Passes(t, S) == Failing(t, S, t.tc) = {}

\* X is a part of S that passes with b, and whatever is left out of it lies in a
\* part of at most m left out together that cannot be put back.
Maximal(t, b, S, X) ==
    /\ X \subseteq S
    /\ Passes(t, b \cup X)
    /\ \A x \in S \ X : \E K \in SUBSET (S \ X) :
          x \in K /\ Cardinality(K) <= t.m /\ ~Passes(t, b \cup X \cup K)

\* The labeler promises a diagnosis of the test cases, minimal up to parts of m
\* constraints, when there is one; all of C when the background and the negated
\* test cases fail together; and no label otherwise.
Answers(t) ==
    LET b == t.b \cup t.neg IN
    IF ~Diagnosable(t) \/ NothingToDiagnose(t) THEN {{}}
    ELSE IF Passes(t, b) THEN {SetC(t) \ X : X \in {Y \in SUBSET SetC(t) : Maximal(t, b, SetC(t), Y)}}
    ELSE {SetC(t)}

Promise == INSTANCE OneAnswer WITH answered <- pc = "done", answer <- diag

\* get_label answers once, with a diagnosis that is minimal for m = 1.
AnswersWithDiagnosis == Promise!Spec

\* For m = 1, the constraints kept are those a left-to-right scan keeps that checks
\* each against all of the test cases: the diagnosis is the preferred one.
DiagnosisIsPreferred ==
    LET each == [kb |-> {k \ {x} : k \in task.kb, x \in task.tc},
                 c |-> task.c, b |-> task.b \cup task.neg]
    IN
    pc = "done" /\ task.m = 1 =>
        diag = IF Diagnosable(task) /\ ~NothingToDiagnose(task)
               THEN SetC(task) \ PreferredSubset(each) ELSE {}

Asked(i) ==
    IF i = 0 THEN [S |-> SetC(task), b |-> task.b \cup task.neg]
    ELSE IF stack[i].at = "first"
         THEN [S |-> Range(stack[i].c1), b |-> stack[i].b]
         ELSE [S |-> Range(stack[i].c2), b |-> stack[i].b \cup stack[i].delta1]

\* The test cases of the whole suite that fail with what a call was asked.
MustFail(b, S) == Failing(task, b \cup S, task.tc)

FrameOK(i) ==
    LET f == stack[i] IN
    /\ Asked(i - 1) = [S |-> Range(f.c1) \cup Range(f.c2), b |-> f.b]
    /\ f.tc = MustFail(f.b, Range(f.c1) \cup Range(f.c2))
    /\ f.tc # {}
    /\ f.at = "second" => Maximal(task, f.b, Range(f.c1), f.delta1)

\* Dropping the test cases that pass loses none that matters: the ones a call of
\* _mssDirect goes on with are all those of the suite that fail with its background
\* and constraints.  Without delta these are known to be some; and a call returns
\* as much of its constraints as its background allows, up to parts of m.
CallsOK ==
    /\ TypeOK
    /\ pc \in {"call", "return"} /\ Passes(task, task.b \cup task.neg) =>
        /\ \A i \in 1 .. Len(stack) : FrameOK(i)
        /\ pc = "call" =>
            /\ arg.c # <<>>
            /\ Asked(Len(stack)) = [S |-> Range(arg.c), b |-> arg.b]
            /\ Passes(task, arg.b)
            /\ StillFailing = MustFail(arg.b, Range(arg.c))
            /\ arg.delta = {} => arg.tc # {}
        /\ pc = "return" =>
            Maximal(task, Asked(Len(stack)).b, Asked(Len(stack)).S, ret)

\* Every call of get_label returns.
Termination == <>(pc = "done")
=============================================================================
