------------------------------ MODULE WipeOutR ------------------------------
(***************************************************************************)
(* The redundancy algorithms WipeOutR_FM (explanation/operations/          *)
(* algorithms/wipeoutr_fm.py) and WipeOutR_T (wipeoutr_t.py) as their      *)
(* operations call them (pysat_redundancy_constraints.py,                  *)
(* pysat_redundancy_testcases.py).                                         *)
(*                                                                         *)
(* A suite is the list of constraints (or of test cases) the operation     *)
(* takes from the task.  Both algorithms ask whether some elements and the *)
(* negation of one more are consistent, so a consistency check is no       *)
(* longer any upward closed family: sat gives each element the             *)
(* assignments that satisfy it, its negation is satisfied by the others,   *)
(* and a set is consistent when an assignment satisfies all of it.         *)
(* negatable holds the elements of negation_map.                           *)
(*                                                                         *)
(* Both algorithms go through the suite from its end: WipeOutR_FM is       *)
(* called with the constraints in reverse, WipeOutR_T pops its last test   *)
(* case.  T_pi is what is left of the first pos elements, and T's          *)
(* candidates are the other elements left.  Only the sets of elements      *)
(* matter to a check, so c_delta and T without T_Delta are one set, left.  *)
(***************************************************************************)
EXTENDS Naturals, Sequences, Functions

CONSTANTS
    Element,        \* the assumptions of constraints and test cases
    Assignment,     \* the assignments of the variables
    Suites          \* the suites an operation may be asked about

SuiteOf ==
    [algorithm : {"FM", "T"}, list : Seq(Element), sat : [Element -> SUBSET Assignment],
     negatable : SUBSET Element]

ASSUME SuitesAssumption == Suites \subseteq {s \in SuiteOf : IsInjective(s.list)}

VARIABLES
    suite,          \* what the operation was asked about
    pc,             \* "start", "visit" (the outer loop), "compare" (T's inner loop), "done"
    pos,            \* the element to visit next; in T's inner loop, t_alpha
    at,             \* the candidate to compare next with t_alpha
    left            \* what was not removed

vars == <<suite, pc, pos, at, left>>

Size == Len(suite.list)
All == Range(suite.list)

\* The assignments that satisfy every element of S.
Models(S) == {m \in Assignment : \A x \in S : m \in suite.sat[x]}

\* inconsistent(S and the negation of x): S entails x.
Entails(S, x) == Models(S) \subseteq suite.sat[x]

TypeOK ==
    /\ suite \in SuiteOf
    /\ pc \in {"start", "visit", "compare", "done"}
    /\ pos \in 0 .. Size
    /\ at \in 1 .. Size + 1
    /\ left \subseteq All
    /\ pc = "compare" => suite.algorithm = "T" /\ pos > 0

Init ==
    /\ suite \in Suites
    /\ pc = "start"
    /\ pos = 0
    /\ at = 1
    /\ left = Range(suite.list)

----------------------------------------------------------------------------
\* A suite of at most one test case has no redundant one.
TooFewTestCases ==
    /\ pc = "start"
    /\ suite.algorithm = "T"
    /\ Size <= 1
    /\ pc' = "done"
    /\ UNCHANGED <<suite, pos, at, left>>

Start ==
    /\ pc = "start"
    /\ suite.algorithm = "T" => Size > 1
    /\ pc' = "visit"
    /\ pos' = Size
    /\ UNCHANGED <<suite, at, left>>

\* WipeOutR_FM removes the next constraint if it follows from the others that are
\* left, and skips one without a negation.
VisitConstraint ==
    LET x == suite.list[pos] IN
    /\ pc = "visit"
    /\ suite.algorithm = "FM"
    /\ pos > 0
    /\ left' = IF x \in left \cap suite.negatable /\ Entails(left \ {x}, x)
               THEN left \ {x} ELSE left
    /\ pos' = pos - 1
    /\ UNCHANGED <<suite, pc, at>>

\* A test case that was removed is out of t_pi.
SkipTestCase ==
    /\ pc = "visit"
    /\ suite.algorithm = "T"
    /\ pos > 0
    /\ suite.list[pos] \notin left
    /\ pos' = pos - 1
    /\ UNCHANGED <<suite, pc, at, left>>

\* The faulty variants of an action carry a Bug in their names; no specification
\* uses them, and each breaks a property that the action keeps.

\* A test case that was removed stays in t_pi.
VisitTestCaseBugRemoved ==
    /\ pc = "visit"
    /\ suite.algorithm = "T"
    /\ pos > 0
    /\ at' = 1
    /\ pc' = "compare"
    /\ UNCHANGED <<suite, pos, left>>

\* A test case is not compared with the ones that come before it.
VisitTestCaseBugBefore ==
    /\ pc = "visit"
    /\ suite.algorithm = "T"
    /\ pos > 0
    /\ suite.list[pos] \in left
    /\ at' = pos
    /\ pc' = "compare"
    /\ UNCHANGED <<suite, pos, left>>

\* WipeOutR_T pops t_alpha and goes through the other test cases that are left,
\* also those that were t_alpha before.
VisitTestCase ==
    /\ pc = "visit"
    /\ suite.algorithm = "T"
    /\ pos > 0
    /\ suite.list[pos] \in left
    /\ at' = 1
    /\ pc' = "compare"
    /\ UNCHANGED <<suite, pos, left>>

\* A candidate is removed if it follows from t_alpha alone.
CompareTestCase ==
    LET x == suite.list[pos]
        y == suite.list[at]
    IN
    /\ pc = "compare"
    /\ at <= Size
    /\ left' = IF y \in (left \ {x}) \cap suite.negatable /\ Entails({x}, y)
               THEN left \ {y} ELSE left
    /\ at' = at + 1
    /\ UNCHANGED <<suite, pc, pos>>

\* The inner loop goes through the candidates again.
NextTestCaseBug ==
    /\ pc = "compare"
    /\ at > Size
    /\ at' = 1
    /\ UNCHANGED <<suite, pc, pos, left>>

NextTestCase ==
    /\ pc = "compare"
    /\ at > Size
    /\ pc' = "visit"
    /\ pos' = pos - 1
    /\ UNCHANGED <<suite, at, left>>

\* The loop over the suite ends; what is not left is reported as redundant.
Report ==
    /\ pc = "visit"
    /\ pos = 0
    /\ pc' = "done"
    /\ UNCHANGED <<suite, pos, at, left>>

Next ==
    \/ TooFewTestCases
    \/ Start
    \/ VisitConstraint
    \/ SkipTestCase
    \/ VisitTestCase
    \/ CompareTestCase
    \/ NextTestCase
    \/ Report

Spec == Init /\ [][Next]_vars

\* execute runs the algorithm in one thread and every check returns.
FairSpec == Spec /\ WF_vars(Next)

----------------------------------------------------------------------------
\* Wiping out changes nothing, at any moment: the constraints left have the
\* assignments the feature model had, and each test case removed is covered by a
\* single one that is left (which may itself have been compared before).
NothingIsLost ==
    IF suite.algorithm = "FM"
    THEN Models(left) = Models(All)
    ELSE \A y \in All \ left : \E x \in left : Entails({x}, y)

\* Nothing that is left could still be wiped out: no constraint with a negation
\* follows from the others, no test case with a negation from another.
NothingIsRedundant ==
    pc = "done" =>
        \A y \in left \cap suite.negatable :
            IF suite.algorithm = "FM"
            THEN ~Entails(left \ {y}, y)
            ELSE \A x \in left \ {y} : ~Entails({x}, y)

\* The operation reports.
Termination == <>(pc = "done")
=============================================================================
