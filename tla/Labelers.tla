------------------------------ MODULE Labelers ------------------------------
(***************************************************************************)
(* The labelers of explanation/operations/algorithms/hsdag/labeler/: what  *)
(* the HS-dag asks of them (IHSLabelable) and how each answers.            *)
(*                                                                         *)
(* The parameters of a node are a record: the labeler they belong to, the  *)
(* knowledge base kb, the list c (set_c), the background b (set_b) and,    *)
(* for the labelers with test cases, the list tc (set_tc), the negated     *)
(* test cases neg (set_neg_tv) and at, the failing test case get_label     *)
(* wrote into the parameters (NoTestCase before it does, and when no test  *)
(* case fails).  KBDiag's have the list tcp (set_tcp) instead of at, which *)
(* is empty until get_label writes it: None and [] do the same.  A test    *)
(* case is an assumption literal like a constraint.                        *)
(*                                                                         *)
(* What the recursive search of each algorithm returns is the constraint   *)
(* set Preferred... of Constraints.  That it does is a theorem about each  *)
(* of FastDiag, QuickXPlain and KBDiag: ...FindsTheLabel.                  *)
(***************************************************************************)
EXTENDS Constraints

CONSTANT NoTestCase

\* The parameters over a set of assumption literals.
Parameters(Literal) ==
    LET kbs == SUBSET ((SUBSET Literal) \ {{}}) IN
    [labeler : {"FastDiag", "QuickXPlain", "QuickXPlainWithTestCases"}, kb : kbs,
     c : Seq(Literal), b : SUBSET Literal, tc : Seq(Literal), neg : SUBSET Literal,
     at : Literal \cup {NoTestCase}]
    \cup
    [labeler : {"KBDiag"}, kb : kbs, c : Seq(Literal), b : SUBSET Literal,
     tc : Seq(Literal), neg : SUBSET Literal, tcp : Seq(Literal)]

\* get_type.
TypeOf(p) == IF p.labeler \in {"FastDiag", "KBDiag"} THEN "DIAGNOSIS" ELSE "CONFLICT"

\* The elements of a list that are in S, in their order.  (SelectSeq is the same, but
\* nothing can be proved about it: the provers do not expand it.)
Where(s, S) ==
    LET among[n \in 0 .. Len(s)] ==    \* the first n
            IF n = 0 THEN <<>>
            ELSE IF s[n] \in S THEN Append(among[n - 1], s[n])
            ELSE among[n - 1]
    IN  among[Len(s)]

\* The first place of a list whose element is in S.
First(s, S) ==
    CHOOSE i \in DOMAIN s : s[i] \in S /\ \A j \in 1 .. i - 1 : s[j] \notin S

TaskWith(p, b) == [kb |-> p.kb, c |-> p.c, b |-> b]

----------------------------------------------------------------------------
\* FastDiagLabeler.get_label with find_diagnosis.
FastDiagLabel(p) ==
    LET t == TaskWith(p, p.b) IN
    IF /\ Len(p.c) >= 1
       /\ p.b = {} \/ Consistent(p.kb, p.b)
       /\ ~Consistent(p.kb, p.b \cup SetC(p))
    THEN Where(p.c, SetC(p) \ PreferredSubset(t))
    ELSE <<>>

\* QuickXPlainLabeler.get_label with find_conflict: the conflict is reversed.
QuickXPlainLabel(p) ==
    IF Len(p.c) = 0 \/ Consistent(p.kb, p.b \cup SetC(p)) THEN <<>>
    ELSE Reverse(Where(p.c, PreferredConflict(TaskWith(p, p.b))))

\* is_consistent_test_cases: the test cases that are inconsistent with S.
FailingWith(p, S) == {t \in Range(p.tc) : ~Consistent(p.kb, S \cup {t})}

\* The test case QuickXPlainWithTestCases.find_conflict_set selects: the first to
\* fail, unless C is empty or one fails with the negated test cases alone.
FailingTestCase(p) ==
    LET failing == FailingWith(p, p.b \cup p.neg \cup SetC(p)) IN
    IF \/ p.c = <<>>
       \/ p.neg # {} /\ FailingWith(p, p.neg) # {}
       \/ failing = {}
    THEN NoTestCase
    ELSE p.tc[First(p.tc, failing)]

\* QuickXPlainWithTestCasesLabeler.get_label: a reversed conflict with that test
\* case in the background.
QuickXPlainWithTestCasesLabel(p) ==
    LET t == FailingTestCase(p) IN
    IF t = NoTestCase THEN <<>>
    ELSE Reverse(Where(p.c, PreferredConflict(TaskWith(p, p.b \cup p.neg \cup {t}))))

\* The guard of KBDiagLabeler.get_label.
KBDiagnosable(p) ==
    /\ p.tc # <<>>
    /\ Len(p.c) > 1
    /\ p.b = {} \/ FailingWith(p, p.b) = {}

\* The test cases KBDiag.find_diagnosis finds a diagnosis for: none when one fails
\* with the negated test cases alone.
FailingTestCases(p) ==
    IF p.neg # {} /\ FailingWith(p, p.neg) # {} THEN <<>>
    ELSE Where(p.tc, FailingWith(p, p.b \cup p.neg \cup SetC(p)))

\* KBDiagLabeler.get_label with find_diagnosis, for m = 1: a constraint is kept when
\* all of the test cases are consistent with it.
KBDiagLabel(p) ==
    LET each == [kb |-> {k \ {x} : k \in p.kb, x \in Range(p.tc)},
                 c |-> p.c, b |-> p.b \cup p.neg]
    IN
    IF ~KBDiagnosable(p) \/ FailingTestCases(p) = <<>> THEN <<>>
    ELSE Where(p.c, SetC(p) \ PreferredSubset(each))

LabelOf(p) ==
    CASE p.labeler = "FastDiag" -> FastDiagLabel(p)
      [] p.labeler = "QuickXPlain" -> QuickXPlainLabel(p)
      [] p.labeler = "QuickXPlainWithTestCases" -> QuickXPlainWithTestCasesLabel(p)
      [] p.labeler = "KBDiag" -> KBDiagLabel(p)

\* The parameters as get_label leaves them.  The node keeps the object, so its
\* children see what get_label wrote.
AfterLabel(p) ==
    CASE p.labeler = "QuickXPlainWithTestCases" -> [p EXCEPT !.at = FailingTestCase(p)]
      [] p.labeler = "KBDiag" /\ KBDiagnosable(p) -> [p EXCEPT !.tcp = FailingTestCases(p)]
      [] OTHER -> p

\* The failing test case is dropped with those before it.
RemainingTestCasesBug(p) ==
    IF p.at = NoTestCase THEN p.tc
    ELSE SubSeq(p.tc, 1 + First(p.tc, {p.at}), Len(p.tc))

\* _copy_tc_without_testcases_before: the test cases from the failing one on.
RemainingTestCases(p) ==
    IF p.at = NoTestCase THEN p.tc
    ELSE SubSeq(p.tc, First(p.tc, {p.at}), Len(p.tc))

\* A child of KBDiag's inherits the test cases its parent found to fail.
KBDiagChildOf(p, arc) ==
    [p EXCEPT !.c = Where(@, Range(@) \ {arc}),
              !.b = @ \cup {arc},
              !.tc = p.tcp,
              !.tcp = <<>>]

\* The arc leaves C for FastDiag too and is not in B.
ChildOfBug(p, arc) ==
    IF p.labeler = "KBDiag" THEN [KBDiagChildOf(p, arc) EXCEPT !.b = p.b]
    ELSE [p EXCEPT !.c = Where(@, Range(@) \ {arc}),
                   !.tc = RemainingTestCases(p),
                   !.at = NoTestCase]

\* identify_new_node_parameters: the arc leaves C; FastDiag and KBDiag move it to B.
ChildOf(p, arc) ==
    IF p.labeler = "KBDiag" THEN KBDiagChildOf(p, arc)
    ELSE [p EXCEPT !.c = Where(@, Range(@) \ {arc}),
                   !.b = IF p.labeler = "FastDiag" THEN @ \cup {arc} ELSE @,
                   !.tc = RemainingTestCases(p),
                   !.at = NoTestCase]

----------------------------------------------------------------------------
\* The set of constraints S cannot be kept: with the background it is
\* inconsistent, alone or with one of the test cases.
Refuted(p, S) ==
    IF p.labeler \in {"QuickXPlainWithTestCases", "KBDiag"}
    THEN FailingWith(p, p.b \cup p.neg \cup S) # {}
    ELSE ~Consistent(p.kb, p.b \cup S)

\* The parameters an operation builds an HS-dag on: C repeats nothing, and nothing is
\* written into them yet.
Prepared(Literal, p) ==
    /\ NoTestCase \notin Literal
    /\ p \in Parameters(Literal)
    /\ IsInjective(p.c)
    /\ IF p.labeler = "KBDiag" THEN p.tcp = <<>> ELSE p.at = NoTestCase

\* Two conditions that operations do not check.  KBDiag is given no negated test cases
\* (pysat_testcase.py:60-61 passes on those there are).
NothingNegated(p) == p.labeler = "KBDiag" => p.neg = {}

\* And get_label finds no label on a background that contradicts itself or a test case
\* (only FastDiag looks for itself: pysat_conflict.py:49 passes on any background).
NothingContradicted(p) == Refuted(p, {}) => LabelOf(p) = <<>>
=============================================================================
