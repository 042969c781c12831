------------------------------ MODULE MCHSDAG -------------------------------
(***************************************************************************)
(* The HS-dag with each of the four labelers.                              *)
(*                                                                         *)
(* QuickXPlain and FastDiag: every knowledge base over MaxLen constraints, *)
(* up to the conflicts that others make redundant, for several settings of *)
(* the limits, and every set of conflicts of two constraints among one     *)
(* more.                                                                   *)
(*                                                                         *)
(* QuickXPlainWithTestCases and KBDiag: MaxLen constraints and two test    *)
(* cases, each with its own family of at most two conflicts, with and, for *)
(* the former, without a negated test case.                                *)
(***************************************************************************)
EXTENDS HSDAG

CONSTANTS MaxLen, NoTestCase, FirstTestCase, SecondTestCase, NegatedTestCase

Labeler == INSTANCE Labelers

\* The families of non-empty subsets of S none of which includes another.
Antichains(S) ==
    {kb \in SUBSET (SUBSET S \ {{}}) : \A k, l \in kb : k \subseteq l => k = l}

Pairs(S) == {{x, y} : x \in S, y \in S} \ {{x} : x \in S}

List(n) == [i \in 1 .. n |-> i]

Roots(n, kbs) ==
    [labeler : {"QuickXPlain", "FastDiag"}, kb : kbs, c : {List(n)},
     b : {{}}, tc : {<<>>}, neg : {{}}, at : {NoTestCase}]

Small == Roots(MaxLen, Antichains(1 .. MaxLen))
Large == Roots(MaxLen + 1, SUBSET Pairs(1 .. MaxLen + 1))

----------------------------------------------------------------------------
TestCaseRoots(kbs, neg) ==
    [labeler : {"QuickXPlainWithTestCases"}, kb : kbs, c : {List(MaxLen)},
     b : {{}}, tc : {<<FirstTestCase, SecondTestCase>>}, neg : {neg}, at : {NoTestCase}]

KBDiagRoots(kbs, neg) ==
    [labeler : {"KBDiag"}, kb : kbs, c : {List(MaxLen)},
     b : {{}}, tc : {<<FirstTestCase, SecondTestCase>>}, neg : {neg}, tcp : {<<>>}]

Sets(sizes) == {k \in SUBSET (1 .. MaxLen) : Cardinality(k) \in sizes}

\* The families of one or two conflicts, or none, of the given sizes.
Families(sizes) == {{}} \cup {{k, l} : k \in Sets(sizes), l \in Sets(sizes)}

With(t, family) == {k \cup {t} : k \in family}

\* Each test case has conflicts of its own.
InTestCases(first, second) ==
    {With(FirstTestCase, f) \cup With(SecondTestCase, g) : f \in first, g \in second}

\* Each has one, and so has the negated test case, with constraints or with the
\* first test case.
InNegatedTestCase ==
    {With(FirstTestCase, {k}) \cup With(SecondTestCase, {l}) \cup With(NegatedTestCase, {m}) :
        k \in Sets(1 .. 3), l \in Sets(1 .. 2), m \in Sets(1 .. 2) \cup {{FirstTestCase}}}

WithTestCases ==
    TestCaseRoots(InTestCases(Families(1 .. 3), Families({1})), {})
      \cup TestCaseRoots(InTestCases(Families({2}), Families({2})), {})
      \cup TestCaseRoots(InNegatedTestCase, {NegatedTestCase})
      \cup KBDiagRoots(InTestCases(Families(2 .. 3), Families({1})), {})

\* Three pairs of constraints conflict in the first test case, some constraints
\* are in conflict with the second by themselves.
Losing ==
    TestCaseRoots(InTestCases({g \in SUBSET Sets({2}) : Cardinality(g) = 3}, SUBSET Sets({1})), {})

----------------------------------------------------------------------------
MCInitial == Small \cup Large \cup WithTestCases

Unlimited == [diagnoses |-> NoLimit, conflicts |-> NoLimit, depth |-> NoDepth]

MCLimits(p) ==
    IF p \in Small
    THEN [diagnoses : {NoLimit}, conflicts : {NoLimit}, depth : {NoDepth, 1, 2}]
            \cup [diagnoses : {NoLimit, 1, 2}, conflicts : {NoLimit, 2}, depth : {NoDepth}]
    ELSE {Unlimited}

MCGetType(p) == Labeler!TypeOf(p)
\* Labeler!LabelOf(p), found once: TLC keeps no value of its own where it checks fairness.
MCGetLabel(p) == CHOOSE label \in BagToSet(BagOfAll(Labeler!LabelOf, SetToBag({p}))) : TRUE
MCRecorded(p) == Labeler!AfterLabel(p)
MCNewNodeParameters(p, arc) == Labeler!ChildOf(p, arc)
MCInconsistent(p, S) == Labeler!Refuted(p, S)
MCMinimal(p) == p.labeler \in {"QuickXPlain", "FastDiag"}

\* What the proofs take for granted of the initial parameters.
Literals == 1 .. MaxLen + 1 \cup {FirstTestCase, SecondTestCase, NegatedTestCase}
ASSUME InitialIsPrepared ==
    \A p \in Initial : /\ Labeler!Prepared(Literals, p)
                       /\ Labeler!NothingNegated(p)
                       /\ Labeler!NothingContradicted(p)
=============================================================================
