--------------------------- MODULE WipeOutRProofs ---------------------------
(***************************************************************************)
(* For every suite, every meaning of its elements and every set of         *)
(* negations: wiping out loses nothing, and nothing redundant is left.     *)
(*                                                                         *)
(* The inductive invariant adds what is known of the elements visited so   *)
(* far.  They were compared with at least as many elements as are left     *)
(* now, and what does not follow from more does not follow from less.      *)
(***************************************************************************)
EXTENDS WipeOutR, TLAPS

\* WipeOutR_FM: a constraint visited that is left does not follow from the others.
VisitedFM ==
    \A i \in pos + 1 .. Size :
        suite.list[i] \in left \cap suite.negatable
            => ~Entails(left \ {suite.list[i]}, suite.list[i])

\* WipeOutR_T: no test case that is left follows from a t_alpha of before.
VisitedT ==
    \A i \in pos + 1 .. Size : \A y \in (left \ {suite.list[i]}) \cap suite.negatable :
        suite.list[i] \in left => ~Entails({suite.list[i]}, y)

\* WipeOutR_T: t_alpha is left, and no candidate compared with it follows from it.
Compared ==
    /\ suite.list[pos] \in left
    /\ \A j \in 1 .. at - 1 :
          suite.list[j] \in (left \ {suite.list[pos]}) \cap suite.negatable
              => ~Entails({suite.list[pos]}, suite.list[j])

IInv ==
    /\ TypeOK
    /\ NothingIsLost
    /\ pc = "start" => left = All /\ pos = 0
    /\ pc # "start" /\ suite.algorithm = "FM" => VisitedFM
    /\ pc # "start" /\ suite.algorithm = "T" /\ Size > 1 => VisitedT
    /\ pc = "compare" => Compared
    /\ pc = "done" => pos = 0

----------------------------------------------------------------------------
\* Fewer elements have more models and entail less.
LEMMA FewerEntailLess ==
    ASSUME NEW S, NEW R, R \subseteq S, NEW x, ~Entails(S, x)
    PROVE  ~Entails(R, x)
BY DEF Entails, Models

\* An element that follows from the others can be left out.
LEMMA EntailedIsIdle ==
    ASSUME NEW S, NEW x \in S, Entails(S \ {x}, x)
    PROVE  Models(S \ {x}) = Models(S)
BY DEF Entails, Models

\* What follows from an element that follows from another follows from that one.
LEMMA EntailmentIsTransitive ==
    ASSUME NEW x, NEW y, NEW z, Entails({x}, y), Entails({y}, z)
    PROVE  Entails({x}, z)
BY DEF Entails, Models

LEMMA SuiteTypes ==
    ASSUME suite \in SuiteOf
    PROVE  /\ suite.list \in Seq(Element)
           /\ Size \in Nat
           /\ \A i \in 1 .. Size : suite.list[i] \in All
           /\ \A x \in All : \E i \in 1 .. Size : x = suite.list[i]
<1>1. suite.list \in Seq(Element)
  BY DEF SuiteOf
<1>2. Size \in Nat /\ DOMAIN suite.list = 1 .. Size
  BY <1>1 DEF Size
<1> QED BY <1>1, <1>2 DEF All, Range

----------------------------------------------------------------------------
LEMMA InitInv == Init => IInv
<1> SUFFICES ASSUME Init PROVE IInv
  OBVIOUS
<1>1. suite \in SuiteOf /\ pc = "start" /\ pos = 0 /\ at = 1 /\ left = All
  BY SuitesAssumption DEF Init, All
<1>2. TypeOK
  BY <1>1, SuiteTypes DEF TypeOK
<1>3. NothingIsLost
  BY <1>1 DEF NothingIsLost
<1> QED BY <1>1, <1>2, <1>3 DEF IInv

\* What no action that visits nothing new can break: the suite is the same and
\* nothing is removed.
LEMMA UnchangedSuite ==
    ASSUME UNCHANGED <<suite, left>>
    PROVE  /\ Size' = Size /\ All' = All
           /\ NothingIsLost => NothingIsLost'
           /\ \A S, x : Entails(S, x)' <=> Entails(S, x)
BY DEF Size, All, Models, Entails, NothingIsLost

\* The steps before, between and after the visits.
LEMMA ControlSteps ==
    ASSUME IInv, TooFewTestCases \/ Start \/ SkipTestCase \/ Report \/ UNCHANGED vars
    PROVE  IInv'
<1> USE UnchangedSuite
<1>1. /\ suite \in SuiteOf /\ Size \in Nat
      /\ pos \in 0 .. Size /\ at \in 1 .. Size + 1 /\ left \subseteq All
  BY SuiteTypes DEF IInv, TypeOK
<1>2. CASE TooFewTestCases
  <2>1. UNCHANGED <<suite, pos, at, left>> /\ pc' = "done" /\ pos = 0
    BY <1>2, <1>1 DEF TooFewTestCases, IInv
  <2> QED BY <2>1, <1>1, <1>2 DEF TooFewTestCases, IInv, TypeOK
<1>3. CASE Start
  <2>1. UNCHANGED <<suite, at, left>> /\ pc' = "visit" /\ pos' = Size
    BY <1>3 DEF Start
  <2>2. VisitedFM' /\ VisitedT'
    BY <2>1, <1>1 DEF VisitedFM, VisitedT
  <2> QED BY <2>1, <2>2, <1>1 DEF IInv, TypeOK
<1>4. CASE SkipTestCase
  <2>1. /\ UNCHANGED <<suite, pc, at, left>> /\ pos' = pos - 1 /\ pos > 0
        /\ pc = "visit" /\ suite.algorithm = "T" /\ suite.list[pos] \notin left
    BY <1>4 DEF SkipTestCase
  <2>2. Size > 1 => VisitedT'
    <3> SUFFICES ASSUME Size > 1, NEW i \in pos .. Size,
                        NEW y \in (left \ {suite.list[i]}) \cap suite.negatable,
                        suite.list[i] \in left
                 PROVE  ~Entails({suite.list[i]}, y)
      BY <2>1, <1>1 DEF VisitedT
    <3>1. i \in pos + 1 .. Size
      BY <2>1, <1>1
    <3> QED BY <3>1, <2>1 DEF IInv, VisitedT
  <2> QED BY <2>1, <2>2, <1>1 DEF IInv, TypeOK
<1>5. CASE Report
  <2>1. UNCHANGED <<suite, pos, at, left>> /\ pc' = "done" /\ pc = "visit" /\ pos = 0
    BY <1>5 DEF Report
  <2>2. (VisitedFM => VisitedFM') /\ (VisitedT => VisitedT')
    BY <2>1 DEF VisitedFM, VisitedT
  <2> QED BY <2>1, <2>2, <1>1 DEF IInv, TypeOK
<1>6. CASE UNCHANGED vars
  BY <1>6 DEF vars, IInv, TypeOK, VisitedFM, VisitedT, Compared
<1> QED BY <1>2, <1>3, <1>4, <1>5, <1>6

----------------------------------------------------------------------------
\* WipeOutR_FM's visit.
LEMMA VisitConstraintStep ==
    ASSUME IInv, VisitConstraint
    PROVE  IInv'
<1> DEFINE x == suite.list[pos]
<1>1. /\ suite \in SuiteOf /\ Size \in Nat
      /\ pos \in 1 .. Size /\ at \in 1 .. Size + 1 /\ left \subseteq All
      /\ pc = "visit" /\ suite.algorithm = "FM"
  BY SuiteTypes DEF IInv, TypeOK, VisitConstraint
<1>2. /\ UNCHANGED <<suite, pc, at>> /\ pos' = pos - 1
      /\ left' = IF x \in left \cap suite.negatable /\ Entails(left \ {x}, x)
                 THEN left \ {x} ELSE left
  BY DEF VisitConstraint
<1>3. Size' = Size /\ All' = All
  BY <1>2 DEF Size, All
<1>4. \A S, y : Entails(S, y)' <=> Entails(S, y)
  BY <1>2 DEF Entails, Models
<1>5. TypeOK'
  BY <1>1, <1>2, <1>3 DEF TypeOK
<1>6. NothingIsLost'
  <2>1. Models(left) = Models(All)
    BY <1>1 DEF IInv, NothingIsLost
  <2>2. Models(left') = Models(left)
    BY <1>2, EntailedIsIdle
  <2>3. Models(left)' = Models(left') /\ Models(All)' = Models(All)
    BY <1>2, <1>3 DEF Models
  <2> QED BY <2>1, <2>2, <2>3, <1>1, <1>2 DEF NothingIsLost
<1>7. VisitedFM'
  <2> SUFFICES ASSUME NEW i \in pos .. Size,
                      suite.list[i] \in left' \cap suite.negatable
               PROVE  ~Entails(left' \ {suite.list[i]}, suite.list[i])
    <3>1. pos' + 1 = pos
      BY <1>1, <1>2
    <3>2. \A z : Entails(left \ {z}, z)' <=> Entails(left' \ {z}, z)
      BY <1>2 DEF Entails, Models
    <3> QED BY <3>1, <3>2, <1>3, <1>2 DEF VisitedFM
  <2>1. CASE i = pos
    BY <2>1, <1>2
  <2>2. CASE i # pos
    <3>1. i \in pos + 1 .. Size /\ suite.list[i] \in left /\ left' \subseteq left
      BY <2>2, <1>1, <1>2
    <3>2. ~Entails(left \ {suite.list[i]}, suite.list[i])
      BY <3>1, <1>1 DEF IInv, VisitedFM
    <3> QED BY <3>1, <3>2, FewerEntailLess
  <2> QED BY <2>1, <2>2
<1> QED BY <1>1, <1>2, <1>5, <1>6, <1>7 DEF IInv
----------------------------------------------------------------------------
\* WipeOutR_T takes the next test case as t_alpha, or is done with it.
LEMMA TestCaseSteps ==
    ASSUME IInv, VisitTestCase \/ NextTestCase
    PROVE  IInv'
<1> USE UnchangedSuite
<1>1. /\ suite \in SuiteOf /\ Size \in Nat /\ suite.algorithm = "T" /\ pos > 0
      /\ pos \in 1 .. Size /\ at \in 1 .. Size + 1 /\ left \subseteq All
  BY SuiteTypes DEF IInv, TypeOK, VisitTestCase, NextTestCase
<1>2. CASE VisitTestCase
  <2>1. /\ UNCHANGED <<suite, pos, left>> /\ pc' = "compare" /\ at' = 1
        /\ pc = "visit" /\ suite.list[pos] \in left
    BY <1>2 DEF VisitTestCase
  <2>2. Compared' /\ (VisitedT => VisitedT')
    BY <2>1 DEF Compared, VisitedT
  <2> QED BY <2>1, <2>2, <1>1 DEF IInv, TypeOK
<1>3. CASE NextTestCase
  <2>1. /\ UNCHANGED <<suite, at, left>> /\ pc' = "visit" /\ pos' = pos - 1
        /\ pc = "compare" /\ at = Size + 1
    BY <1>3, <1>1 DEF NextTestCase
  <2>2. Size > 1 => VisitedT'
    <3> SUFFICES ASSUME Size > 1, NEW i \in pos .. Size,
                        NEW y \in (left \ {suite.list[i]}) \cap suite.negatable,
                        suite.list[i] \in left
                 PROVE  ~Entails({suite.list[i]}, y)
      BY <2>1, <1>1 DEF VisitedT
    <3>1. CASE i = pos
      <4>1. PICK j \in 1 .. Size : y = suite.list[j]
        BY <1>1, SuiteTypes
      <4>2. j \in 1 .. at - 1
        BY <2>1, <1>1
      <4> QED BY <3>1, <4>1, <4>2, <2>1 DEF IInv, Compared
    <3>2. CASE i # pos
      <4>1. i \in pos + 1 .. Size
        BY <3>2, <1>1
      <4> QED BY <4>1, <2>1, <1>1 DEF IInv, VisitedT
    <3> QED BY <3>1, <3>2
  <2> QED BY <2>1, <2>2, <1>1 DEF IInv, TypeOK
<1> QED BY <1>2, <1>3

\* WipeOutR_T compares t_alpha with one more candidate.
LEMMA CompareTestCaseStep ==
    ASSUME IInv, CompareTestCase
    PROVE  IInv'
<1> DEFINE x == suite.list[pos]
           y == suite.list[at]
<1>1. /\ suite \in SuiteOf /\ Size \in Nat /\ left \subseteq All
      /\ pc = "compare" /\ suite.algorithm = "T"
      /\ pos \in 1 .. Size /\ at \in 1 .. Size
  BY SuiteTypes DEF IInv, TypeOK, CompareTestCase
<1>2. /\ UNCHANGED <<suite, pc, pos>> /\ at' = at + 1
      /\ left' = IF y \in (left \ {x}) \cap suite.negatable /\ Entails({x}, y)
                 THEN left \ {y} ELSE left
  BY DEF CompareTestCase
<1>3. Size' = Size /\ All' = All
  BY <1>2 DEF Size, All
<1>4. \A S, z : Entails(S, z)' <=> Entails(S, z)
  BY <1>2 DEF Entails, Models
<1>5. left' \subseteq left /\ x \in left /\ x \in left'
  BY <1>1, <1>2 DEF IInv, Compared
<1>6. TypeOK'
  BY <1>1, <1>2, <1>3 DEF TypeOK
<1>7. NothingIsLost'
  <2> SUFFICES ASSUME NEW z \in All \ left' PROVE \E w \in left' : Entails({w}, z)
    <3>1. suite.algorithm' = "T" /\ \A w, z : Entails({w}, z)' <=> Entails({w}, z)
      BY <1>1, <1>2 DEF Entails, Models
    <3> QED BY <3>1, <1>1, <1>2, <1>3 DEF NothingIsLost
  <2>1. CASE z \in left
    BY <2>1, <1>2, <1>5
  <2>2. CASE z \notin left
    <3>1. PICK w \in left : Entails({w}, z)
      BY <2>2, <1>1 DEF IInv, NothingIsLost
    <3>2. CASE w \in left'
      BY <3>1, <3>2
    <3>3. CASE w \notin left'
      <4>1. Entails({x}, w)
        BY <3>3, <1>2
      <4> QED BY <4>1, <3>1, <1>5, EntailmentIsTransitive
    <3> QED BY <3>2, <3>3
  <2> QED BY <2>1, <2>2
<1>8. Size > 1 => VisitedT'
  <2>1. Size > 1 => VisitedT
    BY <1>1 DEF IInv
  <2>2. \A w, z : Entails({w}, z)' <=> Entails({w}, z)
    BY <1>2 DEF Entails, Models
  <2> QED BY <2>1, <2>2, <1>1, <1>2, <1>3, <1>5 DEF VisitedT
<1>9. Compared'
  <2> SUFFICES ASSUME NEW j \in 1 .. at, suite.list[j] \in (left' \ {x}) \cap suite.negatable
               PROVE  ~Entails({x}, suite.list[j])
    <3>1. at' - 1 = at
      BY <1>1, <1>2
    <3>2. \A w, z : Entails({w}, z)' <=> Entails({w}, z)
      BY <1>2 DEF Entails, Models
    <3> QED BY <3>1, <3>2, <1>2, <1>5 DEF Compared
  <2>1. CASE j = at
    BY <2>1, <1>2
  <2>2. CASE j # at
    <3>1. j \in 1 .. at - 1 /\ suite.list[j] \in left
      BY <2>2, <1>1, <1>5
    <3> QED BY <3>1, <1>1 DEF IInv, Compared
  <2> QED BY <2>1, <2>2
<1> QED BY <1>1, <1>2, <1>3, <1>6, <1>7, <1>8, <1>9 DEF IInv

----------------------------------------------------------------------------
LEMMA Invariance == Spec => []IInv
<1>1. Init => IInv
  BY InitInv
<1>2. IInv /\ [Next]_vars => IInv'
  BY ControlSteps, VisitConstraintStep, TestCaseSteps, CompareTestCaseStep DEF Next
<1> QED BY <1>1, <1>2, PTL DEF Spec

\* The suite and the cursors of both algorithms keep their types.
THEOREM TypeCorrect == Spec => []TypeOK
<1>1. IInv => TypeOK
  BY DEF IInv
<1> QED BY <1>1, Invariance, PTL

\* For every suite: what WipeOutR_FM leaves has the models of the whole, and
\* what WipeOutR_T removes is covered by a test case that is left.
THEOREM NothingLost == Spec => []NothingIsLost
<1>1. IInv => NothingIsLost
  BY DEF IInv
<1> QED BY <1>1, Invariance, PTL

\* For every suite: one pass from the end is enough, nothing redundant with a
\* negation remains when the operation reports.
THEOREM NothingRedundant == Spec => []NothingIsRedundant
<1>1. IInv => NothingIsRedundant
  <2> SUFFICES ASSUME IInv, pc = "done", NEW y \in left \cap suite.negatable
               PROVE  IF suite.algorithm = "FM"
                      THEN ~Entails(left \ {y}, y)
                      ELSE \A x \in left \ {y} : ~Entails({x}, y)
    BY DEF NothingIsRedundant
  <2>1. suite \in SuiteOf /\ Size \in Nat /\ pos = 0 /\ left \subseteq All
    BY SuiteTypes DEF IInv, TypeOK
  <2>2. PICK i \in 1 .. Size : y = suite.list[i]
    BY <2>1, SuiteTypes
  <2>3. CASE suite.algorithm = "FM"
    BY <2>1, <2>2, <2>3 DEF IInv, VisitedFM
  <2>4. CASE suite.algorithm = "T"
    <3> SUFFICES ASSUME NEW x \in left \ {y} PROVE ~Entails({x}, y)
      BY <2>4
    <3>1. PICK j \in 1 .. Size : x = suite.list[j]
      BY <2>1, SuiteTypes
    <3>2. Size > 1
      BY <3>1, <2>2, <2>1
    <3> QED BY <3>1, <3>2, <2>1, <2>4 DEF IInv, VisitedT
  <2>5. suite.algorithm \in {"FM", "T"}
    BY <2>1 DEF SuiteOf
  <2> QED BY <2>3, <2>4, <2>5
<1> QED BY <1>1, Invariance, PTL
=============================================================================
