---------------------------- MODULE KBDiagProofs ----------------------------
(***************************************************************************)
(* KBDiag, for every set of constraints and test cases, every knowledge    *)
(* base and every task.                                                    *)
(*                                                                         *)
(* As in FastDiag the inductive invariant is the contract of _mssDirect at *)
(* every depth of its recursion.  Two things are new.  The rounds of       *)
(* checks leave out the test cases that passed before: the contract says   *)
(* that they would pass again.  And get_label does not check the negated   *)
(* test cases with the background: with a test case that fails on these    *)
(* alone there is no contract to keep, and the search keeps no constraint. *)
(*                                                                         *)
(* For m = 1 the answer is the label Labelers gives the HS-dag.            *)
(***************************************************************************)
EXTENDS KBDiag, ConstraintsProofs, FiniteSetTheorems

\* The background find_diagnosis starts the search on: B and the negated test cases.
Base == task.b \cup task.neg

\* The list of the call the i-th waiting call is waiting for.
AskedList(i) ==
    IF i = 0 THEN task.c
    ELSE IF stack[i].at = "first" THEN stack[i].c1 ELSE stack[i].c2

\* The i-th waiting call split the list it was asked for.
HalvesOK(i) ==
    /\ AskedList(i - 1) \in Seq(Constraint)
    /\ Len(AskedList(i - 1)) > task.m
    /\ stack[i].c1 = FirstHalf(AskedList(i - 1))
    /\ stack[i].c2 = SecondHalf(AskedList(i - 1))

\* Nothing is answered before the end, only tasks with something to label are
\* searched, and each call of the search is given a half of its caller's list.
SearchOK ==
    /\ pc # "done" => diag = {}
    /\ pc = "label" => stack = <<>> /\ ret = {}
    /\ pc \in {"call", "return"} =>
        /\ Diagnosable(task) /\ ~NothingToDiagnose(task)
        /\ \A i \in 1 .. Len(stack) : HalvesOK(i)
    /\ pc = "call" => arg.c = AskedList(Len(stack))

\* The test cases that fail whatever is removed.
Hopeless == Failing(task, Base, task.tc)

\* The i-th waiting call hands a hopeless test case on and keeps no constraint.
FrameHopeless(i) ==
    /\ Base \subseteq stack[i].b
    /\ Hopeless \subseteq stack[i].tc
    /\ stack[i].delta1 = {}

\* With a hopeless test case no call keeps a constraint: every check fails.
NothingKept ==
    pc \in {"call", "return"} /\ Hopeless # {} =>
        /\ ret = {}
        /\ \A i \in 1 .. Len(stack) : FrameHopeless(i)
        /\ pc = "call" => Base \subseteq arg.b /\ Hopeless \subseteq arg.tc

\* For m = 1, what X leaves out of the list s fails with what X keeps before it.
Scanned(b, s, X) ==
    task.m = 1 =>
        \A n \in DOMAIN s :
            s[n] \notin X => ~Passes(task, b \cup (Earlier(s, n) \cap X) \cup {s[n]})

\* The first half of the i-th waiting call was scanned.
FrameScanned(i) ==
    stack[i].at = "second" => Scanned(stack[i].b, stack[i].c1, stack[i].delta1)

\* The task of FastDiag whose check is the round over all test cases.
Each == [kb |-> {k \ {x} : k \in task.kb, x \in task.tc}, c |-> task.c, b |-> Base]

\* X is what a left-to-right scan of C keeps of it.
KeptOfC(X) ==
    /\ X \subseteq SetC(task)
    /\ task.m = 1 => KeptByScan(Each.kb, Each.b, Each.c, X)

\* What the calls leave out they leave out in the order of the lists.
ScansOK ==
    /\ pc \in {"call", "return"} /\ Passes(task, Base) =>
        /\ \A i \in 1 .. Len(stack) : FrameScanned(i)
        /\ pc = "return" => Scanned(Asked(Len(stack)).b, AskedList(Len(stack)), ret)
    /\ pc = "done" =>
        IF Diagnosable(task) /\ ~NothingToDiagnose(task)
        THEN \E X : KeptOfC(X) /\ diag = SetC(task) \ X
        ELSE diag = {}

IInv ==
    /\ TypeOK
    /\ SearchOK
    /\ NothingKept
    /\ CallsOK
    /\ ScansOK

----------------------------------------------------------------------------
\* Facts about the rounds of checks.

\* The parts of a task have their types, and there are finitely many constraints.
LEMMA TestTaskTypes ==
    ASSUME NEW t \in TestTaskOf
    PROVE  /\ t.c \in Seq(Constraint)
           /\ t.b \in SUBSET Constraint
           /\ t.neg \in SUBSET Constraint
           /\ t.tc \in SUBSET TestCase
           /\ t.m \in Nat \ {0}
           /\ SetC(t) \in SUBSET Constraint
BY DEF TestTaskOf, SetC, Range

\* A test case that fails with some constraints fails with more.
LEMMA FailingGrows ==
    ASSUME NEW t, NEW S, NEW T, S \subseteq T, NEW Q
    PROVE  Failing(t, S, Q) \subseteq Failing(t, T, Q)
<1>1. ASSUME NEW x \in Q, ~Consistent(t.kb, S \cup {x})
      PROVE  ~Consistent(t.kb, T \cup {x})
  <2>1. S \cup {x} \subseteq T \cup {x}
    OBVIOUS
  <2> QED BY <1>1, <2>1, Antimonotone
<1> QED BY <1>1 DEF Failing

\* Test cases that pass with some constraints pass with fewer.
LEMMA PassesWithFewer ==
    ASSUME NEW t, NEW S, NEW T, S \subseteq T, Passes(t, T)
    PROVE  Passes(t, S)
BY FailingGrows DEF Passes

\* A round over the test cases that fail with a set of constraints finds all that
\* fail with fewer.
LEMMA RoundOfFailing ==
    ASSUME NEW t, NEW S, NEW T, S \subseteq T
    PROVE  Failing(t, S, Failing(t, T, t.tc)) = Failing(t, S, t.tc)
<1>1. Failing(t, S, t.tc) \subseteq Failing(t, T, t.tc)
  BY FailingGrows
<1> QED BY <1>1 DEF Failing

\* The round over all test cases is a check of the knowledge base Each.
LEMMA EachPasses ==
    ASSUME NEW S
    PROVE  Consistent(Each.kb, S) <=> Passes(task, S)
<1>1. \A k, x : (k \ {x} \subseteq S) <=> (k \subseteq S \cup {x})
  OBVIOUS
<1>2. /\ \A y \in Each.kb : \E k \in task.kb : \E x \in task.tc : y = k \ {x}
      /\ \A k \in task.kb : \A x \in task.tc : k \ {x} \in Each.kb
  BY DEF Each
<1>3. Consistent(Each.kb, S) <=>
          \A k \in task.kb : \A x \in task.tc : ~(k \ {x} \subseteq S)
  BY <1>2 DEF Consistent
<1>4. Passes(task, S) <=>
          \A x \in task.tc : \A k \in task.kb : ~(k \subseteq S \cup {x})
  BY DEF Passes, Failing, Consistent
<1> QED BY <1>1, <1>3, <1>4

----------------------------------------------------------------------------
\* Facts about Maximal.

\* A list has no more elements than places.
LEMMA FewElements ==
    ASSUME NEW D, NEW s \in Seq(D)
    PROVE  IsFiniteSet(Range(s)) /\ Cardinality(Range(s)) <= Len(s)
<1>1. PICK n \in Nat : Len(s) = n /\ DOMAIN s = 1 .. n
  BY LenProperties
<1>2. s \in Surjection(1 .. n, Range(s))
  BY <1>1 DEF Surjection, Range
<1>3. IsFiniteSet(1 .. n) /\ Cardinality(1 .. n) = n
  BY FS_Interval
<1> QED BY <1>1, <1>2, <1>3, FS_Surjection

\* A part of a set of at most m elements has at most m.
LEMMA SmallerPart ==
    ASSUME NEW K, IsFiniteSet(K), NEW m \in Nat, Cardinality(K) <= m, NEW X
    PROVE  Cardinality(K \ X) <= m
<1>1. K \ X \in SUBSET K
  OBVIOUS
<1>2. /\ Cardinality(K) \in Nat /\ Cardinality(K \ X) \in Nat
      /\ Cardinality(K \ X) <= Cardinality(K)
  BY <1>1, FS_Subset, FS_CardinalityType
<1> QED BY <1>2

\* A part of at most m constraints that fails is dropped ("if len(set_c) <= self.m").
LEMMA MaximalOfPart ==
    ASSUME NEW t, NEW b, NEW s \in Seq(Constraint), Len(s) <= t.m, t.m \in Nat,
           Passes(t, b), ~Passes(t, b \cup Range(s))
    PROVE  Maximal(t, b, Range(s), {})
<1>1. b \cup {} = b /\ b \cup {} \cup Range(s) = b \cup Range(s) /\ Range(s) \ {} = Range(s)
  OBVIOUS
<1>2. Cardinality(Range(s)) <= t.m
  <2>1. Cardinality(Range(s)) \in Nat /\ Len(s) \in Nat
    BY FewElements, FS_CardinalityType, LenProperties
  <2> QED BY <2>1, FewElements
<1> QED BY <1>1, <1>2 DEF Maximal

\* A set that passes is its own maximal part ("return set_c").
LEMMA MaximalOfPassing ==
    ASSUME NEW t, NEW b, NEW S, Passes(t, b \cup S)
    PROVE  Maximal(t, b, S, S)
BY DEF Maximal

\* delta1 maximal in the first half and delta2 in the second, with delta1 in its
\* background, join to a maximal part of both halves.
LEMMA MaximalOfHalves ==
    ASSUME NEW t, t.m \in Nat, NEW b, NEW S1, NEW S2, NEW X1, NEW X2,
           IsFiniteSet(S1), IsFiniteSet(S2),
           Maximal(t, b, S1, X1), Maximal(t, b \cup X1, S2, X2)
    PROVE  Maximal(t, b, S1 \cup S2, X1 \cup X2)
<1> DEFINE S == S1 \cup S2
           X == X1 \cup X2
<1>1. X \subseteq S /\ Passes(t, b \cup X)
  <2>1. (b \cup X1) \cup X2 = b \cup X
    OBVIOUS
  <2> QED BY <2>1 DEF Maximal
<1>2. ASSUME NEW x \in S \ X
      PROVE  \E K \in SUBSET (S \ X) :
                x \in K /\ Cardinality(K) <= t.m /\ ~Passes(t, b \cup X \cup K)
  <2>1. CASE x \in S1
    <3>1. PICK K \in SUBSET (S1 \ X1) :
             x \in K /\ Cardinality(K) <= t.m /\ ~Passes(t, b \cup X1 \cup K)
      BY <2>1 DEF Maximal
    <3>2. IsFiniteSet(K)
      BY FS_Subset
    <3>3. K \ X2 \in SUBSET (S \ X) /\ x \in K \ X2 /\ Cardinality(K \ X2) <= t.m
      BY <3>1, <3>2, SmallerPart
    <3>4. b \cup X1 \cup K \subseteq b \cup X \cup (K \ X2)
      OBVIOUS
    <3> QED BY <3>1, <3>3, <3>4, PassesWithFewer
  <2>2. CASE x \in S2
    <3>1. PICK K \in SUBSET (S2 \ X2) :
             x \in K /\ Cardinality(K) <= t.m /\ ~Passes(t, (b \cup X1) \cup X2 \cup K)
      BY <2>2 DEF Maximal
    <3>2. IsFiniteSet(K)
      BY FS_Subset
    <3>3. K \ X1 \in SUBSET (S \ X) /\ x \in K \ X1 /\ Cardinality(K \ X1) <= t.m
      BY <3>1, <3>2, SmallerPart
    <3>4. (b \cup X1) \cup X2 \cup K \subseteq b \cup X \cup (K \ X1)
      OBVIOUS
    <3> QED BY <3>1, <3>3, <3>4, PassesWithFewer
  <2> QED BY <2>1, <2>2
<1> QED BY <1>1, <1>2 DEF Maximal

----------------------------------------------------------------------------
\* Facts about Scanned.

\* What a call keeps all of, it leaves nothing out of.
LEMMA ScannedAll ==
    ASSUME NEW b, NEW s
    PROVE  Scanned(b, s, Range(s))
BY DEF Scanned, Range

\* A part of one constraint that fails was scanned when it is dropped.
LEMMA ScannedPart ==
    ASSUME NEW D, NEW s \in Seq(D), Len(s) <= task.m, s # <<>>, NEW b,
           ~Passes(task, b \cup Range(s))
    PROVE  Scanned(b, s, {})
<1> SUFFICES ASSUME task.m = 1, NEW n \in DOMAIN s
             PROVE  ~Passes(task, b \cup (Earlier(s, n) \cap {}) \cup {s[n]})
  BY DEF Scanned
<1>1. Len(s) = 1
  <2>1. PICK k \in Nat : Len(s) = k
    BY LenProperties
  <2>2. k # 0
    BY <2>1, EmptySeq
  <2> QED BY <2>1, <2>2
<1>2. Range(s) = {s[n]}
  <2>1. s[n] \in Range(s)
    BY DEF Range
  <2> QED BY <1>1, <2>1, RangeProperties
<1>3. b \cup (Earlier(s, n) \cap {}) \cup {s[n]} = b \cup Range(s)
  BY <1>2
<1> QED BY <1>3

\* delta1 scanned from the first half and delta2 from the second, with delta1 in
\* its background, are together scanned from the whole list.
LEMMA ScannedHalves ==
    ASSUME NEW D, NEW s \in Seq(D), s # <<>>, Len(s) # 1, NEW b, NEW X1, NEW X2,
           X1 \subseteq Range(FirstHalf(s)),
           Scanned(b, FirstHalf(s), X1), Scanned(b \cup X1, SecondHalf(s), X2)
    PROVE  Scanned(b, s, X1 \cup X2)
<1> DEFINE X == X1 \cup X2
<1> SUFFICES ASSUME task.m = 1, NEW n \in DOMAIN s, s[n] \notin X
             PROVE  ~Passes(task, b \cup (Earlier(s, n) \cap X) \cup {s[n]})
  BY DEF Scanned
<1>1. CASE /\ n \in DOMAIN FirstHalf(s)
           /\ FirstHalf(s)[n] = s[n]
           /\ Earlier(FirstHalf(s), n) \subseteq Earlier(s, n)
  <2>1. ~Passes(task, b \cup (Earlier(FirstHalf(s), n) \cap X1) \cup {s[n]})
    BY <1>1 DEF Scanned
  <2>2. b \cup (Earlier(FirstHalf(s), n) \cap X1) \cup {s[n]}
           \subseteq b \cup (Earlier(s, n) \cap X) \cup {s[n]}
    BY <1>1
  <2> QED BY <2>1, <2>2, PassesWithFewer
<1>2. CASE \E m \in DOMAIN SecondHalf(s) :
              /\ SecondHalf(s)[m] = s[n]
              /\ Earlier(SecondHalf(s), m) \subseteq Earlier(s, n)
              /\ Range(FirstHalf(s)) \subseteq Earlier(s, n)
  <2>1. PICK m \in DOMAIN SecondHalf(s) :
           /\ SecondHalf(s)[m] = s[n]
           /\ Earlier(SecondHalf(s), m) \subseteq Earlier(s, n)
           /\ Range(FirstHalf(s)) \subseteq Earlier(s, n)
    BY <1>2
  <2>2. ~Passes(task, (b \cup X1) \cup (Earlier(SecondHalf(s), m) \cap X2) \cup {s[n]})
    BY <2>1 DEF Scanned
  <2>3. (b \cup X1) \cup (Earlier(SecondHalf(s), m) \cap X2) \cup {s[n]}
           \subseteq b \cup (Earlier(s, n) \cap X) \cup {s[n]}
    BY <2>1
  <2> QED BY <2>2, <2>3, PassesWithFewer
<1> QED BY <1>1, <1>2, HalvesInPlace

\* A part of C that passes and was scanned is what the scan keeps.
LEMMA ScannedIsKept ==
    ASSUME NEW X, X \subseteq SetC(task), Passes(task, Base \cup X),
           Scanned(Base, task.c, X)
    PROVE  KeptOfC(X)
<1>0. Each.b = Base /\ Each.c = task.c
  BY DEF Each
<1> SUFFICES ASSUME task.m = 1, NEW n \in DOMAIN task.c
             PROVE  task.c[n] \in X <=>
                       Passes(task, Base \cup (Earlier(task.c, n) \cap X) \cup {task.c[n]})
  BY <1>0, EachPasses DEF KeptOfC, KeptByScan
<1>1. ASSUME task.c[n] \in X
      PROVE  Passes(task, Base \cup (Earlier(task.c, n) \cap X) \cup {task.c[n]})
  <2>1. Base \cup (Earlier(task.c, n) \cap X) \cup {task.c[n]} \subseteq Base \cup X
    BY <1>1
  <2> QED BY <2>1, PassesWithFewer
<1> QED BY <1>1 DEF Scanned

\* With a hopeless test case the scan keeps nothing.
LEMMA NothingIsKept ==
    ASSUME ~Passes(task, Base)
    PROVE  KeptOfC({})
<1>1. ASSUME NEW S
      PROVE  ~Passes(task, Base \cup S)
  BY PassesWithFewer
<1>2. \A n : Base \cup (Earlier(task.c, n) \cap {}) \cup {task.c[n]} = Base \cup {task.c[n]}
  OBVIOUS
<1> QED BY <1>1, <1>2, EachPasses DEF KeptOfC, KeptByScan, Each

----------------------------------------------------------------------------
\* Every step keeps the types.
LEMMA TypeStep == TypeOK /\ [Next]_vars => TypeOK'
<1> SUFFICES ASSUME TypeOK, [Next]_vars
             PROVE  TypeOK'
  OBVIOUS
<1> USE DEF TypeOK
<1>1. CASE NoLabel
  BY <1>1 DEF NoLabel
<1>2. CASE StartMss
  <2>1. arg' \in Arg
    BY <1>2, TestTaskTypes DEF StartMss, Arg, Failing
  <2> QED BY <1>2, <2>1 DEF StartMss
<1>3. CASE KeepAll
  <2>1. ret' \in SUBSET Constraint
    BY <1>3, RangeProperties DEF KeepAll, Arg
  <2> QED BY <1>3, <2>1 DEF KeepAll
<1>4. CASE DropPart
  BY <1>4 DEF DropPart
<1>5. CASE SearchFirstHalf
  <2>1. FirstHalf(arg.c) \in Seq(Constraint) /\ SecondHalf(arg.c) \in Seq(Constraint)
    BY <1>5, HalvesAreLists DEF Arg
  <2>2. StillFailing \in SUBSET TestCase
    BY DEF StillFailing, Failing, Arg
  <2>3. arg' \in Arg
    BY <1>5, <2>1, <2>2, RangeProperties DEF SearchFirstHalf, Arg
  <2>4. stack' \in Seq(Frame)
    BY <1>5, <2>1, <2>2 DEF SearchFirstHalf, Arg, Frame
  <2> QED BY <1>5, <2>3, <2>4 DEF SearchFirstHalf
<1>6. CASE SearchSecondHalf
  <2>1. Len(stack) \in 1 .. Len(stack) /\ Top \in Frame
    BY <1>6, EmptySeq, ElementOfSeq DEF SearchSecondHalf, Top
  <2>2. [Top EXCEPT !.at = "second", !.delta1 = ret] \in Frame
    BY <2>1 DEF Frame
  <2>3. stack' = [stack EXCEPT ![Len(stack)] = [Top EXCEPT !.at = "second", !.delta1 = ret]]
    BY <1>6 DEF SearchSecondHalf, Top
  <2>4. stack' \in Seq(Frame)
    BY <2>1, <2>2, <2>3, ExceptSeq
  <2>5. Range(Top.c1) \in SUBSET Constraint
    BY <2>1, RangeProperties DEF Frame
  <2>6. arg' \in Arg
    BY <1>6, <2>1, <2>5 DEF SearchSecondHalf, Arg, Frame
  <2> QED BY <1>6, <2>4, <2>6 DEF SearchSecondHalf
<1>7. CASE JoinHalves
  <2>1. Len(stack) \in 1 .. Len(stack) /\ Top \in Frame
    BY <1>7, EmptySeq, ElementOfSeq DEF JoinHalves, Top
  <2>2. ret' \in SUBSET Constraint
    BY <1>7, <2>1 DEF JoinHalves, Frame
  <2>3. stack' \in Seq(Frame)
    BY <1>7, PopProperties DEF JoinHalves, Pop
  <2> QED BY <1>7, <2>2, <2>3 DEF JoinHalves
<1>8. CASE FindDiagnosis
  <2>1. SetC(task) \in SUBSET Constraint
    BY TestTaskTypes
  <2> QED BY <1>8, <2>1 DEF FindDiagnosis
<1>9. CASE UNCHANGED vars
  BY <1>9 DEF vars
<1> QED
  BY <1>1, <1>2, <1>3, <1>4, <1>5, <1>6, <1>7, <1>8, <1>9 DEF Next

----------------------------------------------------------------------------
\* Facts about the waiting calls.

\* A step that leaves the first k frames alone leaves what is known of them alone.
LEMMA UntouchedFrames ==
    ASSUME NEW k \in Nat, task' = task, \A i \in 1 .. k : stack'[i] = stack[i]
    PROVE  /\ \A i \in 0 .. k : Asked(i)' = Asked(i) /\ AskedList(i)' = AskedList(i)
           /\ \A i \in 1 .. k : /\ HalvesOK(i) => HalvesOK(i)'
                                /\ FrameHopeless(i) => FrameHopeless(i)'
                                /\ FrameOK(i) => FrameOK(i)'
                                /\ FrameScanned(i) => FrameScanned(i)'
<1>1. ASSUME NEW i \in 0 .. k
      PROVE  Asked(i)' = Asked(i) /\ AskedList(i)' = AskedList(i)
  <2>1. i # 0 => i \in 1 .. k
    OBVIOUS
  <2>2. i # 0 => stack'[i] = stack[i]
    BY <2>1
  <2> QED BY <2>2 DEF Asked, AskedList, SetC
<1>2. ASSUME NEW i \in 1 .. k
      PROVE  /\ HalvesOK(i) => HalvesOK(i)'
             /\ FrameHopeless(i) => FrameHopeless(i)'
             /\ FrameOK(i) => FrameOK(i)'
             /\ FrameScanned(i) => FrameScanned(i)'
  <2>1. stack'[i] = stack[i] /\ i - 1 \in 0 .. k
    OBVIOUS
  <2>2. Asked(i - 1)' = Asked(i - 1) /\ AskedList(i - 1)' = AskedList(i - 1)
    BY <1>1, <2>1
  <2>3. HalvesOK(i) => HalvesOK(i)'
    BY <2>1, <2>2 DEF HalvesOK
  <2>4. FrameHopeless(i) => FrameHopeless(i)'
    BY <2>1 DEF FrameHopeless, Hopeless, Base
  <2>5. FrameOK(i) => FrameOK(i)'
    BY <2>1, <2>2 DEF FrameOK, MustFail
  <2>6. FrameScanned(i) => FrameScanned(i)'
    BY <2>1 DEF FrameScanned, Scanned
  <2> QED BY <2>3, <2>4, <2>5, <2>6
<1> QED BY <1>1, <1>2

\* A list that is not dropped is long enough to be split.
LEMMA LongLists ==
    ASSUME NEW D, NEW s \in Seq(D), NEW m \in Nat \ {0}, Len(s) > m
    PROVE  s # <<>> /\ Len(s) # 1
<1>1. PICK k \in Nat : Len(s) = k
  BY LenProperties
<1>2. k # 0 /\ k # 1
  BY <1>1
<1> QED BY <1>1, <1>2, EmptySeq

\* A call that is handed the hopeless test cases with their background goes on with
\* them.
LEMMA HopelessStay ==
    ASSUME Base \subseteq arg.b, Hopeless \subseteq arg.tc
    PROVE  Hopeless \subseteq StillFailing
<1>1. Failing(task, Base, Hopeless) = Hopeless
  BY DEF Hopeless, Failing
<1>2. Failing(task, Base, Hopeless) \subseteq Failing(task, arg.b \cup Range(arg.c), Hopeless)
  BY FailingGrows
<1>3. Failing(task, arg.b \cup Range(arg.c), Hopeless)
         \subseteq Failing(task, arg.b \cup Range(arg.c), arg.tc)
  BY DEF Failing
<1> QED BY <1>1, <1>2, <1>3 DEF StillFailing

\* No step changes what the background fails.
LEMMA SameTask ==
    ASSUME task' = task
    PROVE  /\ Base' = Base /\ Hopeless' = Hopeless
           /\ Passes(task, Base)' <=> Passes(task, Base)
           /\ Passes(task, Base) <=> Hopeless = {}
           /\ Passes(task, task.b \cup task.neg) <=> Passes(task, Base)
BY DEF Base, Hopeless, Passes

----------------------------------------------------------------------------
\* The steps.

\* Splitting: the new call is the first half's, on the background it was asked on,
\* with the test cases that fail with both halves.
LEMMA SearchFirstHalfStep == IInv /\ TypeOK' /\ SearchFirstHalf => IInv'
<1> SUFFICES ASSUME TypeOK, SearchOK, NothingKept, CallsOK, ScansOK,
                    TypeOK', SearchFirstHalf
             PROVE  IInv'
  BY DEF IInv
<1>1. PICK n \in Nat : Len(stack) = n
  BY LenProperties DEF TypeOK
<1>2. arg.c \in Seq(Constraint) /\ Len(arg.c) > task.m /\ arg.c # <<>> /\ Len(arg.c) # 1
  <2>1. task.m \in Nat \ {0} /\ arg.c \in Seq(Constraint) /\ Len(arg.c) > task.m
    BY TestTaskTypes DEF SearchFirstHalf, TypeOK, Arg
  <2> QED BY <2>1, LongLists
<1>3. PICK f \in Frame : f = [c1 |-> FirstHalf(arg.c), c2 |-> SecondHalf(arg.c),
                              b |-> arg.b, tc |-> StillFailing,
                              at |-> "first", delta1 |-> {}]
  <2>1. StillFailing \in SUBSET TestCase
    BY DEF StillFailing, Failing, TypeOK, Arg
  <2> QED BY <1>2, <2>1, HalvesAreLists DEF Frame, TypeOK, Arg
<1>4. /\ f.c1 = FirstHalf(arg.c) /\ f.c2 = SecondHalf(arg.c) /\ f.b = arg.b
      /\ f.tc = StillFailing /\ f.at = "first" /\ f.delta1 = {}
  BY <1>3
<1>5. /\ stack' = Append(stack, f)
      /\ task' = task /\ ret' = ret /\ diag' = diag /\ pc = "call" /\ pc' = "call"
      /\ arg'.delta = Range(f.c1) /\ arg'.c = f.c1 /\ arg'.b = f.b /\ arg'.tc = f.tc
      /\ ~Satisfied
  BY <1>3 DEF SearchFirstHalf
<1>6. /\ Len(stack') = n + 1
      /\ \A i \in 1 .. n : stack'[i] = stack[i]
      /\ stack'[n + 1] = f
  BY <1>1, <1>5, AppendProperties DEF TypeOK
<1>7. /\ n \in 0 .. n /\ (n + 1) - 1 = n /\ n + 1 # 0
      /\ \A i \in 1 .. n + 1 : i \in 1 .. n \/ i = n + 1
  OBVIOUS
<1>8. /\ f.c1 \in Seq(Constraint) /\ f.c1 # <<>>
      /\ Range(f.c1) \cup Range(f.c2) = Range(arg.c)
      /\ Range(f.c1) # {}
  <2>1. /\ f.c1 \in Seq(Constraint) /\ f.c1 # <<>>
        /\ Range(f.c1) \cup Range(f.c2) = Range(arg.c)
    BY <1>2, <1>4, SplitProperties
  <2> QED BY <2>1, RangeProperties
<1>9. SearchOK'
  <2>1. arg.c = AskedList(n) /\ \A i \in 1 .. n : HalvesOK(i)
    BY <1>1, <1>5 DEF SearchOK
  <2>2. AskedList(n)' = arg.c /\ \A i \in 1 .. n : HalvesOK(i)'
    BY <1>5, <1>6, <1>7, <2>1, UntouchedFrames
  <2>3. HalvesOK(n + 1)'
    BY <1>2, <1>4, <1>5, <1>6, <1>7, <2>2 DEF HalvesOK
  <2>4. AskedList(n + 1)' = f.c1
    BY <1>4, <1>6, <1>7 DEF AskedList
  <2>5. \A i \in 1 .. n + 1 : HalvesOK(i)'
    BY <1>7, <2>2, <2>3
  <2> QED BY <1>5, <1>6, <2>4, <2>5 DEF SearchOK
<1>10. NothingKept'
  <2> SUFFICES ASSUME Hopeless # {}
               PROVE  /\ ret' = {}
                      /\ \A i \in 1 .. n + 1 : FrameHopeless(i)'
                      /\ Base \subseteq f.b /\ Hopeless \subseteq f.tc
    BY <1>5, <1>6, SameTask DEF NothingKept
  <2>1. /\ ret = {} /\ Base \subseteq arg.b /\ Hopeless \subseteq arg.tc
        /\ \A i \in 1 .. n : FrameHopeless(i)
    BY <1>1, <1>5 DEF NothingKept
  <2>2. Base \subseteq f.b /\ Hopeless \subseteq f.tc
    BY <1>4, <2>1, HopelessStay
  <2>3. FrameHopeless(n + 1)'
    BY <1>4, <1>5, <1>6, <2>2, SameTask DEF FrameHopeless
  <2>4. \A i \in 1 .. n : FrameHopeless(i)'
    BY <1>5, <1>6, <2>1, UntouchedFrames
  <2> QED BY <1>5, <1>7, <2>1, <2>2, <2>3, <2>4
<1>11. CallsOK'
  <2> SUFFICES ASSUME Passes(task, Base)
               PROVE  /\ \A i \in 1 .. n + 1 : FrameOK(i)'
                      /\ f.c1 # <<>>
                      /\ Asked(n + 1)' = [S |-> Range(f.c1), b |-> f.b]
                      /\ Passes(task, f.b)
                      /\ StillFailing' = MustFail(f.b, Range(f.c1))
                      /\ Range(f.c1) # {}
    BY <1>5, <1>6, SameTask DEF CallsOK, MustFail
  <2>1. /\ \A i \in 1 .. n : FrameOK(i)
        /\ Asked(n) = [S |-> Range(arg.c), b |-> arg.b]
        /\ Passes(task, arg.b)
        /\ StillFailing = MustFail(arg.b, Range(arg.c))
        /\ arg.delta = {} => arg.tc # {}
    BY <1>1, <1>5, SameTask DEF CallsOK
  <2>2. Asked(n)' = Asked(n) /\ \A i \in 1 .. n : FrameOK(i)'
    BY <1>5, <1>6, <1>7, <2>1, UntouchedFrames
  <2>3. f.tc # {}
    BY <1>4, <1>5, <2>1 DEF Satisfied, StillFailing
  <2>4. FrameOK(n + 1)'
    BY <1>4, <1>5, <1>6, <1>7, <1>8, <2>1, <2>2, <2>3 DEF FrameOK, MustFail
  <2>5. Asked(n + 1)' = [S |-> Range(f.c1), b |-> f.b]
    BY <1>4, <1>6, <1>7 DEF Asked
  <2>6. StillFailing' = MustFail(f.b, Range(f.c1))
    <3>1. StillFailing' = Failing(task, f.b \cup Range(f.c1), f.tc)
      BY <1>5, <1>8 DEF StillFailing
    <3>2. f.tc = Failing(task, arg.b \cup Range(arg.c), task.tc)
      BY <1>4, <2>1 DEF MustFail
    <3>3. f.b \cup Range(f.c1) \subseteq arg.b \cup Range(arg.c)
      BY <1>4, <1>8
    <3> QED BY <3>1, <3>2, <3>3, RoundOfFailing DEF MustFail
  <2>7. \A i \in 1 .. n + 1 : FrameOK(i)'
    BY <1>7, <2>2, <2>4
  <2> QED BY <1>4, <1>8, <2>1, <2>5, <2>6, <2>7
<1>12. ScansOK'
  <2> SUFFICES ASSUME Passes(task, Base)
               PROVE  \A i \in 1 .. n + 1 : FrameScanned(i)'
    BY <1>5, <1>6, SameTask DEF ScansOK
  <2>1. \A i \in 1 .. n : FrameScanned(i)
    BY <1>1, <1>5 DEF ScansOK
  <2>2. \A i \in 1 .. n : FrameScanned(i)'
    BY <1>5, <1>6, <2>1, UntouchedFrames
  <2>3. FrameScanned(n + 1)'
    BY <1>4, <1>6 DEF FrameScanned
  <2> QED BY <1>7, <2>2, <2>3
<1> QED BY <1>9, <1>10, <1>11, <1>12 DEF IInv

\* The first half is done: delta1 is maximal in it, and the second half is searched
\* with delta1 in the background and the test cases that fail with both halves.
LEMMA SearchSecondHalfStep == IInv /\ TypeOK' /\ SearchSecondHalf => IInv'
<1> SUFFICES ASSUME TypeOK, SearchOK, NothingKept, CallsOK, ScansOK,
                    TypeOK', SearchSecondHalf
             PROVE  IInv'
  BY DEF IInv
<1>1. PICK n \in Nat \ {0} : Len(stack) = n
  BY EmptySeq DEF TypeOK, SearchSecondHalf
<1>2. /\ n \in 1 .. n /\ n - 1 \in Nat /\ n - 1 \in 0 .. n - 1 /\ n # 0
      /\ 1 .. n - 1 \subseteq 1 .. n
      /\ \A i \in 1 .. n : i \in 1 .. n - 1 \/ i = n
      /\ \A i \in 1 .. n - 1 : i \in 1 .. n /\ i # n
  OBVIOUS
<1>3. PICK f \in Frame : stack[n] = f
  BY <1>1, <1>2, ElementOfSeq DEF TypeOK
<1>4. PICK g \in Frame : g = [f EXCEPT !.at = "second", !.delta1 = ret]
  BY DEF Frame, TypeOK
<1>5. /\ g.c1 = f.c1 /\ g.c2 = f.c2 /\ g.b = f.b /\ g.tc = f.tc
      /\ g.at = "second" /\ g.delta1 = ret
  BY <1>4 DEF Frame
<1>6. /\ stack' = [stack EXCEPT ![n] = g]
      /\ task' = task /\ ret' = ret /\ diag' = diag /\ pc = "return" /\ pc' = "call"
      /\ arg'.delta = Range(f.c1) \ ret /\ arg'.c = f.c2
      /\ arg'.b = f.b \cup ret /\ arg'.tc = f.tc
      /\ f.at = "first"
  BY <1>1, <1>3, <1>4 DEF SearchSecondHalf, Top
<1>7. /\ Len(stack') = n
      /\ \A i \in 1 .. n - 1 : stack'[i] = stack[i]
      /\ stack'[n] = g
  BY <1>1, <1>2, <1>6, ExceptSeq DEF TypeOK
<1>8. /\ HalvesOK(n) /\ AskedList(n - 1)' = AskedList(n - 1) /\ Asked(n - 1)' = Asked(n - 1)
      /\ \A i \in 1 .. n - 1 : HalvesOK(i)'
  <2>1. \A i \in 1 .. n : HalvesOK(i)
    BY <1>1, <1>6 DEF SearchOK
  <2> QED BY <2>1, <1>2, <1>6, <1>7, UntouchedFrames
<1>9. f.c1 \in Seq(Constraint) /\ f.c2 \in Seq(Constraint) /\ f.c2 # <<>>
  <2>1. /\ AskedList(n - 1) \in Seq(Constraint)
        /\ Len(AskedList(n - 1)) > task.m
        /\ f.c2 = SecondHalf(AskedList(n - 1))
        /\ task.m \in Nat \ {0}
    BY <1>3, <1>8, TestTaskTypes DEF HalvesOK, TypeOK
  <2> QED BY <2>1, LongLists, SplitProperties DEF Frame
<1>10. SearchOK'
  <2>1. HalvesOK(n)'
    BY <1>3, <1>5, <1>6, <1>7, <1>8 DEF HalvesOK
  <2>2. \A i \in 1 .. n : HalvesOK(i)'
    BY <1>2, <1>8, <2>1
  <2>3. AskedList(n)' = f.c2
    BY <1>2, <1>5, <1>7 DEF AskedList
  <2> QED BY <1>6, <1>7, <2>2, <2>3 DEF SearchOK
<1>11. NothingKept'
  <2> SUFFICES ASSUME Hopeless # {}
               PROVE  /\ ret' = {}
                      /\ \A i \in 1 .. n : FrameHopeless(i)'
                      /\ Base \subseteq f.b \cup ret /\ Hopeless \subseteq f.tc
    BY <1>6, <1>7, SameTask DEF NothingKept
  <2>1. ret = {} /\ FrameHopeless(n) /\ \A i \in 1 .. n - 1 : FrameHopeless(i)
    BY <1>1, <1>2, <1>6 DEF NothingKept
  <2>2. FrameHopeless(n)'
    BY <1>3, <1>5, <1>6, <1>7, <2>1, SameTask DEF FrameHopeless
  <2>3. \A i \in 1 .. n - 1 : FrameHopeless(i)'
    BY <1>2, <1>6, <1>7, <2>1, UntouchedFrames
  <2> QED BY <1>2, <1>3, <1>6, <2>1, <2>2, <2>3 DEF FrameHopeless
<1>12. CallsOK'
  <2> SUFFICES ASSUME Passes(task, Base)
               PROVE  /\ \A i \in 1 .. n : FrameOK(i)'
                      /\ Asked(n)' = [S |-> Range(f.c2), b |-> f.b \cup ret]
                      /\ Passes(task, f.b \cup ret)
                      /\ StillFailing' = MustFail(f.b \cup ret, Range(f.c2))
                      /\ f.tc # {}
    BY <1>6, <1>7, <1>9, SameTask DEF CallsOK, MustFail
  <2>1. FrameOK(n) /\ \A i \in 1 .. n - 1 : FrameOK(i)
    BY <1>1, <1>2, <1>6, SameTask DEF CallsOK
  <2>2. Maximal(task, f.b, Range(f.c1), ret)
    <3>1. Asked(n) = [S |-> Range(f.c1), b |-> f.b]
      BY <1>2, <1>3, <1>6 DEF Asked
    <3>2. Maximal(task, Asked(n).b, Asked(n).S, ret)
      BY <1>1, <1>6, SameTask DEF CallsOK
    <3> QED BY <3>1, <3>2
  <2>3. FrameOK(n)'
    BY <1>3, <1>5, <1>6, <1>7, <1>8, <2>1, <2>2 DEF FrameOK, MustFail
  <2>4. \A i \in 1 .. n : FrameOK(i)'
    <3>1. \A i \in 1 .. n - 1 : FrameOK(i)'
      BY <1>2, <1>6, <1>7, <2>1, UntouchedFrames
    <3> QED BY <1>2, <2>3, <3>1
  <2>5. Asked(n)' = [S |-> Range(f.c2), b |-> f.b \cup ret]
    BY <1>2, <1>5, <1>7 DEF Asked
  <2>6. /\ f.tc = Failing(task, f.b \cup (Range(f.c1) \cup Range(f.c2)), task.tc)
        /\ f.tc # {}
    BY <1>3, <2>1 DEF FrameOK, MustFail
  <2>7. ret \subseteq Range(f.c1) /\ Passes(task, f.b \cup ret)
    BY <2>2 DEF Maximal
  <2>8. StillFailing' = MustFail(f.b \cup ret, Range(f.c2))
    <3>1. StillFailing' = IF Range(f.c1) \ ret = {} THEN f.tc
                          ELSE Failing(task, f.b \cup ret \cup Range(f.c2), f.tc)
      BY <1>6 DEF StillFailing
    <3>2. CASE Range(f.c1) \ ret = {}
      <4>1. f.b \cup (Range(f.c1) \cup Range(f.c2)) = f.b \cup ret \cup Range(f.c2)
        BY <2>7, <3>2
      <4> QED BY <2>6, <3>1, <3>2, <4>1 DEF MustFail
    <3>3. CASE Range(f.c1) \ ret # {}
      <4>1. f.b \cup ret \cup Range(f.c2) \subseteq f.b \cup (Range(f.c1) \cup Range(f.c2))
        BY <2>7
      <4> QED BY <2>6, <3>1, <3>3, <4>1, RoundOfFailing DEF MustFail
    <3> QED BY <3>2, <3>3
  <2> QED BY <2>4, <2>5, <2>6, <2>7, <2>8
<1>13. ScansOK'
  <2> SUFFICES ASSUME Passes(task, Base)
               PROVE  \A i \in 1 .. n : FrameScanned(i)'
    BY <1>6, <1>7, SameTask DEF ScansOK
  <2>1. \A i \in 1 .. n - 1 : FrameScanned(i)
    BY <1>1, <1>2, <1>6 DEF ScansOK
  <2>2. \A i \in 1 .. n - 1 : FrameScanned(i)'
    BY <1>2, <1>6, <1>7, <2>1, UntouchedFrames
  <2>3. Scanned(f.b, f.c1, ret)
    <3>1. Asked(n).b = f.b /\ AskedList(n) = f.c1
      BY <1>2, <1>3, <1>6 DEF Asked, AskedList
    <3> QED BY <3>1, <1>1, <1>6 DEF ScansOK
  <2>4. FrameScanned(n)'
    BY <1>5, <1>6, <1>7, <2>3 DEF FrameScanned, Scanned
  <2> QED BY <1>2, <2>2, <2>4
<1> QED BY <1>10, <1>11, <1>12, <1>13 DEF IInv

\* Both halves are done: what they keep joins to what the waiting call was asked.
LEMMA JoinHalvesStep == IInv /\ TypeOK' /\ JoinHalves => IInv'
<1> SUFFICES ASSUME TypeOK, SearchOK, NothingKept, CallsOK, ScansOK,
                    TypeOK', JoinHalves
             PROVE  IInv'
  BY DEF IInv
<1>1. PICK n \in Nat \ {0} : Len(stack) = n
  BY EmptySeq DEF TypeOK, JoinHalves
<1>2. /\ n \in 1 .. n /\ n - 1 \in Nat /\ n - 1 \in 0 .. n - 1 /\ n # 0
      /\ 1 .. n - 1 \subseteq 1 .. n
  OBVIOUS
<1>3. PICK f \in Frame : stack[n] = f
  BY <1>1, <1>2, ElementOfSeq DEF TypeOK
<1>4. /\ stack' = Pop /\ task' = task /\ diag' = diag
      /\ pc = "return" /\ pc' = "return"
      /\ ret' = f.delta1 \cup ret /\ f.at = "second"
  BY <1>1, <1>3 DEF JoinHalves, Top
<1>5. Len(stack') = n - 1 /\ \A i \in 1 .. n - 1 : stack'[i] = stack[i]
  BY <1>1, <1>4, PopProperties DEF TypeOK, JoinHalves, Pop
<1>6. /\ Asked(n - 1)' = Asked(n - 1) /\ AskedList(n - 1)' = AskedList(n - 1)
      /\ \A i \in 1 .. n - 1 : /\ HalvesOK(i) => HalvesOK(i)'
                               /\ FrameHopeless(i) => FrameHopeless(i)'
                               /\ FrameOK(i) => FrameOK(i)'
                               /\ FrameScanned(i) => FrameScanned(i)'
  BY <1>2, <1>4, <1>5, UntouchedFrames
<1>7. HalvesOK(n) /\ \A i \in 1 .. n - 1 : HalvesOK(i)
  BY <1>1, <1>2, <1>4 DEF SearchOK
<1>8. SearchOK'
  BY <1>4, <1>5, <1>6, <1>7, Zenon DEF SearchOK
<1>9. NothingKept'
  <2> SUFFICES ASSUME Hopeless # {}
               PROVE  ret' = {} /\ \A i \in 1 .. n - 1 : FrameHopeless(i)'
    BY <1>4, <1>5, SameTask DEF NothingKept
  <2>1. ret = {} /\ FrameHopeless(n) /\ \A i \in 1 .. n - 1 : FrameHopeless(i)
    BY <1>1, <1>2, <1>4 DEF NothingKept
  <2> QED BY <1>3, <1>4, <1>6, <2>1 DEF FrameHopeless
<1>10. ASSUME Passes(task, Base)
       PROVE  /\ FrameOK(n) /\ \A i \in 1 .. n - 1 : FrameOK(i)
              /\ Asked(n - 1) = [S |-> Range(f.c1) \cup Range(f.c2), b |-> f.b]
              /\ Maximal(task, f.b, Range(f.c1), f.delta1)
              /\ Maximal(task, f.b \cup f.delta1, Range(f.c2), ret)
  <2>1. FrameOK(n) /\ \A i \in 1 .. n - 1 : FrameOK(i)
    BY <1>1, <1>2, <1>4, <1>10, SameTask DEF CallsOK
  <2>2. /\ Asked(n - 1) = [S |-> Range(f.c1) \cup Range(f.c2), b |-> f.b]
        /\ Maximal(task, f.b, Range(f.c1), f.delta1)
    BY <1>3, <1>4, <2>1 DEF FrameOK
  <2>3. Asked(n) = [S |-> Range(f.c2), b |-> f.b \cup f.delta1]
    BY <1>2, <1>3, <1>4 DEF Asked
  <2>4. Maximal(task, Asked(n).b, Asked(n).S, ret)
    BY <1>1, <1>4, <1>10, SameTask DEF CallsOK
  <2> QED BY <2>1, <2>2, <2>3, <2>4
<1>11. CallsOK'
  <2> SUFFICES ASSUME Passes(task, Base)
               PROVE  /\ \A i \in 1 .. n - 1 : FrameOK(i)'
                      /\ Maximal(task, (Asked(n - 1).b)', (Asked(n - 1).S)', ret')
    BY <1>4, <1>5, SameTask DEF CallsOK
  <2>1. IsFiniteSet(Range(f.c1)) /\ IsFiniteSet(Range(f.c2)) /\ task.m \in Nat
    BY FewElements, TestTaskTypes DEF Frame, TypeOK
  <2>2. Maximal(task, f.b, Range(f.c1) \cup Range(f.c2), f.delta1 \cup ret)
    BY <1>10, <2>1, MaximalOfHalves
  <2>3. /\ (Asked(n - 1).b)' = f.b
        /\ (Asked(n - 1).S)' = Range(f.c1) \cup Range(f.c2)
    BY <1>6, <1>10
  <2> QED BY <1>4, <1>6, <1>10, <2>2, <2>3
<1>12. ScansOK'
  <2> SUFFICES ASSUME Passes(task, Base)
               PROVE  /\ \A i \in 1 .. n - 1 : FrameScanned(i)'
                      /\ Scanned((Asked(n - 1).b)', AskedList(n - 1)', ret')
    BY <1>4, <1>5, SameTask DEF ScansOK, Scanned
  <2>1. PICK s : s = AskedList(n - 1)
    OBVIOUS
  <2>2. /\ s \in Seq(Constraint) /\ s # <<>> /\ Len(s) # 1
        /\ f.c1 = FirstHalf(s) /\ f.c2 = SecondHalf(s)
    <3>1. task.m \in Nat \ {0}
      BY TestTaskTypes DEF TypeOK
    <3> QED BY <1>3, <1>7, <2>1, <3>1, LongLists DEF HalvesOK
  <2>3. FrameScanned(n) /\ \A i \in 1 .. n - 1 : FrameScanned(i)
    BY <1>1, <1>2, <1>4 DEF ScansOK
  <2>4. Scanned(f.b, f.c1, f.delta1) /\ f.delta1 \subseteq Range(f.c1)
    BY <1>3, <1>4, <1>10, <2>3 DEF FrameScanned, Maximal
  <2>5. Scanned(f.b \cup f.delta1, f.c2, ret)
    <3>1. Asked(n).b = f.b \cup f.delta1 /\ AskedList(n) = f.c2
      BY <1>2, <1>3, <1>4 DEF Asked, AskedList
    <3> QED BY <3>1, <1>1, <1>4 DEF ScansOK
  <2>6. Scanned(f.b, s, f.delta1 \cup ret)
    BY <2>2, <2>4, <2>5, ScannedHalves
  <2>7. (Asked(n - 1).b)' = f.b /\ AskedList(n - 1)' = s
    BY <1>6, <1>10, <2>1
  <2> QED BY <1>4, <1>6, <2>3, <2>6, <2>7
<1> QED BY <1>8, <1>9, <1>11, <1>12 DEF IInv

\* A call that returns at once returns what its caller asked for, and with a hopeless
\* test case it drops what it was given.
LEMMA LeafStep == IInv /\ TypeOK' /\ (KeepAll \/ DropPart) => IInv'
<1> SUFFICES ASSUME TypeOK, SearchOK, NothingKept, CallsOK, ScansOK,
                    TypeOK', KeepAll \/ DropPart
             PROVE  IInv'
  BY DEF IInv
<1>1. /\ task' = task /\ stack' = stack /\ diag' = diag
      /\ pc = "call" /\ pc' = "return"
  BY DEF KeepAll, DropPart
<1>2. PICK n \in Nat : Len(stack) = n /\ n \in 0 .. n
  BY LenProperties DEF TypeOK
<1>3. /\ Asked(n)' = Asked(n) /\ AskedList(n)' = AskedList(n)
      /\ \A i \in 1 .. n : /\ HalvesOK(i) => HalvesOK(i)'
                           /\ FrameHopeless(i) => FrameHopeless(i)'
                           /\ FrameOK(i) => FrameOK(i)'
                           /\ FrameScanned(i) => FrameScanned(i)'
  BY <1>1, <1>2, UntouchedFrames
<1>4. SearchOK'
  BY <1>1, <1>2, <1>3 DEF SearchOK
<1>5. NothingKept'
  <2> SUFFICES ASSUME Hopeless # {}
               PROVE  ret' = {} /\ \A i \in 1 .. n : FrameHopeless(i)'
    BY <1>1, <1>2, SameTask DEF NothingKept
  <2>1. /\ Base \subseteq arg.b /\ Hopeless \subseteq arg.tc
        /\ \A i \in 1 .. n : FrameHopeless(i)
    BY <1>1, <1>2 DEF NothingKept
  <2>2. ~Satisfied
    BY <2>1, HopelessStay DEF Satisfied
  <2> QED BY <1>3, <2>1, <2>2 DEF KeepAll, DropPart
<1>6. arg.c \in Seq(Constraint) /\ AskedList(n) = arg.c /\ task.m \in Nat \ {0}
  BY <1>1, <1>2, TestTaskTypes DEF SearchOK, TypeOK, Arg
<1>7. ASSUME Passes(task, Base)
      PROVE  /\ \A i \in 1 .. n : FrameOK(i)
             /\ Asked(n) = [S |-> Range(arg.c), b |-> arg.b]
             /\ arg.c # <<>> /\ Passes(task, arg.b)
             /\ KeepAll => Passes(task, arg.b \cup Range(arg.c))
             /\ DropPart => ~Passes(task, arg.b \cup Range(arg.c))
  <2>1. /\ \A i \in 1 .. n : FrameOK(i)
        /\ Asked(n) = [S |-> Range(arg.c), b |-> arg.b]
        /\ arg.c # <<>> /\ Passes(task, arg.b)
        /\ StillFailing = MustFail(arg.b, Range(arg.c))
        /\ arg.delta = {} => arg.tc # {}
    BY <1>1, <1>2, <1>7, SameTask DEF CallsOK
  <2>2. StillFailing = {} <=> Passes(task, arg.b \cup Range(arg.c))
    BY <2>1 DEF MustFail, Passes
  <2>3. ~Satisfied => StillFailing # {}
    BY <2>1 DEF Satisfied, StillFailing
  <2> QED BY <2>1, <2>2, <2>3 DEF KeepAll, DropPart, Satisfied
<1>8. CallsOK'
  <2> SUFFICES ASSUME Passes(task, Base)
               PROVE  Maximal(task, arg.b, Range(arg.c), ret')
    BY <1>1, <1>2, <1>3, <1>7, SameTask DEF CallsOK
  <2>1. CASE KeepAll
    BY <1>7, <2>1, MaximalOfPassing DEF KeepAll
  <2>2. CASE DropPart
    BY <1>6, <1>7, <2>2, MaximalOfPart DEF DropPart
  <2> QED BY <2>1, <2>2
<1>9. ScansOK'
  <2> SUFFICES ASSUME Passes(task, Base)
               PROVE  /\ \A i \in 1 .. n : FrameScanned(i)'
                      /\ Scanned(arg.b, arg.c, ret')
    <3>1. (Asked(n).b)' = Asked(n).b
      BY <1>3
    <3>2. Passes(task, Base) => Asked(n).b = arg.b
      BY <1>7
    <3> QED BY <1>1, <1>2, <1>3, <1>6, <3>1, <3>2, SameTask DEF ScansOK, Scanned
  <2>1. \A i \in 1 .. n : FrameScanned(i)
    BY <1>1, <1>2 DEF ScansOK
  <2>2. CASE KeepAll
    BY <1>3, <2>1, <2>2, ScannedAll DEF KeepAll
  <2>3. CASE DropPart
    BY <1>3, <1>6, <1>7, <2>1, <2>3, ScannedPart DEF DropPart
  <2> QED BY <2>2, <2>3
<1> QED BY <1>4, <1>5, <1>8, <1>9 DEF IInv

\* The search starts with a contract to keep, or with a hopeless test case.
LEMMA StartMssStep == IInv /\ TypeOK' /\ StartMss => IInv'
<1> SUFFICES ASSUME TypeOK, SearchOK, NothingKept, CallsOK, ScansOK,
                    TypeOK', StartMss
             PROVE  IInv'
  BY DEF IInv
<1>1. /\ task' = task /\ ret' = ret /\ stack' = stack /\ diag' = diag
      /\ pc = "label" /\ pc' = "call" /\ stack = <<>> /\ ret = {} /\ diag = {}
      /\ arg'.delta = {} /\ arg'.c = task.c /\ arg'.b = Base
      /\ arg'.tc = Failing(task, Base \cup SetC(task), task.tc)
      /\ Diagnosable(task) /\ ~NothingToDiagnose(task)
  BY DEF StartMss, SearchOK, Base
<1>2. /\ Len(stack) = 0 /\ \A i \in 1 .. 0 : FALSE
      /\ Asked(0)' = [S |-> SetC(task), b |-> Base] /\ AskedList(0)' = task.c
  BY <1>1, EmptySeq DEF Asked, AskedList, Base, SetC
<1>3. task.c # <<>>
  <2>1. task.c \in Seq(Constraint) /\ Len(task.c) > 1
    BY <1>1, TestTaskTypes DEF Diagnosable, TypeOK
  <2> QED BY <2>1, LongLists
<1>4. Failing(task, Base \cup SetC(task), task.tc) # {}
  BY <1>1 DEF NothingToDiagnose, Base
<1>5. SearchOK'
  BY <1>1, <1>2 DEF SearchOK
<1>6. NothingKept'
  <2>1. Hopeless \subseteq Failing(task, Base \cup SetC(task), task.tc)
    BY FailingGrows DEF Hopeless
  <2> QED BY <1>1, <1>2, <2>1, SameTask DEF NothingKept
<1>7. CallsOK'
  <2>1. StillFailing' = MustFail(Base, SetC(task))
    BY <1>1 DEF StillFailing, MustFail
  <2>2. MustFail(arg.b, Range(arg.c))' = MustFail(Base, SetC(task))
    BY <1>1 DEF MustFail, SetC
  <2> QED BY <1>1, <1>2, <1>3, <1>4, <2>1, <2>2, SameTask DEF CallsOK, SetC
<1>8. ScansOK'
  BY <1>1, <1>2 DEF ScansOK
<1> QED BY <1>5, <1>6, <1>7, <1>8 DEF IInv

\* What the outermost call keeps is a maximal part of C, or nothing when a test case
\* is hopeless; either way it is what the scan of C keeps.
LEMMA AnswerIsRight ==
    ASSUME IInv, FindDiagnosis
    PROVE  /\ Passes(task, Base) => Maximal(task, Base, SetC(task), ret)
           /\ ~Passes(task, Base) => ret = {}
           /\ KeptOfC(ret)
<1>1. /\ Len(stack) = 0
      /\ Asked(0) = [S |-> SetC(task), b |-> Base] /\ AskedList(0) = task.c
  BY EmptySeq DEF FindDiagnosis, Asked, AskedList, Base
<1>2. ASSUME Passes(task, Base)
      PROVE  Maximal(task, Base, SetC(task), ret) /\ Scanned(Base, task.c, ret)
  <2>1. /\ Maximal(task, Asked(0).b, Asked(0).S, ret)
        /\ Scanned(Asked(0).b, AskedList(0), ret)
    BY <1>1, <1>2, SameTask DEF IInv, CallsOK, ScansOK, FindDiagnosis, Base
  <2> QED BY <1>1, <2>1
<1>3. ~Passes(task, Base) => ret = {}
  BY DEF IInv, NothingKept, FindDiagnosis, Hopeless, Passes
<1>4. KeptOfC(ret)
  <2>1. Passes(task, Base) => ret \subseteq SetC(task) /\ Passes(task, Base \cup ret)
    BY <1>2 DEF Maximal
  <2> QED BY <1>2, <1>3, <2>1, ScannedIsKept, NothingIsKept
<1> QED BY <1>2, <1>3, <1>4

\* Every step keeps the invariant.
LEMMA InvStep == IInv /\ [Next]_vars => IInv'
<1> SUFFICES ASSUME IInv, [Next]_vars
             PROVE  IInv'
  OBVIOUS
<1>1. TypeOK'
  BY TypeStep DEF IInv
<1>2. CASE NoLabel
  BY <1>1, <1>2 DEF NoLabel, IInv, SearchOK, NothingKept, CallsOK, ScansOK
<1>3. CASE StartMss
  BY <1>1, <1>3, StartMssStep
<1>4. CASE KeepAll \/ DropPart
  BY <1>1, <1>4, LeafStep
<1>5. CASE SearchFirstHalf
  BY <1>1, <1>5, SearchFirstHalfStep
<1>6. CASE SearchSecondHalf
  BY <1>1, <1>6, SearchSecondHalfStep
<1>7. CASE JoinHalves
  BY <1>1, <1>7, JoinHalvesStep
<1>8. CASE FindDiagnosis
  <2>1. /\ task' = task /\ pc = "return" /\ pc' = "done"
        /\ Diagnosable(task) /\ ~NothingToDiagnose(task)
        /\ KeptOfC(ret) /\ diag' = SetC(task) \ ret
    BY <1>8, AnswerIsRight DEF FindDiagnosis, IInv, SearchOK
  <2>2. KeptOfC(ret)' <=> KeptOfC(ret)
    BY <1>8 DEF FindDiagnosis, KeptOfC, Each, Base
  <2>3. ScansOK'
    <3>1. \E X : KeptOfC(X)' /\ diag' = SetC(task) \ X
      BY <2>1, <2>2, <1>8 DEF FindDiagnosis
    <3> QED BY <2>1, <3>1 DEF ScansOK
  <2> QED BY <1>1, <2>1, <2>3 DEF IInv, SearchOK, NothingKept, CallsOK
<1>9. CASE UNCHANGED vars
  <2>1. /\ task' = task /\ pc' = pc /\ arg' = arg /\ ret' = ret
        /\ stack' = stack /\ diag' = diag
    BY <1>9 DEF vars
  <2>2. SearchOK'
    BY <2>1 DEF IInv, SearchOK, HalvesOK, AskedList
  <2>3. NothingKept'
    BY <2>1 DEF IInv, NothingKept, FrameHopeless, Hopeless, Base
  <2>4. CallsOK'
    BY <1>1, <2>1 DEF IInv, CallsOK, FrameOK, Asked, MustFail, StillFailing
  <2>5. ScansOK'
    <3>1. \A i : FrameScanned(i)' <=> FrameScanned(i)
      BY <2>1 DEF FrameScanned, Scanned
    <3>2. Scanned(Asked(Len(stack)).b, AskedList(Len(stack)), ret)'
             <=> Scanned(Asked(Len(stack)).b, AskedList(Len(stack)), ret)
      BY <2>1 DEF Scanned, Asked, AskedList
    <3>3. \A X : KeptOfC(X)' <=> KeptOfC(X)
      BY <2>1 DEF KeptOfC, Each, Base
    <3> QED BY <2>1, <3>1, <3>2, <3>3, SameTask DEF IInv, ScansOK
  <2> QED BY <1>1, <2>2, <2>3, <2>4, <2>5 DEF IInv
<1> QED
  BY <1>2, <1>3, <1>4, <1>5, <1>6, <1>7, <1>8, <1>9 DEF Next

LEMMA InitInv == Init => IInv
<1> SUFFICES ASSUME Init
             PROVE  IInv
  OBVIOUS
<1>1. task \in TestTaskOf
  BY TasksAssumption DEF Init
<1>2. <<>> \in Seq(Constraint) /\ <<>> \in Seq(Frame)
  BY EmptySeq
<1> QED
  BY <1>1, <1>2
     DEF Init, IInv, TypeOK, SearchOK, NothingKept, CallsOK, ScansOK, Arg

----------------------------------------------------------------------------
\* The variables keep their types, for every set of constraints, test cases and tasks.
THEOREM TypeCorrect == Spec => []TypeOK
<1>1. IInv => TypeOK
  BY DEF IInv
<1> QED BY InitInv, InvStep, <1>1, PTL DEF Spec

\* Leaving out the test cases that passed loses none that matters: each call of
\* _mssDirect goes on with all that fail with its constraints, and returns a part of
\* them that is maximal up to parts of m (_mssDirect, kbdiag.py).
THEOREM CallsCorrect == Spec => []CallsOK
<1>1. IInv => CallsOK
  BY DEF IInv
<1> QED BY InitInv, InvStep, <1>1, PTL DEF Spec

\* A step of KBDiag is the promised answer or a step the labeler cannot see.
LEMMA StepImplements == IInv /\ [Next]_vars => [Promise!Next]_(Promise!vars)
<1> SUFFICES ASSUME IInv, [Next]_vars
             PROVE  Promise!Next \/ Promise!vars' = Promise!vars
  OBVIOUS
<1> USE DEF Promise!Next, Promise!Answer, Promise!vars
<1>1. CASE NoLabel
  <2>1. Answers(task) = {{}}
    BY <1>1 DEF NoLabel, Answers
  <2> QED BY <1>1, <2>1 DEF NoLabel, IInv, SearchOK
<1>2. CASE FindDiagnosis
  <2>1. Diagnosable(task) /\ ~NothingToDiagnose(task)
    BY <1>2 DEF FindDiagnosis, IInv, SearchOK
  <2>2. CASE Passes(task, Base)
    <3>1. Maximal(task, Base, SetC(task), ret)
      BY <1>2, <2>2, AnswerIsRight
    <3>2. ret \in {Y \in SUBSET SetC(task) : Maximal(task, Base, SetC(task), Y)}
      BY <3>1 DEF Maximal
    <3>3. diag' \in Answers(task)
      BY <1>2, <2>1, <2>2, <3>2 DEF FindDiagnosis, Answers, Base
    <3> QED BY <1>2, <3>3 DEF FindDiagnosis
  <2>3. CASE ~Passes(task, Base)
    <3>1. diag' = SetC(task)
      BY <1>2, <2>3, AnswerIsRight DEF FindDiagnosis
    <3>2. diag' \in Answers(task)
      BY <2>1, <2>3, <3>1 DEF Answers, Base
    <3> QED BY <1>2, <3>2 DEF FindDiagnosis
  <2> QED BY <2>2, <2>3
<1>3. CASE \/ StartMss \/ KeepAll \/ DropPart
           \/ SearchFirstHalf \/ SearchSecondHalf \/ JoinHalves
  BY <1>3 DEF StartMss, KeepAll, DropPart, SearchFirstHalf, SearchSecondHalf, JoinHalves
<1>4. CASE UNCHANGED vars
  BY <1>4 DEF vars
<1> QED BY <1>1, <1>2, <1>3, <1>4 DEF Next

\* KBDiag keeps its promise to the labeler: one answer, and a diagnosis of the test
\* cases that is minimal up to parts of m whenever there is one (KBDiagLabeler.get_label).
THEOREM KBDiagIsCorrect == Spec => AnswersWithDiagnosis
<1>1. Init => Promise!Init
  BY DEF Init, Promise!Init
<1> QED
  BY InitInv, <1>1, InvStep, StepImplements, PTL
     DEF Spec, AnswersWithDiagnosis, Promise!Spec

\* What a scan of C keeps is the preferred subset.
LEMMA ScansDecide == IInv => DiagnosisIsPreferred
<1> SUFFICES ASSUME IInv, pc = "done", task.m = 1
             PROVE  diag = IF Diagnosable(task) /\ ~NothingToDiagnose(task)
                           THEN SetC(task) \ PreferredSubset(Each) ELSE {}
  BY DEF DiagnosisIsPreferred, Each, Base
<1>1. CASE Diagnosable(task) /\ ~NothingToDiagnose(task)
  <2>1. PICK X : KeptOfC(X) /\ diag = SetC(task) \ X
    BY <1>1 DEF IInv, ScansOK
  <2>2. Each.c = task.c /\ task.c \in Seq(Constraint) /\ SetC(Each) = SetC(task)
    BY TestTaskTypes DEF Each, IInv, TypeOK, SetC
  <2>3. X \in SUBSET SetC(Each) /\ KeptByScan(Each.kb, Each.b, Each.c, X)
    BY <2>1, <2>2 DEF KeptOfC
  <2>4. PreferredSubset(Each) = X
    BY <2>2, <2>3, ScanDecides
  <2> QED BY <1>1, <2>1, <2>4
<1>2. CASE ~(Diagnosable(task) /\ ~NothingToDiagnose(task))
  BY <1>2 DEF IInv, ScansOK
<1> QED BY <1>1, <1>2

\* For m = 1 the diagnosis is what the left-to-right scan of C leaves out: the order
\* of C is the order in which constraints are kept (_mssDirect, kbdiag.py).
THEOREM PreferredDiagnosisFound == Spec => []DiagnosisIsPreferred
BY InitInv, InvStep, ScansDecide, PTL DEF Spec

----------------------------------------------------------------------------
(* The labeler of the HS-dag.                                              *)

\* The parameters of a node that ask for the task: set_tc is a list there.
AskFor(p, t) ==
    /\ p.kb = t.kb /\ p.c = t.c /\ p.b = t.b /\ p.neg = t.neg
    /\ p.tc \in Seq(TestCase) /\ Range(p.tc) = t.tc

\* What is answered is the label that the HS-dag is given for the task.
AnswersTheLabel ==
    pc = "done" /\ task.m = 1 => \A p : AskFor(p, task) => diag = Range(KBDiagLabel(p))

\* The parameters have a label exactly when the task has a diagnosis to compute.
LEMMA GuardsAgree ==
    ASSUME NEW t \in TestTaskOf, NEW p, AskFor(p, t)
    PROVE  /\ KBDiagnosable(p) <=> Diagnosable(t)
           /\ FailingTestCases(p) = <<>> <=> NothingToDiagnose(t)
<1>1. \A S : FailingWith(p, S) = Failing(t, S, t.tc)
  BY DEF FailingWith, Failing, AskFor
<1>2. p.tc # <<>> <=> t.tc # {}
  BY RangeProperties DEF AskFor
<1>3. KBDiagnosable(p) <=> Diagnosable(t)
  BY <1>1, <1>2, Zenon DEF KBDiagnosable, Diagnosable, AskFor
<1> DEFINE F == Failing(t, t.b \cup t.neg \cup SetC(t), t.tc)
           w == Where(p.tc, F)
<1>4. w = <<>> <=> F = {}
  <2>1. w \in Seq(TestCase) /\ Range(w) = t.tc \cap F
    BY WhereProperties DEF AskFor
  <2>2. F \subseteq t.tc
    BY DEF Failing
  <2> HIDE DEF w
  <2>3. w # <<>> <=> Range(w) # {}
    BY <2>1, RangeProperties
  <2> QED BY <2>1, <2>2, <2>3
<1>5. SetC(p) = SetC(t)
  BY DEF SetC, AskFor
<1>6. FailingTestCases(p) =
        IF t.neg # {} /\ Failing(t, t.neg, t.tc) # {} THEN <<>> ELSE w
  BY <1>1, <1>5 DEF FailingTestCases, AskFor
<1>7. FailingTestCases(p) = <<>> <=> NothingToDiagnose(t)
  BY <1>4, <1>6, Zenon DEF NothingToDiagnose
<1> QED BY <1>3, <1>7

\* KBDiagLabeler's label of Labelers is what the recursion of KBDiag finds with m = 1.
THEOREM KBDiagFindsTheLabel == Spec => []AnswersTheLabel
<1>1. IInv => AnswersTheLabel
  <2> SUFFICES ASSUME IInv, pc = "done", task.m = 1, NEW p, AskFor(p, task)
               PROVE  diag = Range(KBDiagLabel(p))
    BY DEF AnswersTheLabel
  <2>1. task \in TestTaskOf
    BY DEF IInv, TypeOK
  <2> DEFINE each == [kb |-> {k \ {x} : k \in task.kb, x \in task.tc},
                      c |-> task.c, b |-> task.b \cup task.neg]
             D == SetC(task) \ PreferredSubset(each)
  <2>2. diag = IF Diagnosable(task) /\ ~NothingToDiagnose(task) THEN D ELSE {}
    BY ScansDecide DEF DiagnosisIsPreferred
  <2>3. KBDiagLabel(p) =
          IF ~Diagnosable(task) \/ NothingToDiagnose(task) THEN <<>> ELSE Where(task.c, D)
    <3>1. SetC(p) = SetC(task)
      BY DEF SetC, AskFor
    <3> DEFINE asked == [kb |-> {k \ {x} : k \in p.kb, x \in Range(p.tc)},
                         c |-> p.c, b |-> p.b \cup p.neg]
    <3>2. asked = each
      BY DEF AskFor
    <3>3. p.c = task.c
      BY DEF AskFor
    <3>4. /\ KBDiagnosable(p) <=> Diagnosable(task)
          /\ FailingTestCases(p) = <<>> <=> NothingToDiagnose(task)
      BY <2>1, GuardsAgree
    <3>5. KBDiagLabel(p) =
            IF ~KBDiagnosable(p) \/ FailingTestCases(p) = <<>> THEN <<>>
            ELSE Where(p.c, SetC(p) \ PreferredSubset(asked))
      BY DEF KBDiagLabel
    <3> HIDE DEF each, asked
    <3> QED BY <3>1, <3>2, <3>3, <3>4, <3>5
  <2>4. Range(Where(task.c, D)) = D
    <3>1. task.c \in Seq(Constraint)
      BY <2>1, TestTaskTypes
    <3>2. D \subseteq Range(task.c)
      BY DEF SetC
    <3> HIDE DEF D
    <3>3. Range(Where(task.c, D)) = Range(task.c) \cap D
      BY <3>1, WhereProperties
    <3> QED BY <3>2, <3>3
  <2>5. Range(<<>>) = {}
    BY DEF Range
  <2> HIDE DEF D
  <2> QED BY <2>2, <2>3, <2>4, <2>5
<1> QED BY InitInv, InvStep, <1>1, PTL DEF Spec
=============================================================================
