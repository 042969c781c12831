------------------------- MODULE QuickXPlainProofs -------------------------
(***************************************************************************)
(* For every set of constraints, every knowledge base, every list C and    *)
(* every background B: get_label answers with a conflict when there is one *)
(* to find, and with a minimal one when B is consistent.                   *)
(*                                                                         *)
(* The inductive invariant is the contract of _qx at every depth of its    *)
(* recursion, as in FastDiagProofs; and the answer is the label Labelers   *)
(* gives the HS-dag for the same task.                                     *)
(***************************************************************************)
EXTENDS QuickXPlain, ConstraintsProofs

IInv == TypeOK /\ CallsOK

----------------------------------------------------------------------------
\* Facts about Irreducible.

\* A singleton that contradicts a consistent background cannot be reduced
\* ("if singleton(C) return C").
LEMMA IrreducibleSingleton ==
    ASSUME NEW b, NEW x, ~Consistent(task.kb, b \cup {x}),
           Consistent(task.kb, task.b) => Consistent(task.kb, b)
    PROVE  Irreducible(b, {x}, {x})
<1>1. \A y \in {x} : b \cup ({x} \ {y}) = b
  OBVIOUS
<1> QED BY <1>1 DEF Irreducible

\* Nothing is needed from a list whose background is inconsistent ("return []").
LEMMA IrreducibleEmpty ==
    ASSUME NEW b, NEW S, ~Consistent(task.kb, b)
    PROVE  Irreducible(b, S, {})
<1>1. b \cup {} = b
  OBVIOUS
<1> QED BY <1>1 DEF Irreducible

\* cs1 irreducible in the first half, with the second in its background, and cs2
\* in the second half, with cs1 in its background, join to an irreducible part.
LEMMA IrreducibleOfHalves ==
    ASSUME NEW b, NEW S1, NEW S2, NEW X1, NEW X2,
           Irreducible(b \cup S2, S1, X1), Irreducible(b \cup X1, S2, X2)
    PROVE  Irreducible(b, S1 \cup S2, X1 \cup X2)
<1>1. (b \cup X1) \cup X2 = b \cup (X1 \cup X2)
  OBVIOUS
<1>2. ~Consistent(task.kb, b \cup (X1 \cup X2))
  BY <1>1 DEF Irreducible
<1>3. ASSUME Consistent(task.kb, task.b), NEW x \in X1 \cup X2
      PROVE  Consistent(task.kb, b \cup ((X1 \cup X2) \ {x}))
  <2>1. CASE x \in X1
    <3>1. Consistent(task.kb, (b \cup S2) \cup (X1 \ {x}))
      BY <1>3, <2>1 DEF Irreducible
    <3>2. b \cup ((X1 \cup X2) \ {x}) \subseteq (b \cup S2) \cup (X1 \ {x})
      BY DEF Irreducible
    <3> QED BY <3>1, <3>2, Antimonotone
  <2>2. CASE x \in X2
    <3>1. Consistent(task.kb, (b \cup X1) \cup (X2 \ {x}))
      BY <1>3, <2>2 DEF Irreducible
    <3>2. b \cup ((X1 \cup X2) \ {x}) \subseteq (b \cup X1) \cup (X2 \ {x})
      OBVIOUS
    <3> QED BY <3>1, <3>2, Antimonotone
  <2> QED BY <2>1, <2>2
<1>4. X1 \cup X2 \subseteq S1 \cup S2
  BY DEF Irreducible
<1> QED BY <1>2, <1>3, <1>4 DEF Irreducible

\* An irreducible part of C is one of the answers the labeler promises.
LEMMA IrreducibleIsAnswer ==
    ASSUME NEW X, Irreducible(task.b, SetC(task), X), ~NothingToExplain(task)
    PROVE  X \in Answers(task)
<1>1. X \in SUBSET SetC(task) /\ IsConflict(task, X)
  BY DEF Irreducible, IsConflict
<1>2. ASSUME Consistent(task.kb, task.b), NEW E \in SUBSET X, IsConflict(task, E), E # X
      PROVE  FALSE
  <2>1. PICK x \in X : x \notin E
    BY <1>2
  <2>2. Consistent(task.kb, task.b \cup (X \ {x}))
    BY <1>2 DEF Irreducible
  <2>3. task.b \cup E \subseteq task.b \cup (X \ {x})
    BY <2>1
  <2>4. ~Consistent(task.kb, task.b \cup E)
    BY <1>2 DEF IsConflict
  <2> QED BY <2>2, <2>3, <2>4, Antimonotone
<1>3. Consistent(task.kb, task.b) => X \in MinimalConflicts(task)
  BY <1>1, <1>2 DEF IsMinimalConflict, MinimalConflicts
<1> QED BY <1>1, <1>3 DEF Answers

----------------------------------------------------------------------------
\* A list find_conflict does not turn away is not empty and contradicts B.
LEMMA GuardDecides ==
    ASSUME NEW t \in TaskOf(Constraint), ~NothingToExplain(t)
    PROVE  t.c # <<>> /\ ~Consistent(t.kb, t.b \cup SetC(t))
BY EmptySeq DEF NothingToExplain

\* Every step keeps the types.
LEMMA TypeStep == TypeOK /\ [Next]_vars => TypeOK'
<1> SUFFICES ASSUME TypeOK, [Next]_vars
             PROVE  TypeOK'
  OBVIOUS
<1> USE DEF TypeOK
<1>1. CASE NoLabel
  BY <1>1 DEF NoLabel
<1>2. CASE StartQx
  <2>1. arg' \in Arg
    BY <1>2, TaskTypes DEF StartQx, Arg
  <2> QED BY <1>2, <2>1 DEF StartQx
<1>3. CASE DropAll
  BY <1>3 DEF DropAll
<1>4. CASE KeepOne
  <2>1. ret' \in SUBSET Constraint
    BY <1>4, RangeProperties DEF KeepOne, Arg
  <2> QED BY <1>4, <2>1 DEF KeepOne
<1>5. CASE SearchFirstHalf
  <2>1. FirstHalf(arg.c) \in Seq(Constraint) /\ SecondHalf(arg.c) \in Seq(Constraint)
    BY <1>5, HalvesAreLists DEF Arg
  <2>2. Range(SecondHalf(arg.c)) \in SUBSET Constraint
    BY <2>1, RangeProperties
  <2>4. arg' \in Arg
    BY <1>5, <2>1, <2>2 DEF SearchFirstHalf, Arg
  <2>3. stack' \in Seq(Frame)
    BY <1>5, <2>1 DEF SearchFirstHalf, Arg, Frame
  <2> QED BY <1>5, <2>3, <2>4 DEF SearchFirstHalf
<1>6. CASE SearchSecondHalf
  <2>1. Len(stack) \in 1 .. Len(stack) /\ Top \in Frame
    BY <1>6, EmptySeq, ElementOfSeq DEF SearchSecondHalf, Top
  <2>2. [Top EXCEPT !.at = "second", !.cs1 = ret] \in Frame
    BY <2>1 DEF Frame
  <2>3. stack' = [stack EXCEPT ![Len(stack)] = [Top EXCEPT !.at = "second", !.cs1 = ret]]
    BY <1>6 DEF SearchSecondHalf, Top
  <2>4. stack' \in Seq(Frame)
    BY <2>1, <2>2, <2>3, ExceptSeq
  <2>5. Range(Top.c1) \in SUBSET Constraint
    BY <2>1, RangeProperties DEF Frame
  <2>6. arg' \in Arg
    BY <1>6, <2>1, <2>5 DEF SearchSecondHalf, Arg, Frame
  <2> QED BY <1>6, <2>4, <2>6 DEF SearchSecondHalf
<1>7. CASE JoinHalves
  <2>1. Len(stack) \in 1 .. Len(stack) /\ Top \in Frame
    BY <1>7, EmptySeq, ElementOfSeq DEF JoinHalves, Top
  <2>2. ret' \in SUBSET Constraint
    BY <1>7, <2>1 DEF JoinHalves, Frame
  <2>3. stack' \in Seq(Frame)
    BY <1>7, PopProperties DEF JoinHalves, Pop
  <2> QED BY <1>7, <2>2, <2>3 DEF JoinHalves
<1>8. CASE FindConflict
  <2>1. SetC(task) \in SUBSET Constraint
    BY TaskTypes
  <2> QED BY <1>8, <2>1 DEF FindConflict
<1>9. CASE UNCHANGED vars
  BY <1>9 DEF vars
<1> QED
  BY <1>1, <1>2, <1>3, <1>4, <1>5, <1>6, <1>7, <1>8, <1>9 DEF Next

----------------------------------------------------------------------------
\* A step that leaves the first k frames alone leaves what they ask for and
\* their contracts alone.
LEMMA UntouchedFrames ==
    ASSUME NEW k \in Nat, task' = task, \A i \in 1 .. k : stack'[i] = stack[i]
    PROVE  /\ \A i \in 0 .. k : Asked(i)' = Asked(i)
           /\ \A i \in 1 .. k : FrameOK(i) => FrameOK(i)'
<1>1. ASSUME NEW i \in 0 .. k
      PROVE  Asked(i)' = Asked(i)
  <2>1. i # 0 => i \in 1 .. k
    OBVIOUS
  <2>2. i # 0 => stack'[i] = stack[i]
    BY <2>1
  <2> QED BY <2>2 DEF Asked, SetC
<1>2. ASSUME NEW i \in 1 .. k, FrameOK(i)
      PROVE  FrameOK(i)'
  <2>1. stack'[i] = stack[i] /\ i - 1 \in 0 .. k
    OBVIOUS
  <2>2. Asked(i - 1)' = Asked(i - 1)
    BY <1>1, <2>1
  <2> QED BY <1>2, <2>1, <2>2 DEF FrameOK, Irreducible
<1> QED BY <1>1, <1>2

\* Splitting: the new call is the first half's, on the background it was asked on.
LEMMA SearchFirstHalfStep == IInv /\ SearchFirstHalf => CallsOK'
<1> SUFFICES ASSUME TypeOK, CallsOK, SearchFirstHalf
             PROVE  CallsOK'
  BY DEF IInv
<1> DEFINE f == [c1 |-> FirstHalf(arg.c), c2 |-> SecondHalf(arg.c),
                 b |-> arg.b, at |-> "first", cs1 |-> {}]
<1>1. PICK n \in Nat : Len(stack) = n
  BY LenProperties DEF TypeOK
<1>2. arg.c \in Seq(Constraint) /\ arg.c # <<>> /\ Len(arg.c) # 1
  BY DEF SearchFirstHalf, CallsOK, TypeOK, Arg
<1>3. /\ f.c1 \in Seq(Constraint) /\ f.c1 # <<>>
      /\ f.c2 \in Seq(Constraint) /\ f.c2 # <<>>
      /\ Range(f.c1) \cup Range(f.c2) = Range(arg.c)
  BY <1>2, SplitProperties
<1>4. f \in Frame
  BY <1>3 DEF Frame, TypeOK, Arg
<1>5. /\ stack' = Append(stack, f)
      /\ task' = task /\ conflict' = conflict /\ pc = "call" /\ pc' = "call"
      /\ arg' = [d |-> Range(f.c2), c |-> f.c1, b |-> f.b \cup Range(f.c2)]
  BY DEF SearchFirstHalf
<1>6. /\ Len(stack') = n + 1
      /\ \A i \in 1 .. n : stack'[i] = stack[i]
      /\ stack'[n + 1] = f
  BY <1>1, <1>4, <1>5, AppendProperties DEF TypeOK
<1>7. /\ \A i \in 0 .. n : Asked(i)' = Asked(i)
      /\ \A i \in 1 .. n : FrameOK(i)'
  BY <1>1, <1>5, <1>6, UntouchedFrames DEF CallsOK
<1>8. ~Consistent(task.kb, arg.b \cup Range(arg.c))
  BY <1>5 DEF CallsOK
<1>9. FrameOK(n + 1)'
  <2>1. Asked(n)' = [S |-> Range(arg.c), b |-> arg.b]
    BY <1>1, <1>5, <1>7 DEF CallsOK
  <2>2. (n + 1) - 1 = n
    OBVIOUS
  <2>3. f.b \cup Range(f.c1) \cup Range(f.c2) = arg.b \cup Range(arg.c)
    BY <1>3
  <2>4. Consistent(task.kb, task.b) => Consistent(task.kb, f.b)
    BY <1>5 DEF SearchFirstHalf, Explained, CallsOK
  <2> HIDE DEF f
  <2>5. f.at = "first" /\ f.b = arg.b
    BY DEF f
  <2> QED BY <1>3, <1>5, <1>6, <1>8, <2>1, <2>2, <2>3, <2>4, <2>5 DEF FrameOK
<1>10. \A i \in 1 .. n + 1 : FrameOK(i)'
  <2>1. \A i \in 1 .. n + 1 : i \in 1 .. n \/ i = n + 1
    OBVIOUS
  <2> QED BY <1>7, <1>9, <2>1
<1>11. Asked(n + 1)' = [S |-> Range(f.c1), b |-> f.b \cup Range(f.c2)]
  BY <1>6 DEF Asked
<1>12. Range(f.c2) # {}
  BY <1>3, RangeProperties
<1>13. ~Consistent(task.kb, (f.b \cup Range(f.c2)) \cup Range(f.c1))
  <2>1. (f.b \cup Range(f.c2)) \cup Range(f.c1) = arg.b \cup Range(arg.c)
    BY <1>3
  <2> QED BY <1>8, <2>1
<1>14. ~NothingToExplain(task)'
  BY <1>5 DEF CallsOK
<1> HIDE DEF f
<1>15. arg'.d # {} /\ arg'.c = f.c1 /\ arg'.b = f.b \cup Range(f.c2)
  BY <1>5, <1>12
<1> QED
  BY <1>3, <1>5, <1>6, <1>10, <1>11, <1>13, <1>14, <1>15 DEF CallsOK

\* The first half is done: cs1 is irreducible in it, and the second half
\* is searched with cs1 in the background.
LEMMA SearchSecondHalfStep == IInv /\ SearchSecondHalf => CallsOK'
<1> SUFFICES ASSUME TypeOK, CallsOK, SearchSecondHalf
             PROVE  CallsOK'
  BY DEF IInv
<1>1. PICK n \in Nat \ {0} : Len(stack) = n
  BY EmptySeq DEF TypeOK, SearchSecondHalf
<1> DEFINE f == stack[n]
           g == [f EXCEPT !.at = "second", !.cs1 = ret]
<1>2. n \in 1 .. n /\ n - 1 \in Nat /\ f \in Frame
  <2>1. n \in 1 .. n /\ n - 1 \in Nat
    OBVIOUS
  <2> QED BY <2>1, <1>1, ElementOfSeq DEF TypeOK
<1>3. /\ g.c1 = f.c1 /\ g.c2 = f.c2 /\ g.b = f.b
      /\ g.at = "second" /\ g.cs1 = ret /\ g \in Frame
  BY <1>2 DEF Frame, TypeOK
<1>4. /\ stack' = [stack EXCEPT ![n] = g]
      /\ task' = task /\ conflict' = conflict /\ pc = "return" /\ pc' = "call"
      /\ arg' = [d |-> ret, c |-> f.c2, b |-> f.b \cup ret]
      /\ f.at = "first"
  BY <1>1 DEF SearchSecondHalf, Top
<1> HIDE DEF g
<1>5. /\ Len(stack') = n
      /\ \A i \in 1 .. n - 1 : stack'[i] = stack[i]
      /\ stack'[n] = g
  <2>1. \A i \in 1 .. n - 1 : i \in 1 .. n /\ i # n
    OBVIOUS
  <2> QED BY <2>1, <1>1, <1>2, <1>3, <1>4, ExceptSeq DEF TypeOK
<1>6. /\ \A i \in 0 .. n - 1 : Asked(i)' = Asked(i)
      /\ \A i \in 1 .. n - 1 : FrameOK(i)'
  <2>1. \A i \in 1 .. n - 1 : FrameOK(i)
    <3>1. 1 .. n - 1 \subseteq 1 .. n
      OBVIOUS
    <3> QED BY <3>1, <1>1, <1>4 DEF CallsOK
  <2> QED BY <1>2, <1>4, <1>5, <2>1, UntouchedFrames
<1>7. /\ FrameOK(n)
      /\ f.c1 # <<>> /\ f.c2 # <<>>
      /\ Asked(n - 1) = [S |-> Range(f.c1) \cup Range(f.c2), b |-> f.b]
      /\ Consistent(task.kb, task.b) => Consistent(task.kb, f.b)
      /\ ~Consistent(task.kb, f.b \cup Range(f.c1) \cup Range(f.c2))
  BY <1>1, <1>2, <1>4 DEF CallsOK, FrameOK
<1>8. Irreducible(f.b \cup Range(f.c2), Range(f.c1), ret)
  <2>1. Asked(n) = [S |-> Range(f.c1), b |-> f.b \cup Range(f.c2)]
    BY <1>4 DEF Asked
  <2>2. Irreducible(Asked(n).b, Asked(n).S, ret)
    BY <1>1, <1>4 DEF CallsOK
  <2> HIDE DEF f
  <2>3. Asked(n).S = Range(f.c1) /\ Asked(n).b = f.b \cup Range(f.c2)
    BY <2>1
  <2> QED BY <2>2, <2>3
<1>9. FrameOK(n)'
  <2>1. Asked(n - 1)' = Asked(n - 1)
    BY <1>2, <1>6
  <2> QED BY <2>1, <1>3, <1>4, <1>5, <1>7, <1>8 DEF FrameOK, Irreducible
<1>10. \A i \in 1 .. n : FrameOK(i)'
  <2>1. \A i \in 1 .. n : i \in 1 .. n - 1 \/ i = n
    OBVIOUS
  <2> QED BY <1>6, <1>9, <2>1
<1>11. Asked(n)' = [S |-> Range(f.c2), b |-> f.b \cup ret]
  BY <1>3, <1>5 DEF Asked
<1>12. ASSUME ret = {}, Consistent(task.kb, task.b)
       PROVE  Consistent(task.kb, f.b \cup ret)
  <2>1. f.b \cup ret = f.b
    BY <1>12
  <2> QED BY <2>1, <1>7, <1>12
<1>13. ~Consistent(task.kb, (f.b \cup ret) \cup Range(f.c2))
  <2>1. (f.b \cup ret) \cup Range(f.c2) = (f.b \cup Range(f.c2)) \cup ret
    OBVIOUS
  <2> QED BY <2>1, <1>8 DEF Irreducible
<1>14. ~NothingToExplain(task)'
  BY <1>4 DEF CallsOK
<1> HIDE DEF f
<1> QED
  BY <1>4, <1>5, <1>7, <1>10, <1>11, <1>12, <1>13, <1>14 DEF CallsOK

\* Both halves are done: what they keep joins to what the waiting call was asked.
LEMMA JoinHalvesStep == IInv /\ JoinHalves => CallsOK'
<1> SUFFICES ASSUME TypeOK, CallsOK, JoinHalves
             PROVE  CallsOK'
  BY DEF IInv
<1>1. PICK n \in Nat \ {0} : Len(stack) = n
  BY EmptySeq DEF TypeOK, JoinHalves
<1>2. n - 1 \in Nat /\ n \in 1 .. n /\ n - 1 \in 0 .. n - 1
  OBVIOUS
<1>f. PICK f \in Frame : stack[n] = f
  BY <1>1, <1>2, ElementOfSeq DEF TypeOK
<1>3. /\ stack' = Pop /\ task' = task /\ conflict' = conflict
      /\ pc = "return" /\ pc' = "return"
      /\ ret' = f.cs1 \cup ret /\ f.at = "second"
  BY <1>1, <1>f DEF JoinHalves, Top
<1>4. Len(stack') = n - 1 /\ \A i \in 1 .. n - 1 : stack'[i] = stack[i]
  BY <1>1, <1>3, PopProperties DEF TypeOK, JoinHalves, Pop
<1>5. \A i \in 1 .. n : FrameOK(i)
  BY <1>1, <1>3 DEF CallsOK
<1>6. /\ \A i \in 0 .. n - 1 : Asked(i)' = Asked(i)
      /\ \A i \in 1 .. n - 1 : FrameOK(i)'
  <2>1. 1 .. n - 1 \subseteq 1 .. n
    OBVIOUS
  <2> QED BY <2>1, <1>2, <1>3, <1>4, <1>5, UntouchedFrames
<1>7. /\ Asked(n - 1)' = [S |-> Range(f.c1) \cup Range(f.c2), b |-> f.b]
      /\ Irreducible(f.b \cup Range(f.c2), Range(f.c1), f.cs1)
  BY <1>2, <1>f, <1>3, <1>5, <1>6 DEF FrameOK
<1>8. Irreducible(f.b \cup f.cs1, Range(f.c2), ret)
  <2>1. Asked(n) = [S |-> Range(f.c2), b |-> f.b \cup f.cs1]
    BY <1>f, <1>3 DEF Asked
  <2>2. Irreducible(Asked(n).b, Asked(n).S, ret)
    BY <1>1, <1>3 DEF CallsOK
  <2> QED BY <2>1, <2>2
<1>9. Irreducible(f.b, Range(f.c1) \cup Range(f.c2), f.cs1 \cup ret)
  BY <1>7, <1>8, IrreducibleOfHalves
<1>10. Irreducible(Asked(Len(stack)).b, Asked(Len(stack)).S, ret)'
  <2>1. Len(stack') = n - 1 /\ ret' = f.cs1 \cup ret /\ task' = task
    BY <1>3, <1>4
  <2>2. Asked(Len(stack))' = [S |-> Range(f.c1) \cup Range(f.c2), b |-> f.b]
    BY <2>1, <1>7
  <2>3. /\ (Asked(Len(stack)).b)' = f.b
        /\ (Asked(Len(stack)).S)' = Range(f.c1) \cup Range(f.c2)
    BY <2>2
  <2> QED BY <2>1, <2>3, <1>9 DEF Irreducible
<1>11. ~NothingToExplain(task)'
  BY <1>3 DEF CallsOK
<1> QED
  BY <1>3, <1>4, <1>6, <1>10, <1>11 DEF CallsOK

\* A call that returns at once returns what its caller asked for.
LEMMA LeafStep == IInv /\ (DropAll \/ KeepOne) => CallsOK'
<1> SUFFICES ASSUME TypeOK, CallsOK, DropAll \/ KeepOne
             PROVE  CallsOK'
  BY DEF IInv
<1>1. /\ task' = task /\ stack' = stack /\ conflict' = conflict
      /\ pc = "call" /\ pc' = "return"
  BY DEF DropAll, KeepOne
<1>2. PICK n \in Nat : Len(stack) = n
  BY LenProperties DEF TypeOK
<1>3. /\ \A i \in 0 .. n : Asked(i)' = Asked(i)
      /\ \A i \in 1 .. n : FrameOK(i)'
  BY <1>1, <1>2, UntouchedFrames DEF CallsOK
<1>4. /\ Asked(n) = [S |-> Range(arg.c), b |-> arg.b]
      /\ ~Consistent(task.kb, arg.b \cup Range(arg.c))
  BY <1>1, <1>2 DEF CallsOK
<1>5. Irreducible(arg.b, Range(arg.c), ret')
  <2>1. CASE DropAll
    BY <2>1, IrreducibleEmpty DEF DropAll, Explained
  <2>2. CASE KeepOne
    <3>1. arg.c \in Seq(Constraint) /\ arg.c # <<>> /\ Len(arg.c) = 1
      BY <2>2 DEF KeepOne, CallsOK, TypeOK, Arg
    <3>2. PICK x : Range(arg.c) = {x}
      BY <3>1, RangeProperties
    <3>3. Consistent(task.kb, task.b) => Consistent(task.kb, arg.b)
      BY <2>2 DEF KeepOne, Explained, CallsOK
    <3>4. Irreducible(arg.b, {x}, {x})
      BY <1>4, <3>2, <3>3, IrreducibleSingleton
    <3> QED BY <2>2, <3>2, <3>4 DEF KeepOne
  <2> QED BY <2>1, <2>2
<1>6. Irreducible(Asked(Len(stack)).b, Asked(Len(stack)).S, ret)'
  <2>1. Asked(Len(stack))' = Asked(n)
    BY <1>1, <1>2, <1>3
  <2>2. /\ (Asked(Len(stack)).b)' = arg.b
        /\ (Asked(Len(stack)).S)' = Range(arg.c)
    BY <2>1, <1>4
  <2> QED BY <1>1, <2>2, <1>5 DEF Irreducible
<1>7. ~NothingToExplain(task)'
  BY <1>1 DEF CallsOK
<1> QED
  BY <1>1, <1>2, <1>3, <1>6, <1>7 DEF CallsOK

\* The contract of _qx holds at every depth after every step.
LEMMA CallsStep == IInv /\ [Next]_vars => CallsOK'
<1> SUFFICES ASSUME IInv, [Next]_vars
             PROVE  CallsOK'
  OBVIOUS
<1>1. CASE NoLabel
  BY <1>1 DEF NoLabel, IInv, CallsOK
<1>2. CASE StartQx
  <2>1. /\ task' = task /\ stack' = stack /\ conflict' = conflict /\ stack = <<>>
        /\ pc = "label" /\ pc' = "call"
        /\ arg' = [d |-> {}, c |-> task.c, b |-> task.b]
    BY <1>2 DEF StartQx, IInv, CallsOK
  <2>2. Len(stack) = 0 /\ Asked(0)' = [S |-> Range(task.c), b |-> task.b]
    BY <2>1, EmptySeq DEF Asked, SetC
  <2>3. /\ task.c # <<>>
        /\ ~Consistent(task.kb, task.b \cup Range(task.c))
        /\ ~NothingToExplain(task)'
    BY <1>2, <2>1, GuardDecides DEF StartQx, IInv, TypeOK, SetC
  <2>4. \A i \in 1 .. 0 : FrameOK(i)'
    OBVIOUS
  <2> QED BY <2>1, <2>2, <2>3, <2>4 DEF CallsOK, IInv
<1>3. CASE DropAll \/ KeepOne
  BY <1>3, LeafStep
<1>4. CASE SearchFirstHalf
  BY <1>4, SearchFirstHalfStep
<1>5. CASE SearchSecondHalf
  BY <1>5, SearchSecondHalfStep
<1>6. CASE JoinHalves
  BY <1>6, JoinHalvesStep
<1>7. CASE FindConflict
  BY <1>7 DEF FindConflict, IInv, CallsOK
<1>8. CASE UNCHANGED vars
  <2>1. \A i : Asked(i)' = Asked(i) /\ (FrameOK(i) => FrameOK(i)')
    BY <1>8 DEF vars, Asked, FrameOK, Irreducible, SetC
  <2> QED BY <1>8, <2>1 DEF vars, IInv, CallsOK, Irreducible, NothingToExplain, SetC
<1> QED
  BY <1>1, <1>2, <1>3, <1>4, <1>5, <1>6, <1>7, <1>8 DEF Next

LEMMA InitInv == Init => IInv
<1> SUFFICES ASSUME Init
             PROVE  IInv
  OBVIOUS
<1>1. task \in TaskOf(Constraint) /\ {} \in SUBSET Constraint
  BY TasksAssumption DEF Init
<1>2. <<>> \in Seq(Constraint) /\ <<>> \in Seq(Frame)
  BY EmptySeq
<1> QED BY <1>1, <1>2 DEF Init, IInv, TypeOK, CallsOK, Arg

----------------------------------------------------------------------------
\* The variables keep their types, for every set of constraints and tasks.
THEOREM TypeCorrect == Spec => []TypeOK
<1>1. IInv /\ [Next]_vars => IInv'
  BY TypeStep, CallsStep DEF IInv
<1>2. IInv => TypeOK
  BY DEF IInv
<1> QED BY InitInv, <1>1, <1>2, PTL DEF Spec

\* Each call of _qx returns an irreducible conflicting part of what it was given,
\* and skips the check with an empty D only where the background is consistent.
THEOREM CallsCorrect == Spec => []CallsOK
<1>1. IInv /\ [Next]_vars => IInv'
  BY TypeStep, CallsStep DEF IInv
<1>2. IInv => CallsOK
  BY DEF IInv
<1> QED BY InitInv, <1>1, <1>2, PTL DEF Spec

\* A step of QuickXPlain is the promised answer or a step the labeler cannot see.
LEMMA StepImplements == IInv /\ [Next]_vars => [Promise!Next]_(Promise!vars)
<1> SUFFICES ASSUME IInv, [Next]_vars
             PROVE  Promise!Next \/ Promise!vars' = Promise!vars
  OBVIOUS
<1> USE DEF Promise!Next, Promise!Answer, Promise!vars
<1>1. CASE NoLabel
  <2>1. Answers(task) = {{}}
    BY <1>1 DEF NoLabel, Answers
  <2> QED BY <1>1, <2>1 DEF NoLabel, IInv, CallsOK
<1>2. CASE FindConflict
  <2>1. Irreducible(task.b, SetC(task), ret) /\ ~NothingToExplain(task)
    <3>1. Len(stack) = 0 /\ Asked(0) = [S |-> SetC(task), b |-> task.b]
      BY <1>2, EmptySeq DEF FindConflict, Asked
    <3>2. Irreducible(Asked(0).b, Asked(0).S, ret)
      BY <1>2, <3>1 DEF FindConflict, IInv, CallsOK
    <3>3. Irreducible(task.b, SetC(task), ret)
      BY <3>1, <3>2
    <3> QED BY <1>2, <3>3 DEF FindConflict, IInv, CallsOK
  <2>2. conflict' \in Answers(task)
    BY <1>2, <2>1, IrreducibleIsAnswer DEF FindConflict
  <2> QED BY <1>2, <2>2 DEF FindConflict
<1>3. CASE StartQx \/ DropAll \/ KeepOne \/ SearchFirstHalf \/ SearchSecondHalf \/ JoinHalves
  BY <1>3 DEF StartQx, DropAll, KeepOne, SearchFirstHalf, SearchSecondHalf, JoinHalves
<1>4. CASE UNCHANGED vars
  BY <1>4 DEF vars
<1> QED BY <1>1, <1>2, <1>3, <1>4 DEF Next

\* QuickXPlain keeps its promise to the labeler: one answer, and a conflict whenever C
\* contradicts the background, a minimal one if the background is consistent.
THEOREM QuickXPlainIsCorrect == Spec => AnswersWithMinimalConflict
<1>1. Init => Promise!Init
  BY DEF Init, Promise!Init
<1>2. IInv /\ [Next]_vars => IInv'
  BY TypeStep, CallsStep DEF IInv
<1> QED
  BY InitInv, <1>1, <1>2, StepImplements, PTL
     DEF Spec, AnswersWithMinimalConflict, Promise!Spec

----------------------------------------------------------------------------
\* Divide and conquer leaves what a left-to-right scan leaves.  As in FastDiagProofs
\* the contract of _qx is strengthened with the order of C: each suspended call holds
\* the halves of the list it was asked for, and no call keeps a constraint unless it
\* is needed once those not kept before it are gone.  On an inconsistent background
\* every call that is given a D returns nothing, and the others their last constraint.

\* The list of the call the i-th waiting call is waiting for.
AskedList(i) ==
    IF i = 0 THEN task.c
    ELSE IF stack[i].at = "first" THEN stack[i].c1 ELSE stack[i].c2

\* X keeps of the list s nothing that the rest can do without.
Spared(b, s, X) ==
    \A n \in DOMAIN s :
        s[n] \in X =>
            Consistent(task.kb, b \cup ((Range(s) \ (Earlier(s, n) \ X)) \ {s[n]}))

\* The call the i-th waiting call is waiting for was not given the other half as D.
Bare(i) == i = 0 \/ stack[i].at = "second"

\* The call the i-th waiting call is waiting for leaves X of the list s.
Leaves(i, b, s, X) ==
    /\ Consistent(task.kb, task.b) /\ IsInjective(task.c) => Spared(b, s, X)
    /\ ~Consistent(task.kb, task.b) => X = IF Bare(i) THEN {Last(s)} ELSE {}

\* The i-th waiting call split the list it was asked for; on an inconsistent
\* background it was not given a D, and so the first half has nothing to add.
HalvesOK(i) ==
    LET f == stack[i] IN
    /\ AskedList(i - 1) \in Seq(Constraint)
    /\ AskedList(i - 1) # <<>>
    /\ Len(AskedList(i - 1)) # 1
    /\ IsInjective(task.c) => IsInjective(AskedList(i - 1))
    /\ f.c1 = FirstHalf(AskedList(i - 1))
    /\ f.c2 = SecondHalf(AskedList(i - 1))
    /\ ~Consistent(task.kb, task.b) => ~Consistent(task.kb, f.b) /\ Bare(i - 1)
    /\ f.at = "second" =>
        /\ Consistent(task.kb, task.b) /\ IsInjective(task.c) =>
              Spared(f.b \cup Range(f.c2), f.c1, f.cs1)
        /\ ~Consistent(task.kb, task.b) => f.cs1 = {}

ScansOK ==
    /\ pc \in {"call", "return"} => \A i \in 1 .. Len(stack) : HalvesOK(i)
    /\ pc = "call" =>
        /\ arg.c = AskedList(Len(stack))
        /\ IsInjective(task.c) => IsInjective(arg.c)
        /\ ~Consistent(task.kb, task.b) =>
              ~Consistent(task.kb, arg.b) /\ (arg.d = {} <=> Bare(Len(stack)))
    /\ pc = "return" =>
        Leaves(Len(stack), Asked(Len(stack)).b, AskedList(Len(stack)), ret)
    /\ pc = "done" =>
        \/ NothingToExplain(task) /\ conflict = {}
        \/ /\ task.c # <<>>
           /\ Irreducible(task.b, SetC(task), conflict)
           /\ Leaves(0, task.b, task.c, conflict)

\* cs1 left of the first half, with the second in its background, and cs2 of the
\* second half, with cs1 in its background, are together left of the whole list.
LEMMA SparedHalves ==
    ASSUME NEW D, NEW s \in Seq(D), s # <<>>, Len(s) # 1, IsInjective(s),
           NEW b, NEW X1, NEW X2,
           X1 \subseteq Range(FirstHalf(s)), X2 \subseteq Range(SecondHalf(s)),
           Spared(b \cup Range(SecondHalf(s)), FirstHalf(s), X1),
           Spared(b \cup X1, SecondHalf(s), X2)
    PROVE  Spared(b, s, X1 \cup X2)
<1> DEFINE X == X1 \cup X2
           S1 == Range(FirstHalf(s))
           S2 == Range(SecondHalf(s))
           Rest(n) == b \cup ((Range(s) \ (Earlier(s, n) \ X)) \ {s[n]})
<1>1. Range(s) = S1 \cup S2 /\ S1 \cap S2 = {}
  BY SplitProperties, InjectiveHalves
<1>2. ASSUME NEW n \in DOMAIN s, s[n] \in X
      PROVE  Consistent(task.kb, Rest(n))
  <2>1. CASE /\ n \in DOMAIN FirstHalf(s)
             /\ FirstHalf(s)[n] = s[n]
             /\ Earlier(FirstHalf(s), n) \subseteq Earlier(s, n)
    <3>1. s[n] \in S1
      BY <2>1 DEF Range
    <3>2. s[n] \in X1
      BY <1>1, <1>2, <3>1
    <3> DEFINE E == Earlier(FirstHalf(s), n)
               T == (b \cup S2) \cup ((S1 \ (E \ X1)) \ {s[n]})
    <3>3. Consistent(task.kb, T)
      BY <2>1, <3>2 DEF Spared
    <3>4. E \subseteq Earlier(s, n)
      BY <2>1
    <3> HIDE DEF E, S1, S2
    <3>5. Rest(n) \subseteq T
      BY <1>1, <3>4, X2 \subseteq S2 DEF S2
    <3> QED BY <3>3, <3>5, Antimonotone
  <2>2. CASE \E m \in DOMAIN SecondHalf(s) :
                /\ SecondHalf(s)[m] = s[n]
                /\ Earlier(SecondHalf(s), m) \subseteq Earlier(s, n)
                /\ Range(FirstHalf(s)) \subseteq Earlier(s, n)
    <3>1. PICK m \in DOMAIN SecondHalf(s) :
             /\ SecondHalf(s)[m] = s[n]
             /\ Earlier(SecondHalf(s), m) \subseteq Earlier(s, n)
             /\ Range(FirstHalf(s)) \subseteq Earlier(s, n)
      BY <2>2
    <3>2. s[n] \in S2
      BY <3>1 DEF Range
    <3>3. s[n] \in X2
      BY <1>1, <1>2, <3>2
    <3> DEFINE E == Earlier(SecondHalf(s), m)
               T == (b \cup X1) \cup ((S2 \ (E \ X2)) \ {s[n]})
    <3>4. Consistent(task.kb, T)
      BY <3>1, <3>3 DEF Spared
    <3>5. E \subseteq Earlier(s, n) /\ S1 \subseteq Earlier(s, n) /\ X2 \subseteq S2
      BY <3>1
    <3> HIDE DEF E, S1, S2
    <3>6. Rest(n) \subseteq T
      BY <1>1, <3>5
    <3> QED BY <3>4, <3>6, Antimonotone
  <2> QED BY <2>1, <2>2, HalvesInPlace
<1> QED BY <1>2 DEF Spared

\* An irreducible part of a list that spares what it can is what the scan leaves.
LEMMA SparedIsLeft ==
    ASSUME NEW b, NEW D, NEW s \in Seq(D), NEW X \in SUBSET Range(s),
           ~Consistent(task.kb, b \cup X), Spared(b, s, X)
    PROVE  LeftByScan(task.kb, b, s, X)
<1>1. ASSUME NEW n \in DOMAIN s, s[n] \notin X
      PROVE  ~Consistent(task.kb, b \cup ((Range(s) \ (Earlier(s, n) \ X)) \ {s[n]}))
  <2>1. b \cup X \subseteq b \cup ((Range(s) \ (Earlier(s, n) \ X)) \ {s[n]})
    BY <1>1
  <2> QED BY <2>1, Antimonotone
<1> QED BY <1>1 DEF LeftByScan, Spared

\* A step that leaves the first k frames alone leaves their lists alone.
LEMMA UntouchedLists ==
    ASSUME NEW k \in Nat, task' = task, \A i \in 1 .. k : stack'[i] = stack[i]
    PROVE  /\ \A i \in 0 .. k : AskedList(i)' = AskedList(i) /\ (Bare(i)' <=> Bare(i))
           /\ \A i \in 1 .. k : HalvesOK(i) => HalvesOK(i)'
<1>1. ASSUME NEW i \in 0 .. k
      PROVE  AskedList(i)' = AskedList(i) /\ (Bare(i)' <=> Bare(i))
  <2>1. i # 0 => i \in 1 .. k
    OBVIOUS
  <2>2. i # 0 => stack'[i] = stack[i]
    BY <2>1
  <2> QED BY <2>2 DEF AskedList, Bare
<1>2. ASSUME NEW i \in 1 .. k, HalvesOK(i)
      PROVE  HalvesOK(i)'
  <2>1. stack'[i] = stack[i] /\ i - 1 \in 0 .. k
    OBVIOUS
  <2>2. AskedList(i - 1)' = AskedList(i - 1) /\ (Bare(i - 1)' <=> Bare(i - 1))
    BY <1>1, <2>1
  <2> QED BY <1>2, <2>1, <2>2 DEF HalvesOK, Spared
<1> QED BY <1>1, <1>2

LEMMA ScanFirstHalf == IInv /\ ScansOK /\ SearchFirstHalf => ScansOK'
<1> SUFFICES ASSUME TypeOK, CallsOK, ScansOK, SearchFirstHalf
             PROVE  ScansOK'
  BY DEF IInv
<1> DEFINE f == [c1 |-> FirstHalf(arg.c), c2 |-> SecondHalf(arg.c),
                 b |-> arg.b, at |-> "first", cs1 |-> {}]
<1>1. PICK n \in Nat : Len(stack) = n
  BY LenProperties DEF TypeOK
<1>2. arg.c \in Seq(Constraint) /\ arg.c # <<>> /\ Len(arg.c) # 1
  BY DEF SearchFirstHalf, CallsOK, TypeOK, Arg
<1>3. f \in Frame
  BY <1>2, HalvesAreLists DEF Frame, TypeOK, Arg
<1>4. /\ stack' = Append(stack, f)
      /\ task' = task /\ conflict' = conflict /\ pc = "call" /\ pc' = "call"
      /\ arg'.c = f.c1 /\ arg'.d = Range(f.c2) /\ arg'.b = f.b \cup Range(f.c2)
  BY DEF SearchFirstHalf
<1>5. /\ f.c1 = FirstHalf(arg.c) /\ f.c2 = SecondHalf(arg.c)
      /\ f.at = "first" /\ f.b = arg.b
  OBVIOUS
<1> HIDE DEF f
<1>6. /\ Len(stack') = n + 1
      /\ \A i \in 1 .. n : stack'[i] = stack[i]
      /\ stack'[n + 1] = f
  BY <1>1, <1>3, <1>4, AppendProperties DEF TypeOK
<1>7. /\ AskedList(n)' = arg.c /\ (Bare(n)' <=> Bare(n))
      /\ \A i \in 1 .. n : HalvesOK(i)'
  <2>1. n \in 0 .. n /\ AskedList(n) = arg.c /\ \A i \in 1 .. n : HalvesOK(i)
    BY <1>1, <1>4 DEF ScansOK
  <2> QED BY <2>1, <1>4, <1>6, UntouchedLists
<1>8. ~Consistent(task.kb, task.b) => ~Consistent(task.kb, arg.b) /\ Bare(n)
  BY <1>1, <1>4 DEF ScansOK, SearchFirstHalf, Explained
<1>9. HalvesOK(n + 1)'
  <2>1. (n + 1) - 1 = n
    OBVIOUS
  <2>2. IsInjective(task.c) => IsInjective(arg.c)
    BY <1>4 DEF ScansOK
  <2> QED BY <2>1, <2>2, <1>2, <1>4, <1>5, <1>6, <1>7, <1>8 DEF HalvesOK
<1>10. \A i \in 1 .. n + 1 : HalvesOK(i)'
  <2>1. \A i \in 1 .. n + 1 : i \in 1 .. n \/ i = n + 1
    OBVIOUS
  <2> QED BY <1>7, <1>9, <2>1
<1>11. AskedList(n + 1)' = f.c1 /\ ~Bare(n + 1)'
  <2>1. n + 1 # 0
    OBVIOUS
  <2> QED BY <2>1, <1>5, <1>6 DEF AskedList, Bare
<1>12. Range(f.c2) # {}
  BY <1>2, <1>5, SplitProperties, RangeProperties
<1>13. ~Consistent(task.kb, task.b) => ~Consistent(task.kb, f.b \cup Range(f.c2))
  <2>1. f.b \subseteq f.b \cup Range(f.c2)
    OBVIOUS
  <2> QED BY <2>1, <1>5, <1>8, Antimonotone
<1>14. IsInjective(task.c) => IsInjective(f.c1)
  <2>1. IsInjective(task.c) => IsInjective(arg.c)
    BY <1>4 DEF ScansOK
  <2> QED BY <2>1, <1>2, <1>5, InjectiveHalves
<1> QED BY <1>4, <1>6, <1>10, <1>11, <1>12, <1>13, <1>14 DEF ScansOK

LEMMA ScanSecondHalf == IInv /\ ScansOK /\ SearchSecondHalf => ScansOK'
<1> SUFFICES ASSUME TypeOK, CallsOK, ScansOK, SearchSecondHalf
             PROVE  ScansOK'
  BY DEF IInv
<1>1. PICK n \in Nat \ {0} : Len(stack) = n
  BY EmptySeq DEF TypeOK, SearchSecondHalf
<1>2. n \in 1 .. n /\ n - 1 \in Nat /\ n - 1 \in 0 .. n - 1 /\ n # 0
  OBVIOUS
<1>3. PICK f \in Frame : stack[n] = f
  BY <1>1, <1>2, ElementOfSeq DEF TypeOK
<1> DEFINE g == [f EXCEPT !.at = "second", !.cs1 = ret]
<1>4. /\ g.c1 = f.c1 /\ g.c2 = f.c2 /\ g.b = f.b
      /\ g.at = "second" /\ g.cs1 = ret /\ g \in Frame
  BY <1>3 DEF Frame, TypeOK
<1>5. /\ stack' = [stack EXCEPT ![n] = g]
      /\ task' = task /\ conflict' = conflict /\ pc = "return" /\ pc' = "call"
      /\ arg'.c = f.c2 /\ arg'.d = ret /\ arg'.b = f.b \cup ret
      /\ f.at = "first"
  BY <1>1, <1>3 DEF SearchSecondHalf, Top
<1> HIDE DEF g
<1>6. /\ Len(stack') = n
      /\ \A i \in 1 .. n - 1 : stack'[i] = stack[i]
      /\ stack'[n] = g
  <2>1. \A i \in 1 .. n - 1 : i \in 1 .. n /\ i # n
    OBVIOUS
  <2> QED BY <2>1, <1>1, <1>2, <1>4, <1>5, ExceptSeq DEF TypeOK
<1>7. HalvesOK(n) /\ \A i \in 1 .. n - 1 : HalvesOK(i)
  <2>1. 1 .. n - 1 \subseteq 1 .. n
    OBVIOUS
  <2> QED BY <2>1, <1>1, <1>2, <1>5 DEF ScansOK
<1>8. /\ AskedList(n - 1)' = AskedList(n - 1) /\ (Bare(n - 1)' <=> Bare(n - 1))
      /\ \A i \in 1 .. n - 1 : HalvesOK(i)'
  BY <1>2, <1>5, <1>6, <1>7, UntouchedLists
<1>9. /\ Consistent(task.kb, task.b) /\ IsInjective(task.c) =>
            Spared(f.b \cup Range(f.c2), f.c1, ret)
      /\ ~Consistent(task.kb, task.b) => ret = {}
  <2>1. /\ Asked(n).b = f.b \cup Range(f.c2)
        /\ AskedList(n) = f.c1
        /\ ~Bare(n)
    BY <1>2, <1>3, <1>5 DEF Asked, AskedList, Bare
  <2>2. Leaves(n, Asked(n).b, AskedList(n), ret)
    BY <1>1, <1>5 DEF ScansOK
  <2> QED BY <2>1, <2>2 DEF Leaves
<1> DEFINE s == AskedList(n - 1)
<1>10. /\ s \in Seq(Constraint) /\ s # <<>> /\ Len(s) # 1
       /\ IsInjective(task.c) => IsInjective(s)
       /\ f.c1 = FirstHalf(s) /\ f.c2 = SecondHalf(s)
       /\ ~Consistent(task.kb, task.b) => ~Consistent(task.kb, f.b) /\ Bare(n - 1)
  BY <1>3, <1>7 DEF HalvesOK
<1>11. s' = s
  BY <1>8
<1> HIDE DEF s
<1>12. HalvesOK(n)'
  BY <1>4, <1>5, <1>6, <1>8, <1>9, <1>10, <1>11 DEF HalvesOK, Spared, s
<1>13. \A i \in 1 .. n : HalvesOK(i)'
  <2>1. \A i \in 1 .. n : i \in 1 .. n - 1 \/ i = n
    OBVIOUS
  <2> QED BY <1>8, <1>12, <2>1
<1>14. AskedList(n)' = f.c2 /\ Bare(n)'
  BY <1>2, <1>4, <1>6 DEF AskedList, Bare
<1>15. ~Consistent(task.kb, task.b) => ~Consistent(task.kb, f.b \cup ret)
  <2>1. f.b \subseteq f.b \cup ret
    OBVIOUS
  <2> QED BY <2>1, <1>10, Antimonotone
<1>16. IsInjective(task.c) => IsInjective(f.c2)
  BY <1>10, InjectiveHalves
<1> QED BY <1>5, <1>6, <1>9, <1>13, <1>14, <1>15, <1>16 DEF ScansOK

LEMMA ScanJoins == IInv /\ ScansOK /\ JoinHalves => ScansOK'
<1> SUFFICES ASSUME TypeOK, CallsOK, ScansOK, JoinHalves
             PROVE  ScansOK'
  BY DEF IInv
<1>1. PICK n \in Nat \ {0} : Len(stack) = n
  BY EmptySeq DEF TypeOK, JoinHalves
<1>2. n - 1 \in Nat /\ n \in 1 .. n /\ n - 1 \in 0 .. n - 1
  OBVIOUS
<1>3. PICK f \in Frame : stack[n] = f
  BY <1>1, <1>2, ElementOfSeq DEF TypeOK
<1>4. /\ stack' = Pop /\ task' = task /\ conflict' = conflict
      /\ pc = "return" /\ pc' = "return"
      /\ ret' = f.cs1 \cup ret /\ f.at = "second"
  BY <1>1, <1>3 DEF JoinHalves, Top
<1>5. Len(stack') = n - 1 /\ \A i \in 1 .. n - 1 : stack'[i] = stack[i]
  BY <1>1, <1>4, PopProperties DEF TypeOK, JoinHalves, Pop
<1>6. \A i \in 1 .. n : HalvesOK(i) /\ FrameOK(i)
  BY <1>1, <1>4 DEF ScansOK, CallsOK
<1>7. /\ Asked(n - 1)' = Asked(n - 1)
      /\ AskedList(n - 1)' = AskedList(n - 1) /\ (Bare(n - 1)' <=> Bare(n - 1))
      /\ \A i \in 1 .. n - 1 : HalvesOK(i)'
  <2>1. 1 .. n - 1 \subseteq 1 .. n
    OBVIOUS
  <2> QED BY <2>1, <1>2, <1>4, <1>5, <1>6, UntouchedFrames, UntouchedLists
<1> DEFINE s == AskedList(n - 1)
<1>8. /\ s \in Seq(Constraint) /\ s # <<>> /\ Len(s) # 1
      /\ IsInjective(task.c) => IsInjective(s)
      /\ f.c1 = FirstHalf(s) /\ f.c2 = SecondHalf(s)
      /\ ~Consistent(task.kb, task.b) => Bare(n - 1) /\ f.cs1 = {}
      /\ Consistent(task.kb, task.b) /\ IsInjective(task.c) =>
            Spared(f.b \cup Range(f.c2), f.c1, f.cs1)
  BY <1>2, <1>3, <1>4, <1>6 DEF HalvesOK
<1>9. Asked(n - 1).b = f.b /\ f.cs1 \subseteq Range(f.c1)
  <2>1. /\ Asked(n - 1) = [S |-> Range(f.c1) \cup Range(f.c2), b |-> f.b]
        /\ Irreducible(f.b \cup Range(f.c2), Range(f.c1), f.cs1)
    BY <1>2, <1>3, <1>4, <1>6 DEF FrameOK
  <2> QED BY <2>1 DEF Irreducible
<1>10. /\ Consistent(task.kb, task.b) /\ IsInjective(task.c) =>
             Spared(f.b \cup f.cs1, f.c2, ret)
       /\ ~Consistent(task.kb, task.b) => ret = {Last(f.c2)}
       /\ ret \subseteq Range(f.c2)
  <2>1. Asked(n) = [S |-> Range(f.c2), b |-> f.b \cup f.cs1] /\ AskedList(n) = f.c2 /\ Bare(n)
    BY <1>2, <1>3, <1>4 DEF Asked, AskedList, Bare
  <2>2. /\ Leaves(n, Asked(n).b, AskedList(n), ret)
        /\ Irreducible(Asked(n).b, Asked(n).S, ret)
    BY <1>1, <1>4 DEF ScansOK, CallsOK
  <2>3. Asked(n).S = Range(f.c2) /\ Asked(n).b = f.b \cup f.cs1
    BY <2>1
  <2> QED BY <2>1, <2>2, <2>3 DEF Leaves, Irreducible
<1> HIDE DEF s
<1>11. Consistent(task.kb, task.b) /\ IsInjective(task.c) => Spared(f.b, s, f.cs1 \cup ret)
  BY <1>8, <1>9, <1>10, SparedHalves
<1>12. ~Consistent(task.kb, task.b) => f.cs1 \cup ret = {Last(s)}
  BY <1>8, <1>10, LastOfHalves
<1>13. Leaves(Len(stack), Asked(Len(stack)).b, AskedList(Len(stack)), ret)'
  <2>1. /\ (Asked(Len(stack)).b)' = f.b
        /\ AskedList(Len(stack))' = s
        /\ Bare(Len(stack))' <=> Bare(n - 1)
        /\ ret' = f.cs1 \cup ret /\ task' = task
    BY <1>4, <1>5, <1>7, <1>9 DEF s
  <2> QED BY <2>1, <1>8, <1>11, <1>12 DEF Leaves, Spared
<1> QED BY <1>4, <1>5, <1>7, <1>13 DEF ScansOK

LEMMA ScanLeaf == IInv /\ ScansOK /\ (DropAll \/ KeepOne) => ScansOK'
<1> SUFFICES ASSUME TypeOK, CallsOK, ScansOK, DropAll \/ KeepOne
             PROVE  ScansOK'
  BY DEF IInv
<1>1. /\ task' = task /\ stack' = stack /\ conflict' = conflict
      /\ pc = "call" /\ pc' = "return"
  BY DEF DropAll, KeepOne
<1>2. PICK n \in Nat : Len(stack) = n
  BY LenProperties DEF TypeOK
<1>3. /\ Asked(n)' = Asked(n) /\ AskedList(n)' = AskedList(n) /\ (Bare(n)' <=> Bare(n))
      /\ \A i \in 1 .. n : HalvesOK(i)'
  <2>1. n \in 0 .. n /\ \A i \in 1 .. n : HalvesOK(i)
    BY <1>1, <1>2 DEF ScansOK
  <2> QED BY <2>1, <1>1, UntouchedFrames, UntouchedLists
<1>4. Asked(n).b = arg.b /\ AskedList(n) = arg.c
  BY <1>1, <1>2 DEF ScansOK, CallsOK
<1>5. /\ Consistent(task.kb, task.b) => Spared(arg.b, arg.c, ret')
      /\ ~Consistent(task.kb, task.b) => ret' = IF Bare(n) THEN {Last(arg.c)} ELSE {}
  <2>1. CASE DropAll
    <3>1. ret' = {} /\ arg.d # {}
      BY <2>1 DEF DropAll, Explained
    <3>2. ~Consistent(task.kb, task.b) => ~Bare(n)
      BY <3>1, <1>1, <1>2 DEF ScansOK
    <3> QED BY <3>1, <3>2 DEF Spared
  <2>2. CASE KeepOne
    <3>1. arg.c \in Seq(Constraint) /\ arg.c # <<>> /\ Len(arg.c) = 1 /\ ret' = Range(arg.c)
      BY <2>2 DEF KeepOne, CallsOK, TypeOK, Arg
    <3>2. ~Consistent(task.kb, task.b) => Bare(n)
      BY <2>2, <1>1, <1>2 DEF KeepOne, Explained, ScansOK
    <3>3. Range(arg.c) = {Last(arg.c)}
      BY <3>1, RangeProperties
    <3>4. ASSUME Consistent(task.kb, task.b)
          PROVE  Spared(arg.b, arg.c, Range(arg.c))
      <4>1. Consistent(task.kb, arg.b)
        BY <2>2, <3>4 DEF KeepOne, Explained, CallsOK
      <4>2. ASSUME NEW m \in DOMAIN arg.c
            PROVE  arg.b \cup ((Range(arg.c) \ (Earlier(arg.c, m) \ Range(arg.c))) \ {arg.c[m]})
                      \subseteq arg.b
        <5>1. arg.c[m] \in Range(arg.c)
          BY DEF Range
        <5>2. Range(arg.c) = {arg.c[m]}
          BY <3>1, <5>1, RangeProperties
        <5> QED BY <5>2
      <4> QED BY <4>1, <4>2, Antimonotone DEF Spared
    <3> QED BY <3>1, <3>2, <3>3, <3>4
  <2> QED BY <2>1, <2>2
<1>6. Leaves(Len(stack), Asked(Len(stack)).b, AskedList(Len(stack)), ret)'
  <2>1. /\ (Asked(Len(stack)).b)' = arg.b /\ AskedList(Len(stack))' = arg.c
        /\ Bare(Len(stack))' <=> Bare(n)
    BY <1>1, <1>2, <1>3, <1>4
  <2> QED BY <1>1, <2>1, <1>5 DEF Leaves, Spared
<1> QED BY <1>1, <1>2, <1>3, <1>6 DEF ScansOK

\* Every step keeps the lists of the suspended calls and what was spared of them.
LEMMA ScanStep == IInv /\ ScansOK /\ [Next]_vars => ScansOK'
<1> SUFFICES ASSUME IInv, ScansOK, [Next]_vars
             PROVE  ScansOK'
  OBVIOUS
<1>1. CASE NoLabel
  BY <1>1 DEF NoLabel, IInv, CallsOK, ScansOK
<1>2. CASE StartQx
  <2>1. /\ stack' = <<>> /\ task' = task /\ conflict' = conflict /\ conflict = {}
        /\ pc' = "call" /\ arg'.c = task.c /\ arg'.d = {} /\ arg'.b = task.b
    BY <1>2 DEF StartQx, IInv, CallsOK
  <2>2. Len(stack') = 0 /\ AskedList(0)' = task.c /\ Bare(0)'
    BY <2>1, EmptySeq DEF AskedList, Bare
  <2>3. \A i \in 1 .. 0 : HalvesOK(i)'
    OBVIOUS
  <2> QED BY <2>1, <2>2, <2>3 DEF ScansOK
<1>3. CASE DropAll \/ KeepOne
  BY <1>3, ScanLeaf
<1>4. CASE SearchFirstHalf
  BY <1>4, ScanFirstHalf
<1>5. CASE SearchSecondHalf
  BY <1>5, ScanSecondHalf
<1>6. CASE JoinHalves
  BY <1>6, ScanJoins
<1>7. CASE FindConflict
  <2>1. Len(stack) = 0 /\ Asked(0) = [S |-> SetC(task), b |-> task.b] /\ AskedList(0) = task.c
    BY <1>7, EmptySeq DEF FindConflict, Asked, AskedList
  <2>2. /\ Irreducible(task.b, SetC(task), ret) /\ Leaves(0, task.b, task.c, ret)
        /\ ~NothingToExplain(task)
    BY <1>7, <2>1 DEF FindConflict, IInv, CallsOK, ScansOK
  <2>3. task.c # <<>>
    BY <2>2, GuardDecides DEF IInv, TypeOK
  <2>4. task' = task /\ pc' = "done" /\ conflict' = ret
    BY <1>7 DEF FindConflict
  <2>5. Leaves(0, task.b, task.c, conflict)' /\ Irreducible(task.b, SetC(task), conflict)'
    BY <2>2, <2>4 DEF Leaves, Bare, Spared, Irreducible, SetC
  <2> QED BY <2>3, <2>4, <2>5 DEF ScansOK
<1>8. CASE UNCHANGED vars
  <2>1. \A i : /\ AskedList(i)' = AskedList(i) /\ Asked(i)' = Asked(i)
               /\ Bare(i)' <=> Bare(i)
               /\ HalvesOK(i) => HalvesOK(i)'
    BY <1>8 DEF vars, AskedList, HalvesOK, Spared, Asked, Bare, SetC
  <2> QED BY <1>8, <2>1 DEF vars, ScansOK, Leaves, Bare, Spared, Irreducible, SetC, NothingToExplain
<1> QED
  BY <1>1, <1>2, <1>3, <1>4, <1>5, <1>6, <1>7, <1>8 DEF Next

\* The conflict of a list without repetition is what the scan leaves.
LEMMA ScansDecide == IInv /\ ScansOK => ConflictIsPreferred
<1> SUFFICES ASSUME IInv, ScansOK, pc = "done", conflict # {}, IsInjective(task.c)
             PROVE  conflict = PreferredConflict(task)
  BY DEF ConflictIsPreferred
<1>1. /\ Irreducible(task.b, SetC(task), conflict)
      /\ Leaves(0, task.b, task.c, conflict)
  BY DEF ScansOK
<1>2. task.c \in Seq(Constraint)
  BY TaskTypes DEF IInv, TypeOK
<1>3. CASE Consistent(task.kb, task.b)
  <2>1. /\ conflict \in SUBSET Range(task.c)
        /\ ~Consistent(task.kb, task.b \cup conflict)
        /\ Spared(task.b, task.c, conflict)
    BY <1>1, <1>3 DEF Leaves, Irreducible, SetC
  <2>2. LeftByScan(task.kb, task.b, task.c, conflict)
    BY <1>2, <2>1, SparedIsLeft
  <2> QED BY <1>2, <1>3, <2>1, <2>2, ScanDecidesConflict DEF SetC
<1>4. CASE ~Consistent(task.kb, task.b)
  BY <1>1, <1>4 DEF Leaves, Bare, PreferredConflict
<1> QED BY <1>3, <1>4

\* Of a list without repetition, the conflict is what a left-to-right scan leaves
\* that drops whatever the rest can do without; on an inconsistent background, the
\* last constraint (_qx, quickxplain.py).
THEOREM PreferredConflictFound == Spec => []ConflictIsPreferred
<1>1. Init => IInv /\ ScansOK
  BY InitInv DEF Init, ScansOK
<1>2. IInv /\ ScansOK /\ [Next]_vars => (IInv /\ ScansOK)'
  BY TypeStep, CallsStep, ScanStep DEF IInv
<1> QED BY <1>1, <1>2, ScansDecide, PTL DEF Spec

----------------------------------------------------------------------------
(* The labeler of the HS-dag.                                              *)

\* The answer is one of those the task admits.
AnswerOK == pc = "done" => conflict \in Answers(task)

\* What is answered is the label that the HS-dag is given for the task.
AnswersTheLabel ==
    pc = "done" /\ IsInjective(task.c) => conflict = Range(QuickXPlainLabel(task))

LEMMA AnswerStays == IInv /\ AnswerOK /\ [Next]_vars => AnswerOK'
<1> SUFFICES ASSUME IInv, AnswerOK, [Next]_vars
             PROVE  AnswerOK'
  OBVIOUS
<1>1. task' = task
  BY DEF Next, NoLabel, StartQx, DropAll, KeepOne, SearchFirstHalf, SearchSecondHalf,
         JoinHalves, FindConflict, vars
<1>2. Answers(task)' = Answers(task)
  BY <1>1
<1> QED BY <1>1, <1>2, StepImplements DEF AnswerOK, Promise!Next, Promise!Answer, Promise!vars

\* A task has a label exactly when there is something to explain, and the label is
\* what the left-to-right scan leaves.
LEMMA LabelOfTask ==
    ASSUME NEW t \in TaskOf(Constraint), IsInjective(t.c)
    PROVE  Range(QuickXPlainLabel(t)) =
             IF NothingToExplain(t) THEN {} ELSE PreferredConflict(t)
<1>1. TaskWith(t, t.b) = t
  BY DEF TaskWith, TaskOf
<1>2. t.c \in Seq(Constraint)
  BY TaskTypes
<1>3. Range(<<>>) = {}
  BY DEF Range
<1>4. CASE NothingToExplain(t)
  BY <1>3, <1>4 DEF NothingToExplain, QuickXPlainLabel
<1>5. CASE ~NothingToExplain(t)
  <2>1. PreferredConflict(t) \in SUBSET SetC(t)
    BY <1>2, <1>5, GuardDecides, PreferredConflictIsMinimal
  <2> DEFINE w == Where(t.c, PreferredConflict(t))
  <2>2. w \in Seq(Constraint) /\ Range(w) = Range(t.c) \cap PreferredConflict(t)
    BY <1>2, WhereProperties
  <2>3. Range(Reverse(w)) = Range(w)
    BY <2>2, ReverseProperties
  <2>4. QuickXPlainLabel(t) = Reverse(w)
    BY <1>1, <1>5 DEF NothingToExplain, QuickXPlainLabel
  <2> QED BY <1>5, <2>1, <2>2, <2>3, <2>4 DEF SetC
<1> QED BY <1>4, <1>5

\* QuickXPlainLabeler's label of Labelers is what the recursion of QuickXPlain finds,
\* for a list without repetition.
THEOREM QuickXPlainFindsTheLabel == Spec => []AnswersTheLabel
<1>1. Init => IInv /\ ScansOK /\ AnswerOK
  BY InitInv DEF Init, ScansOK, AnswerOK
<1>2. IInv /\ ScansOK /\ AnswerOK /\ [Next]_vars => (IInv /\ ScansOK /\ AnswerOK)'
  BY TypeStep, CallsStep, ScanStep, AnswerStays DEF IInv
<1>3. IInv /\ ScansOK /\ AnswerOK => AnswersTheLabel
  <2> SUFFICES ASSUME IInv, ScansOK, AnswerOK, pc = "done", IsInjective(task.c)
               PROVE  conflict = Range(QuickXPlainLabel(task))
    BY DEF AnswersTheLabel
  <2>1. task \in TaskOf(Constraint) /\ conflict \in Answers(task)
    BY DEF IInv, TypeOK, AnswerOK
  <2>2. CASE NothingToExplain(task)
    BY <2>1, <2>2, LabelOfTask DEF Answers
  <2>3. CASE ~NothingToExplain(task)
    <3>1. IsConflict(task, conflict)
      BY <2>1, <2>3 DEF Answers, MinimalConflicts, IsMinimalConflict
    <3>2. CASE conflict = {}
      <4>1. ~Consistent(task.kb, task.b)
        <5>1. task.b \cup {} = task.b
          OBVIOUS
        <5> QED BY <3>1, <3>2, <5>1 DEF IsConflict
      <4>2. conflict = {Last(task.c)}
        BY <2>3, <4>1 DEF ScansOK, Leaves, Bare
      <4> QED BY <3>2, <4>2
    <3>3. CASE conflict # {}
      BY <2>1, <2>3, <3>3, ScansDecide, LabelOfTask DEF ConflictIsPreferred
    <3> QED BY <3>2, <3>3
  <2> QED BY <2>2, <2>3
<1> QED BY <1>1, <1>2, <1>3, PTL DEF Spec
=============================================================================
