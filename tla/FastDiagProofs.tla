--------------------------- MODULE FastDiagProofs ---------------------------
(***************************************************************************)
(* FastDiag and FastDiagP, for every set of constraints, every knowledge   *)
(* base, every list C and every background B.                              *)
(*                                                                         *)
(* FastDiag: get_label answers with a minimal diagnosis.  The inductive    *)
(* invariant is the contract of _fd at every depth of its recursion:       *)
(* TypeOK and CallsOK.  It says what each suspended call was asked, so     *)
(* that a return at depth i + 1 is what depth i asked for.                 *)
(*                                                                         *)
(* FastDiagP does what FastDiag does, for every number of processors and   *)
(* sequence of calls, whatever lookahead guesses and in whatever order the *)
(* pool answers.  The reason is the lookup table: an answer in it is right *)
(* for its set of constraints, no matter who asked and when, since all the *)
(* calls of an instance share a knowledge base.  What lookahead asks for   *)
(* beyond the check that is needed does not matter, so nothing is assumed  *)
(* of it.                                                                  *)
(*                                                                         *)
(* The answer is the label Labelers gives the HS-dag for the same task.    *)
(***************************************************************************)
EXTENDS FastDiagP, ConstraintsProofs, FiniteSetTheorems

IInv == TypeOK /\ CallsOK

----------------------------------------------------------------------------
\* Facts about Maximal.

\* A singleton that contradicts a consistent background has the empty set as
\* its maximal satisfiable part ("if singleton(C) return []").
LEMMA MaximalOfSingleton ==
    ASSUME NEW b, NEW x, Consistent(task.kb, b), ~Consistent(task.kb, b \cup {x})
    PROVE  Maximal(b, {x}, {})
<1>1. b \cup {} = b
  OBVIOUS
<1>2. Consistent(task.kb, b \cup {})
  BY <1>1
<1>3. ~Consistent(task.kb, b \cup {} \cup {x})
  BY <1>1
<1> QED BY <1>2, <1>3 DEF Maximal

\* A satisfiable set is its own maximal satisfiable part ("return C").
LEMMA MaximalOfConsistent ==
    ASSUME NEW b, NEW S, Consistent(task.kb, b \cup S)
    PROVE  Maximal(b, S, S)
BY DEF Maximal

\* delta1 maximal in the first half and delta2 in the second, with delta1 in its
\* background, join to a maximal part of both halves.
LEMMA MaximalOfHalves ==
    ASSUME NEW b, NEW S1, NEW S2, NEW X1, NEW X2,
           Maximal(b, S1, X1), Maximal(b \cup X1, S2, X2)
    PROVE  Maximal(b, S1 \cup S2, X1 \cup X2)
<1>1. (b \cup X1) \cup X2 = b \cup (X1 \cup X2)
  OBVIOUS
<1>2. Consistent(task.kb, b \cup (X1 \cup X2))
  BY <1>1 DEF Maximal
<1>3. ASSUME NEW x \in (S1 \cup S2) \ (X1 \cup X2)
      PROVE  ~Consistent(task.kb, b \cup (X1 \cup X2) \cup {x})
  <2>1. CASE x \in S1
    <3>1. ~Consistent(task.kb, b \cup X1 \cup {x})
      BY <2>1 DEF Maximal
    <3>2. b \cup X1 \cup {x} \subseteq b \cup (X1 \cup X2) \cup {x}
      OBVIOUS
    <3> QED BY <3>1, <3>2, Antimonotone
  <2>2. CASE x \in S2
    <3>1. ~Consistent(task.kb, (b \cup X1) \cup X2 \cup {x})
      BY <2>2 DEF Maximal
    <3> QED BY <3>1, <1>1
  <2> QED BY <2>1, <2>2
<1>4. X1 \cup X2 \subseteq S1 \cup S2
  BY DEF Maximal
<1> QED BY <1>2, <1>3, <1>4 DEF Maximal

\* What is left out of a maximal satisfiable part of C is a minimal diagnosis.
LEMMA RestIsMinimalDiagnosis ==
    ASSUME NEW X, Maximal(task.b, SetC(task), X)
    PROVE  SetC(task) \ X \in MinimalDiagnoses(task)
<1> DEFINE C == SetC(task)
           D == C \ X
<1>1. X \subseteq C /\ C \ D = X
  BY DEF Maximal
<1>2. IsDiagnosis(task, D)
  BY <1>1 DEF IsDiagnosis, Maximal
<1>3. ASSUME NEW E \in SUBSET D, IsDiagnosis(task, E), E # D
      PROVE  FALSE
  <2>1. PICK x \in D : x \notin E
    BY <1>3
  <2>2. ~Consistent(task.kb, task.b \cup X \cup {x})
    BY <2>1 DEF Maximal
  <2>3. task.b \cup X \cup {x} \subseteq task.b \cup (C \ E)
    BY <1>1, <2>1
  <2>4. Consistent(task.kb, task.b \cup (C \ E))
    BY <1>3 DEF IsDiagnosis
  <2> QED BY <2>2, <2>3, <2>4, Antimonotone
<1> QED BY <1>2, <1>3 DEF IsMinimalDiagnosis, MinimalDiagnoses

----------------------------------------------------------------------------
\* The guards of get_label and find_diagnosis together let exactly the tasks
\* through that have a diagnosis to compute.
LEMMA GuardsDecide ==
    ASSUME NEW t \in TaskOf(Constraint)
    PROVE  /\ Diagnosable(t) /\ ~NothingToDiagnose(t) =>
                  /\ t.c # <<>>
                  /\ Consistent(t.kb, t.b)
                  /\ ~Consistent(t.kb, t.b \cup SetC(t))
           /\ ~Diagnosable(t) \/ NothingToDiagnose(t) =>
                  ~(Consistent(t.kb, t.b) /\ ~Consistent(t.kb, t.b \cup SetC(t)))
<1>1. Consistent(t.kb, {})
  <2>1. {} \notin t.kb
    BY TaskTypes
  <2>2. \A k : k \subseteq {} => k = {}
    OBVIOUS
  <2> QED BY <2>1, <2>2 DEF Consistent
<1>2. Len(t.c) \in Nat /\ (t.c = <<>> <=> Len(t.c) = 0)
  BY TaskTypes, EmptySeq
<1>3. Len(t.c) = 0 => t.b \cup SetC(t) = t.b
  BY <1>2, TaskTypes, RangeProperties DEF SetC
<1>4. Len(t.c) >= 1 <=> Len(t.c) # 0
  BY <1>2
<1> QED BY <1>1, <1>2, <1>3, <1>4, Zenon DEF Diagnosable, NothingToDiagnose

\* Every step keeps the types.
LEMMA TypeStep == TypeOK /\ [Next]_vars => TypeOK'
<1> SUFFICES ASSUME TypeOK, [Next]_vars
             PROVE  TypeOK'
  OBVIOUS
<1> USE DEF TypeOK
<1>1. CASE NoLabel
  BY <1>1 DEF NoLabel
<1>2. CASE StartFd
  <2>1. arg' \in Arg
    BY <1>2, TaskTypes DEF StartFd, Arg
  <2> QED BY <1>2, <2>1 DEF StartFd
<1>3. CASE KeepAll
  <2>1. ret' \in SUBSET Constraint
    BY <1>3, RangeProperties DEF KeepAll, Arg
  <2> QED BY <1>3, <2>1 DEF KeepAll
<1>4. CASE DropOne
  BY <1>4 DEF DropOne
<1>5. CASE SearchFirstHalf
  <2>1. FirstHalf(arg.c) \in Seq(Constraint) /\ SecondHalf(arg.c) \in Seq(Constraint)
    BY <1>5, HalvesAreLists DEF Arg
  <2>2. arg' \in Arg
    BY <1>5, <2>1, RangeProperties DEF SearchFirstHalf, Arg
  <2>3. stack' \in Seq(Frame)
    BY <1>5, <2>1 DEF SearchFirstHalf, Arg, Frame
  <2> QED BY <1>5, <2>2, <2>3 DEF SearchFirstHalf
<1>6. CASE SearchSecondHalf
  <2>1. Len(stack) \in 1 .. Len(stack) /\ Top \in Frame
    BY <1>6, EmptySeq, ElementOfSeq DEF SearchSecondHalf, Top
  <2>2. [Top EXCEPT !.at = "second", !.delta1 = ret] \in Frame
    BY <2>1 DEF Frame
  <2>3. stack' = [stack EXCEPT ![Len(stack)] = [Top EXCEPT !.at = "second", !.delta1 = ret]]
    BY <1>6 DEF SearchSecondHalf, Top
  <2>4. stack' \in Seq(Frame)
    BY <2>1, <2>2, <2>3, ExceptSeq
  <2>5. Range(Top.c1) \in SUBSET Constraint
    BY <2>1, RangeProperties DEF Frame
  <2>6. arg' \in Arg
    BY <1>6, <2>1, <2>5 DEF SearchSecondHalf, Arg, Frame
  <2> QED BY <1>6, <2>4, <2>6 DEF SearchSecondHalf
<1>7. CASE JoinHalves
  <2>1. Len(stack) \in 1 .. Len(stack) /\ Top \in Frame
    BY <1>7, EmptySeq, ElementOfSeq DEF JoinHalves, Top
  <2>2. ret' \in SUBSET Constraint
    BY <1>7, <2>1 DEF JoinHalves, Frame
  <2>3. stack' \in Seq(Frame)
    BY <1>7, PopProperties DEF JoinHalves, Pop
  <2> QED BY <1>7, <2>2, <2>3 DEF JoinHalves
<1>8. CASE FindDiagnosis
  <2>1. SetC(task) \in SUBSET Constraint
    BY TaskTypes
  <2> QED BY <1>8, <2>1 DEF FindDiagnosis
<1>9. CASE UNCHANGED vars
  BY <1>9 DEF vars
<1> QED
  BY <1>1, <1>2, <1>3, <1>4, <1>5, <1>6, <1>7, <1>8, <1>9 DEF Next

----------------------------------------------------------------------------
\* A step that leaves the first k frames alone leaves what they ask for and
\* their contracts alone.
LEMMA UntouchedFrames ==
    ASSUME NEW k \in Nat, task' = task, \A i \in 1 .. k : stack'[i] = stack[i]
    PROVE  /\ \A i \in 0 .. k : Asked(i)' = Asked(i)
           /\ \A i \in 1 .. k : FrameOK(i) => FrameOK(i)'
<1>1. ASSUME NEW i \in 0 .. k
      PROVE  Asked(i)' = Asked(i)
  <2>1. i # 0 => i \in 1 .. k
    OBVIOUS
  <2>2. i # 0 => stack'[i] = stack[i]
    BY <2>1
  <2> QED BY <2>2 DEF Asked, SetC
<1>2. ASSUME NEW i \in 1 .. k, FrameOK(i)
      PROVE  FrameOK(i)'
  <2>1. stack'[i] = stack[i] /\ i - 1 \in 0 .. k
    OBVIOUS
  <2>2. Asked(i - 1)' = Asked(i - 1)
    BY <1>1, <2>1
  <2> QED BY <1>2, <2>1, <2>2 DEF FrameOK, Maximal
<1> QED BY <1>1, <1>2

\* Splitting: the new call is the first half's, on the background it was asked on.
LEMMA SearchFirstHalfStep == IInv /\ SearchFirstHalf => CallsOK'
<1> SUFFICES ASSUME TypeOK, CallsOK, SearchFirstHalf
             PROVE  CallsOK'
  BY DEF IInv
<1> DEFINE f == [c1 |-> FirstHalf(arg.c), c2 |-> SecondHalf(arg.c),
                 b |-> arg.b, at |-> "first", delta1 |-> {}]
<1>1. PICK n \in Nat : Len(stack) = n
  BY LenProperties DEF TypeOK
<1>2. arg.c \in Seq(Constraint) /\ arg.c # <<>> /\ Len(arg.c) # 1
  BY DEF SearchFirstHalf, CallsOK, TypeOK, Arg
<1>3. /\ f.c1 \in Seq(Constraint) /\ f.c1 # <<>>
      /\ f.c2 \in Seq(Constraint) /\ f.c2 # <<>>
      /\ Range(f.c1) \cup Range(f.c2) = Range(arg.c)
  BY <1>2, SplitProperties
<1>4. f \in Frame
  BY <1>3 DEF Frame, TypeOK, Arg
<1>5. /\ stack' = Append(stack, f)
      /\ task' = task /\ diag' = diag /\ pc = "call" /\ pc' = "call"
      /\ arg' = [delta |-> Range(f.c2), c |-> f.c1, b |-> f.b]
  BY DEF SearchFirstHalf
<1>6. /\ Len(stack') = n + 1
      /\ \A i \in 1 .. n : stack'[i] = stack[i]
      /\ stack'[n + 1] = f
  BY <1>1, <1>4, <1>5, AppendProperties DEF TypeOK
<1>7. /\ \A i \in 0 .. n : Asked(i)' = Asked(i)
      /\ \A i \in 1 .. n : FrameOK(i)'
  BY <1>1, <1>5, <1>6, UntouchedFrames DEF CallsOK
<1>8. ~Consistent(task.kb, arg.b \cup Range(arg.c))
  BY <1>5 DEF SearchFirstHalf, Satisfied, CallsOK
<1>9. FrameOK(n + 1)'
  <2>1. Asked(n)' = [S |-> Range(arg.c), b |-> arg.b]
    BY <1>1, <1>5, <1>7 DEF CallsOK
  <2>2. (n + 1) - 1 = n
    OBVIOUS
  <2>3. f.b \cup Range(f.c1) \cup Range(f.c2) = arg.b \cup Range(arg.c)
    BY <1>3
  <2>4. Consistent(task.kb, f.b)
    BY <1>5 DEF CallsOK
  <2> HIDE DEF f
  <2>5. f.at = "first" /\ f.b = arg.b
    BY DEF f
  <2> QED BY <1>3, <1>5, <1>6, <1>8, <2>1, <2>2, <2>3, <2>4, <2>5 DEF FrameOK
<1>10. \A i \in 1 .. n + 1 : FrameOK(i)'
  <2>1. \A i \in 1 .. n + 1 : i \in 1 .. n \/ i = n + 1
    OBVIOUS
  <2> QED BY <1>7, <1>9, <2>1
<1>11. Asked(n + 1)' = [S |-> Range(f.c1), b |-> f.b]
  BY <1>6 DEF Asked
<1>12. Range(f.c2) # {}
  BY <1>3, RangeProperties
<1>13. Consistent(task.kb, f.b)
  BY <1>5 DEF CallsOK
<1> HIDE DEF f
<1> QED
  BY <1>3, <1>5, <1>6, <1>10, <1>11, <1>12, <1>13 DEF CallsOK, SetC

\* The first half is done: delta1 is maximal in it, and the second half is
\* searched with delta1 in the background.
LEMMA SearchSecondHalfStep == IInv /\ SearchSecondHalf => CallsOK'
<1> SUFFICES ASSUME TypeOK, CallsOK, SearchSecondHalf
             PROVE  CallsOK'
  BY DEF IInv
<1>1. PICK n \in Nat \ {0} : Len(stack) = n
  BY EmptySeq DEF TypeOK, SearchSecondHalf
<1> DEFINE f == stack[n]
           g == [f EXCEPT !.at = "second", !.delta1 = ret]
<1>2. n \in 1 .. n /\ n - 1 \in Nat /\ f \in Frame
  <2>1. n \in 1 .. n /\ n - 1 \in Nat
    OBVIOUS
  <2> QED BY <2>1, <1>1, ElementOfSeq DEF TypeOK
<1>3. /\ g.c1 = f.c1 /\ g.c2 = f.c2 /\ g.b = f.b
      /\ g.at = "second" /\ g.delta1 = ret /\ g \in Frame
  BY <1>2 DEF Frame, TypeOK
<1>4. /\ stack' = [stack EXCEPT ![n] = g]
      /\ task' = task /\ diag' = diag /\ pc = "return" /\ pc' = "call"
      /\ arg' = [delta |-> Range(f.c1) \ ret, c |-> f.c2, b |-> f.b \cup ret]
      /\ f.at = "first"
  BY <1>1 DEF SearchSecondHalf, Top
<1> HIDE DEF g
<1>5. /\ Len(stack') = n
      /\ \A i \in 1 .. n - 1 : stack'[i] = stack[i]
      /\ stack'[n] = g
  <2>1. \A i \in 1 .. n - 1 : i \in 1 .. n /\ i # n
    OBVIOUS
  <2> QED BY <2>1, <1>1, <1>2, <1>3, <1>4, ExceptSeq DEF TypeOK
<1>6. /\ \A i \in 0 .. n - 1 : Asked(i)' = Asked(i)
      /\ \A i \in 1 .. n - 1 : FrameOK(i)'
  <2>1. \A i \in 1 .. n - 1 : FrameOK(i)
    <3>1. 1 .. n - 1 \subseteq 1 .. n
      OBVIOUS
    <3> QED BY <3>1, <1>1, <1>4 DEF CallsOK
  <2> QED BY <1>2, <1>4, <1>5, <2>1, UntouchedFrames
<1>7. /\ FrameOK(n)
      /\ f.c1 # <<>> /\ f.c2 # <<>>
      /\ Asked(n - 1) = [S |-> Range(f.c1) \cup Range(f.c2), b |-> f.b]
      /\ Consistent(task.kb, f.b)
      /\ ~Consistent(task.kb, f.b \cup Range(f.c1) \cup Range(f.c2))
  BY <1>1, <1>2, <1>4 DEF CallsOK, FrameOK
<1>8. Maximal(f.b, Range(f.c1), ret)
  <2>1. Asked(n) = [S |-> Range(f.c1), b |-> f.b]
    BY <1>4 DEF Asked
  <2> QED BY <2>1, <1>1, <1>4 DEF CallsOK
<1>9. FrameOK(n)'
  <2>1. Asked(n - 1)' = Asked(n - 1)
    BY <1>2, <1>6
  <2> QED BY <2>1, <1>3, <1>4, <1>5, <1>7, <1>8 DEF FrameOK, Maximal
<1>10. \A i \in 1 .. n : FrameOK(i)'
  <2>1. \A i \in 1 .. n : i \in 1 .. n - 1 \/ i = n
    OBVIOUS
  <2> QED BY <1>6, <1>9, <2>1
<1>11. Asked(n)' = [S |-> Range(f.c2), b |-> f.b \cup ret]
  BY <1>3, <1>5 DEF Asked
<1>12. Consistent(task.kb, f.b \cup ret)
  BY <1>8 DEF Maximal
<1>13. ASSUME Range(f.c1) \ ret = {}
       PROVE  ~Consistent(task.kb, (f.b \cup ret) \cup Range(f.c2))
  <2>1. f.b \cup Range(f.c1) \cup Range(f.c2) \subseteq (f.b \cup ret) \cup Range(f.c2)
    BY <1>13
  <2> QED BY <2>1, <1>7, Antimonotone
<1> HIDE DEF f
<1> QED
  BY <1>4, <1>5, <1>7, <1>10, <1>11, <1>12, <1>13 DEF CallsOK, SetC

\* Both halves are done: what they keep joins to what the waiting call was asked.
LEMMA JoinHalvesStep == IInv /\ JoinHalves => CallsOK'
<1> SUFFICES ASSUME TypeOK, CallsOK, JoinHalves
             PROVE  CallsOK'
  BY DEF IInv
<1>1. PICK n \in Nat \ {0} : Len(stack) = n
  BY EmptySeq DEF TypeOK, JoinHalves
<1>2. n - 1 \in Nat /\ n \in 1 .. n /\ n - 1 \in 0 .. n - 1
  OBVIOUS
<1>f. PICK f \in Frame : stack[n] = f
  BY <1>1, <1>2, ElementOfSeq DEF TypeOK
<1>3. /\ stack' = Pop /\ task' = task /\ diag' = diag
      /\ pc = "return" /\ pc' = "return"
      /\ ret' = f.delta1 \cup ret /\ f.at = "second"
  BY <1>1, <1>f DEF JoinHalves, Top
<1>4. Len(stack') = n - 1 /\ \A i \in 1 .. n - 1 : stack'[i] = stack[i]
  BY <1>1, <1>3, PopProperties DEF TypeOK, JoinHalves, Pop
<1>5. \A i \in 1 .. n : FrameOK(i)
  BY <1>1, <1>3 DEF CallsOK
<1>6. /\ \A i \in 0 .. n - 1 : Asked(i)' = Asked(i)
      /\ \A i \in 1 .. n - 1 : FrameOK(i)'
  <2>1. 1 .. n - 1 \subseteq 1 .. n
    OBVIOUS
  <2> QED BY <2>1, <1>2, <1>3, <1>4, <1>5, UntouchedFrames
<1>7. /\ Asked(n - 1)' = [S |-> Range(f.c1) \cup Range(f.c2), b |-> f.b]
      /\ Maximal(f.b, Range(f.c1), f.delta1)
  BY <1>2, <1>f, <1>3, <1>5, <1>6 DEF FrameOK
<1>8. Maximal(f.b \cup f.delta1, Range(f.c2), ret)
  <2>1. Asked(n) = [S |-> Range(f.c2), b |-> f.b \cup f.delta1]
    BY <1>f, <1>3 DEF Asked
  <2>2. Maximal(Asked(n).b, Asked(n).S, ret)
    BY <1>1, <1>3 DEF CallsOK
  <2> QED BY <2>1, <2>2
<1>9. Maximal(f.b, Range(f.c1) \cup Range(f.c2), f.delta1 \cup ret)
  BY <1>7, <1>8, MaximalOfHalves
<1>10. Maximal(Asked(Len(stack)).b, Asked(Len(stack)).S, ret)'
  <2>1. Len(stack') = n - 1 /\ ret' = f.delta1 \cup ret /\ task' = task
    BY <1>3, <1>4
  <2>2. Asked(Len(stack))' = [S |-> Range(f.c1) \cup Range(f.c2), b |-> f.b]
    BY <2>1, <1>7
  <2>3. /\ (Asked(Len(stack)).b)' = f.b
        /\ (Asked(Len(stack)).S)' = Range(f.c1) \cup Range(f.c2)
    BY <2>2
  <2> QED BY <2>1, <2>3, <1>9 DEF Maximal
<1> QED
  BY <1>3, <1>4, <1>6, <1>10 DEF CallsOK, SetC

\* A call that returns at once returns what its caller asked for.
LEMMA LeafStep == IInv /\ (KeepAll \/ DropOne) => CallsOK'
<1> SUFFICES ASSUME TypeOK, CallsOK, KeepAll \/ DropOne
             PROVE  CallsOK'
  BY DEF IInv
<1>1. /\ task' = task /\ stack' = stack /\ diag' = diag
      /\ pc = "call" /\ pc' = "return"
  BY DEF KeepAll, DropOne
<1>2. PICK n \in Nat : Len(stack) = n
  BY LenProperties DEF TypeOK
<1>3. /\ \A i \in 0 .. n : Asked(i)' = Asked(i)
      /\ \A i \in 1 .. n : FrameOK(i)'
  BY <1>1, <1>2, UntouchedFrames DEF CallsOK
<1>4. Asked(n) = [S |-> Range(arg.c), b |-> arg.b] /\ Consistent(task.kb, arg.b)
  BY <1>1, <1>2 DEF CallsOK
<1>5. Maximal(arg.b, Range(arg.c), ret')
  <2>1. CASE KeepAll
    BY <2>1, MaximalOfConsistent DEF KeepAll, Satisfied
  <2>2. CASE DropOne
    <3>1. arg.c \in Seq(Constraint) /\ arg.c # <<>> /\ Len(arg.c) = 1
      BY <2>2 DEF DropOne, CallsOK, TypeOK, Arg
    <3>2. PICK x : Range(arg.c) = {x}
      BY <3>1, RangeProperties
    <3>3. ~Consistent(task.kb, arg.b \cup {x})
      BY <2>2, <3>2 DEF DropOne, Satisfied, CallsOK
    <3>4. Maximal(arg.b, {x}, {})
      BY <1>4, <3>3, MaximalOfSingleton
    <3> QED BY <2>2, <3>2, <3>4 DEF DropOne
  <2> QED BY <2>1, <2>2
<1>6. Maximal(Asked(Len(stack)).b, Asked(Len(stack)).S, ret)'
  <2>1. Asked(Len(stack))' = Asked(n)
    BY <1>1, <1>2, <1>3
  <2>2. /\ (Asked(Len(stack)).b)' = arg.b
        /\ (Asked(Len(stack)).S)' = Range(arg.c)
    BY <2>1, <1>4
  <2> QED BY <1>1, <2>2, <1>5 DEF Maximal
<1> QED
  BY <1>1, <1>2, <1>3, <1>6 DEF CallsOK, SetC

\* The contract of _fd holds at every depth after every step.
LEMMA CallsStep == IInv /\ [Next]_vars => CallsOK'
<1> SUFFICES ASSUME IInv, [Next]_vars
             PROVE  CallsOK'
  OBVIOUS
<1>1. CASE NoLabel
  BY <1>1 DEF NoLabel, IInv, CallsOK
<1>2. CASE StartFd
  <2>1. /\ task' = task /\ stack' = stack /\ diag' = diag /\ stack = <<>>
        /\ pc = "label" /\ pc' = "call"
        /\ arg' = [delta |-> {}, c |-> task.c, b |-> task.b]
    BY <1>2 DEF StartFd, IInv, CallsOK
  <2>2. Len(stack) = 0 /\ Asked(0)' = [S |-> Range(task.c), b |-> task.b]
    BY <2>1, EmptySeq DEF Asked, SetC
  <2>3. /\ task.c # <<>>
        /\ Consistent(task.kb, task.b)
        /\ ~Consistent(task.kb, task.b \cup SetC(task))
    BY <1>2, GuardsDecide DEF StartFd, IInv, TypeOK
  <2>4. \A i \in 1 .. 0 : FrameOK(i)'
    OBVIOUS
  <2> QED BY <2>1, <2>2, <2>3, <2>4 DEF CallsOK, SetC, IInv
<1>3. CASE KeepAll \/ DropOne
  BY <1>3, LeafStep
<1>4. CASE SearchFirstHalf
  BY <1>4, SearchFirstHalfStep
<1>5. CASE SearchSecondHalf
  BY <1>5, SearchSecondHalfStep
<1>6. CASE JoinHalves
  BY <1>6, JoinHalvesStep
<1>7. CASE FindDiagnosis
  BY <1>7 DEF FindDiagnosis, IInv, CallsOK
<1>8. CASE UNCHANGED vars
  <2>1. \A i : Asked(i)' = Asked(i) /\ (FrameOK(i) => FrameOK(i)')
    BY <1>8 DEF vars, Asked, FrameOK, Maximal, SetC
  <2> QED BY <1>8, <2>1 DEF vars, IInv, CallsOK, Maximal, SetC
<1> QED
  BY <1>1, <1>2, <1>3, <1>4, <1>5, <1>6, <1>7, <1>8 DEF Next

LEMMA InitInv == Init => IInv
<1> SUFFICES ASSUME Init
             PROVE  IInv
  OBVIOUS
<1>1. task \in TaskOf(Constraint) /\ {} \in SUBSET Constraint
  BY TasksAssumption DEF Init
<1>2. <<>> \in Seq(Constraint) /\ <<>> \in Seq(Frame)
  BY EmptySeq
<1> QED BY <1>1, <1>2 DEF Init, IInv, TypeOK, CallsOK, Arg

----------------------------------------------------------------------------
\* The variables keep their types, for every set of constraints and tasks.
THEOREM TypeCorrect == Spec => []TypeOK
<1>1. IInv /\ [Next]_vars => IInv'
  BY TypeStep, CallsStep DEF IInv
<1>2. IInv => TypeOK
  BY DEF IInv
<1> QED BY InitInv, <1>1, <1>2, PTL DEF Spec

\* Each call of _fd returns a maximal satisfiable part of what it was given, and
\* skips the check with an empty delta only where it would fail.
THEOREM CallsCorrect == Spec => []CallsOK
<1>1. IInv /\ [Next]_vars => IInv'
  BY TypeStep, CallsStep DEF IInv
<1>2. IInv => CallsOK
  BY DEF IInv
<1> QED BY InitInv, <1>1, <1>2, PTL DEF Spec

\* A step of FastDiag is the promised answer or a step the labeler cannot see.
LEMMA StepImplements == IInv /\ [Next]_vars => [Promise!Next]_(Promise!vars)
<1> SUFFICES ASSUME IInv, [Next]_vars
             PROVE  Promise!Next \/ Promise!vars' = Promise!vars
  OBVIOUS
<1> USE DEF Promise!Next, Promise!Answer, Promise!vars
<1>1. CASE NoLabel
  <2>1. Answers(task) = {{}}
    BY <1>1, GuardsDecide DEF NoLabel, Answers, IInv, TypeOK
  <2> QED BY <1>1, <2>1 DEF NoLabel, IInv, CallsOK
<1>2. CASE FindDiagnosis
  <2>1. /\ Consistent(task.kb, task.b)
        /\ ~Consistent(task.kb, task.b \cup SetC(task))
        /\ Maximal(task.b, SetC(task), ret)
    <3>1. Len(stack) = 0 /\ Asked(0) = [S |-> SetC(task), b |-> task.b]
      BY <1>2, EmptySeq DEF FindDiagnosis, Asked
    <3>2. Maximal(Asked(0).b, Asked(0).S, ret)
      BY <1>2, <3>1 DEF FindDiagnosis, IInv, CallsOK
    <3>3. Maximal(task.b, SetC(task), ret)
      BY <3>1, <3>2
    <3> QED BY <1>2, <3>3 DEF FindDiagnosis, IInv, CallsOK
  <2>2. diag' \in Answers(task)
    BY <1>2, <2>1, RestIsMinimalDiagnosis DEF FindDiagnosis, Answers
  <2> QED BY <1>2, <2>2 DEF FindDiagnosis
<1>3. CASE StartFd \/ KeepAll \/ DropOne \/ SearchFirstHalf \/ SearchSecondHalf \/ JoinHalves
  BY <1>3 DEF StartFd, KeepAll, DropOne, SearchFirstHalf, SearchSecondHalf, JoinHalves
<1>4. CASE UNCHANGED vars
  BY <1>4 DEF vars
<1> QED BY <1>1, <1>2, <1>3, <1>4 DEF Next

\* FastDiag keeps its promise to the labeler: one answer, and a minimal diagnosis
\* whenever C contradicts a consistent background.
THEOREM FastDiagIsCorrect == Spec => AnswersWithMinimalDiagnosis
<1>1. Init => Promise!Init
  BY DEF Init, Promise!Init
<1>2. IInv /\ [Next]_vars => IInv'
  BY TypeStep, CallsStep DEF IInv
<1> QED
  BY InitInv, <1>1, <1>2, StepImplements, PTL
     DEF Spec, AnswersWithMinimalDiagnosis, Promise!Spec

----------------------------------------------------------------------------
\* Divide and conquer keeps what a left-to-right scan keeps.  The contract of _fd
\* says nothing of the order of C, so it is strengthened: each suspended call holds
\* the halves of the list it was asked for, and no call drops a constraint unless
\* those kept before it in the call's list contradict it.

\* The list of the call the i-th waiting call is waiting for.
AskedList(i) ==
    IF i = 0 THEN task.c
    ELSE IF stack[i].at = "first" THEN stack[i].c1 ELSE stack[i].c2

\* What X leaves out of the list s contradicts what X keeps before it.
Scanned(b, s, X) ==
    \A n \in DOMAIN s :
        s[n] \notin X => ~Consistent(task.kb, b \cup (Earlier(s, n) \cap X) \cup {s[n]})

\* The i-th waiting call split the list it was asked for.
HalvesOK(i) ==
    LET f == stack[i] IN
    /\ AskedList(i - 1) \in Seq(Constraint)
    /\ AskedList(i - 1) # <<>>
    /\ Len(AskedList(i - 1)) # 1
    /\ f.c1 = FirstHalf(AskedList(i - 1))
    /\ f.c2 = SecondHalf(AskedList(i - 1))
    /\ f.at = "second" => Scanned(f.b, f.c1, f.delta1)

ScansOK ==
    /\ pc \in {"call", "return"} => \A i \in 1 .. Len(stack) : HalvesOK(i)
    /\ pc = "call" => arg.c = AskedList(Len(stack))
    /\ pc = "return" => Scanned(Asked(Len(stack)).b, AskedList(Len(stack)), ret)
    /\ pc = "done" /\ diag # {} =>
        /\ diag \subseteq SetC(task)
        /\ KeptByScan(task.kb, task.b, task.c, SetC(task) \ diag)

\* delta1 scanned from the first half and delta2 from the second, with delta1 in
\* its background, are together scanned from the whole list.
LEMMA ScannedHalves ==
    ASSUME NEW D, NEW s \in Seq(D), s # <<>>, Len(s) # 1, NEW b, NEW X1, NEW X2,
           X1 \subseteq Range(FirstHalf(s)),
           Scanned(b, FirstHalf(s), X1), Scanned(b \cup X1, SecondHalf(s), X2)
    PROVE  Scanned(b, s, X1 \cup X2)
<1> DEFINE X == X1 \cup X2
<1>1. ASSUME NEW n \in DOMAIN s, s[n] \notin X
      PROVE  ~Consistent(task.kb, b \cup (Earlier(s, n) \cap X) \cup {s[n]})
  <2>1. CASE /\ n \in DOMAIN FirstHalf(s)
             /\ FirstHalf(s)[n] = s[n]
             /\ Earlier(FirstHalf(s), n) \subseteq Earlier(s, n)
    <3>1. ~Consistent(task.kb, b \cup (Earlier(FirstHalf(s), n) \cap X1) \cup {s[n]})
      BY <1>1, <2>1 DEF Scanned
    <3>2. b \cup (Earlier(FirstHalf(s), n) \cap X1) \cup {s[n]}
             \subseteq b \cup (Earlier(s, n) \cap X) \cup {s[n]}
      BY <2>1
    <3> QED BY <3>1, <3>2, Antimonotone
  <2>2. CASE \E m \in DOMAIN SecondHalf(s) :
                /\ SecondHalf(s)[m] = s[n]
                /\ Earlier(SecondHalf(s), m) \subseteq Earlier(s, n)
                /\ Range(FirstHalf(s)) \subseteq Earlier(s, n)
    <3>1. PICK m \in DOMAIN SecondHalf(s) :
             /\ SecondHalf(s)[m] = s[n]
             /\ Earlier(SecondHalf(s), m) \subseteq Earlier(s, n)
             /\ Range(FirstHalf(s)) \subseteq Earlier(s, n)
      BY <2>2
    <3>2. ~Consistent(task.kb,
                (b \cup X1) \cup (Earlier(SecondHalf(s), m) \cap X2) \cup {s[n]})
      BY <1>1, <3>1 DEF Scanned
    <3>3. (b \cup X1) \cup (Earlier(SecondHalf(s), m) \cap X2) \cup {s[n]}
             \subseteq b \cup (Earlier(s, n) \cap X) \cup {s[n]}
      BY <3>1
    <3> QED BY <3>2, <3>3, Antimonotone
  <2> QED BY <2>1, <2>2, HalvesInPlace
<1> QED BY <1>1 DEF Scanned

\* A satisfiable part of a list that was scanned is what the scan keeps.
LEMMA ScannedIsKept ==
    ASSUME NEW b, NEW s, NEW X, Consistent(task.kb, b \cup X), Scanned(b, s, X)
    PROVE  KeptByScan(task.kb, b, s, X)
<1>1. ASSUME NEW n \in DOMAIN s, s[n] \in X
      PROVE  Consistent(task.kb, b \cup (Earlier(s, n) \cap X) \cup {s[n]})
  <2>1. b \cup (Earlier(s, n) \cap X) \cup {s[n]} \subseteq b \cup X
    BY <1>1
  <2> QED BY <2>1, Antimonotone
<1> QED BY <1>1 DEF KeptByScan, Scanned

\* A step that leaves the first k frames alone leaves their lists alone.
LEMMA UntouchedLists ==
    ASSUME NEW k \in Nat, task' = task, \A i \in 1 .. k : stack'[i] = stack[i]
    PROVE  /\ \A i \in 0 .. k : AskedList(i)' = AskedList(i)
           /\ \A i \in 1 .. k : HalvesOK(i) => HalvesOK(i)'
<1>1. ASSUME NEW i \in 0 .. k
      PROVE  AskedList(i)' = AskedList(i)
  <2>1. i # 0 => i \in 1 .. k
    OBVIOUS
  <2>2. i # 0 => stack'[i] = stack[i]
    BY <2>1
  <2> QED BY <2>2 DEF AskedList
<1>2. ASSUME NEW i \in 1 .. k, HalvesOK(i)
      PROVE  HalvesOK(i)'
  <2>1. stack'[i] = stack[i] /\ i - 1 \in 0 .. k
    OBVIOUS
  <2>2. AskedList(i - 1)' = AskedList(i - 1)
    BY <1>1, <2>1
  <2> QED BY <1>2, <2>1, <2>2 DEF HalvesOK, Scanned
<1> QED BY <1>1, <1>2

LEMMA ScanFirstHalf == IInv /\ ScansOK /\ SearchFirstHalf => ScansOK'
<1> SUFFICES ASSUME TypeOK, CallsOK, ScansOK, SearchFirstHalf
             PROVE  ScansOK'
  BY DEF IInv
<1> DEFINE f == [c1 |-> FirstHalf(arg.c), c2 |-> SecondHalf(arg.c),
                 b |-> arg.b, at |-> "first", delta1 |-> {}]
<1>1. PICK n \in Nat : Len(stack) = n
  BY LenProperties DEF TypeOK
<1>2. arg.c \in Seq(Constraint) /\ arg.c # <<>> /\ Len(arg.c) # 1
  BY DEF SearchFirstHalf, CallsOK, TypeOK, Arg
<1>3. f \in Frame
  BY <1>2, HalvesAreLists DEF Frame, TypeOK, Arg
<1>4. /\ stack' = Append(stack, f)
      /\ task' = task /\ diag' = diag /\ pc = "call" /\ pc' = "call"
      /\ arg'.c = f.c1
  BY DEF SearchFirstHalf
<1>5. f.c1 = FirstHalf(arg.c) /\ f.c2 = SecondHalf(arg.c) /\ f.at = "first"
  OBVIOUS
<1> HIDE DEF f
<1>6. /\ Len(stack') = n + 1
      /\ \A i \in 1 .. n : stack'[i] = stack[i]
      /\ stack'[n + 1] = f
  BY <1>1, <1>3, <1>4, AppendProperties DEF TypeOK
<1>7. /\ AskedList(n)' = arg.c
      /\ \A i \in 1 .. n : HalvesOK(i)'
  <2>1. n \in 0 .. n /\ AskedList(n) = arg.c /\ \A i \in 1 .. n : HalvesOK(i)
    BY <1>1, <1>4 DEF ScansOK
  <2> QED BY <2>1, <1>4, <1>6, UntouchedLists
<1>8. HalvesOK(n + 1)'
  <2>1. (n + 1) - 1 = n
    OBVIOUS
  <2> QED BY <2>1, <1>2, <1>5, <1>6, <1>7 DEF HalvesOK
<1>9. \A i \in 1 .. n + 1 : HalvesOK(i)'
  <2>1. \A i \in 1 .. n + 1 : i \in 1 .. n \/ i = n + 1
    OBVIOUS
  <2> QED BY <1>7, <1>8, <2>1
<1>10. AskedList(n + 1)' = f.c1
  BY <1>5, <1>6 DEF AskedList
<1> QED BY <1>4, <1>6, <1>9, <1>10 DEF ScansOK

LEMMA ScanSecondHalf == IInv /\ ScansOK /\ SearchSecondHalf => ScansOK'
<1> SUFFICES ASSUME TypeOK, CallsOK, ScansOK, SearchSecondHalf
             PROVE  ScansOK'
  BY DEF IInv
<1>1. PICK n \in Nat \ {0} : Len(stack) = n
  BY EmptySeq DEF TypeOK, SearchSecondHalf
<1>2. n \in 1 .. n /\ n - 1 \in Nat /\ n - 1 \in 0 .. n - 1
  OBVIOUS
<1>3. PICK f \in Frame : stack[n] = f
  BY <1>1, <1>2, ElementOfSeq DEF TypeOK
<1> DEFINE g == [f EXCEPT !.at = "second", !.delta1 = ret]
<1>4. /\ g.c1 = f.c1 /\ g.c2 = f.c2 /\ g.b = f.b
      /\ g.at = "second" /\ g.delta1 = ret /\ g \in Frame
  BY <1>3 DEF Frame, TypeOK
<1>5. /\ stack' = [stack EXCEPT ![n] = g]
      /\ task' = task /\ diag' = diag /\ pc = "return" /\ pc' = "call"
      /\ arg'.c = f.c2
      /\ f.at = "first"
  BY <1>1, <1>3 DEF SearchSecondHalf, Top
<1> HIDE DEF g
<1>6. /\ Len(stack') = n
      /\ \A i \in 1 .. n - 1 : stack'[i] = stack[i]
      /\ stack'[n] = g
  <2>1. \A i \in 1 .. n - 1 : i \in 1 .. n /\ i # n
    OBVIOUS
  <2> QED BY <2>1, <1>1, <1>2, <1>4, <1>5, ExceptSeq DEF TypeOK
<1>7. HalvesOK(n) /\ \A i \in 1 .. n - 1 : HalvesOK(i)
  <2>1. 1 .. n - 1 \subseteq 1 .. n
    OBVIOUS
  <2> QED BY <2>1, <1>1, <1>2, <1>5 DEF ScansOK
<1>8. /\ AskedList(n - 1)' = AskedList(n - 1)
      /\ \A i \in 1 .. n - 1 : HalvesOK(i)'
  BY <1>2, <1>5, <1>6, <1>7, UntouchedLists
<1>9. Scanned(f.b, f.c1, ret)
  <2>1. Asked(n).b = f.b /\ AskedList(n) = f.c1
    BY <1>2, <1>3, <1>5 DEF Asked, AskedList
  <2> QED BY <2>1, <1>1, <1>5 DEF ScansOK
<1>10. HalvesOK(n)'
  BY <1>3, <1>4, <1>5, <1>6, <1>7, <1>8, <1>9 DEF HalvesOK, Scanned
<1>11. \A i \in 1 .. n : HalvesOK(i)'
  <2>1. \A i \in 1 .. n : i \in 1 .. n - 1 \/ i = n
    OBVIOUS
  <2> QED BY <1>8, <1>10, <2>1
<1>12. AskedList(n)' = f.c2
  BY <1>2, <1>4, <1>6 DEF AskedList
<1> QED BY <1>5, <1>6, <1>11, <1>12 DEF ScansOK

LEMMA ScanJoins == IInv /\ ScansOK /\ JoinHalves => ScansOK'
<1> SUFFICES ASSUME TypeOK, CallsOK, ScansOK, JoinHalves
             PROVE  ScansOK'
  BY DEF IInv
<1>1. PICK n \in Nat \ {0} : Len(stack) = n
  BY EmptySeq DEF TypeOK, JoinHalves
<1>2. n - 1 \in Nat /\ n \in 1 .. n /\ n - 1 \in 0 .. n - 1
  OBVIOUS
<1>3. PICK f \in Frame : stack[n] = f
  BY <1>1, <1>2, ElementOfSeq DEF TypeOK
<1>4. /\ stack' = Pop /\ task' = task /\ diag' = diag
      /\ pc = "return" /\ pc' = "return"
      /\ ret' = f.delta1 \cup ret /\ f.at = "second"
  BY <1>1, <1>3 DEF JoinHalves, Top
<1>5. Len(stack') = n - 1 /\ \A i \in 1 .. n - 1 : stack'[i] = stack[i]
  BY <1>1, <1>4, PopProperties DEF TypeOK, JoinHalves, Pop
<1>6. \A i \in 1 .. n : HalvesOK(i) /\ FrameOK(i)
  BY <1>1, <1>4 DEF ScansOK, CallsOK
<1>7. /\ Asked(n - 1)' = Asked(n - 1)
      /\ AskedList(n - 1)' = AskedList(n - 1)
      /\ \A i \in 1 .. n - 1 : HalvesOK(i)'
  <2>1. 1 .. n - 1 \subseteq 1 .. n
    OBVIOUS
  <2> QED BY <2>1, <1>2, <1>4, <1>5, <1>6, UntouchedFrames, UntouchedLists
<1> DEFINE s == AskedList(n - 1)
<1>8. /\ s \in Seq(Constraint) /\ s # <<>> /\ Len(s) # 1
      /\ f.c1 = FirstHalf(s) /\ f.c2 = SecondHalf(s)
      /\ Scanned(f.b, f.c1, f.delta1)
  BY <1>2, <1>3, <1>4, <1>6 DEF HalvesOK
<1>9. Asked(n - 1).b = f.b /\ f.delta1 \subseteq Range(f.c1)
  <2>1. /\ Asked(n - 1) = [S |-> Range(f.c1) \cup Range(f.c2), b |-> f.b]
        /\ Maximal(f.b, Range(f.c1), f.delta1)
    BY <1>2, <1>3, <1>4, <1>6 DEF FrameOK
  <2> QED BY <2>1 DEF Maximal
<1>10. Scanned(f.b \cup f.delta1, f.c2, ret)
  <2>1. Asked(n).b = f.b \cup f.delta1 /\ AskedList(n) = f.c2
    BY <1>2, <1>3, <1>4 DEF Asked, AskedList
  <2> QED BY <2>1, <1>1, <1>4 DEF ScansOK
<1> HIDE DEF s
<1>11. Scanned(f.b, s, f.delta1 \cup ret)
  BY <1>8, <1>9, <1>10, ScannedHalves
<1>12. Scanned(Asked(Len(stack)).b, AskedList(Len(stack)), ret)'
  <2>1. /\ (Asked(Len(stack)).b)' = f.b
        /\ AskedList(Len(stack))' = s
        /\ ret' = f.delta1 \cup ret /\ task' = task
    BY <1>4, <1>5, <1>7, <1>9 DEF s
  <2> QED BY <2>1, <1>11 DEF Scanned
<1> QED BY <1>4, <1>5, <1>7, <1>12 DEF ScansOK

LEMMA ScanLeaf == IInv /\ ScansOK /\ (KeepAll \/ DropOne) => ScansOK'
<1> SUFFICES ASSUME TypeOK, CallsOK, ScansOK, KeepAll \/ DropOne
             PROVE  ScansOK'
  BY DEF IInv
<1>1. /\ task' = task /\ stack' = stack /\ diag' = diag
      /\ pc = "call" /\ pc' = "return"
  BY DEF KeepAll, DropOne
<1>2. PICK n \in Nat : Len(stack) = n
  BY LenProperties DEF TypeOK
<1>3. /\ Asked(n)' = Asked(n) /\ AskedList(n)' = AskedList(n)
      /\ \A i \in 1 .. n : HalvesOK(i)'
  <2>1. n \in 0 .. n /\ \A i \in 1 .. n : HalvesOK(i)
    BY <1>1, <1>2 DEF ScansOK
  <2> QED BY <2>1, <1>1, UntouchedFrames, UntouchedLists
<1>4. Asked(n).b = arg.b /\ AskedList(n) = arg.c
  BY <1>1, <1>2 DEF ScansOK, CallsOK
<1>5. Scanned(arg.b, arg.c, ret')
  <2>1. CASE KeepAll
    <3>1. \A n_1 \in DOMAIN arg.c : arg.c[n_1] \in ret'
      BY <2>1 DEF KeepAll, Range
    <3> QED BY <3>1 DEF Scanned
  <2>2. CASE DropOne
    <3>1. arg.c \in Seq(Constraint) /\ arg.c # <<>> /\ Len(arg.c) = 1 /\ ret' = {}
      BY <2>2 DEF DropOne, CallsOK, TypeOK, Arg
    <3>2. ASSUME NEW m \in DOMAIN arg.c
          PROVE  ~Consistent(task.kb, arg.b \cup (Earlier(arg.c, m) \cap {}) \cup {arg.c[m]})
      <4>1. arg.c[m] \in Range(arg.c)
        BY DEF Range
      <4>2. Range(arg.c) = {arg.c[m]}
        BY <3>1, <4>1, RangeProperties
      <4>3. ~Consistent(task.kb, arg.b \cup Range(arg.c))
        BY <2>2 DEF DropOne, Satisfied, CallsOK
      <4>4. arg.b \cup (Earlier(arg.c, m) \cap {}) \cup {arg.c[m]} = arg.b \cup Range(arg.c)
        BY <4>2
      <4> QED BY <4>3, <4>4
    <3> QED BY <3>1, <3>2 DEF Scanned
  <2> QED BY <2>1, <2>2
<1>6. Scanned(Asked(Len(stack)).b, AskedList(Len(stack)), ret)'
  <2>1. (Asked(Len(stack)).b)' = arg.b /\ AskedList(Len(stack))' = arg.c
    BY <1>1, <1>2, <1>3, <1>4
  <2> QED BY <1>1, <2>1, <1>5 DEF Scanned
<1> QED BY <1>1, <1>2, <1>3, <1>6 DEF ScansOK

\* Every step keeps the lists of the suspended calls and what was scanned of them.
LEMMA ScanStep == IInv /\ ScansOK /\ [Next]_vars => ScansOK'
<1> SUFFICES ASSUME IInv, ScansOK, [Next]_vars
             PROVE  ScansOK'
  OBVIOUS
<1>1. CASE NoLabel
  BY <1>1 DEF NoLabel, IInv, CallsOK, ScansOK
<1>2. CASE StartFd
  <2>1. /\ stack' = <<>> /\ task' = task /\ diag' = diag /\ diag = {}
        /\ pc' = "call" /\ arg'.c = task.c
    BY <1>2 DEF StartFd, IInv, CallsOK
  <2>2. Len(stack') = 0 /\ AskedList(0)' = task.c
    BY <2>1, EmptySeq DEF AskedList
  <2>3. \A i \in 1 .. 0 : HalvesOK(i)'
    OBVIOUS
  <2> QED BY <2>1, <2>2, <2>3 DEF ScansOK
<1>3. CASE KeepAll \/ DropOne
  BY <1>3, ScanLeaf
<1>4. CASE SearchFirstHalf
  BY <1>4, ScanFirstHalf
<1>5. CASE SearchSecondHalf
  BY <1>5, ScanSecondHalf
<1>6. CASE JoinHalves
  BY <1>6, ScanJoins
<1>7. CASE FindDiagnosis
  <2>1. Len(stack) = 0 /\ Asked(0) = [S |-> SetC(task), b |-> task.b] /\ AskedList(0) = task.c
    BY <1>7, EmptySeq DEF FindDiagnosis, Asked, AskedList
  <2>2. Maximal(task.b, SetC(task), ret) /\ Scanned(task.b, task.c, ret)
    BY <1>7, <2>1 DEF FindDiagnosis, IInv, CallsOK, ScansOK
  <2>3. KeptByScan(task.kb, task.b, task.c, ret)
    BY <2>2, ScannedIsKept DEF Maximal
  <2>4. /\ task' = task /\ pc' = "done"
        /\ diag' \subseteq SetC(task) /\ SetC(task) \ diag' = ret
    BY <1>7, <2>2 DEF FindDiagnosis, Maximal
  <2> QED BY <2>3, <2>4 DEF ScansOK, SetC
<1>8. CASE UNCHANGED vars
  <2>1. \A i : /\ AskedList(i)' = AskedList(i) /\ Asked(i)' = Asked(i)
               /\ HalvesOK(i) => HalvesOK(i)'
    BY <1>8 DEF vars, AskedList, HalvesOK, Scanned, Asked, SetC
  <2> QED BY <1>8, <2>1 DEF vars, ScansOK, Scanned, SetC
<1> QED
  BY <1>1, <1>2, <1>3, <1>4, <1>5, <1>6, <1>7, <1>8 DEF Next

\* What a scan keeps is the preferred subset.
LEMMA ScansDecide == IInv /\ ScansOK => DiagnosisIsPreferred
<1> SUFFICES ASSUME IInv, ScansOK, pc = "done", diag # {}
             PROVE  diag = SetC(task) \ PreferredSubset(task)
  BY DEF DiagnosisIsPreferred
<1> DEFINE X == SetC(task) \ diag
<1>1. /\ KeptByScan(task.kb, task.b, task.c, X)
      /\ X \in SUBSET SetC(task) /\ SetC(task) \ X = diag
  BY DEF ScansOK
<1>2. task.c \in Seq(Constraint)
  BY TaskTypes DEF IInv, TypeOK
<1>3. PreferredSubset(task) = X
  BY <1>1, <1>2, ScanDecides
<1> QED BY <1>1, <1>3

\* The diagnosis is what the left-to-right scan of C leaves out: the order of C is
\* the order in which constraints are kept (_fd, fastdiag.py).
THEOREM PreferredDiagnosisFound == Spec => []DiagnosisIsPreferred
<1>1. Init => IInv /\ ScansOK
  BY InitInv DEF Init, ScansOK
<1>2. IInv /\ ScansOK /\ [Next]_vars => (IInv /\ ScansOK)'
  BY TypeStep, CallsStep, ScanStep DEF IInv
<1> QED BY <1>1, <1>2, ScansDecide, PTL DEF Spec

----------------------------------------------------------------------------
(* FastDiagP.                                                              *)

\* What is in the table is right.
TableIsRight == \A k \in Known : table[k] \in {"yes", "no"} => table[k] = Verdict(k)

\* A check is looked up only when a call of _fd needs one, and waited for only when
\* its future is in the table.
LookUpOK ==
    /\ mode # "search" => pc = "call" /\ arg.delta # {}
    /\ mode = "wait" => Wanted \in Known

\* The first check lookahead asks for is the one that is needed.
WantedFirst ==
    mode = "lookahead" =>
        \/ cpus < 3
        \/ Wanted \in Known
        \/ count = 1 /\ todo # <<>> /\ Head(todo).b = arg.b /\ Head(todo).c = arg.c

TableInv ==
    /\ cpus \in Nat
    /\ task \in TaskOf(Constraint)
    /\ TableIsRight
    /\ LookUpOK
    /\ WantedFirst
    /\ FailsOnlyBelowThreeCpus

LEMMA InitTable == InitP => TableInv
<1> SUFFICES ASSUME InitP PROVE TableInv
  OBVIOUS
<1>1. mode = "search" /\ cpus \in Nat /\ task \in TaskOf(Constraint)
  BY TasksAssumption, CpusAssumption DEF InitP, Init
<1>2. Known = {}
  BY DEF InitP, Known
<1> QED BY <1>1, <1>2 DEF TableInv, TableIsRight, LookUpOK, WantedFirst, FailsOnlyBelowThreeCpus

\* The steps of find_diagnosis and _fd leave the table alone.
LEMMA SearchSteps ==
    ASSUME TableInv,
           \/ NoDiagnosis \/ StartFdP \/ FindDiagnosisP \/ NextCall
           \/ KeepAllP \/ DropOneP \/ SearchFirstHalfP \/ SearchSecondHalfP \/ JoinHalvesP
    PROVE  TableInv'
<1>1. /\ cpus' = cpus /\ table' = table /\ mode' = "search"
      /\ task' \in TaskOf(Constraint) /\ task'.kb = task.kb
  <2>1. task \in TaskOf(Constraint) /\ (mode # "search" => pc = "call")
    BY DEF TableInv, LookUpOK
  <2>2. CASE NoDiagnosis \/ StartFdP
    BY <2>1, <2>2 DEF NoDiagnosis, StartFdP, machine, lookahead, pool
  <2>3. CASE KeepAllP \/ DropOneP \/ SearchFirstHalfP
    BY <2>1, <2>3 DEF KeepAllP, DropOneP, SearchFirstHalfP, machine, pool
  <2>4. CASE FindDiagnosisP \/ SearchSecondHalfP \/ JoinHalvesP
    BY <2>1, <2>4 DEF FindDiagnosisP, FindDiagnosis, SearchSecondHalfP, SearchSecondHalf,
                      JoinHalvesP, JoinHalves, machine, lookahead, pool
  <2>5. CASE NextCall
    BY <2>5, TasksAssumption DEF NextCall, pool
  <2> QED BY <2>2, <2>3, <2>4, <2>5
<1>2. TableIsRight'
  BY <1>1 DEF TableInv, TableIsRight, Known, Verdict
<1> QED BY <1>1, <1>2 DEF TableInv, LookUpOK, WantedFirst, FailsOnlyBelowThreeCpus

\* lookahead and the pool leave the search alone.
LEMMA LookupSteps ==
    ASSUME TableInv, LookUp \/ StartLookahead \/ StopLookingAhead \/ EndLookahead
    PROVE  TableInv'
<1>1. cpus' = cpus /\ table' = table /\ UNCHANGED vars
  BY DEF LookUp, StartLookahead, StopLookingAhead, EndLookahead, pool, machine
<1>2. TableIsRight' /\ Wanted' = Wanted /\ Known' = Known
  BY <1>1 DEF TableInv, TableIsRight, Known, Verdict, vars, Wanted, Key
<1>3. LookUpOK'
  BY <1>1, <1>2 DEF TableInv, LookUpOK, vars, LookUp, StartLookahead, StopLookingAhead,
                    EndLookahead, Entered
<1>4. WantedFirst'
  <2>1. CASE LookUp \/ EndLookahead
    BY <2>1 DEF LookUp, EndLookahead, WantedFirst
  <2>2. CASE StartLookahead
    BY <2>2, <1>1 DEF StartLookahead, WantedFirst, FirstCount, vars
  <2>3. CASE StopLookingAhead
    <3>1. count = 1 => cpus < 3
      BY <2>3 DEF StopLookingAhead, MaxNumGenCC, TableInv
    <3> QED BY <3>1, <2>3, <1>1, <1>2 DEF TableInv, WantedFirst, StopLookingAhead
  <2> QED BY <2>1, <2>2, <2>3
<1>5. FailsOnlyBelowThreeCpus'
  BY <1>1 DEF TableInv, WantedFirst, FailsOnlyBelowThreeCpus, LookUp, StartLookahead,
              StopLookingAhead, EndLookahead
<1> QED BY <1>1, <1>2, <1>3, <1>4, <1>5 DEF TableInv, vars

LEMMA LookAheadStep ==
    ASSUME TableInv, LookAhead
    PROVE  TableInv'
<1> DEFINE look == Head(todo)
           key == Key(look.b, look.c)
<1>1. cpus' = cpus /\ UNCHANGED vars /\ mode = "lookahead" /\ mode' = "lookahead"
  BY DEF LookAhead, machine
<1>2. Known' = Known \cup {key}
  BY DEF LookAhead, Known
<1>3. \A k \in Known' : table'[k] = IF k \in Known THEN table[k] ELSE "pending"
  BY DEF LookAhead, Known
<1>4. TableIsRight'
  BY <1>1, <1>2, <1>3 DEF TableInv, TableIsRight, Verdict, vars
<1>5. WantedFirst'
  BY <1>1, <1>2 DEF TableInv, WantedFirst, Wanted, vars, Key
<1> QED BY <1>1, <1>2, <1>4, <1>5 DEF TableInv, LookUpOK, FailsOnlyBelowThreeCpus, vars

LEMMA AnswerStep ==
    ASSUME TableInv, NEW i, Answer(i)
    PROVE  TableInv'
<1>1. cpus' = cpus /\ UNCHANGED <<vars, mode, count, todo>>
  BY DEF Answer, machine, lookahead
<1>2. Known' = Known
  BY DEF Answer, Known
<1>3. \A k \in Known : table'[k] = IF k = queue[i] THEN Verdict(queue[i]) ELSE table[k]
  BY DEF Answer, Known
<1>4. TableIsRight'
  BY <1>1, <1>2, <1>3 DEF TableInv, TableIsRight, Verdict, vars
<1> QED BY <1>1, <1>2, <1>4
      DEF TableInv, LookUpOK, WantedFirst, FailsOnlyBelowThreeCpus, vars, Wanted, Key

LEMMA TableStep == TableInv /\ [NextP]_varsP => TableInv'
<1> SUFFICES ASSUME TableInv, [NextP]_varsP PROVE TableInv'
  OBVIOUS
<1>1. CASE UNCHANGED varsP
  BY <1>1 DEF varsP, vars, machine, lookahead, pool, TableInv, TableIsRight, LookUpOK,
              WantedFirst, FailsOnlyBelowThreeCpus, Known, Wanted, Verdict, Key
<1>2. CASE NextP
  BY <1>2, SearchSteps, LookupSteps, LookAheadStep, AnswerStep DEF NextP, Step
<1> QED BY <1>1, <1>2

LEMMA TableHolds == SpecP => []TableInv
BY InitTable, TableStep, PTL DEF SpecP

\* The future that lookup_CC reads is there, on every machine with three processors
\* or more and whatever lookahead guesses.
THEOREM NeedsThreeCpus == SpecP => []FailsOnlyBelowThreeCpus
<1>1. TableInv => FailsOnlyBelowThreeCpus
  BY DEF TableInv
<1> QED BY <1>1, TableHolds, PTL

----------------------------------------------------------------------------
(* FastDiagP runs FastDiag.                                                *)

\* Once its check is there, _fd goes on as FastDiag does.
LEMMA WaitingIsAsking ==
    ASSUME TableInv
    PROVE  /\ mode = "wait" /\ table[Wanted] = "yes" => pc = "call" /\ Satisfied
           /\ Denied => pc = "call" /\ ~Satisfied
BY DEF TableInv, LookUpOK, TableIsRight, Verdict, Wanted, Key, Denied, Satisfied, Entered

\* What the search does is FastDiag's, except that find_diagnosis does not look at the
\* background, and is called again.
LEMMA SearchRefines ==
    ASSUME TableInv, [NextP]_varsP
    PROVE  NextCall \/ StartFdP \/ [Next]_vars
<1>1. ASSUME \/ LookUp \/ StartLookahead \/ StopLookingAhead \/ LookAhead \/ EndLookahead
             \/ (\E i \in 1 .. 4 : Answer(i)) \/ UNCHANGED varsP
      PROVE  UNCHANGED vars
  BY <1>1 DEF LookUp, StartLookahead, StopLookingAhead, LookAhead, EndLookahead, Answer,
              varsP, vars
<1>2. CASE NoDiagnosis
  BY <1>2 DEF NoDiagnosis, NoLabel, Next
<1>3. CASE KeepAllP
  BY <1>3, WaitingIsAsking DEF KeepAllP, KeepAll, Next
<1>4. CASE DropOneP
  BY <1>4, WaitingIsAsking DEF DropOneP, DropOne, Next
<1>5. CASE SearchFirstHalfP
  BY <1>5, WaitingIsAsking DEF SearchFirstHalfP, SearchFirstHalf, Next
<1>6. CASE SearchSecondHalfP \/ JoinHalvesP \/ FindDiagnosisP
  BY <1>6 DEF SearchSecondHalfP, JoinHalvesP, FindDiagnosisP, Next
<1> QED BY <1>1, <1>2, <1>3, <1>4, <1>5, <1>6 DEF NextP, Step

\* On a consistent background the labeler lets the task through.
LEMMA StartRefines ==
    ASSUME TableInv, StartFdP, Consistent(task.kb, task.b)
    PROVE  StartFd
<1>1. Len(task.c) >= 1
  <2>1. task.c \in Seq(Constraint)
    BY TaskTypes DEF TableInv
  <2> QED BY <2>1 DEF StartFdP, NothingToDiagnose
<1> QED BY <1>1 DEF StartFdP, StartFd, Diagnosable

LEMMA StepRefines ==
    TableInv /\ [NextP]_varsP => [Consistent(task.kb, task.b) => Next \/ NextCall]_vars
BY SearchRefines, StartRefines DEF Next

\* FastDiagP runs FastDiag: on a consistent background each of its steps, and of
\* its workers, is a step of FastDiag's search or none.
THEOREM FastDiagPRunsFastDiag == SpecP => RunsFastDiag
<1>1. InitP => Init
  BY DEF InitP
<1> QED BY <1>1, StepRefines, TableHolds, PTL DEF SpecP, RunsFastDiag

----------------------------------------------------------------------------
(* What FastDiag promises, FastDiagP keeps.                                *)

\* FastDiag's answer is one of those the task admits.
AnswerOK == pc = "done" => diag \in Answers(task)

LEMMA AnswerStays == IInv /\ AnswerOK /\ [Next]_vars => AnswerOK'
<1> SUFFICES ASSUME IInv, AnswerOK, [Next]_vars
             PROVE  AnswerOK'
  OBVIOUS
<1>1. task' = task
  BY DEF Next, NoLabel, StartFd, KeepAll, DropOne, SearchFirstHalf, SearchSecondHalf,
         JoinHalves, FindDiagnosis, vars
<1>2. Answers(task)' = Answers(task)
  BY <1>1 DEF Answers, MinimalDiagnoses, IsMinimalDiagnosis, IsDiagnosis, SetC
<1> QED BY <1>1, <1>2, StepImplements DEF AnswerOK, Promise!Next, Promise!Answer, Promise!vars

\* The search on a consistent background.
Contracts == TypeOK /\ (Consistent(task.kb, task.b) => CallsOK /\ ScansOK /\ AnswerOK)

LEMMA ContractsStep == TableInv /\ Contracts /\ [NextP]_varsP => Contracts'
<1> SUFFICES ASSUME TableInv, Contracts, [NextP]_varsP
             PROVE  Contracts'
  OBVIOUS
<1>1. CASE NextCall
  <2>1. /\ task' \in TaskOf(Constraint) /\ arg' = arg /\ ret' = ret
        /\ pc' = "label" /\ stack' = <<>> /\ diag' = {}
    BY <1>1, TasksAssumption DEF NextCall
  <2>2. TypeOK'
    BY <2>1 DEF Contracts, TypeOK
  <2>3. CallsOK' /\ ScansOK' /\ AnswerOK'
    BY <2>1 DEF CallsOK, ScansOK, AnswerOK
  <2> QED BY <2>2, <2>3 DEF Contracts
<1>2. CASE StartFdP /\ ~Consistent(task.kb, task.b)
  <2>1. arg' \in Arg
    BY <1>2, TaskTypes DEF StartFdP, Arg, Contracts, TypeOK
  <2>2. TypeOK' /\ task' = task
    BY <1>2, <2>1 DEF StartFdP, Contracts, TypeOK
  <2> QED BY <1>2, <2>2 DEF Contracts
<1>3. CASE [Next]_vars
  <2>1. task' = task
    BY <1>3 DEF Next, NoLabel, StartFd, KeepAll, DropOne, SearchFirstHalf, SearchSecondHalf,
                JoinHalves, FindDiagnosis, vars
  <2>2. TypeOK'
    BY <1>3, TypeStep DEF Contracts
  <2>3. ASSUME Consistent(task.kb, task.b)
        PROVE  CallsOK' /\ ScansOK' /\ AnswerOK'
    BY <1>3, <2>3, CallsStep, ScanStep, AnswerStays DEF Contracts, IInv
  <2> QED BY <2>1, <2>2, <2>3 DEF Contracts
<1> QED BY <1>1, <1>2, <1>3, SearchRefines, StartRefines DEF Next

LEMMA ContractsHold == SpecP => []Contracts
<1>1. InitP => Contracts
  BY InitInv DEF InitP, Init, Contracts, IInv, ScansOK, AnswerOK
<1> QED BY <1>1, TableHolds, ContractsStep, PTL DEF SpecP

\* In every call of find_diagnosis on a consistent background, each call of _fd returns
\* what FastDiag's would, although its checks were asked for ahead of time.
THEOREM CallsCorrectP == SpecP => [](Consistent(task.kb, task.b) => CallsOK)
<1>1. Contracts => (Consistent(task.kb, task.b) => CallsOK)
  BY DEF Contracts
<1> QED BY <1>1, ContractsHold, PTL

\* And find_diagnosis answers with a minimal diagnosis if there is one.
THEOREM FastDiagPIsCorrect == SpecP => [](Consistent(task.kb, task.b) => AnswerOK)
<1>1. Contracts => (Consistent(task.kb, task.b) => AnswerOK)
  BY DEF Contracts
<1> QED BY <1>1, ContractsHold, PTL

\* It is the preferred one: the order in which the workers answer does not show.
THEOREM PreferredDiagnosisFoundP ==
    SpecP => [](Consistent(task.kb, task.b) => DiagnosisIsPreferred)
<1>1. Contracts => (Consistent(task.kb, task.b) => DiagnosisIsPreferred)
  BY ScansDecide DEF Contracts, IInv
<1> QED BY <1>1, ContractsHold, PTL

----------------------------------------------------------------------------
(* The labeler of the HS-dag.                                              *)

\* What is answered is the label that the HS-dag is given for the task.
AnswersTheLabel == pc = "done" => diag = Range(FastDiagLabel(task))

\* A task has a label exactly when it has a diagnosis to compute, and the label is
\* what the left-to-right scan leaves out.
LEMMA LabelOfTask ==
    ASSUME NEW t \in TaskOf(Constraint)
    PROVE  Range(FastDiagLabel(t)) =
             IF Consistent(t.kb, t.b) /\ ~Consistent(t.kb, t.b \cup SetC(t))
             THEN SetC(t) \ PreferredSubset(t) ELSE {}
<1>1. TaskWith(t, t.b) = t
  BY DEF TaskWith, TaskOf
<1>2. t.c \in Seq(Constraint)
  BY TaskTypes
<1>3. (Len(t.c) >= 1 /\ (t.b = {} \/ Consistent(t.kb, t.b)) /\ ~Consistent(t.kb, t.b \cup SetC(t)))
      <=> (Consistent(t.kb, t.b) /\ ~Consistent(t.kb, t.b \cup SetC(t)))
  <2>1. Len(t.c) \in Nat
    BY <1>2, LenProperties
  <2>2. Len(t.c) >= 1 => Len(t.c) # 0
    BY <2>1
  <2>3. t.c # <<>> => Len(t.c) >= 1
    BY <1>2, <2>1, EmptySeq
  <2> QED BY <2>2, <2>3, GuardsDecide, Zenon DEF Diagnosable, NothingToDiagnose
<1>4. Range(Where(t.c, SetC(t) \ PreferredSubset(t))) = SetC(t) \ PreferredSubset(t)
  <2>1. Range(Where(t.c, SetC(t) \ PreferredSubset(t))) = Range(t.c) \cap (SetC(t) \ PreferredSubset(t))
    BY <1>2, WhereProperties
  <2> QED BY <2>1 DEF SetC
<1>5. Range(<<>>) = {}
  BY DEF Range
<1> QED BY <1>1, <1>3, <1>4, <1>5, Zenon DEF FastDiagLabel

\* The answer the task admits that is preferred is its label.
LEMMA PreferredIsLabel == IInv /\ ScansOK /\ AnswerOK => AnswersTheLabel
<1> SUFFICES ASSUME IInv, ScansOK, AnswerOK, pc = "done"
             PROVE  diag = Range(FastDiagLabel(task))
  BY DEF AnswersTheLabel
<1>1. task \in TaskOf(Constraint) /\ diag \in Answers(task)
  BY DEF IInv, TypeOK, AnswerOK
<1>2. CASE Consistent(task.kb, task.b) /\ ~Consistent(task.kb, task.b \cup SetC(task))
  <2>1. IsDiagnosis(task, diag)
    BY <1>1, <1>2 DEF Answers, MinimalDiagnoses, IsMinimalDiagnosis
  <2>2. SetC(task) \ {} = SetC(task)
    OBVIOUS
  <2>3. diag # {}
    BY <1>2, <2>1, <2>2 DEF IsDiagnosis
  <2>4. diag = SetC(task) \ PreferredSubset(task)
    BY <2>3, ScansDecide DEF DiagnosisIsPreferred
  <2> QED BY <1>1, <1>2, <2>4, LabelOfTask
<1>3. CASE ~(Consistent(task.kb, task.b) /\ ~Consistent(task.kb, task.b \cup SetC(task)))
  BY <1>1, <1>3, LabelOfTask, Zenon DEF Answers
<1> QED BY <1>2, <1>3

\* FastDiagLabeler's label of Labelers is what the recursion of FastDiag finds.
THEOREM FastDiagFindsTheLabel == Spec => []AnswersTheLabel
<1>1. Init => IInv /\ ScansOK /\ AnswerOK
  BY InitInv DEF Init, ScansOK, AnswerOK
<1>2. IInv /\ ScansOK /\ AnswerOK /\ [Next]_vars => (IInv /\ ScansOK /\ AnswerOK)'
  BY TypeStep, CallsStep, ScanStep, AnswerStays DEF IInv
<1> QED BY <1>1, <1>2, PreferredIsLabel, PTL DEF Spec

\* And what FastDiagP's does, for every number of workers: find_diagnosis does not
\* check the background, so that is on a consistent one.
THEOREM FastDiagPFindsTheLabel ==
    SpecP => [](Consistent(task.kb, task.b) => AnswersTheLabel)
<1>1. Contracts => (Consistent(task.kb, task.b) => AnswersTheLabel)
  BY PreferredIsLabel DEF Contracts, IInv
<1> QED BY <1>1, ContractsHold, PTL

----------------------------------------------------------------------------
(* The pool.  The contract of the queue needs the types of what lookahead   *)
(* goes through, and so the lists it makes of delta.                        *)

\* Removing an element of a list without repetition leaves the others.
LEMMA RemoveAtProperties ==
    ASSUME NEW D, NEW s \in Seq(D), NEW i \in 1 .. Len(s), IsInjective(s)
    PROVE  /\ RemoveAt(s, i) \in Seq(D)
           /\ IsInjective(RemoveAt(s, i))
           /\ Range(RemoveAt(s, i)) = Range(s) \ {s[i]}
<1>1. PICK n \in Nat : Len(s) = n
  BY LenProperties
<1>2. i \in 1 .. n /\ DOMAIN s = 1 .. n /\ \A j \in 1 .. n : s[j] \in D
  BY <1>1, ElementOfSeq, LenProperties
<1> DEFINE a == SubSeq(s, 1, i - 1)
           b == SubSeq(s, i + 1, n)
           r == RemoveAt(s, i)
<1>3. /\ a \in Seq(D) /\ Len(a) = i - 1
      /\ \A j \in 1 .. i - 1 : a[j] = s[j]
  <2>1. /\ \A j \in 1 .. i - 1 : s[j] \in D
        /\ i - 1 \in Int /\ 1 \in Int
        /\ (i - 1) - 1 + 1 = i - 1 /\ (1 <= i - 1 \/ i - 1 = 0)
        /\ \A j \in 1 .. i - 1 : 1 + j - 1 = j
    BY <1>2
  <2> QED BY <2>1, SubSeqProperties
<1>4. /\ b \in Seq(D) /\ Len(b) = n - i
      /\ \A j \in 1 .. n - i : b[j] = s[i + j]
  <2>1. /\ \A j \in i + 1 .. n : s[j] \in D
        /\ i + 1 \in Int /\ n \in Int
        /\ n - (i + 1) + 1 = n - i /\ (i + 1 <= n \/ n - i = 0)
        /\ \A j \in 1 .. n - i : i + 1 + j - 1 = i + j
    BY <1>2
  <2> QED BY <2>1, SubSeqProperties
<1> HIDE DEF a, b
<1>5. r = a \o b
  BY <1>1 DEF RemoveAt, a, b
<1>6. /\ r \in Seq(D) /\ Len(r) = n - 1
      /\ \A j \in 1 .. n - 1 : r[j] = IF j < i THEN s[j] ELSE s[j + 1]
  <2>1. /\ r \in Seq(D) /\ Len(r) = (i - 1) + (n - i)
        /\ \A j \in 1 .. (i - 1) + (n - i) : r[j] = IF j <= i - 1 THEN a[j] ELSE b[j - (i - 1)]
    <3>1. /\ a \o b \in Seq(D) /\ Len(a \o b) = Len(a) + Len(b)
          /\ \A j \in 1 .. Len(a) + Len(b) :
                (a \o b)[j] = IF j <= Len(a) THEN a[j] ELSE b[j - Len(a)]
      BY <1>3, <1>4, ConcatProperties
    <3> QED BY <3>1, <1>3, <1>4, <1>5
  <2>2. (i - 1) + (n - i) = n - 1
    BY <1>2
  <2>3. ASSUME NEW j \in 1 .. n - 1
        PROVE  r[j] = IF j < i THEN s[j] ELSE s[j + 1]
    <3>1. CASE j < i
      <4>1. j \in 1 .. i - 1 /\ j <= i - 1
        BY <1>2, <3>1
      <4> QED BY <4>1, <3>1, <2>1, <2>2, <1>3
    <3>2. CASE ~(j < i)
      <4>1. j - (i - 1) \in 1 .. n - i /\ ~(j <= i - 1) /\ i + (j - (i - 1)) = j + 1
        BY <1>2, <3>2
      <4> QED BY <4>1, <3>2, <2>1, <2>2, <1>4
    <3> QED BY <3>1, <3>2
  <2> QED BY <2>1, <2>2, <2>3
<1> HIDE DEF r
<1>7. DOMAIN r = 1 .. n - 1
  BY <1>6, LenProperties
<1> DEFINE from(j) == IF j < i THEN j ELSE j + 1
<1>8. \A j \in 1 .. n - 1 : from(j) \in 1 .. n /\ from(j) # i /\ r[j] = s[from(j)]
  BY <1>2, <1>6
<1>9. \A j, k \in 1 .. n - 1 : from(j) = from(k) => j = k
  BY <1>2
<1>10. \A k \in 1 .. n : k # i => \E j \in 1 .. n - 1 : from(j) = k
  <2>1. ASSUME NEW k \in 1 .. n, k # i
        PROVE  \E j \in 1 .. n - 1 : from(j) = k
    <3>1. CASE k < i
      <4>1. k \in 1 .. n - 1 /\ from(k) = k
        BY <3>1, <1>2
      <4> QED BY <4>1
    <3>2. CASE k > i
      <4>1. k - 1 \in 1 .. n - 1 /\ from(k - 1) = k
        BY <3>2, <1>2
      <4> QED BY <4>1
    <3> QED BY <3>1, <3>2, <2>1, <1>2
  <2> QED BY <2>1
<1> HIDE DEF from
<1>11. IsInjective(r)
  BY <1>2, <1>7, <1>8, <1>9 DEF IsInjective
<1>12. Range(r) \subseteq Range(s) \ {s[i]}
  <2>1. ASSUME NEW x \in Range(r)
        PROVE  x \in Range(s) \ {s[i]}
    <3>1. PICK j \in 1 .. n - 1 : x = r[j]
      BY <1>7 DEF Range
    <3>2. x = s[from(j)] /\ from(j) \in 1 .. n /\ from(j) # i
      BY <3>1, <1>8
    <3>3. s[from(j)] # s[i]
      BY <3>2, <1>2 DEF IsInjective
    <3> QED BY <3>2, <3>3, <1>2 DEF Range
  <2> QED BY <2>1
<1>13. Range(s) \ {s[i]} \subseteq Range(r)
  <2>1. ASSUME NEW x \in Range(s), x # s[i]
        PROVE  x \in Range(r)
    <3>1. PICK k \in 1 .. n : x = s[k]
      BY <1>2 DEF Range
    <3>2. PICK j \in 1 .. n - 1 : from(j) = k
      BY <2>1, <3>1, <1>10
    <3> QED BY <3>1, <3>2, <1>7, <1>8 DEF Range
  <2> QED BY <2>1
<1> QED BY <1>6, <1>11, <1>12, <1>13 DEF r

\* The elements of S before x in the list c.
Before(c, S, x) == {y \in S : \E i, j \in 1 .. Len(c) : i < j /\ c[i] = y /\ c[j] = x}

\* In a part S of a list without repetition there is, for each n below the size of
\* S, an element with n others before it.
LEMMA EachPlaceIsTaken ==
    ASSUME NEW D, NEW c \in Seq(D), IsInjective(c), NEW S \in SUBSET Range(c)
    PROVE  /\ IsFiniteSet(S)
           /\ \A n \in Nat : n < Cardinality(S) =>
                 \E x \in S : Cardinality(Before(c, S, x)) = n
<1>1. PICK k \in Nat : Len(c) = k /\ DOMAIN c = 1 .. k
  BY LenProperties
<1>2. IsFiniteSet(S)
  <2>1. c \in Surjection(1 .. k, Range(c))
    BY <1>1 DEF Surjection, Range
  <2>2. IsFiniteSet(1 .. k)
    BY FS_Interval
  <2>3. IsFiniteSet(Range(c))
    BY <2>1, <2>2, FS_Surjection
  <2> QED BY <2>3, FS_Subset
<1>3. \A i, j \in 1 .. k : c[i] = c[j] => i = j
  BY <1>1 DEF IsInjective
<1>4. \A x \in S : \E i \in 1 .. k : c[i] = x
  BY <1>1 DEF Range
<1> DEFINE B(x) == Before(c, S, x)
           Bad == {n \in Nat : n < Cardinality(S) /\ ~\E x \in S : Cardinality(B(x)) = n}
<1>5. \A x : B(x) = {y \in S : \E i, j \in 1 .. k : i < j /\ c[i] = y /\ c[j] = x}
  BY <1>1 DEF Before
<1>6. Cardinality(S) \in Nat
  BY <1>2, FS_CardinalityType
<1>7. ASSUME Bad # {}
      PROVE  FALSE
  <2>1. PICK m \in Bad : \A n \in Bad : m <= n
    BY <1>7, LeastElement
  <2>2. m \in Nat /\ m < Cardinality(S) /\ \A x \in S : Cardinality(B(x)) # m
    BY <2>1
  \* An element of T that comes first.
  <2>3. ASSUME NEW T \in SUBSET S, T # {}
        PROVE  \E i \in 1 .. k : c[i] \in T /\ \A j \in 1 .. k : c[j] \in T => i <= j
    <3> DEFINE P == {i \in 1 .. k : c[i] \in T}
    <3>1. P \in SUBSET Nat /\ P # {}
      BY <2>3, <1>4
    <3>2. PICK i \in P : \A j \in P : i <= j
      BY <3>1, LeastElement
    <3> QED BY <3>2
  <2>4. CASE m = 0
    <3>1. S # {}
      BY <2>2, <2>4, <1>2, FS_EmptySet
    <3>2. PICK i \in 1 .. k : c[i] \in S /\ \A j \in 1 .. k : c[j] \in S => i <= j
      BY <3>1, <2>3
    <3>3. B(c[i]) = {}
      BY <3>2, <1>3, <1>5
    <3>4. Cardinality(B(c[i])) = 0
      BY <3>3, FS_EmptySet
    <3> QED BY <3>2, <3>4, <2>2, <2>4
  <2>5. CASE m # 0
    <3>1. PICK x \in S : Cardinality(B(x)) = m - 1
      <4>1. m - 1 \in Nat /\ m - 1 < Cardinality(S) /\ ~(m <= m - 1)
        BY <2>2, <2>5, <1>6
      <4>2. m - 1 \notin Bad
        BY <4>1, <2>1
      <4> QED BY <4>1, <4>2
    <3>2. PICK a \in 1 .. k : c[a] = x
      BY <1>4
    <3>3. x \notin B(x)
      BY <3>2, <1>3, <1>5
    <3> DEFINE T == B(x) \cup {x}
    <3>4. B(x) \in SUBSET S /\ IsFiniteSet(B(x))
      <4>1. B(x) \in SUBSET S
        BY <1>5
      <4> QED BY <4>1, <1>2, FS_Subset
    <3>5. Cardinality(T) = m
      <4>1. Cardinality(T) = (m - 1) + 1
        BY <3>1, <3>3, <3>4, FS_AddElement
      <4> QED BY <4>1, <2>2
    <3>t. T \subseteq S
      BY <3>4
    <3> HIDE DEF T
    <3>6. S \ T # {}
      <4>1. m # Cardinality(S)
        BY <2>2, <1>6
      <4>2. T # S
        BY <4>1, <3>5
      <4> QED BY <4>2, <3>t
    <3>7. PICK i \in 1 .. k : /\ c[i] \in S \ T
                              /\ \A j \in 1 .. k : c[j] \in S \ T => i <= j
      BY <3>6, <2>3
    <3>8. a < i
      <4>1. i # a
        BY <3>2, <3>7 DEF T
      <4>2. ~(i < a)
        <5>1. i < a => c[i] \in B(x)
          BY <3>2, <3>7, <1>5
        <5> QED BY <5>1, <3>7 DEF T
      <4> QED BY <4>1, <4>2
    <3>9. ASSUME NEW y \in T
          PROVE  y \in B(c[i])
      <4>1. CASE y = x
        BY <4>1, <3>2, <3>8, <1>5
      <4>2. CASE y \in B(x)
        <5>1. PICK j \in 1 .. k, b \in 1 .. k : j < b /\ c[j] = y /\ c[b] = x
          BY <4>2, <1>5
        <5>2. b = a
          BY <5>1, <3>2, <1>3
        <5>3. j < i
          BY <5>1, <5>2, <3>8
        <5>4. y \in S
          BY <4>2, <1>5
        <5> QED BY <5>1, <5>3, <5>4, <1>5
      <4> QED BY <4>1, <4>2 DEF T
    <3>10. ASSUME NEW y \in B(c[i])
           PROVE  y \in T
      <4>1. y \in S
        BY <1>5
      <4>2. PICK j \in 1 .. k, b \in 1 .. k : j < b /\ c[j] = y /\ c[b] = c[i]
        BY <1>5
      <4>3. b = i
        BY <4>2, <1>3
      <4>4. ~(i <= j)
        BY <4>2, <4>3
      <4> QED BY <4>1, <4>2, <4>4, <3>7
    <3>11. B(c[i]) = T
      BY <3>9, <3>10
    <3> QED BY <3>5, <3>7, <3>11, <2>2
  <2> QED BY <2>4, <2>5
<1> QED BY <1>2, <1>7

\* InOrder makes a list of a part of C.
LEMMA InOrderIsList ==
    ASSUME task.c \in Seq(Constraint), IsInjective(task.c), NEW S \in SUBSET SetC(task)
    PROVE  InOrder(S) \in Seq(Constraint)
<1>1. IsFiniteSet(S) /\ S \in SUBSET Constraint
  BY EachPlaceIsTaken, RangeProperties DEF SetC
<1>2. PICK k \in Nat : Cardinality(S) = k
  BY <1>1, FS_CardinalityType
<1>3. ASSUME NEW n \in 1 .. k
      PROVE  (CHOOSE x \in S : Cardinality(Before(task.c, S, x)) = n - 1) \in Constraint
  <2>1. n - 1 \in Nat /\ n - 1 < k
    OBVIOUS
  <2>2. \E x \in S : Cardinality(Before(task.c, S, x)) = n - 1
    BY <2>1, <1>2, EachPlaceIsTaken DEF SetC
  <2> QED BY <2>2, <1>1
<1>4. InOrder(S) =
        [n \in 1 .. k |-> CHOOSE x \in S : Cardinality(Before(task.c, S, x)) = n - 1]
  BY <1>2 DEF InOrder, Before
<1> QED BY <1>2, <1>3, <1>4, IsASeq

\* The calls of lookahead that a call makes are calls of lookahead: its lists are
\* lists of constraints.
LEMMA FromDeltaType ==
    ASSUME NEW b \in SUBSET Constraint, NEW delta \in Seq(Seq(Constraint))
    PROVE  FromDelta(b, delta) \in Seq(Look)
<1>1. CASE delta = <<>> \/ Head(delta) = <<>>
  BY <1>1 DEF FromDelta
<1>2. CASE ~(delta = <<>> \/ Head(delta) = <<>>)
  <2> DEFINE first == Head(delta)
  <2>1. first \in Seq(Constraint) /\ Tail(delta) \in Seq(Seq(Constraint))
    BY <1>2, HeadTailProperties
  <2> HIDE DEF first
  <2>2. FirstHalf(first) \in Seq(Constraint) /\ SecondHalf(first) \in Seq(Constraint)
    BY <2>1, HalvesAreLists
  <2>3. <<SecondHalf(first)>> \o Tail(delta) \in Seq(Seq(Constraint))
    BY <2>1, <2>2, ConcatProperties
  <2>4. [c |-> first, b |-> b, delta |-> Tail(delta)] \in Look
    BY <2>1 DEF Look
  <2>5. [c |-> FirstHalf(first), b |-> b, delta |-> <<SecondHalf(first)>> \o Tail(delta)]
           \in Look
    BY <2>2, <2>3 DEF Look
  <2>6. \A x \in Look : <<x>> \in Seq(Look)
    OBVIOUS
  <2>7. FromDelta(b, delta) =
          IF Len(first) = 1 THEN <<[c |-> first, b |-> b, delta |-> Tail(delta)]>>
          ELSE <<[c |-> FirstHalf(first), b |-> b,
                  delta |-> <<SecondHalf(first)>> \o Tail(delta)]>>
    BY <1>2, Zenon DEF FromDelta, first
  <2> QED BY <2>4, <2>5, <2>6, <2>7
<1> QED BY <1>1, <1>2

LEMMA NextLooksType ==
    ASSUME NEW look \in Look, NEW known
    PROVE  /\ Key(look.b, look.c) \in SUBSET Constraint
           /\ IfConsistent(look, known) \in Seq(Look)
           /\ IfInconsistent(look) \in Seq(Look)
<1>1. /\ look.c \in Seq(Constraint) /\ look.b \in SUBSET Constraint
      /\ look.delta \in Seq(Seq(Constraint))
  BY DEF Look
<1> DEFINE key == Key(look.b, look.c)
           delta == look.delta
<1>2. key \in SUBSET Constraint
  BY <1>1, RangeProperties DEF Key
<1> HIDE DEF key
<1>3. FromDelta(key, delta) \in Seq(Look) /\ FromDelta(look.b, delta) \in Seq(Look)
  BY <1>1, <1>2, FromDeltaType
<1>4. (<<>> \in Seq(Look)) /\ \A x \in Look : <<x>> \in Seq(Look)
  OBVIOUS
<1>5. IfInconsistent(look) \in Seq(Look)
  <2>1. FirstHalf(look.c) \in Seq(Constraint) /\ SecondHalf(look.c) \in Seq(Constraint)
    BY <1>1, HalvesAreLists
  <2>2. <<SecondHalf(look.c)>> \o look.delta \in Seq(Seq(Constraint))
    BY <1>1, <2>1, ConcatProperties
  <2>3. [c |-> FirstHalf(look.c), b |-> look.b, delta |-> <<SecondHalf(look.c)>> \o look.delta]
           \in Look
    BY <1>1, <2>1, <2>2 DEF Look
  <2> QED BY <1>3, <1>4, <2>3, Zenon DEF IfInconsistent
<1>6. IfConsistent(look, known) \in Seq(Look)
  <2>1. CASE ~(Len(delta) > 1 /\ Len(delta[1]) = 1)
    BY <2>1, <1>3, Zenon DEF IfConsistent, key
  <2>2. CASE Len(delta) > 1 /\ Len(delta[1]) = 1
    <3>1. PICK n \in Nat : Len(delta) = n
      BY <1>1, LenProperties
    <3>2. n > 1 /\ 2 \in 1 .. n
      BY <2>2, <3>1
    <3>3. delta[2] \in Seq(Constraint)
      BY <1>1, <3>1, <3>2, ElementOfSeq
    <3>4. FirstHalf(delta[2]) \in Seq(Constraint) /\ SecondHalf(delta[2]) \in Seq(Constraint)
      BY <3>3, HalvesAreLists
    <3>5. Tail(Tail(delta)) \in Seq(Seq(Constraint))
      <4>1. delta # <<>>
        BY <3>1, <3>2
      <4>2. Tail(delta) \in Seq(Seq(Constraint)) /\ Len(Tail(delta)) = n - 1
        BY <1>1, <3>1, <4>1, HeadTailProperties
      <4>3. Tail(delta) # <<>>
        <5>1. n - 1 # 0
          BY <3>2
        <5> QED BY <4>2, <5>1, EmptySeq
      <4> QED BY <4>2, <4>3, HeadTailProperties
    <3>6. <<SecondHalf(delta[2])>> \o Tail(Tail(delta)) \in Seq(Seq(Constraint))
      BY <3>4, <3>5, ConcatProperties
    <3>7. [c |-> FirstHalf(delta[2]), b |-> key,
           delta |-> <<SecondHalf(delta[2])>> \o Tail(Tail(delta))] \in Look
      BY <1>2, <3>4, <3>6 DEF Look
    <3> QED BY <2>2, <1>4, <3>7, Zenon DEF IfConsistent, key
  <2> QED BY <2>1, <2>2
<1> QED BY <1>2, <1>5, <1>6 DEF key

\* No task has a constraint twice.
NoRepetition == \A t \in Tasks : IsInjective(t.c)

\* What a call of _fd is about are constraints of the task it runs for.
WithinTask ==
    /\ task \in Tasks
    /\ pc = "label" => stack = <<>>
    /\ pc \in {"call", "return"} =>
        \A i \in 1 .. Len(stack) :
            Range(stack[i].c1) \cup Range(stack[i].c2) \subseteq SetC(task)
    /\ pc = "call" => Range(arg.c) \cup arg.delta \subseteq SetC(task)

Pending == {k \in Known : table[k] = "pending"}

\* In the first call the pool has all the checks of the table that have no answer.
QueueOK ==
    /\ IsInjective(queue)
    /\ Range(queue) \subseteq Pending
    /\ calls = 1 /\ ~Over => Pending \subseteq Range(queue)

PoolInv == TypeOKP /\ WithinTask /\ QueueOK

LEMMA InitPool == InitP => PoolInv
<1> SUFFICES ASSUME InitP
             PROVE  PoolInv
  OBVIOUS
<1>1. Known = {} /\ Pending = {}
  BY DEF InitP, Known, Pending
<1>2. /\ <<>> \in Seq(Look) /\ <<>> \in Seq(SUBSET Constraint)
      /\ Range(<<>>) = {} /\ IsInjective(<<>>)
      /\ 1 \in 1 .. MaxCalls /\ 0 \in 0 .. 4
  BY MaxCallsAssumption DEF Range, IsInjective
<1>3. TypeOK
  BY InitInv DEF InitP, IInv
<1>4. TypeOKP
  BY <1>1, <1>2, <1>3 DEF InitP, TypeOKP
<1> QED BY <1>1, <1>2, <1>4 DEF InitP, Init, PoolInv, WithinTask, QueueOK

\* The search keeps to its task.
LEMMA WithinTaskStep ==
    ASSUME TypeOK, WithinTask, [Next]_vars
    PROVE  WithinTask'
<1>1. task.c \in Seq(Constraint)
  BY TaskTypes DEF TypeOK
<1>2. CASE NoLabel \/ FindDiagnosis
  BY <1>2 DEF NoLabel, FindDiagnosis, WithinTask
<1>3. CASE StartFd
  BY <1>3 DEF StartFd, WithinTask, SetC
<1>4. CASE KeepAll \/ DropOne
  BY <1>4 DEF KeepAll, DropOne, WithinTask, SetC
<1>5. CASE SearchFirstHalf
  <2> DEFINE f == [c1 |-> FirstHalf(arg.c), c2 |-> SecondHalf(arg.c),
                   b |-> arg.b, at |-> "first", delta1 |-> {}]
  <2>1. PICK n \in Nat : Len(stack) = n
    BY LenProperties DEF TypeOK
  <2>2. arg.c \in Seq(Constraint)
    BY DEF TypeOK, Arg
  <2>3. FirstHalf(arg.c) \in Seq(Constraint) /\ SecondHalf(arg.c) \in Seq(Constraint)
    BY <2>2, HalvesAreLists
  <2>4. /\ Range(FirstHalf(arg.c)) \subseteq Range(arg.c)
        /\ Range(SecondHalf(arg.c)) \subseteq Range(arg.c)
    <3>1. CASE arg.c = <<>>
      <4>1. FirstHalf(arg.c) = <<>> /\ SecondHalf(arg.c) = <<>>
        BY <3>1, SubSeqEmpty DEF FirstHalf, SecondHalf
      <4> QED BY <3>1, <4>1
    <3>2. CASE arg.c # <<>>
      BY <3>2, <2>2, <1>5, SplitProperties DEF SearchFirstHalf
    <3> QED BY <3>1, <3>2
  <2>5. f \in Frame
    BY <2>2, <2>3 DEF Frame, TypeOK, Arg
  <2>6. Range(arg'.c) \cup arg'.delta \subseteq Range(arg.c)
    BY <1>5, <2>4 DEF SearchFirstHalf
  <2>7. Range(arg.c) \subseteq SetC(task)
        /\ \A i \in 1 .. n : Range(stack[i].c1) \cup Range(stack[i].c2) \subseteq SetC(task)
    BY <1>5, <2>1 DEF SearchFirstHalf, WithinTask
  <2>8. Range(f.c1) \cup Range(f.c2) \subseteq SetC(task)
    BY <2>4, <2>7
  <2>9. stack' = Append(stack, f) /\ pc' = "call" /\ task' = task
    BY <1>5 DEF SearchFirstHalf
  <2> HIDE DEF f
  <2>10. /\ Len(stack') = n + 1
         /\ \A i \in 1 .. n : stack'[i] = stack[i]
         /\ stack'[n + 1] = f
    BY <2>1, <2>5, <2>9, AppendProperties DEF TypeOK
  <2>11. \A i \in 1 .. n + 1 :
            Range(stack'[i].c1) \cup Range(stack'[i].c2) \subseteq SetC(task)
    <3>1. \A i \in 1 .. n + 1 : i \in 1 .. n \/ i = n + 1
      OBVIOUS
    <3> QED BY <3>1, <2>7, <2>8, <2>10
  <2> QED BY <2>6, <2>7, <2>9, <2>10, <2>11 DEF WithinTask, SetC
<1>6. CASE SearchSecondHalf
  <2>1. PICK n \in Nat \ {0} : Len(stack) = n
    BY <1>6, EmptySeq DEF TypeOK, SearchSecondHalf
  <2>2. n \in 1 .. n
    BY <2>1
  <2>3. PICK f \in Frame : stack[n] = f
    BY <2>1, <2>2, ElementOfSeq DEF TypeOK
  <2> DEFINE g == [f EXCEPT !.at = "second", !.delta1 = ret]
  <2>4. g.c1 = f.c1 /\ g.c2 = f.c2 /\ g \in Frame
    BY <2>3 DEF Frame, TypeOK
  <2>5. /\ stack' = [stack EXCEPT ![n] = g]
        /\ arg' = [delta |-> Range(f.c1) \ ret, c |-> f.c2, b |-> f.b \cup ret]
        /\ pc = "return" /\ pc' = "call" /\ task' = task
    BY <1>6, <2>1, <2>3 DEF SearchSecondHalf, Top
  <2> HIDE DEF g
  <2>6. /\ Len(stack') = n
        /\ \A i \in 1 .. n : stack'[i] = IF i = n THEN g ELSE stack[i]
    BY <2>1, <2>2, <2>4, <2>5, ExceptSeq DEF TypeOK
  <2>7. \A i \in 1 .. n : Range(stack[i].c1) \cup Range(stack[i].c2) \subseteq SetC(task)
    BY <2>1, <2>5 DEF WithinTask
  <2>8. Range(f.c1) \cup Range(f.c2) \subseteq SetC(task)
    BY <2>2, <2>3, <2>7
  <2>9. Range(arg'.c) \cup arg'.delta \subseteq SetC(task)
    BY <2>5, <2>8
  <2>10. \A i \in 1 .. n :
            Range(stack'[i].c1) \cup Range(stack'[i].c2) \subseteq SetC(task)
    BY <2>4, <2>6, <2>7, <2>8
  <2> QED BY <2>5, <2>6, <2>9, <2>10 DEF WithinTask, SetC
<1>7. CASE JoinHalves
  <2>1. PICK n \in Nat \ {0} : Len(stack) = n
    BY <1>7, EmptySeq DEF TypeOK, JoinHalves
  <2>2. \A i \in 1 .. n - 1 : i \in 1 .. n
    BY <2>1
  <2>3. stack' = Pop /\ pc = "return" /\ pc' = "return" /\ task' = task
    BY <1>7 DEF JoinHalves
  <2>4. Len(stack') = n - 1 /\ \A i \in 1 .. n - 1 : stack'[i] = stack[i]
    BY <1>7, <2>1, <2>3, PopProperties DEF TypeOK, JoinHalves, Pop
  <2> QED BY <2>1, <2>2, <2>3, <2>4 DEF WithinTask, SetC
<1>8. CASE UNCHANGED vars
  BY <1>8 DEF vars, WithinTask, SetC
<1> QED BY <1>2, <1>3, <1>4, <1>5, <1>6, <1>7, <1>8 DEF Next

\* So does FastDiagP, whatever the background.
LEMMA WithinTaskStepP ==
    ASSUME TableInv, TypeOK, WithinTask, [NextP]_varsP
    PROVE  WithinTask'
<1>1. CASE NextCall
  BY <1>1 DEF NextCall, WithinTask
<1>2. CASE StartFdP
  BY <1>2 DEF StartFdP, WithinTask, SetC
<1>3. CASE [Next]_vars
  BY <1>3, WithinTaskStep
<1> QED BY <1>1, <1>2, <1>3, SearchRefines

\* The steps of find_diagnosis and _fd leave the pool alone, and its end drops the queue.
LEMMA PoolSearchSteps ==
    ASSUME PoolInv, TableInv,
           \/ NoDiagnosis \/ StartFdP \/ FindDiagnosisP \/ NextCall \/ LookUp
           \/ KeepAllP \/ DropOneP \/ SearchFirstHalfP \/ SearchSecondHalfP \/ JoinHalvesP,
           TypeOK', WithinTask'
    PROVE  PoolInv'
<1> USE DEF PoolInv
<1>1. /\ cpus' = cpus /\ table' = table /\ count' = count /\ todo' = todo
      /\ mode' \in {"search", "wait"}
      /\ (queue' = queue) \/ (queue' = <<>> /\ pc' = "done")
      /\ (calls' = calls) \/ (calls' = calls + 1 /\ calls < MaxCalls)
      /\ Over => NextCall
  <2> USE DEF machine, lookahead, pool, Over, TypeOKP, TableInv, LookUpOK
  <2>1. CASE NoDiagnosis
    BY <2>1 DEF NoDiagnosis
  <2>2. CASE StartFdP
    BY <2>2 DEF StartFdP
  <2>3. CASE FindDiagnosisP
    BY <2>3 DEF FindDiagnosisP, FindDiagnosis
  <2>4. CASE NextCall
    BY <2>4 DEF NextCall
  <2>5. CASE LookUp
    BY <2>5 DEF LookUp, Entered
  <2>6. CASE KeepAllP
    BY <2>6 DEF KeepAllP
  <2>7. CASE DropOneP
    BY <2>7 DEF DropOneP, Denied, Entered
  <2>8. CASE SearchFirstHalfP
    BY <2>8 DEF SearchFirstHalfP, Denied, Entered
  <2>9. CASE SearchSecondHalfP
    BY <2>9 DEF SearchSecondHalfP, SearchSecondHalf
  <2>10. CASE JoinHalvesP
    BY <2>10 DEF JoinHalvesP, JoinHalves
  <2> QED BY <2>1, <2>2, <2>3, <2>4, <2>5, <2>6, <2>7, <2>8, <2>9, <2>10
<1>2. Known' = Known /\ Pending' = Pending
  BY <1>1 DEF Known, Pending
<1>3. calls \in 1 .. MaxCalls /\ calls' \in 1 .. MaxCalls /\ (NextCall => calls' # 1)
  <2>1. calls \in 1 .. MaxCalls
    BY DEF TypeOKP
  <2>2. NextCall => calls' = calls + 1
    BY DEF NextCall
  <2> QED BY <1>1, <2>1, <2>2, MaxCallsAssumption
<1>4. QueueOK'
  <2>1. Range(<<>>) = {} /\ IsInjective(<<>>)
    BY DEF Range, IsInjective
  <2>2. calls' = 1 => calls = 1 /\ ~Over
    BY <1>1, <1>3, MaxCallsAssumption
  <2> QED BY <1>1, <1>2, <2>1, <2>2 DEF QueueOK, Over
<1>5. queue' \in Seq(SUBSET Constraint)
  <2>1. queue \in Seq(SUBSET Constraint) /\ <<>> \in Seq(SUBSET Constraint)
    BY DEF TypeOKP
  <2> QED BY <1>1, <2>1
<1> QED BY <1>1, <1>2, <1>3, <1>4, <1>5 DEF TypeOKP

\* A lookahead starts with the check that is needed, and ends with its future.
LEMMA PoolLookaheadEnds ==
    ASSUME NoRepetition, PoolInv, TableInv, StartLookahead \/ StopLookingAhead \/ EndLookahead,
           TypeOK', WithinTask'
    PROVE  PoolInv'
<1> USE DEF PoolInv
<1>1. /\ cpus' = cpus /\ calls' = calls /\ table' = table /\ UNCHANGED vars
      /\ (queue' = queue) \/ (queue' = <<>> /\ mode' = "failed")
      /\ ~Over /\ pc = "call"
      /\ mode' \in {"lookahead", "wait", "failed"}
  <2> USE DEF machine, pool, Over, Entered, TableInv, LookUpOK
  <2>1. CASE StartLookahead
    BY <2>1 DEF StartLookahead
  <2>2. CASE StopLookingAhead
    BY <2>2 DEF StopLookingAhead
  <2>3. CASE EndLookahead
    BY <2>3 DEF EndLookahead
  <2> QED BY <2>1, <2>2, <2>3
<1>2. Known' = Known /\ Pending' = Pending
  BY <1>1 DEF Known, Pending
<1>3. QueueOK'
  <2>1. Range(<<>>) = {} /\ IsInjective(<<>>)
    BY DEF Range, IsInjective
  <2> QED BY <1>1, <1>2, <2>1 DEF QueueOK, Over
<1>4. count' \in 0 .. 4 /\ todo' \in Seq(Look)
  <2>1. CASE StartLookahead
    <3>1. task.c \in Seq(Constraint) /\ IsInjective(task.c)
      BY TaskTypes DEF TypeOKP, TypeOK, WithinTask, NoRepetition
    <3>2. /\ arg.delta \in SUBSET SetC(task) /\ arg.c \in Seq(Constraint)
          /\ arg.b \in SUBSET Constraint
      BY <1>1 DEF WithinTask, TypeOKP, TypeOK, Arg
    <3>3. InOrder(arg.delta) \in Seq(Constraint)
      BY <3>1, <3>2, InOrderIsList
    <3>4. \A x \in Seq(Constraint) : <<x>> \in Seq(Seq(Constraint))
      OBVIOUS
    <3>5. [c |-> arg.c, b |-> arg.b, delta |-> <<InOrder(arg.delta)>>] \in Look
      BY <3>2, <3>3, <3>4 DEF Look
    <3>6. \A x \in Look : <<x>> \in Seq(Look)
      OBVIOUS
    <3> QED BY <2>1, <3>5, <3>6 DEF StartLookahead, FirstCount
  <2>2. CASE StopLookingAhead
    BY <2>2, HeadTailProperties DEF StopLookingAhead, TypeOKP
  <2>3. CASE EndLookahead
    BY <2>3 DEF EndLookahead, TypeOKP
  <2> QED BY <2>1, <2>2, <2>3
<1>5. TypeOKP'
  <2>1. queue \in Seq(SUBSET Constraint) /\ <<>> \in Seq(SUBSET Constraint)
    BY DEF TypeOKP
  <2>2. queue' \in Seq(SUBSET Constraint)
    BY <1>1, <2>1
  <2> QED BY <1>1, <1>2, <1>4, <2>2 DEF TypeOKP
<1> QED BY <1>3, <1>5

\* A check that is not in the table is not in the queue either.
LEMMA PoolLookAhead ==
    ASSUME PoolInv, LookAhead, TypeOK', WithinTask'
    PROVE  PoolInv'
<1> USE DEF PoolInv
<1> DEFINE look == Head(todo)
           key == Key(look.b, look.c)
<1>1. /\ cpus' = cpus /\ calls' = calls /\ UNCHANGED vars
      /\ mode = "lookahead" /\ mode' = "lookahead"
      /\ todo # <<>> /\ count < MaxNumGenCC
      /\ todo' = IfConsistent(look, Known \cup {key}) \o IfInconsistent(look) \o Tail(todo)
  BY DEF LookAhead, machine
<1>2. look \in Look /\ Tail(todo) \in Seq(Look)
  BY <1>1, HeadTailProperties DEF TypeOKP
<1>3. /\ key \in SUBSET Constraint
      /\ IfConsistent(look, Known \cup {key}) \in Seq(Look)
      /\ IfInconsistent(look) \in Seq(Look)
  BY <1>2, NextLooksType
<1>4. todo' \in Seq(Look)
  <2>1. IfConsistent(look, Known \cup {key}) \o IfInconsistent(look) \in Seq(Look)
    BY <1>3, ConcatProperties
  <2> QED BY <1>1, <1>2, <2>1, ConcatProperties
<1>5. \/ key \in Known /\ UNCHANGED <<count, table, queue>>
      \/ /\ key \notin Known
         /\ count' = count + 1
         /\ table' = [k \in Known \cup {key} |-> IF k \in Known THEN table[k] ELSE "pending"]
         /\ queue' = Append(queue, key)
  BY DEF LookAhead
<1>6. count' \in 0 .. 4
  <2>1. cpus \in Nat /\ count \in 0 .. 4
    BY CpusAssumption DEF TypeOKP
  <2>2. count < 4
    BY <1>1, <2>1 DEF MaxNumGenCC
  <2> QED BY <1>5, <2>1, <2>2
<1>7. Over' = Over
  BY <1>1 DEF Over, vars
<1> HIDE DEF key, look
<1>8. CASE key \in Known
  <2>1. Known' = Known /\ Pending' = Pending /\ UNCHANGED <<table, queue>>
    BY <1>5, <1>8 DEF Known, Pending
  <2>2. TypeOKP'
    BY <1>1, <1>4, <1>6, <2>1 DEF TypeOKP
  <2>3. QueueOK'
    BY <1>1, <1>7, <2>1 DEF QueueOK
  <2> QED BY <2>2, <2>3
<1>9. CASE key \notin Known
  <2>1. /\ Known' = Known \cup {key}
        /\ \A k \in Known' : table'[k] = IF k \in Known THEN table[k] ELSE "pending"
    BY <1>5, <1>9 DEF Known
  <2>2. Pending' = Pending \cup {key}
    BY <1>9, <2>1 DEF Pending
  <2>3. PICK n \in Nat : Len(queue) = n
    BY LenProperties DEF TypeOKP
  <2>4. /\ queue' \in Seq(SUBSET Constraint) /\ Len(queue') = n + 1
        /\ \A i \in 1 .. n : queue'[i] = queue[i]
        /\ queue'[n + 1] = key
    <3>1. queue \in Seq(SUBSET Constraint) /\ queue' = Append(queue, key)
      BY <1>5, <1>9 DEF TypeOKP
    <3>2. key \in SUBSET Constraint
      BY <1>3
    <3> QED BY <2>3, <3>1, <3>2, AppendProperties
  <2>5. /\ DOMAIN queue = 1 .. n /\ DOMAIN queue' = 1 .. n + 1
        /\ \A i \in 1 .. n + 1 : i \in 1 .. n \/ i = n + 1
        /\ 1 .. n \subseteq 1 .. n + 1 /\ n + 1 \in 1 .. n + 1
    BY <2>3, <2>4, LenProperties DEF TypeOKP
  <2>6. Range(queue') = Range(queue) \cup {key}
    BY <2>4, <2>5 DEF Range
  <2>7. key \notin Range(queue)
    BY <1>9 DEF QueueOK, Pending
  <2>8. \A i \in 1 .. n : queue[i] # key
    BY <2>5, <2>7 DEF Range
  <2>9. IsInjective(queue')
    BY <2>4, <2>5, <2>8 DEF IsInjective, QueueOK
  <2>10. QueueOK'
    BY <1>1, <1>7, <2>2, <2>6, <2>9 DEF QueueOK
  <2>11. TypeOKP'
    BY <1>1, <1>3, <1>4, <1>6, <2>1, <2>4 DEF TypeOKP
  <2> QED BY <2>10, <2>11
<1> QED BY <1>8, <1>9

\* A worker that answers takes its check out of the queue.
LEMMA PoolAnswers ==
    ASSUME PoolInv, NEW i, Answer(i), TypeOK', WithinTask'
    PROVE  PoolInv'
<1> USE DEF PoolInv
<1>1. /\ UNCHANGED <<cpus, calls, vars, mode, count, todo>>
      /\ i \in 1 .. Len(queue)
      /\ table' = [table EXCEPT ![queue[i]] = Verdict(queue[i])]
      /\ queue' = RemoveAt(queue, i)
  BY DEF Answer, machine, lookahead
<1>2. /\ queue' \in Seq(SUBSET Constraint)
      /\ IsInjective(queue')
      /\ Range(queue') = Range(queue) \ {queue[i]}
  BY <1>1, RemoveAtProperties DEF TypeOKP, QueueOK
<1>3. queue[i] \in Known
  <2>1. queue[i] \in Range(queue)
    BY <1>1, LenProperties DEF Range, TypeOKP
  <2> QED BY <2>1 DEF QueueOK, Pending
<1>4. Verdict(queue[i]) \in {"yes", "no"}
  BY DEF Verdict
<1>5. /\ Known' = Known
      /\ \A k \in Known : table'[k] = IF k = queue[i] THEN Verdict(queue[i]) ELSE table[k]
  BY <1>1 DEF Known
<1>6. Pending' = Pending \ {queue[i]}
  BY <1>4, <1>5 DEF Pending
<1>7. QueueOK'
  BY <1>1, <1>2, <1>6 DEF QueueOK, Over, vars
<1>8. TypeOKP'
  BY <1>1, <1>2, <1>4, <1>5 DEF TypeOKP
<1> QED BY <1>7, <1>8

LEMMA PoolStep ==
    NoRepetition /\ TableInv /\ Contracts /\ PoolInv /\ [NextP]_varsP
        => (Contracts' => PoolInv')
<1> SUFFICES ASSUME NoRepetition, TableInv, PoolInv, [NextP]_varsP, TypeOK'
             PROVE  PoolInv'
  BY DEF Contracts
<1>1. WithinTask'
  BY WithinTaskStepP DEF PoolInv, TypeOKP
<1>2. CASE UNCHANGED varsP
  BY <1>1, <1>2 DEF varsP, vars, machine, lookahead, pool, PoolInv, TypeOKP, QueueOK, Pending,
                    Known, Over
<1>3. CASE NextP
  BY <1>1, <1>3, PoolSearchSteps, PoolLookaheadEnds, PoolLookAhead, PoolAnswers DEF NextP, Step
<1> QED BY <1>2, <1>3

\* For lists without repetition: a check is given to the pool once, and one that
\* somebody waits for in the first call is still with the pool, so that nothing
\* but a worker stands between the caller and its answer (lookup_CC, fastdiagp.py).
THEOREM PoolServes == NoRepetition /\ SpecP => []ChecksAreServed
<1> SUFFICES ASSUME NoRepetition
             PROVE  SpecP => []ChecksAreServed
  OBVIOUS
<1>1. TableInv /\ Contracts /\ PoolInv /\ [NextP]_varsP => (Contracts' => PoolInv')
  BY PoolStep
<1>2. TableInv /\ PoolInv => ChecksAreServed
  <2> SUFFICES ASSUME TableInv, PoolInv
               PROVE  ChecksAreServed
    OBVIOUS
  <2>1. mode = "wait" => Wanted \in Known /\ ~Over
    BY DEF TableInv, LookUpOK, Over
  <2> QED BY <2>1 DEF PoolInv, QueueOK, Pending, ChecksAreServed
<1> QED BY InitPool, <1>1, <1>2, TableHolds, ContractsHold, PTL DEF SpecP
=============================================================================
