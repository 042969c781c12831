---------------------- MODULE TasksAndOperationsProofs ----------------------
(* What becomes of the inputs of a task, for every source, configuration    *)
(* and suite; and what an operation holds and what its results are, for any *)
(* number of executions, of checks and of limits.                           *)
(*                                                                          *)
(* The invariant of preparation says that ids are handed out in their order, *)
(* from one above everything that the knowledge base uses (IdsInOrder), and  *)
(* that they are listed by what they were given for (BlocksApart).  A second *)
(* one says what the clauses mean (MeaningInv): an assignment satisfies them *)
(* exactly if it meets the demands of the assumptions it makes true.  With   *)
(* the lemma that a search by branching finds a model if there is one, that  *)
(* is what a check answers.  The invariant of operations says what is held   *)
(* in each phase of execute.                                                 *)
EXTENDS TaskPreparation, Operations, ConstraintsProofs, FiniteSetTheorems

(* Clauses and their negations.                                             *)

\* A literal and its negation have the same variable, a number that is not negative.
LEMMA VariableOfNegation ==
  ASSUME NEW l \in Int
  PROVE  Variable(l) \in Nat /\ Variable(-l) = Variable(l) /\ (l >= 0 => Variable(l) = l)
BY DEF Variable

\* The variables of a set of clauses are those of its literals.
LEMMA VariablesOfClauses ==
  ASSUME NEW K, NEW c \in K, NEW l \in c
  PROVE  Variable(l) \in VariablesOf(K)
BY DEF VariablesOf

\* The auxiliary variables of a negation are the next numbers, and are counted
\* (negate_cnf_tseitin's tseitin_vars and next_tseitin_var, utils.py:102-112).
LEMMA AuxiliaryCounted ==
  ASSUME NEW cs \in Seq(SUBSET Int), NEW t \in Nat
  PROVE  /\ Auxiliary(cs, t) \in SUBSET Nat
         /\ Cardinality(Auxiliary(cs, t)) \in Nat
         /\ \A v \in Auxiliary(cs, t) : t <= v /\ v < t + Cardinality(Auxiliary(cs, t))
<1>1. PICK n \in Nat : Len(cs) = n
  BY LenProperties
<1>2. CASE n > 1
  <2>1. Auxiliary(cs, t) = t .. t + n - 1
    BY <1>1, <1>2 DEF Auxiliary
  <2>2. Cardinality(t .. t + n - 1) = n
    <3>1. t \in Int /\ t + n - 1 \in Int /\ ~(t > t + n - 1) /\ (t + n - 1) - t + 1 = n
      BY <1>2
    <3> QED
      BY <3>1, FS_Interval
  <2> QED
    BY <2>1, <2>2
<1>3. CASE ~(n > 1)
  <2>1. Auxiliary(cs, t) = {}
    BY <1>1, <1>3 DEF Auxiliary
  <2>2. Cardinality({}) = 0
    BY FS_EmptySet
  <2> QED
    BY <2>1, <2>2
<1> QED
  BY <1>2, <1>3

\* The negation of a constraint uses the constraint's variables and the auxiliary
\* ones, and no other (negate_cnf_tseitin, utils.py:91-127).
LEMMA VariablesOfNegated ==
  ASSUME NEW cs \in Seq(SUBSET Int), NEW t \in Nat
  PROVE  /\ Negated(cs, t) \in SUBSET SUBSET Int
         /\ VariablesOf(Negated(cs, t)) \subseteq VariablesOf(Range(cs)) \cup Auxiliary(cs, t)
<1> DEFINE known == VariablesOf(Range(cs)) \cup Auxiliary(cs, t)
<1>1. PICK n \in Nat : Len(cs) = n /\ DOMAIN cs = 1 .. n
  BY LenProperties
<1>2. \A i \in 1 .. n : cs[i] \in SUBSET Int /\ cs[i] \in Range(cs)
  BY <1>1, ElementOfSeq DEF Range
<1>3. \A i \in 1 .. n : \A l \in cs[i] :
        l \in Int /\ -l \in Int /\ Variable(l) \in known /\ Variable(-l) \in known
  BY <1>2, VariableOfNegation, VariablesOfClauses
<1>4. ASSUME \A c \in Negated(cs, t) : c \in SUBSET Int /\ \A l \in c : Variable(l) \in known
      PROVE  /\ Negated(cs, t) \in SUBSET SUBSET Int
             /\ VariablesOf(Negated(cs, t)) \subseteq known
  <2> HIDE DEF known
  <2> QED
    BY <1>4 DEF VariablesOf
<1> SUFFICES \A c \in Negated(cs, t) : c \in SUBSET Int /\ \A l \in c : Variable(l) \in known
  BY <1>4
<1>5. CASE cs = <<>>
  BY <1>5 DEF Negated
<1>6. CASE cs # <<>> /\ n = 1
  <2>1. Negated(cs, t) = {{-l} : l \in cs[1]}
    BY <1>1, <1>6 DEF Negated
  <2>2. 1 \in 1 .. n
    BY <1>6
  <2> HIDE DEF known
  <2> QED
    BY <2>1, <2>2, <1>3
<1>7. CASE cs # <<>> /\ n # 1
  <2>1. n > 1
    BY <1>1, <1>7, EmptySeq
  <2>2. Auxiliary(cs, t) = t .. t + n - 1
    BY <1>1, <2>1 DEF Auxiliary
  <2> DEFINE D == UNION {Defined(t + i - 1, cs[i]) : i \in 1 .. n}
  <2>3. Negated(cs, t) = D \cup {Auxiliary(cs, t)}
    BY <1>1, <1>7 DEF Negated
  <2>4. \A v \in t .. t + n - 1 :
          v \in Int /\ -v \in Int /\ Variable(v) \in known /\ Variable(-v) \in known
    <3>1. \A v \in t .. t + n - 1 : v \in Int /\ v >= 0
      OBVIOUS
    <3> QED
      BY <3>1, <2>2, VariableOfNegation
  <2>5. ASSUME NEW i \in 1 .. n, NEW c \in Defined(t + i - 1, cs[i])
        PROVE  c \in SUBSET Int /\ \A l \in c : Variable(l) \in known
    <3>1. t + i - 1 \in t .. t + n - 1
      OBVIOUS
    <3>2. PICK v \in t .. t + n - 1 : v = t + i - 1
      BY <3>1
    <3>3. (\E l \in cs[i] : c = {-v, -l}) \/ c = cs[i] \cup {v}
      BY <2>5, <3>2 DEF Defined
    <3> HIDE DEF known
    <3> QED
      BY <3>3, <2>4, <1>3, <1>2
  <2>6. CASE TRUE
    <3> HIDE DEF known
    <3>1. ASSUME NEW c \in Negated(cs, t)
          PROVE  c \in SUBSET Int /\ \A l \in c : Variable(l) \in known
      <4>1. (\E i \in 1 .. n : c \in Defined(t + i - 1, cs[i])) \/ c = Auxiliary(cs, t)
        <5>1. c \in D => \E i \in 1 .. n : c \in Defined(t + i - 1, cs[i])
          BY Zenon
        <5> HIDE DEF D
        <5> QED
          BY <5>1, <2>3
      <4>2. CASE c = Auxiliary(cs, t)
        BY <4>2, <2>2, <2>4
      <4> QED
        BY <4>1, <4>2, <2>5
    <3> QED
      BY <3>1
  <2> QED
    BY <2>6
<1> QED
  BY <1>1, <1>5, <1>6, <1>7

----------------------------------------------------------------------------
(* What a solver answers.                                                   *)

Literals == Int \ {0}

\* A formula uses literals of finitely many variables.
Formula(K) == \E n \in Nat : K \subseteq SUBSET ((-n .. n) \ {0})

Satisfied(A, K) == \A c \in K : \E l \in c : Asserts(A, l)

HasModel(K) == \E A \in SUBSET Int : Satisfied(A, K)

\* An assignment asserts a literal or its negation.
LEMMA OneOfTwo ==
  ASSUME NEW l \in Literals, NEW A
  PROVE  -l \in Literals /\ -(-l) = l /\ l # -l /\ (Asserts(A, -l) <=> ~Asserts(A, l))
BY DEF Literals, Asserts

\* A model of what is left after a literal is assigned becomes one of the clauses.
LEMMA ModelOfBranch ==
  ASSUME NEW l \in Literals, NEW K \in SUBSET SUBSET Literals, HasModel(Assign(K, l))
  PROVE  HasModel(K)
<1>1. PICK A \in SUBSET Int : Satisfied(A, Assign(K, l))
  BY DEF HasModel
<1> DEFINE B == IF l > 0 THEN A \cup {l} ELSE A \ {-l}
<1>2. B \in SUBSET Int /\ Asserts(B, l)
  BY DEF Literals, Asserts
<1>3. \A x \in Literals \ {l, -l} : Asserts(A, x) => Asserts(B, x)
  BY DEF Literals, Asserts
<1> HIDE DEF B
<1>4. ASSUME NEW d \in K PROVE \E x \in d : Asserts(B, x)
  <2>1. CASE l \in d
    BY <2>1, <1>2
  <2>2. CASE l \notin d
    <3>1. d \ {-l} \in Assign(K, l)
      BY <2>2 DEF Assign
    <3>2. PICK x \in d \ {-l} : Asserts(A, x)
      BY <3>1, <1>1 DEF Satisfied
    <3>3. x \in Literals \ {l, -l}
      BY <2>2
    <3> QED
      BY <3>2, <3>3, <1>3
  <2> QED
    BY <2>1, <2>2
<1> QED
  BY <1>2, <1>4 DEF HasModel, Satisfied

\* A model that asserts a literal is one of what is left after it is assigned.
LEMMA BranchOfModel ==
  ASSUME NEW l \in Literals, NEW K \in SUBSET SUBSET Literals,
         NEW A \in SUBSET Int, Satisfied(A, K), Asserts(A, l)
  PROVE  HasModel(Assign(K, l))
<1>1. ASSUME NEW c \in Assign(K, l) PROVE \E x \in c : Asserts(A, x)
  <2>1. PICK d \in K : l \notin d /\ c = d \ {-l}
    BY DEF Assign
  <2>2. PICK x \in d : Asserts(A, x)
    BY DEF Satisfied
  <2>3. x # -l
    BY <2>2, OneOfTwo
  <2> QED
    BY <2>1, <2>2, <2>3
<1> QED
  BY <1>1 DEF HasModel, Satisfied

\* Branching on a literal of a clause is right; for a clause of one literal there is
\* one branch (Satisfiable).
LEMMA BranchingIsRight ==
  ASSUME NEW K \in SUBSET SUBSET Literals, NEW c \in K, NEW l \in c
  PROVE  HasModel(K) <=> HasModel(Assign(K, l)) \/ (c # {l} /\ HasModel(Assign(K, -l)))
<1>1. l \in Literals /\ -l \in Literals
  BY OneOfTwo
<1>2. ASSUME HasModel(K), ~HasModel(Assign(K, l))
      PROVE  c # {l} /\ HasModel(Assign(K, -l))
  <2>1. PICK A \in SUBSET Int : Satisfied(A, K)
    BY <1>2 DEF HasModel
  <2>2. ~Asserts(A, l)
    BY <1>1, <1>2, <2>1, BranchOfModel
  <2>3. Asserts(A, -l)
    BY <1>1, <2>2, OneOfTwo
  <2>4. HasModel(Assign(K, -l))
    BY <1>1, <2>1, <2>3, BranchOfModel
  <2>5. c # {l}
    BY <2>1, <2>2 DEF Satisfied
  <2> QED
    BY <2>4, <2>5
<1>3. HasModel(Assign(K, l)) \/ HasModel(Assign(K, -l)) => HasModel(K)
  BY <1>1, ModelOfBranch
<1> QED
  BY <1>2, <1>3

\* One step of the search, by a function that answers for smaller formulas.
BranchAnswer(sat, K) ==
    IF K = {} THEN TRUE
    ELSE IF {} \in K THEN FALSE
    ELSE LET l == CHOOSE x \in Shortest(K) : TRUE IN
         \/ sat[Assign(K, l)]
         \/ Shortest(K) # {l} /\ sat[Assign(K, -l)]

\* Among clauses of finitely many literals there is a shortest one.
LEMMA ShortestExists ==
  ASSUME NEW L, IsFiniteSet(L), NEW K \in SUBSET SUBSET L, K # {}
  PROVE  Shortest(K) \in K
<1> DEFINE P == {Cardinality(c) : c \in K}
<1>1. \A c \in K : Cardinality(c) \in Nat
  BY FS_Subset, FS_CardinalityType
<1>2. P \in SUBSET Nat /\ P # {}
  BY <1>1
<1>3. PICK n \in P : \A m \in P : n <= m
  BY <1>2, LeastElement
<1>4. PICK c \in K : Cardinality(c) = n
  BY <1>3
<1>5. \A d \in K : Cardinality(c) <= Cardinality(d)
  BY <1>3, <1>4
<1> QED
  BY <1>4, <1>5 DEF Shortest

\* What is left after a literal is assigned uses fewer literals.
LEMMA BranchIsSmaller ==
  ASSUME NEW L, IsFiniteSet(L), NEW K \in SUBSET SUBSET L, NEW l \in UNION K,
         NEW x \in {l, -l}, l \in Literals
  PROVE  /\ Assign(K, x) \in SUBSET SUBSET L
         /\ Cardinality(UNION Assign(K, x)) \in Nat
         /\ Cardinality(UNION K) \in Nat
         /\ Cardinality(UNION Assign(K, x)) < Cardinality(UNION K)
<1>1. Assign(K, x) \in SUBSET SUBSET L
  BY DEF Assign
<1>2. UNION Assign(K, x) \subseteq UNION K
  BY DEF Assign
<1>3. l \notin UNION Assign(K, x)
  <2>1. x = l \/ -x = l
    BY OneOfTwo
  <2> QED
    BY <2>1 DEF Assign
<1>4. IsFiniteSet(UNION K)
  <2>1. UNION K \in SUBSET L
    OBVIOUS
  <2> QED
    BY <2>1, FS_Subset
<1>5. IsFiniteSet(UNION Assign(K, x))
  BY <1>2, <1>4, FS_Subset
<1>6. /\ Cardinality(UNION Assign(K, x)) <= Cardinality(UNION K)
      /\ Cardinality(UNION Assign(K, x)) # Cardinality(UNION K)
  <2>1. UNION Assign(K, x) \in SUBSET UNION K
    BY <1>2
  <2>2. UNION Assign(K, x) # UNION K
    BY <1>3
  <2> QED
    BY <2>1, <2>2, <1>4, FS_Subset
<1>7. Cardinality(UNION K) \in Nat /\ Cardinality(UNION Assign(K, x)) \in Nat
  BY <1>4, <1>5, FS_CardinalityType
<1> QED
  BY <1>1, <1>6, <1>7

\* A step of the search that is right for what is left is right for the whole.
LEMMA BranchAnswerIsRight ==
  ASSUME NEW L \in SUBSET Literals, IsFiniteSet(L), NEW K \in SUBSET SUBSET L, NEW f,
         \A J \in SUBSET SUBSET L :
            Cardinality(UNION J) < Cardinality(UNION K) => f[J] = HasModel(J)
  PROVE  BranchAnswer(f, K) = HasModel(K)
<1>1. CASE K = {}
  <2>1. Satisfied({}, K) /\ {} \in SUBSET Int
    BY <1>1 DEF Satisfied
  <2>2. HasModel(K)
    BY <2>1 DEF HasModel
  <2> QED
    BY <1>1, <2>2 DEF BranchAnswer
<1>2. CASE K # {} /\ {} \in K
  <2>1. HasModel(K) = FALSE
    BY <1>2 DEF HasModel, Satisfied
  <2>2. BranchAnswer(f, K) = FALSE
    BY <1>2 DEF BranchAnswer
  <2> QED
    BY <2>1, <2>2
<1>3. CASE K # {} /\ {} \notin K
  <2> DEFINE c == Shortest(K)
             l == CHOOSE x \in c : TRUE
  <2>1. c \in K
    BY <1>3, ShortestExists
  <2>2. l \in c
    BY <1>3, <2>1
  <2>3. BranchAnswer(f, K) = (f[Assign(K, l)] \/ (c # {l} /\ f[Assign(K, -l)]))
    BY <1>3 DEF BranchAnswer
  <2> HIDE DEF c, l
  <2>4. l \in UNION K /\ l \in Literals
    BY <2>1, <2>2
  <2>5. \A x \in {l, -l} : f[Assign(K, x)] = HasModel(Assign(K, x))
    BY <2>4, BranchIsSmaller
  <2>6. K \in SUBSET SUBSET Literals
    OBVIOUS
  <2>7. HasModel(K) <=> HasModel(Assign(K, l)) \/ (c # {l} /\ HasModel(Assign(K, -l)))
    BY <2>1, <2>2, <2>6, BranchingIsRight
  <2>8. HasModel(K) \in BOOLEAN
    BY DEF HasModel
  <2> QED
    BY <2>3, <2>5, <2>7, <2>8
<1> QED
  BY <1>1, <1>2, <1>3

\* The search by branching finds whether the clauses have a model, whatever they are
\* (the solvers behind SolverBackend).
THEOREM SolverIsRight ==
  ASSUME NEW K, Formula(K)
  PROVE  Satisfiable(K) = HasModel(K)
<1> DEFINE L == UNION K
           D == SUBSET SUBSET L
<1>1. L \in SUBSET Literals /\ IsFiniteSet(L) /\ K \in D
  <2>1. PICK n \in Nat : K \subseteq SUBSET ((-n .. n) \ {0})
    BY DEF Formula
  <2>2. IsFiniteSet(-n .. n)
    <3>1. -n \in Int /\ n \in Int
      OBVIOUS
    <3> QED
      BY <3>1, FS_Interval
  <2>3. L \subseteq (-n .. n) \ {0}
    BY <2>1
  <2>4. IsFiniteSet(L)
    BY <2>2, <2>3, FS_Subset
  <2> QED
    BY <2>3, <2>4 DEF Literals
<1> DEFINE S == CHOOSE f : f = [J \in D |-> BranchAnswer(f, J)]
<1>2. Satisfiable(K) = S[K]
  BY DEF Satisfiable, BranchAnswer
<1> HIDE DEF L
<1>3. S = [J \in D |-> BranchAnswer(S, J)]
  <2> DEFINE f == [J \in D |-> HasModel(J)]
  <2>1. \A J \in D : BranchAnswer(f, J) = HasModel(J)
    <3>1. \A J \in D : f[J] = HasModel(J)
      OBVIOUS
    <3> HIDE DEF f
    <3> SUFFICES ASSUME NEW J \in D PROVE BranchAnswer(f, J) = HasModel(J)
      OBVIOUS
    <3>2. J \in SUBSET SUBSET L
      OBVIOUS
    <3>3. \A I \in SUBSET SUBSET L :
            Cardinality(UNION I) < Cardinality(UNION J) => f[I] = HasModel(I)
      BY <3>1
    <3> QED
      BY <1>1, <3>2, <3>3, BranchAnswerIsRight
  <2>2. f = [J \in D |-> BranchAnswer(f, J)]
    BY <2>1
  <2> HIDE DEF f
  <2> QED
    BY <2>2
<1> HIDE DEF S
<1>4. \A J \in D : Cardinality(UNION J) \in Nat
  <2>1. \A J \in D : UNION J \in SUBSET L
    OBVIOUS
  <2> QED
    BY <2>1, <1>1, FS_Subset, FS_CardinalityType
<1>5. \A J \in D : S[J] = HasModel(J)
  <2> DEFINE P == {n \in Nat : \E J \in D : Cardinality(UNION J) = n /\ S[J] # HasModel(J)}
  <2>1. CASE P = {}
    BY <2>1, <1>4
  <2>2. CASE P # {}
    <3>1. PICK n \in P : \A m \in P : n <= m
      <4>1. P \in SUBSET Nat
        OBVIOUS
      <4> QED
        BY <2>2, <4>1, LeastElement
    <3>2. PICK J \in D : Cardinality(UNION J) = n /\ S[J] # HasModel(J)
      BY <3>1
    <3>3. \A I \in D : Cardinality(UNION I) < Cardinality(UNION J) => S[I] = HasModel(I)
      <4> SUFFICES ASSUME NEW I \in D, Cardinality(UNION I) < n, S[I] # HasModel(I)
                   PROVE  FALSE
        BY <3>2
      <4>1. Cardinality(UNION I) \in P
        BY <1>4
      <4>2. n <= Cardinality(UNION I) /\ n \in Nat /\ Cardinality(UNION I) \in Nat
        BY <3>1, <4>1
      <4> QED
        BY <4>2
    <3>4. BranchAnswer(S, J) = HasModel(J)
      BY <3>3, <1>1, BranchAnswerIsRight
    <3> QED
      BY <1>3, <3>2, <3>4
  <2> QED
    BY <2>1, <2>2
<1> QED
  BY <1>1, <1>2, <1>5

----------------------------------------------------------------------------
(* Guards, selections and negations.                                        *)

\* Assignments that agree on the variable of a literal agree on the literal.
LEMMA SameLiteral ==
  ASSUME NEW l \in Literals, NEW A, NEW B, Variable(l) \in A <=> Variable(l) \in B
  PROVE  Asserts(A, l) <=> Asserts(B, l)
BY DEF Literals, Variable, Asserts

\* Assignments that agree on the variables of a formula agree on the formula.
LEMMA SameFormula ==
  ASSUME NEW K \in SUBSET SUBSET Literals, NEW A, NEW B,
         \A v \in VariablesOf(K) : v \in A <=> v \in B
  PROVE  Satisfied(A, K) <=> Satisfied(B, K)
<1>1. \A c \in K : \A l \in c : Asserts(A, l) <=> Asserts(B, l)
  BY VariablesOfClauses, SameLiteral
<1> QED
  BY <1>1 DEF Satisfied

\* A guarded formula counts while its assumption is true.
LEMMA GuardMeans ==
  ASSUME NEW K, NEW id \in Nat \ {0}, NEW A
  PROVE  Satisfied(A, Guarded(K, id)) <=> (id \in A => Satisfied(A, K))
<1>1. Asserts(A, -id) <=> id \notin A
  BY DEF Asserts
<1>2. \A c \in K : (\E l \in c \cup {-id} : Asserts(A, l)) <=> (\E l \in c : Asserts(A, l)) \/ id \notin A
  BY <1>1
<1>3. Satisfied(A, Guarded(K, id)) <=> \A c \in K : \E l \in c \cup {-id} : Asserts(A, l)
  BY DEF Satisfied, Guarded
<1> QED
  BY <1>2, <1>3 DEF Satisfied

\* Unit clauses hold exactly if each of their literals does.
LEMMA UnitsAssert ==
  ASSUME NEW A, NEW S
  PROVE  Satisfied(A, Units(S)) <=> \A l \in S : Asserts(A, l)
<1>1. ASSUME Satisfied(A, Units(S)), NEW l \in S PROVE Asserts(A, l)
  <2>1. {l} \in Units(S)
    BY DEF Units
  <2> QED
    BY <1>1, <2>1 DEF Satisfied
<1>2. ASSUME \A l \in S : Asserts(A, l), NEW c \in Units(S) PROVE \E l \in c : Asserts(A, l)
  <2>1. PICK l \in S : c = {l}
    BY DEF Units
  <2> QED
    BY <1>2, <2>1
<1> QED
  BY <1>1, <1>2 DEF Satisfied

\* The units of ids select them, and those of their negations deny them.
LEMMA UnitsMean ==
  ASSUME NEW A, NEW S \in SUBSET (Nat \ {0})
  PROVE  /\ Satisfied(A, Units(S)) <=> S \subseteq A
         /\ Satisfied(A, Units({-id : id \in S})) <=> S \cap A = {}
<1>1. \A id \in S : (Asserts(A, id) <=> id \in A) /\ (Asserts(A, -id) <=> id \notin A)
  BY DEF Asserts
<1>2. Satisfied(A, Units(S)) <=> \A id \in S : Asserts(A, id)
  BY UnitsAssert
<1>3. Satisfied(A, Units({-id : id \in S})) <=> \A id \in S : Asserts(A, -id)
  <2>1. (\A l \in {-id : id \in S} : Asserts(A, l)) <=> \A id \in S : Asserts(A, -id)
    OBVIOUS
  <2> QED
    BY <2>1, UnitsAssert
<1> QED
  BY <1>1, <1>2, <1>3

\* A formula uses literals whose variables are between 1 and a bound.
LEMMA FormulaByVariables ==
  ASSUME NEW K \in SUBSET SUBSET Int, NEW n \in Nat, VariablesOf(K) \subseteq 1 .. n
  PROVE  Formula(K)
<1>1. ASSUME NEW c \in K, NEW l \in c PROVE l \in (-n .. n) \ {0}
  <2>1. l \in Int /\ Variable(l) \in 1 .. n
    BY VariablesOfClauses
  <2> QED
    BY <2>1 DEF Variable
<1> QED
  BY <1>1 DEF Formula

\* The literals of a formula have variables between 1 and a bound.
LEMMA VariablesOfFormula ==
  ASSUME NEW K, Formula(K)
  PROVE  /\ K \in SUBSET SUBSET Literals
         /\ \E n \in Nat : VariablesOf(K) \subseteq 1 .. n
<1>1. PICK n \in Nat : K \subseteq SUBSET ((-n .. n) \ {0})
  BY DEF Formula
<1>2. \A l \in (-n .. n) \ {0} : l \in Literals /\ Variable(l) \in 1 .. n
  BY DEF Literals, Variable
<1> QED
  BY <1>1, <1>2 DEF VariablesOf

\* Two formulas are one together.
LEMMA FormulaOfBoth ==
  ASSUME NEW K, Formula(K), NEW J, Formula(J)
  PROVE  Formula(K \cup J)
<1>1. PICK n \in Nat : K \subseteq SUBSET ((-n .. n) \ {0})
  BY DEF Formula
<1>2. PICK m \in Nat : J \subseteq SUBSET ((-m .. m) \ {0})
  BY DEF Formula
<1>3. CASE n <= m
  <2>1. (-n .. n) \ {0} \subseteq (-m .. m) \ {0}
    BY <1>3
  <2> QED
    BY <1>1, <1>2, <2>1 DEF Formula
<1>4. CASE m <= n
  <2>1. (-m .. m) \ {0} \subseteq (-n .. n) \ {0}
    BY <1>4
  <2> QED
    BY <1>1, <1>2, <2>1 DEF Formula
<1> QED
  BY <1>3, <1>4

\* The clauses that an assumption guards are a formula.
LEMMA FormulaGuarded ==
  ASSUME NEW K, Formula(K), NEW id \in Nat \ {0}
  PROVE  Formula(Guarded(K, id))
<1>1. Formula({{-id}})
  <2>1. -id \in (-id .. id) \ {0}
    OBVIOUS
  <2> QED
    BY <2>1 DEF Formula
<1>2. Formula(K \cup {{-id}})
  BY <1>1, FormulaOfBoth
<1>3. PICK n \in Nat : K \cup {{-id}} \subseteq SUBSET ((-n .. n) \ {0})
  BY <1>2 DEF Formula
<1>4. Guarded(K, id) \subseteq SUBSET ((-n .. n) \ {0})
  <2>1. -id \in (-n .. n) \ {0}
    BY <1>3
  <2>2. ASSUME NEW c \in K PROVE c \cup {-id} \in SUBSET ((-n .. n) \ {0})
    BY <2>1, <1>3
  <2> QED
    BY <2>2 DEF Guarded
<1> QED
  BY <1>4 DEF Formula

\* Selections and denials of ids are formulas.
LEMMA FormulaOfUnits ==
  ASSUME NEW n \in Nat, NEW S \in SUBSET (1 .. n)
  PROVE  Formula(Units(S)) /\ Formula(Units({-id : id \in S}))
<1>1. \A id \in S : id \in (-n .. n) \ {0} /\ -id \in (-n .. n) \ {0}
  OBVIOUS
<1>2. Units(S) \subseteq SUBSET ((-n .. n) \ {0})
  BY <1>1 DEF Units
<1>3. Units({-id : id \in S}) \subseteq SUBSET ((-n .. n) \ {0})
  BY <1>1 DEF Units
<1> QED
  BY <1>2, <1>3 DEF Formula

\* The negation of a constraint is a formula.
LEMMA FormulaNegated ==
  ASSUME NEW cs \in Seq(SUBSET Int), Formula(Range(cs)), NEW t \in Nat \ {0}
  PROVE  Formula(Negated(cs, t))
<1>1. PICK n \in Nat : VariablesOf(Range(cs)) \subseteq 1 .. n
  BY VariablesOfFormula
<1> DEFINE k == Cardinality(Auxiliary(cs, t))
<1>2. /\ Auxiliary(cs, t) \in SUBSET Nat /\ k \in Nat
      /\ \A v \in Auxiliary(cs, t) : t <= v /\ v < t + k
  BY AuxiliaryCounted
<1>3. /\ Negated(cs, t) \in SUBSET SUBSET Int
      /\ VariablesOf(Negated(cs, t)) \subseteq VariablesOf(Range(cs)) \cup Auxiliary(cs, t)
  BY VariablesOfNegated
<1> HIDE DEF k
<1>4. n + t + k \in Nat
  BY <1>2
<1>5. \A v \in VariablesOf(Range(cs)) \cup Auxiliary(cs, t) : v \in 1 .. n + t + k
  <2>1. \A v \in 1 .. n : v \in 1 .. n + t + k
    BY <1>2
  <2>2. \A v \in Auxiliary(cs, t) : v \in 1 .. n + t + k
    BY <1>2
  <2> QED
    BY <1>1, <2>1, <2>2
<1>6. VariablesOf(Negated(cs, t)) \subseteq 1 .. n + t + k
  BY <1>3, <1>5
<1> QED
  BY <1>3, <1>4, <1>6, FormulaByVariables

\* The i-th auxiliary variable says that the i-th clause is false.
LEMMA DefinedMeans ==
  ASSUME NEW c \in SUBSET Literals, NEW v \in Nat \ {0}, NEW A
  PROVE  Satisfied(A, Defined(v, c)) <=> (v \in A <=> \A l \in c : ~Asserts(A, l))
<1>1. Asserts(A, v) <=> v \in A
  BY DEF Asserts
<1>2. Asserts(A, -v) <=> v \notin A
  BY DEF Asserts
<1>3. \A l \in c : (\E x \in {-v, -l} : Asserts(A, x)) <=> v \notin A \/ ~Asserts(A, l)
  BY <1>2, OneOfTwo
<1>4. (\E x \in c \cup {v} : Asserts(A, x)) <=> v \in A \/ \E l \in c : Asserts(A, l)
  BY <1>1
<1>5. Satisfied(A, Defined(v, c)) <=>
        /\ \A l \in c : \E x \in {-v, -l} : Asserts(A, x)
        /\ \E x \in c \cup {v} : Asserts(A, x)
  <2>1. ASSUME Satisfied(A, Defined(v, c)), NEW l \in c PROVE \E x \in {-v, -l} : Asserts(A, x)
    <3>1. {-v, -l} \in Defined(v, c)
      BY DEF Defined
    <3> QED
      BY <2>1, <3>1 DEF Satisfied
  <2>2. ASSUME Satisfied(A, Defined(v, c)) PROVE \E x \in c \cup {v} : Asserts(A, x)
    <3>1. c \cup {v} \in Defined(v, c)
      BY DEF Defined
    <3> QED
      BY <2>2, <3>1 DEF Satisfied
  <2>3. ASSUME \A l \in c : \E x \in {-v, -l} : Asserts(A, x),
               \E x \in c \cup {v} : Asserts(A, x), NEW d \in Defined(v, c)
        PROVE  \E x \in d : Asserts(A, x)
    <3>1. (\E l \in c : d = {-v, -l}) \/ d = c \cup {v}
      BY DEF Defined
    <3>2. CASE d = c \cup {v}
      BY <3>2, <2>3
    <3>3. ASSUME NEW l \in c, d = {-v, -l} PROVE \E x \in d : Asserts(A, x)
      BY <3>3, <2>3
    <3> QED
      BY <3>1, <3>2, <3>3
  <2> QED
    BY <2>1, <2>2, <2>3 DEF Satisfied
<1> QED
  BY <1>3, <1>4, <1>5

\* The negation of a list of clauses, clause by clause.
LEMMA NegatedMeans ==
  ASSUME NEW cs \in Seq(SUBSET Literals), NEW t \in Nat \ {0}, NEW A, Len(cs) > 1
  PROVE  Satisfied(A, Negated(cs, t)) <=>
           /\ \A i \in 1 .. Len(cs) : t + i - 1 \in A <=> \A l \in cs[i] : ~Asserts(A, l)
           /\ \E i \in 1 .. Len(cs) : t + i - 1 \in A
<1>1. PICK n \in Nat : Len(cs) = n /\ n > 1
  BY LenProperties
<1>2. Auxiliary(cs, t) = t .. t + n - 1
  BY <1>1 DEF Auxiliary
<1> DEFINE D == UNION {Defined(t + i - 1, cs[i]) : i \in 1 .. n}
<1>3. Negated(cs, t) = D \cup {t .. t + n - 1}
  <2>1. cs # <<>>
    BY <1>1, EmptySeq
  <2> QED
    BY <1>1, <1>2, <2>1 DEF Negated
<1>4. \A i \in 1 .. n : cs[i] \in SUBSET Literals /\ t + i - 1 \in Nat \ {0}
  BY <1>1, ElementOfSeq
<1>5. Satisfied(A, D) <=> \A i \in 1 .. n : Satisfied(A, Defined(t + i - 1, cs[i]))
  BY DEF Satisfied
<1>6. (\E l \in t .. t + n - 1 : Asserts(A, l)) <=> \E i \in 1 .. n : t + i - 1 \in A
  <2>1. \A l \in t .. t + n - 1 : (Asserts(A, l) <=> l \in A) /\ l - t + 1 \in 1 .. n /\ t + (l - t + 1) - 1 = l
    BY DEF Asserts
  <2>2. \A i \in 1 .. n : t + i - 1 \in t .. t + n - 1
    OBVIOUS
  <2> QED
    BY <2>1, <2>2
<1>7. Satisfied(A, Negated(cs, t)) <=>
        Satisfied(A, D) /\ \E l \in t .. t + n - 1 : Asserts(A, l)
  <2> HIDE DEF D
  <2> QED
    BY <1>3 DEF Satisfied
<1>8. \A i \in 1 .. n : Satisfied(A, Defined(t + i - 1, cs[i])) <=>
                        (t + i - 1 \in A <=> \A l \in cs[i] : ~Asserts(A, l))
  BY <1>4, DefinedMeans
<1> HIDE DEF D
<1> QED
  BY <1>1, <1>5, <1>6, <1>7, <1>8

\* A model of the negation is none of the constraint (negate_cnf_tseitin).
LEMMA NegationExcludes ==
  ASSUME NEW cs \in Seq(SUBSET Literals), NEW t \in Nat \ {0}, NEW A,
         Satisfied(A, Negated(cs, t))
  PROVE  ~Satisfied(A, Range(cs))
<1>1. PICK n \in Nat : Len(cs) = n /\ DOMAIN cs = 1 .. n
  BY LenProperties
<1>2. \A i \in 1 .. n : cs[i] \in SUBSET Literals /\ cs[i] \in Range(cs)
  BY <1>1, ElementOfSeq DEF Range
<1>3. CASE cs = <<>>
  BY <1>3 DEF Negated, Satisfied
<1>4. CASE cs # <<>> /\ n = 1
  <2>1. Negated(cs, t) = {{-l} : l \in cs[1]}
    BY <1>1, <1>4 DEF Negated
  <2>2. ASSUME NEW l \in cs[1] PROVE Asserts(A, -l)
    <3>1. {-l} \in Negated(cs, t)
      BY <2>1
    <3> QED
      BY <3>1 DEF Satisfied
  <2>3. \A l \in cs[1] : ~Asserts(A, l)
    BY <2>2, <1>2, <1>4, OneOfTwo
  <2> QED
    BY <2>3, <1>2, <1>4 DEF Satisfied
<1>5. CASE cs # <<>> /\ n # 1
  <2>1. n > 1
    BY <1>1, <1>5, EmptySeq
  <2>2. /\ \A i \in 1 .. n : t + i - 1 \in A <=> \A l \in cs[i] : ~Asserts(A, l)
        /\ \E i \in 1 .. n : t + i - 1 \in A
    BY <1>1, <2>1, NegatedMeans
  <2>3. PICK i \in 1 .. n : \A l \in cs[i] : ~Asserts(A, l)
    BY <2>2
  <2> QED
    BY <2>3, <1>2 DEF Satisfied
<1> QED
  BY <1>3, <1>4, <1>5

\* Where a constraint does not hold, some choice of the auxiliary variables is a model
\* of its negation (negate_cnf_tseitin).
LEMMA NegationIsModelled ==
  ASSUME NEW cs \in Seq(SUBSET Literals), NEW t \in Nat \ {0}, NEW A,
         ~Satisfied(A, Range(cs)), A \cap Auxiliary(cs, t) = {},
         VariablesOf(Range(cs)) \cap Auxiliary(cs, t) = {}
  PROVE  \E X \in SUBSET Auxiliary(cs, t) : Satisfied(A \cup X, Negated(cs, t))
<1>1. PICK n \in Nat : Len(cs) = n /\ DOMAIN cs = 1 .. n
  BY LenProperties
<1>2. \A i \in 1 .. n : cs[i] \in SUBSET Literals /\ cs[i] \in Range(cs)
  BY <1>1, ElementOfSeq DEF Range
<1>3. PICK j \in 1 .. n : \A l \in cs[j] : ~Asserts(A, l)
  BY <1>1 DEF Satisfied, Range
<1>4. cs # <<>>
  BY <1>1, <1>3
<1>5. CASE n = 1
  <2>1. Negated(cs, t) = {{-l} : l \in cs[1]}
    BY <1>1, <1>4, <1>5 DEF Negated
  <2>2. \A l \in cs[1] : Asserts(A, -l)
    BY <1>2, <1>3, <1>5, OneOfTwo
  <2>3. Satisfied(A, Negated(cs, t))
    BY <2>1, <2>2 DEF Satisfied
  <2>4. A \cup {} = A /\ {} \in SUBSET Auxiliary(cs, t)
    OBVIOUS
  <2> QED
    BY <2>3, <2>4
<1>6. CASE n # 1
  <2>1. n > 1 /\ Auxiliary(cs, t) = t .. t + n - 1
    BY <1>1, <1>3, <1>6 DEF Auxiliary
  <2> DEFINE X == {v \in t .. t + n - 1 : \A l \in cs[v - t + 1] : ~Asserts(A, l)}
             B == A \cup X
  <2>2. \A v \in t .. t + n - 1 : v \notin A /\ v \notin VariablesOf(Range(cs))
    BY <2>1
  <2>3. ASSUME NEW i \in 1 .. n, NEW l \in cs[i] PROVE Asserts(B, l) <=> Asserts(A, l)
    <3>1. l \in Literals /\ Variable(l) \in VariablesOf(Range(cs))
      BY <1>2, VariablesOfClauses
    <3>2. Variable(l) \in B <=> Variable(l) \in A
      BY <3>1, <2>2
    <3> HIDE DEF B
    <3> QED
      BY <3>1, <3>2, SameLiteral
  <2>4. ASSUME NEW i \in 1 .. n
        PROVE  t + i - 1 \in B <=> \A l \in cs[i] : ~Asserts(A, l)
    <3>1. t + i - 1 \in t .. t + n - 1 /\ (t + i - 1) - t + 1 = i
      OBVIOUS
    <3> QED
      BY <3>1, <2>2
  <2> HIDE DEF B
  <2>5. Satisfied(B, Negated(cs, t))
    BY <1>1, <1>3, <2>1, <2>3, <2>4, NegatedMeans
  <2> QED
    BY <2>1, <2>5 DEF B
<1> QED
  BY <1>5, <1>6

----------------------------------------------------------------------------
(* The lines of a source.                                                   *)

\* In a finite set of places there is an n-th one, for each n up to its size.
LEMMA EachPlaceExists ==
  ASSUME NEW k \in Nat, NEW S \in SUBSET (1 .. k)
  PROVE  /\ Cardinality(S) \in Nat
         /\ \A n \in 1 .. Cardinality(S) : Nth(S, n) \in S
<1>0. S \in SUBSET Nat /\ \A i \in S : i \in Nat
  OBVIOUS
<1>1. IsFiniteSet(S) /\ Cardinality(S) \in Nat
  <2>1. IsFiniteSet(1 .. k)
    BY FS_Interval
  <2> QED
    BY <2>1, FS_Subset, FS_CardinalityType
<1> DEFINE Below(i) == {j \in S : j < i}
           Bad == {n \in Nat : n < Cardinality(S) /\ ~\E i \in S : Cardinality(Below(i)) = n}
<1>2. \A i : Below(i) \in SUBSET S /\ IsFiniteSet(Below(i))
  <2>1. \A i : Below(i) \in SUBSET S
    OBVIOUS
  <2> QED
    BY <2>1, <1>1, FS_Subset
<1>3. ASSUME Bad # {} PROVE FALSE
  <2>1. PICK m \in Bad : \A n \in Bad : m <= n
    BY <1>3, LeastElement
  <2>2. m \in Nat /\ m < Cardinality(S) /\ \A i \in S : Cardinality(Below(i)) # m
    BY <2>1
  <2>3. CASE m = 0
    <3>1. S # {}
      BY <2>2, <2>3, FS_EmptySet
    <3>2. PICK i \in S : \A j \in S : i <= j
      BY <3>1, <1>0, LeastElement
    <3>3. Below(i) = {}
      <4>1. \A j \in S : ~(j < i)
        <5>1. i \in Nat
          BY <1>0
        <5> QED
          BY <5>1, <3>2, <1>0
      <4> QED
        BY <4>1
    <3> QED
      BY <3>2, <3>3, <2>2, <2>3, FS_EmptySet
  <2>4. CASE m # 0
    <3>1. PICK i \in S : Cardinality(Below(i)) = m - 1
      <4>1. m - 1 \in Nat /\ m - 1 < Cardinality(S) /\ ~(m <= m - 1)
        BY <2>2, <2>4, <1>1
      <4> QED
        BY <4>1, <2>1
    <3> DEFINE T == Below(i) \cup {i}
    <3>2. Cardinality(T) = m
      <4>1. i \notin Below(i) /\ IsFiniteSet(Below(i))
        BY <1>2
      <4>2. Cardinality(T) = (m - 1) + 1
        BY <4>1, <3>1, FS_AddElement
      <4> QED
        BY <4>2, <2>2
    <3>3. \A j : j \in T <=> j \in S /\ j <= i
      <4>1. i \in Nat /\ \A j \in S : j <= i <=> j < i \/ j = i
        BY <1>0
      <4> QED
        BY <4>1
    <3> HIDE DEF T
    <3>4. S \ T # {}
      <4>1. T # S
        BY <3>2, <2>2, <1>1
      <4> QED
        BY <4>1, <3>3
    <3>5. PICK j \in S \ T : \A x \in S \ T : j <= x
      <4>1. S \ T \in SUBSET Nat
        BY <1>0
      <4> QED
        BY <4>1, <3>4, LeastElement
    <3>6. Below(j) = T
      <4>1. ASSUME NEW x \in S PROVE x < j <=> x <= i
        <5>1. i < j
          BY <3>3, <3>5
        <5>2. x \notin T => j <= x
          BY <3>5
        <5> QED
          BY <5>1, <5>2, <3>3, <3>5
      <4> QED
        BY <4>1, <3>3
    <3> QED
      BY <3>2, <3>5, <3>6, <2>2
  <2> QED
    BY <2>3, <2>4
<1>4. ASSUME NEW n \in 1 .. Cardinality(S) PROVE Nth(S, n) \in S
  <2>1. n - 1 \in Nat /\ n - 1 < Cardinality(S)
    BY <1>1
  <2>2. \E i \in S : Cardinality(Below(i)) = n - 1
    BY <2>1, <1>3
  <2> QED
    BY <2>2 DEF Nth
<1> QED
  BY <1>1, <1>4

\* The last line with a text is one of the lines.
LEMMA LastLikeIsALine ==
  ASSUME NEW lines, NEW k \in Nat, DOMAIN lines = 1 .. k, NEW i \in 1 .. k
  PROVE  LastLike(lines, i) \in 1 .. k
<1> DEFINE same == {j \in DOMAIN lines : lines[j].key = lines[i].key}
<1>1. same \in SUBSET (1 .. k) /\ i \in same
  OBVIOUS
<1>2. LastLike(lines, i) = Nth(same, Cardinality(same))
  BY DEF LastLike
<1> HIDE DEF same
<1>3. Cardinality(same) \in Nat /\ \A n \in 1 .. Cardinality(same) : Nth(same, n) \in same
  BY <1>1, EachPlaceExists, Zenon
<1>4. Cardinality(same) # 0
  <2>1. IsFiniteSet(1 .. k)
    BY FS_Interval
  <2>2. IsFiniteSet(same)
    BY <1>1, <2>1, FS_Subset
  <2> QED
    BY <1>1, <2>2, FS_EmptySet
<1>5. Cardinality(same) \in 1 .. Cardinality(same)
  BY <1>3, <1>4
<1> QED
  BY <1>1, <1>2, <1>3, <1>5

\* Each constraint of the map is one of the source's lines (add_clause_to_map).
LEMMA KeyedLines ==
  ASSUME NEW s \in Sources
  PROVE  /\ Keyed(s.lines) \in Seq(Seq(SUBSET Int))
         /\ VariablesIn(Keyed(s.lines)) \subseteq VariablesIn(ClausesOf(s))
<1> DEFINE lines == s.lines
           firsts == FirstLines(lines)
<1>1. lines \in Seq(Range(lines)) /\ ClausesOf(s) \in Seq(Seq(SUBSET Int))
  BY SourcesAssumption
<1>2. PICK k \in Nat : DOMAIN lines = 1 .. k
  BY <1>1, LenProperties
<1>3. firsts \in SUBSET (1 .. k)
  BY <1>2 DEF FirstLines
<1> HIDE DEF firsts
<1>4. PICK m \in Nat : Cardinality(firsts) = m /\ \A n \in 1 .. m : Nth(firsts, n) \in firsts
  BY <1>3, EachPlaceExists
<1>5. Keyed(lines) = [n \in 1 .. m |-> lines[LastLike(lines, Nth(firsts, n))].clauses]
  BY <1>4 DEF Keyed, firsts
<1>6. /\ DOMAIN ClausesOf(s) = 1 .. k
      /\ \A i \in 1 .. k : ClausesOf(s)[i] = lines[i].clauses
  BY <1>2 DEF ClausesOf
<1> HIDE DEF lines
<1>7. \A n \in 1 .. m : \E i \in 1 .. k : Keyed(lines)[n] = ClausesOf(s)[i]
  <2> SUFFICES ASSUME NEW n \in 1 .. m PROVE \E i \in 1 .. k : Keyed(lines)[n] = ClausesOf(s)[i]
    OBVIOUS
  <2> DEFINE i == LastLike(lines, Nth(firsts, n))
  <2>1. Nth(firsts, n) \in 1 .. k
    BY <1>3, <1>4
  <2>2. i \in 1 .. k
    BY <1>2, <2>1, LastLikeIsALine, Zenon
  <2>3. Keyed(lines)[n] = lines[i].clauses
    BY <1>5
  <2> HIDE DEF i
  <2> QED
    BY <1>6, <2>2, <2>3
<1>8. \A i \in 1 .. k : ClausesOf(s)[i] \in Seq(SUBSET Int)
  BY <1>1, <1>6, LenProperties, ElementOfSeq
<1>9. Keyed(lines) \in Seq(Seq(SUBSET Int))
  <2>1. \A n \in 1 .. m : lines[LastLike(lines, Nth(firsts, n))].clauses \in Seq(SUBSET Int)
    BY <1>5, <1>7, <1>8
  <2> QED
    BY <2>1, <1>5, IsASeq
<1>10. Range(Keyed(lines)) \subseteq Range(ClausesOf(s))
  BY <1>5, <1>6, <1>7 DEF Range
<1> QED
  BY <1>9, <1>10 DEF VariablesIn, lines

\* The ids after the variables of a source are above the variables, provided that the
\* negations of a DIMACS file are asked for only when every variable has a name.
LEMMA FloorAbove ==
  ASSUME NEW s \in Sources, NEW negations \in BOOLEAN
  PROVE  /\ Floor(s, negations) \in Nat
         /\ \/ ~(s.kind = "dimacs" /\ negations)
            \/ VariablesIn(ClausesOf(s)) \cup Range(s.variables) \subseteq Named(s)
            => \A v \in VariablesIn(ClausesOf(s)) \cup Range(s.variables) :
                 v \in Nat /\ v < Floor(s, negations)
<1> DEFINE used == VariablesIn(ClausesOf(s)) \cup Range(s.variables)
<1>1. s.nvars \in Nat /\ IsFiniteSet(DOMAIN s.variables)
  BY SourcesAssumption
<1>2. PICK n \in Nat : Cardinality(DOMAIN s.variables) = n
  BY <1>1, FS_CardinalityType
<1>3. used \subseteq IF s.kind = "dimacs" /\ s.nvars > n THEN 1 .. s.nvars ELSE 1 .. n
  BY <1>2, SourcesAssumption DEF Named
<1>4. Named(s) = 1 .. n
  BY <1>2 DEF Named
<1>5. Floor(s, negations) =
        IF s.kind = "dimacs" /\ ~negations /\ s.nvars > n THEN s.nvars + 1 ELSE n + 1
  BY <1>2 DEF Floor
<1> HIDE DEF used
<1>6. Floor(s, negations) \in Nat
  BY <1>1, <1>5
<1>7. ~(s.kind = "dimacs" /\ negations) \/ used \subseteq Named(s) =>
        \A v \in used : v \in Nat /\ v < Floor(s, negations)
  <2>1. CASE s.kind = "dimacs" /\ ~negations /\ s.nvars > n
    BY <2>1, <1>1, <1>3, <1>5
  <2>2. CASE ~(s.kind = "dimacs" /\ ~negations /\ s.nvars > n)
    <3>1. ~(s.kind = "dimacs" /\ negations) \/ used \subseteq Named(s) => used \subseteq 1 .. n
      BY <2>2, <1>3, <1>4
    <3>2. Floor(s, negations) = n + 1
      BY <2>2, <1>5
    <3> QED
      BY <3>1, <3>2
  <2> QED
    BY <2>1, <2>2
<1> QED
  BY <1>6, <1>7 DEF used
----------------------------------------------------------------------------
(* What preparation keeps.                                                  *)

Phases == {"builder", "negate", "built", "fm", "configuration", "testCase",
           "positive", "negative", "assign", "ready", "refused"}

Blocks == {"fm", "configuration", "testCase", "positive", "negative"}

SettingTypes == [redundancy : BOOLEAN, cfInC : BOOLEAN,
                 configuration : Configurations \cup {None},
                 testCase : Configurations \cup {None},
                 positive : Suites \cup {None}, negative : Suites \cup {None}]

ModelTypes == [constraints : Seq(Seq(SUBSET Int)), negated : Seq(SUBSET SUBSET Int),
               negations : BOOLEAN, next : Nat]

PreparationTypes ==
    /\ source \in Sources
    /\ settings \in SettingTypes
    /\ model \in ModelTypes
    /\ Len(model.negated) <= Len(model.constraints)
    /\ pc \in Phases
    /\ next \in Nat
    /\ assumptions \in Seq(Nat)
    /\ ids \in [Blocks -> Seq(Nat)]
    /\ negation \in [DOMAIN negation -> Nat]
    /\ DOMAIN negation \subseteq Range(assumptions)
    /\ task \in [DOMAIN NoTask -> Seq(Nat)]

\* The variables of the constraints, of their negations and of the features.
InUse ==
    UNION {VariablesIn(model.constraints),
           UNION {VariablesOf(K) : K \in Range(model.negated)},
           Range(source.variables)}

Increasing(list) == \A i, j \in DOMAIN list : i < j => list[i] < list[j]

HandedOut(list, low, high) ==
    /\ list \in Seq(Nat)
    /\ Increasing(list)
    /\ \A i \in DOMAIN list : low <= list[i] /\ list[i] < high

\* Everything in use is below the ids that are handed out, and these only grow.
IdsInOrder ==
    /\ pc \notin {"builder", "refused"} \/ assumptions # <<>> =>
         (Covered => InUse \subseteq 0 .. model.next - 1)
    /\ pc \notin {"builder", "negate", "built", "refused"} => model.next <= next
    /\ HandedOut(assumptions, model.next, next)

\* What was given has ids of its own, and nothing else has.
BlocksApart ==
    /\ pc \in {"builder", "negate", "built"} =>
         assumptions = <<>> /\ ids = NoIds /\ negation = <<>>
    /\ \A b \in Blocks : \A i \in DOMAIN ids[b] : ids[b][i] < next
    /\ \A b \in Blocks : Increasing(ids[b])
    /\ \A b, d \in Blocks : b # d => Range(ids[b]) \cap Range(ids[d]) = {}
    /\ \A b \in Blocks \ {"fm"} : settings[b] = None => ids[b] = <<>>
    /\ Len(ids.fm) <= Len(model.constraints)

\* The negations that are looked up are there.
NegationsKept ==
    /\ \A b \in {"positive", "negative"} : Range(ids[b]) \subseteq DOMAIN negation
    /\ pc \notin {"builder", "negate", "refused"} /\ model.negations =>
         Len(model.negated) = Len(model.constraints)
    /\ NegationWanted => Range(ids.fm) \subseteq DOMAIN negation

TaskAssigned ==
    /\ pc \notin {"builder", "negate", "built", "refused"} => Exclusive(settings)
    /\ pc = "ready" => task = Roles /\ (RootNeeded => ids.fm # <<>>)

TaskInv == PreparationTypes /\ IdsInOrder /\ BlocksApart /\ NegationsKept /\ TaskAssigned

----------------------------------------------------------------------------

\* The invariant implies the type invariant of the module.
LEMMA TaskInvImpliesTypes == TaskInv => TypeOK
<1> SUFFICES ASSUME TaskInv PROVE TypeOK
  OBVIOUS
<1>1. PreparationTypes
  BY DEF TaskInv
<1>2. DOMAIN NoIds = Blocks
  BY DEF NoIds, Blocks
<1>3. model \in ModelTypes => DOMAIN model = {"constraints", "negated", "negations", "next"} /\ model.next \in Nat
  BY DEF ModelTypes
<1> QED
  BY <1>1, <1>2, <1>3 DEF PreparationTypes, TypeOK, SettingTypes, Phases

\* Ids that grow from above everything in use are apart.
LEMMA TaskInvImpliesIdsApart == TaskInv => IdsApart
<1> SUFFICES ASSUME TaskInv, Covered
             PROVE  /\ IsInjective(assumptions)
                    /\ Range(assumptions) \cap InUse = {}
  BY DEF IdsApart, InUse
<1>1. PreparationTypes /\ IdsInOrder
  BY DEF TaskInv
<1>2. PICK k \in Nat : Len(assumptions) = k /\ DOMAIN assumptions = 1 .. k
  BY <1>1, LenProperties DEF PreparationTypes
<1>3. \A i \in 1 .. k : assumptions[i] \in Nat
  BY <1>1, <1>2, ElementOfSeq DEF PreparationTypes
<1>4. IsInjective(assumptions)
  <2> SUFFICES ASSUME NEW i \in 1 .. k, NEW j \in 1 .. k, assumptions[i] = assumptions[j], i # j
               PROVE  FALSE
    BY <1>2 DEF IsInjective
  <2>1. i < j \/ j < i
    OBVIOUS
  <2>2. assumptions[i] < assumptions[j] \/ assumptions[j] < assumptions[i]
    BY <2>1, <1>1, <1>2 DEF IdsInOrder, HandedOut, Increasing
  <2> QED
    BY <2>2, <1>3
<1>5. ASSUME NEW i \in 1 .. k, assumptions[i] \in InUse PROVE FALSE
  <2>1. model.next \in Nat /\ assumptions[i] \in Nat
    BY <1>1, <1>3 DEF PreparationTypes, ModelTypes
  <2>2. assumptions # <<>>
    BY <1>2
  <2>3. assumptions[i] \in 0 .. model.next - 1
    BY <1>1, <1>5, <2>2 DEF IdsInOrder
  <2>4. model.next <= assumptions[i]
    BY <1>1, <1>2 DEF IdsInOrder, HandedOut
  <2> QED
    BY <2>1, <2>3, <2>4
<1>6. Range(assumptions) \cap InUse = {}
  BY <1>2, <1>5 DEF Range
<1> QED
  BY <1>4, <1>6

----------------------------------------------------------------------------
(* The builder.                                                             *)

\* A new builder holds nothing.
LEMMA TaskInitInv == Init => TaskInv
<1> SUFFICES ASSUME Init PROVE TaskInv
  OBVIOUS
<1>1. PreparationTypes
  <2>1. settings \in SettingTypes
    BY DEF Init, Default, SettingTypes
  <2>2. model \in ModelTypes /\ Len(model.negated) <= Len(model.constraints)
    BY DEF Init, ModelTypes
  <2>3. ids \in [Blocks -> Seq(Nat)]
    <3>1. <<>> \in Seq(Nat)
      BY EmptySeq
    <3> QED
      <4>1. NoIds \in [Blocks -> {<<>>}]
        BY DEF NoIds, Blocks
      <4> QED
        BY <3>1, <4>1 DEF Init
  <2>4. task \in [DOMAIN NoTask -> Seq(Nat)]
    <3>1. <<>> \in Seq(Nat)
      BY EmptySeq
    <3> QED
      <4>1. NoTask \in [DOMAIN NoTask -> {<<>>}]
        BY DEF NoTask
      <4> QED
        BY <3>1, <4>1 DEF Init
  <2>5. negation \in [DOMAIN negation -> Nat] /\ DOMAIN negation = {}
    BY DEF Init
  <2> QED
    BY <2>1, <2>2, <2>3, <2>4, <2>5 DEF Init, PreparationTypes, Phases
<1>2. IdsInOrder
  BY DEF Init, IdsInOrder, HandedOut, Increasing
<1>3. BlocksApart
  BY DEF Init, BlocksApart, Increasing, Blocks, NoIds, Range
<1>4. NegationsKept
  BY DEF Init, NegationsKept, NoIds, Range
<1>5. TaskAssigned
  BY DEF Init, TaskAssigned
<1> QED
  BY <1>1, <1>2, <1>3, <1>4, <1>5 DEF TaskInv

\* Nothing has an id as long as nothing is prepared.
LEMMA NothingPrepared ==
  TaskInv /\ pc \in {"builder", "negate", "built"} =>
    /\ assumptions = <<>>
    /\ negation = <<>>
    /\ \A b \in Blocks : ids[b] = <<>> /\ DOMAIN ids[b] = {} /\ Range(ids[b]) = {}
    /\ Len(ids.fm) = 0
<1> SUFFICES ASSUME TaskInv, pc \in {"builder", "negate", "built"}
             PROVE  /\ assumptions = <<>>
                    /\ negation = <<>>
                    /\ \A b \in Blocks : ids[b] = <<>> /\ DOMAIN ids[b] = {} /\ Range(ids[b]) = {}
                    /\ Len(ids.fm) = 0
  OBVIOUS
<1>1. assumptions = <<>> /\ ids = NoIds /\ negation = <<>>
  BY DEF TaskInv, BlocksApart
<1>2. \A b \in Blocks : NoIds[b] = <<>>
  BY DEF NoIds, Blocks
<1>3. DOMAIN <<>> = {} /\ Range(<<>>) = {} /\ Len(<<>>) = 0
  BY DEF Range
<1>4. NoIds.fm = <<>>
  BY DEF NoIds
<1> QED
  BY <1>1, <1>2, <1>3, <1>4

\* An input given before build, or between build and build_task_input.
LEMMA ConfigureKeeps ==
  ASSUME TaskInv, Configure
  PROVE  TaskInv'
<1>1. PICK s \in Given(settings) : settings' = s
  BY DEF Configure
<1>2. /\ pc \in {"builder", "built"}
      /\ UNCHANGED <<source, model, pc, next, kb, assumptions, ids, negation, task>>
  BY DEF Configure
<1>3. PreparationTypes
  BY DEF TaskInv
<1>4. s \in SettingTypes
  <2>1. settings \in SettingTypes
    BY <1>3 DEF PreparationTypes
  <2>2. CASE \E e \in BOOLEAN : s = [settings EXCEPT !.redundancy = e] \/ s = [settings EXCEPT !.cfInC = e]
    BY <2>1, <2>2 DEF SettingTypes
  <2>3. CASE \E x \in Configurations :
               s = [settings EXCEPT !.configuration = x] \/ s = [settings EXCEPT !.testCase = x]
    BY <2>1, <2>3 DEF SettingTypes
  <2>4. CASE \E x \in Suites :
               \/ s = [settings EXCEPT !.positive = x] \/ s = [settings EXCEPT !.negative = x]
               \/ s = [settings EXCEPT !.positive = x, !.redundancy = TRUE]
    BY <2>1, <2>4 DEF SettingTypes
  <2> QED
    BY <1>1, <2>2, <2>3, <2>4, Zenon DEF Given
<1>5. PreparationTypes'
  BY <1>1, <1>2, <1>3, <1>4 DEF PreparationTypes
<1>6. IdsInOrder'
  BY <1>2 DEF TaskInv, IdsInOrder, Covered, InUse, HandedOut, Increasing
<1>7. \A b \in Blocks : ids[b] = <<>> /\ Range(ids[b]) = {}
  BY <1>2, NothingPrepared
<1>8. BlocksApart'
  BY <1>2, <1>7 DEF TaskInv, BlocksApart, Increasing
<1>9. NegationsKept'
  BY <1>2, <1>7 DEF TaskInv, NegationsKept, Blocks
<1>10. TaskAssigned'
  BY <1>2 DEF TaskAssigned
<1> QED
  BY <1>5, <1>6, <1>8, <1>9, <1>10 DEF TaskInv

\* Building gives the constraints ids above every variable in use.
LEMMA BuildKeeps ==
  ASSUME TaskInv, Build
  PROVE  TaskInv'
<1>1. /\ pc = "builder" /\ pc' \in {"negate", "built"}
      /\ model' = [constraints |-> Keyed(source.lines), negated |-> <<>>,
                   negations |-> settings.redundancy,
                   next |-> Floor(source, settings.redundancy)]
      /\ settings.redundancy => pc' = "negate"
      /\ UNCHANGED <<source, settings, next, kb, assumptions, ids, negation, task>>
  BY DEF Build
<1>2. PreparationTypes
  BY DEF TaskInv
<1>3. source \in Sources /\ settings.redundancy \in BOOLEAN
  BY <1>2 DEF PreparationTypes, SettingTypes
<1>4. model' \in ModelTypes
  BY <1>1, <1>3, KeyedLines, FloorAbove DEF ModelTypes
<1>5. Len(model'.negated) = 0 /\ Len(model'.constraints) \in Nat
  <2>1. model'.constraints \in Seq(Seq(SUBSET Int))
    BY <1>4 DEF ModelTypes
  <2> QED
    BY <1>1, <2>1, LenProperties
<1>6. assumptions = <<>> /\ ids = NoIds /\ negation = <<>>
  BY <1>1 DEF TaskInv, BlocksApart
<1>7. PreparationTypes'
  BY <1>1, <1>2, <1>4, <1>5 DEF PreparationTypes, Phases
<1>8. /\ BlocksApart'
      /\ \A b \in Blocks : Range(ids'[b]) = {}
      /\ HandedOut(assumptions, model.next, next)'
  <2>1. /\ assumptions' = <<>> /\ negation' = <<>> /\ ids' = NoIds /\ next' \in Nat
        /\ Len(model'.constraints) \in Nat
    BY <1>1, <1>5, <1>6, <1>2 DEF PreparationTypes
  <2>2. \A b \in Blocks : ids'[b] = <<>>
    BY <2>1 DEF NoIds, Blocks
  <2>3. DOMAIN <<>> = {} /\ Range(<<>>) = {} /\ Len(<<>>) = 0 /\ ids'.fm = <<>>
    BY <2>1 DEF Range, NoIds
  <2>4. \A b \in Blocks : DOMAIN ids'[b] = {} /\ Range(ids'[b]) = {} /\ Increasing(ids[b])'
    BY <2>2, <2>3 DEF Increasing
  <2>5. BlocksApart'
    BY <2>1, <2>2, <2>3, <2>4 DEF BlocksApart
  <2> QED
    BY <2>1, <2>3, <2>4, <2>5, EmptySeq DEF HandedOut, Increasing
<1>9. ASSUME Covered' PROVE InUse' \subseteq 0 .. model'.next - 1
  <2> DEFINE used == VariablesIn(ClausesOf(source)) \cup Range(source.variables)
  <2>1. ~(source.kind = "dimacs" /\ settings.redundancy) \/ used \subseteq Named(source)
    BY <1>1, <1>9 DEF Covered
  <2>2. \A v \in used : v \in Nat /\ v < Floor(source, settings.redundancy)
    BY <2>1, <1>3, FloorAbove
  <2>3. InUse' \subseteq used
    <3>1. VariablesIn(Keyed(source.lines)) \subseteq VariablesIn(ClausesOf(source))
      BY <1>3, KeyedLines
    <3>2. Range(model'.negated) = {}
      BY <1>1 DEF Range
    <3>3. UNION {VariablesOf(K) : K \in Range(model'.negated)} = {}
      BY <3>2
    <3> QED
      BY <1>1, <3>1, <3>3 DEF InUse
  <2>4. model'.next = Floor(source, settings.redundancy) /\ model'.next \in Nat
    BY <1>1, <1>3, FloorAbove
  <2> HIDE DEF used
  <2> QED
    BY <2>2, <2>3, <2>4
<1>10. IdsInOrder'
  BY <1>1, <1>8, <1>9 DEF IdsInOrder
<1>11. NegationsKept'
  BY <1>1, <1>8 DEF NegationsKept, Blocks
<1>12. TaskAssigned'
  BY <1>1 DEF TaskAssigned
<1> QED
  BY <1>7, <1>8, <1>10, <1>11, <1>12 DEF TaskInv

\* Negating a constraint takes as many ids as it has auxiliary variables.
LEMMA NegateKeeps ==
  ASSUME TaskInv, Negate
  PROVE  TaskInv'
<1> DEFINE i == Len(model.negated) + 1
           cs == model.constraints[i]
           t == model.next
           negated == Negated(cs, t)
           n == Cardinality(Auxiliary(cs, t))
<1>1. /\ pc = "negate" /\ i <= Len(model.constraints)
      /\ model' = [model EXCEPT !.negated = Append(@, negated), !.next = @ + n]
      /\ UNCHANGED <<source, settings, pc, next, kb, assumptions, ids, negation, task>>
  BY DEF Negate
<1>2. PreparationTypes /\ IdsInOrder /\ BlocksApart /\ NegationsKept
  BY DEF TaskInv
<1>3. /\ model \in ModelTypes /\ t \in Nat
      /\ model.constraints \in Seq(Seq(SUBSET Int))
      /\ model.negated \in Seq(SUBSET SUBSET Int)
  BY <1>2 DEF PreparationTypes, ModelTypes
<1>4. PICK k \in Nat, m \in Nat : Len(model.constraints) = k /\ Len(model.negated) = m
  BY <1>3, LenProperties
<1>5. m + 1 \in 1 .. k /\ i = m + 1
  BY <1>1, <1>4
<1>6. cs \in Seq(SUBSET Int) /\ cs \in Range(model.constraints)
  BY <1>3, <1>4, <1>5, ElementOfSeq, LenProperties DEF Range
<1> HIDE DEF cs, t, i
<1>7. /\ negated \in SUBSET SUBSET Int
      /\ VariablesOf(negated) \subseteq VariablesOf(Range(cs)) \cup Auxiliary(cs, t)
      /\ Auxiliary(cs, t) \in SUBSET Nat
      /\ n \in Nat
      /\ \A v \in Auxiliary(cs, t) : t <= v /\ v < t + n
  BY <1>3, <1>6, AuxiliaryCounted, VariablesOfNegated
<1> HIDE DEF negated, n
<1>8. /\ model'.constraints = model.constraints
      /\ model'.negations = model.negations
      /\ model'.negated = Append(model.negated, negated)
      /\ model'.next = t + n
      /\ model' \in ModelTypes
  <2>1. Append(model.negated, negated) \in Seq(SUBSET SUBSET Int)
    BY <1>3, <1>7, AppendProperties
  <2>2. t + n \in Nat
    BY <1>3, <1>7
  <2> QED
    BY <1>1, <1>3, <2>1, <2>2 DEF ModelTypes, t
<1>9. Len(model'.negated) = m + 1 /\ Range(model'.negated) \subseteq Range(model.negated) \cup {negated}
  <2>1. Len(model'.negated) = m + 1
    BY <1>3, <1>4, <1>7, <1>8, AppendProperties
  <2>2. \A j \in 1 .. m + 1 : (j \in 1 .. m /\ model'.negated[j] = model.negated[j]) \/ model'.negated[j] = negated
    BY <1>3, <1>4, <1>7, <1>8, AppendProperties
  <2>3. DOMAIN model'.negated = 1 .. m + 1 /\ DOMAIN model.negated = 1 .. m
    BY <2>1, <1>3, <1>4, <1>8, LenProperties DEF ModelTypes
  <2> QED
    BY <2>1, <2>2, <2>3 DEF Range
<1>10. PreparationTypes'
  <2>1. Len(model'.negated) <= Len(model'.constraints)
    BY <1>4, <1>5, <1>8, <1>9
  <2> QED
    BY <1>1, <1>2, <1>8, <2>1 DEF PreparationTypes
<1>11. ASSUME Covered', NEW v \in InUse' PROVE v \in 0 .. model'.next - 1
  <2>1. Covered
    BY <1>1, <1>8, <1>11 DEF Covered
  <2>2. InUse \subseteq 0 .. t - 1
    BY <1>1, <1>2, <2>1 DEF IdsInOrder, t
  <2>3. v \in InUse \cup Auxiliary(cs, t)
    <3>1. VariablesOf(Range(cs)) \subseteq InUse
      BY <1>6 DEF InUse, VariablesIn
    <3>2. CASE v \in VariablesIn(model.constraints) \cup Range(source.variables)
      BY <3>2 DEF InUse
    <3>3. CASE v \in UNION {VariablesOf(K) : K \in Range(model'.negated)}
      <4>1. PICK K \in Range(model'.negated) : v \in VariablesOf(K)
        BY <3>3
      <4>2. CASE K \in Range(model.negated)
        BY <4>1, <4>2 DEF InUse
      <4>3. CASE K = negated
        BY <4>1, <4>3, <3>1, <1>7
      <4> QED
        BY <4>1, <4>2, <4>3, <1>9
    <3> QED
      BY <3>2, <3>3, <1>1, <1>8, <1>11 DEF InUse
  <2> QED
    BY <2>2, <2>3, <1>3, <1>7, <1>8
<1>12. IdsInOrder'
  <2>1. assumptions' = <<>> /\ DOMAIN assumptions' = {}
    BY <1>1, NothingPrepared
  <2> QED
    BY <1>1, <1>2, <1>11, <2>1 DEF IdsInOrder, HandedOut, Increasing
<1>13. BlocksApart'
  BY <1>1, <1>2, <1>8 DEF BlocksApart, Increasing
<1>14. NegationsKept'
  <2>1. Range(ids.fm) = {}
    BY <1>1, NothingPrepared DEF Blocks
  <2> QED
    BY <1>1, <1>2, <2>1 DEF NegationsKept
<1>15. TaskAssigned'
  BY <1>1 DEF TaskAssigned
<1> QED
  BY <1>10, <1>12, <1>13, <1>14, <1>15 DEF TaskInv

----------------------------------------------------------------------------
(* Steps from one phase to the next.                                        *)

\* A step that only goes on to another phase.
LEMMA PhaseKeeps ==
  ASSUME TaskInv,
         UNCHANGED <<source, settings, model, next, kb, assumptions, ids, negation, task>>,
         pc' \in Phases \ {"builder", "negate", "ready"},
         pc # "refused",
         pc = "builder" => pc' = "refused",
         pc' = "built" => pc = "negate" /\ Len(model.negated) = Len(model.constraints),
         pc' \notin {"built", "refused"} => pc \notin {"builder", "negate", "built"}
  PROVE  TaskInv'
<1>1. PreparationTypes'
  BY DEF TaskInv, PreparationTypes
<1>2. IdsInOrder'
  BY NothingPrepared DEF TaskInv, IdsInOrder, Covered, InUse, HandedOut, Increasing
<1>3. BlocksApart'
  BY DEF TaskInv, BlocksApart, Increasing
<1>4. NegationsKept'
  BY DEF TaskInv, NegationsKept, NegationWanted
<1>5. TaskAssigned'
  BY DEF TaskInv, TaskAssigned, Exclusive
<1> QED
  BY <1>1, <1>2, <1>3, <1>4, <1>5 DEF TaskInv

\* Refusals, and the ends of the loops.
LEMMA StepsKeep ==
  ASSUME TaskInv,
         RefuseBuild \/ EndNegate \/ RefuseInput \/ EndConstraints \/ UnknownFeature
           \/ EndInput \/ NoRoot
  PROVE  TaskInv'
<1>1. /\ UNCHANGED <<source, settings, model, next, kb, assumptions, ids, negation, task>>
      /\ pc' \in Phases \ {"builder", "negate", "ready"}
      /\ pc # "refused"
      /\ pc = "builder" => pc' = "refused"
      /\ pc' = "built" => pc = "negate" /\ Len(model.negated) = Len(model.constraints)
      /\ pc' \notin {"built", "refused"} => pc \notin {"builder", "negate", "built"}
  <2>1. CASE RefuseBuild \/ RefuseInput \/ NoRoot
    BY <2>1 DEF RefuseBuild, RefuseInput, NoRoot, Phases
  <2>2. CASE EndNegate \/ EndConstraints
    BY <2>2 DEF EndNegate, EndConstraints, Phases
  <2>3. CASE UnknownFeature
    BY <2>3 DEF UnknownFeature, Phases
  <2>4. CASE EndInput
    BY <2>4 DEF EndInput, After, Phases
  <2> QED
    BY <2>1, <2>2, <2>3, <2>4
<1> QED
  BY <1>1, PhaseKeeps

\* Preparation starts with the first id that the knowledge base does not use.
LEMMA StartKeeps ==
  ASSUME TaskInv, StartPreparation
  PROVE  TaskInv'
<1>1. /\ pc = "built" /\ pc' = "fm" /\ next' = model.next /\ Exclusive(settings)
      /\ UNCHANGED <<source, settings, model, kb, assumptions, ids, negation, task>>
  BY DEF StartPreparation
<1>2. PreparationTypes /\ IdsInOrder /\ BlocksApart /\ NegationsKept
  BY DEF TaskInv
<1>3. model.next \in Nat
  BY <1>2 DEF PreparationTypes, ModelTypes
<1>4. /\ assumptions = <<>> /\ DOMAIN assumptions = {}
      /\ \A b \in Blocks : ids[b] = <<>> /\ DOMAIN ids[b] = {} /\ Range(ids[b]) = {}
  BY <1>1, NothingPrepared
<1>5. PreparationTypes'
  BY <1>1, <1>2, <1>3 DEF PreparationTypes, Phases
<1>6. IdsInOrder'
  BY <1>1, <1>2, <1>3, <1>4 DEF IdsInOrder, Covered, InUse, HandedOut, Increasing
<1>7. BlocksApart'
  BY <1>1, <1>2, <1>4 DEF BlocksApart, Increasing
<1>8. NegationsKept'
  BY <1>1, <1>2 DEF NegationsKept, NegationWanted
<1>9. TaskAssigned'
  BY <1>1 DEF TaskAssigned, Exclusive
<1> QED
  BY <1>5, <1>6, <1>7, <1>8, <1>9 DEF TaskInv

----------------------------------------------------------------------------
(* Giving ids to items.                                                     *)

\* A list of ids grows by an id above all of them.
LEMMA GrowingList ==
  ASSUME NEW list \in Seq(Nat), NEW n \in Nat, Increasing(list),
         \A i \in DOMAIN list : list[i] < n
  PROVE  /\ Append(list, n) \in Seq(Nat)
         /\ Increasing(Append(list, n))
         /\ Len(Append(list, n)) = Len(list) + 1
         /\ \A i \in DOMAIN Append(list, n) :
              Append(list, n)[i] = n \/ (i \in DOMAIN list /\ Append(list, n)[i] = list[i])
         /\ Range(Append(list, n)) = Range(list) \cup {n}
<1> DEFINE grown == Append(list, n)
<1>1. PICK k \in Nat : Len(list) = k /\ DOMAIN list = 1 .. k
  BY LenProperties
<1>2. /\ grown \in Seq(Nat) /\ Len(grown) = k + 1 /\ DOMAIN grown = 1 .. k + 1
      /\ grown[k + 1] = n
      /\ \A i \in 1 .. k : grown[i] = list[i]
  BY <1>1, AppendProperties, LenProperties
<1> HIDE DEF grown
<1>3. \A i \in 1 .. k + 1 : i \in 1 .. k \/ i = k + 1
  OBVIOUS
<1>4. \A i \in DOMAIN grown : grown[i] = n \/ (i \in DOMAIN list /\ grown[i] = list[i])
  BY <1>1, <1>2, <1>3
<1>5. Increasing(grown)
  <2> SUFFICES ASSUME NEW i \in 1 .. k + 1, NEW j \in 1 .. k + 1, i < j
               PROVE  grown[i] < grown[j]
    BY <1>2 DEF Increasing
  <2>1. i \in 1 .. k /\ grown[i] = list[i]
    BY <1>2
  <2>2. CASE j = k + 1
    BY <2>1, <2>2, <1>1, <1>2
  <2>3. CASE j \in 1 .. k
    BY <2>1, <2>3, <1>1, <1>2 DEF Increasing
  <2> QED
    BY <2>2, <2>3, <1>3
<1>6. Range(grown) = Range(list) \cup {n}
  <2>1. k + 1 \in 1 .. k + 1 /\ 1 .. k \subseteq 1 .. k + 1
    BY <1>1
  <2> QED
    BY <2>1, <1>1, <1>2, <1>3 DEF Range
<1> QED
  BY <1>1, <1>2, <1>4, <1>5, <1>6 DEF grown

Preparing == {"fm", "configuration", "testCase", "positive", "negative"}

\* An item of a block gets the next id.
LEMMA BlockGrows ==
  ASSUME TaskInv, pc \in Preparing, NEW b \in Blocks,
         ids' = [ids EXCEPT ![b] = Append(@, next)], next' \in Nat, next < next',
         UNCHANGED <<settings, model, pc>>,
         b = "fm" => Len(ids.fm) < Len(model.constraints),
         b # "fm" => settings[b] # None
  PROVE  /\ BlocksApart'
         /\ ids' \in [Blocks -> Seq(Nat)]
         /\ Range(ids'[b]) = Range(ids[b]) \cup {next}
         /\ \A d \in Blocks : d # b => ids'[d] = ids[d]
<1>1. BlocksApart /\ PreparationTypes
  BY DEF TaskInv
<1>2. /\ ids \in [Blocks -> Seq(Nat)] /\ next \in Nat
      /\ model.constraints \in Seq(Seq(SUBSET Int))
  BY <1>1 DEF PreparationTypes, ModelTypes
<1>3. /\ ids[b] \in Seq(Nat) /\ Increasing(ids[b])
      /\ \A d \in Blocks : \A i \in DOMAIN ids[d] : ids[d][i] < next /\ ids[d][i] \in Nat
  <2>1. \A d \in Blocks : \A i \in DOMAIN ids[d] : ids[d][i] < next
    BY <1>1 DEF BlocksApart
  <2>2. \A d \in Blocks : \A i \in DOMAIN ids[d] : ids[d][i] \in Nat
    BY <1>2, ElementOfSeq, LenProperties
  <2> QED
    BY <2>1, <2>2, <1>1, <1>2 DEF BlocksApart
<1> DEFINE grown == Append(ids[b], next)
<1>4. /\ grown \in Seq(Nat) /\ Increasing(grown) /\ Len(grown) = Len(ids[b]) + 1
      /\ \A i \in DOMAIN grown :
           grown[i] = next \/ (i \in DOMAIN ids[b] /\ grown[i] = ids[b][i])
      /\ Range(grown) = Range(ids[b]) \cup {next}
  BY <1>2, <1>3, GrowingList
<1> HIDE DEF grown
<1>5. ids'[b] = grown /\ \A d \in Blocks : d # b => ids'[d] = ids[d]
  BY <1>2 DEF grown
<1>6. ids' \in [Blocks -> Seq(Nat)]
  BY <1>2, <1>4 DEF grown
<1>7. ASSUME NEW d \in Blocks, NEW i \in DOMAIN ids'[d] PROVE ids'[d][i] < next'
  <2>1. CASE d = b
    <3>1. ids'[d][i] = next \/ (ids'[d][i] < next /\ ids'[d][i] \in Nat)
      BY <2>1, <1>3, <1>4, <1>5
    <3> QED
      BY <3>1, <1>2
  <2>2. CASE d # b
    <3>1. ids'[d][i] < next /\ ids'[d][i] \in Nat
      BY <2>2, <1>3, <1>5
    <3> QED
      BY <3>1, <1>2
  <2> QED
    BY <2>1, <2>2
<1>8. \A d \in Blocks : Increasing(ids[d])'
  <2>1. \A d \in Blocks : Increasing(ids[d])
    BY <1>1 DEF BlocksApart
  <2>2. ASSUME NEW d \in Blocks PROVE \A i, j \in DOMAIN ids'[d] : i < j => ids'[d][i] < ids'[d][j]
    <3>1. CASE d = b
      BY <3>1, <1>4, <1>5 DEF Increasing
    <3>2. CASE d # b
      BY <3>2, <2>1, <1>5 DEF Increasing
    <3> QED
      BY <3>1, <3>2
  <2> QED
    BY <2>2 DEF Increasing
<1>9. \A d \in Blocks : next \notin Range(ids[d])
  <2> SUFFICES ASSUME NEW d \in Blocks, NEW i \in DOMAIN ids[d], ids[d][i] = next PROVE FALSE
    BY DEF Range
  <2> QED
    BY <1>2, <1>3
<1>10. \A c, d \in Blocks : c # d => Range(ids'[c]) \cap Range(ids'[d]) = {}
  <2>1. \A c, d \in Blocks : c # d => Range(ids[c]) \cap Range(ids[d]) = {}
    BY <1>1 DEF BlocksApart
  <2>2. Range(ids'[b]) = Range(ids[b]) \cup {next}
    BY <1>4, <1>5
  <2>3. \A d \in Blocks : d # b => Range(ids'[d]) = Range(ids[d]) /\ next \notin Range(ids'[d])
    BY <1>5, <1>9
  <2> QED
    BY <2>1, <2>2, <2>3
<1>11. \A d \in Blocks \ {"fm"} : settings'[d] = None => ids'[d] = <<>>
  BY <1>1, <1>5 DEF BlocksApart
<1>12. Len(ids'.fm) <= Len(model'.constraints)
  <2>1. Len(ids.fm) <= Len(model.constraints) /\ "fm" \in Blocks
    BY <1>1 DEF BlocksApart, Blocks
  <2>2. PICK k \in Nat, m \in Nat : Len(ids.fm) = k /\ Len(model.constraints) = m
    BY <2>1, <1>2, LenProperties
  <2>3. CASE b = "fm"
    <3>1. Len(ids'.fm) = k + 1 /\ k < m
      BY <2>2, <2>3, <1>4, <1>5
    <3> QED
      BY <3>1, <2>2
  <2>4. CASE b # "fm"
    BY <2>1, <2>4, <1>5
  <2> QED
    BY <2>3, <2>4
<1>13. pc' \notin {"builder", "negate", "built"}
  BY DEF Preparing
<1>14. BlocksApart'
  BY <1>7, <1>8, <1>10, <1>11, <1>12, <1>13 DEF BlocksApart
<1> QED
  BY <1>4, <1>5, <1>6, <1>14

\* A list of ids that are handed out in their order goes on with the next one.
LEMMA HandedOutGrows ==
  ASSUME NEW low \in Nat, NEW high \in Nat, low <= high, NEW list, HandedOut(list, low, high)
  PROVE  /\ HandedOut(Append(list, high), low, high + 1)
         /\ Range(Append(list, high)) = Range(list) \cup {high}
<1> DEFINE grown == Append(list, high)
<1>1. /\ list \in Seq(Nat) /\ Increasing(list)
      /\ \A i \in DOMAIN list : low <= list[i] /\ list[i] < high /\ list[i] \in Nat
  BY ElementOfSeq, LenProperties DEF HandedOut
<1>2. /\ grown \in Seq(Nat) /\ Increasing(grown)
      /\ \A i \in DOMAIN grown : grown[i] = high \/ (i \in DOMAIN list /\ grown[i] = list[i])
      /\ Range(grown) = Range(list) \cup {high}
  BY <1>1, GrowingList
<1> HIDE DEF grown
<1>3. ASSUME NEW i \in DOMAIN grown PROVE low <= grown[i] /\ grown[i] < high + 1
  <2>1. CASE grown[i] = high
    BY <2>1
  <2>2. CASE i \in DOMAIN list /\ grown[i] = list[i]
    <3>1. low <= list[i] /\ list[i] < high /\ list[i] \in Nat
      BY <2>2, <1>1
    <3> QED
      BY <3>1, <2>2
  <2> QED
    BY <2>1, <2>2, <1>2
<1> QED
  BY <1>2, <1>3 DEF HandedOut, grown

\* allocate: the next id is handed out for an item of a block.
LEMMA SingleKeeps ==
  ASSUME TaskInv, pc \in Preparing, NEW b \in Blocks \ {"positive", "negative"}, NEW K, Single(b, K),
         UNCHANGED <<source, settings, model, pc, task>>,
         b = "fm" => Len(ids.fm) < Len(model.constraints) /\ ~NegationWanted,
         b # "fm" => settings[b] # None
  PROVE  TaskInv'
<1>1. /\ assumptions' = Append(assumptions, next)
      /\ ids' = [ids EXCEPT ![b] = Append(@, next)]
      /\ next' = next + 1
      /\ negation' = negation
  BY DEF Single
<1>2. PreparationTypes /\ NegationsKept /\ IdsInOrder
  BY DEF TaskInv
<1>3. /\ next \in Nat /\ next' \in Nat /\ next < next' /\ model.next \in Nat
      /\ model.next <= next /\ model.next <= next'
  <2>1. next \in Nat /\ model.next \in Nat
    BY <1>2 DEF PreparationTypes, ModelTypes
  <2>2. model.next <= next
    BY <1>2 DEF IdsInOrder, Preparing
  <2> QED
    BY <2>1, <2>2, <1>1
<1>4. /\ IdsInOrder'
      /\ assumptions' \in Seq(Nat)
      /\ Range(assumptions') = Range(assumptions) \cup {next}
  <2>1. HandedOut(assumptions, model.next, next) /\ (Covered => InUse \subseteq 0 .. model.next - 1)
    BY <1>2 DEF IdsInOrder, Preparing
  <2>2. /\ HandedOut(assumptions', model.next, next + 1)
        /\ Range(assumptions') = Range(assumptions) \cup {next}
    BY <1>1, <1>3, <2>1, HandedOutGrows
  <2>3. HandedOut(assumptions, model.next, next)'
    BY <1>1, <2>2 DEF HandedOut, Increasing
  <2>4. Covered' => InUse' \subseteq 0 .. model'.next - 1
    BY <2>1 DEF Covered, InUse
  <2>5. assumptions' \in Seq(Nat)
    BY <2>2 DEF HandedOut
  <2> QED
    BY <1>3, <2>2, <2>3, <2>4, <2>5 DEF IdsInOrder
<1>5. /\ BlocksApart'
      /\ ids' \in [Blocks -> Seq(Nat)]
      /\ \A d \in Blocks : d # b => ids'[d] = ids[d]
  BY <1>1, <1>3, <1>4, BlockGrows
<1>6. PreparationTypes'
  BY <1>1, <1>2, <1>4, <1>5 DEF PreparationTypes
<1>7. NegationsKept'
  <2>1. \A d \in {"positive", "negative"} : ids'[d] = ids[d]
    BY <1>5 DEF Blocks
  <2>2. NegationWanted' => NegationWanted /\ ids'.fm = ids.fm
    <3>1. NegationWanted' => NegationWanted
      BY DEF NegationWanted
    <3>2. b # "fm" => ids'.fm = ids.fm
      BY <1>5 DEF Blocks
    <3> QED
      BY <3>1, <3>2
  <2> QED
    BY <1>1, <1>2, <2>1, <2>2 DEF NegationsKept
<1>8. TaskAssigned'
  BY DEF TaskInv, TaskAssigned, Exclusive, Preparing
<1> QED
  BY <1>4, <1>5, <1>6, <1>7, <1>8 DEF TaskInv

\* allocate_pair: the next two ids, for an item and its negation.
LEMMA PairKeeps ==
  ASSUME TaskInv, pc \in Preparing, NEW b \in Blocks, NEW K, NEW N, Pair(b, K, N),
         UNCHANGED <<source, settings, model, pc, task>>,
         b = "fm" => Len(ids.fm) < Len(model.constraints),
         b # "fm" => settings[b] # None
  PROVE  TaskInv'
<1>1. /\ assumptions' = assumptions \o <<next, next + 1>>
      /\ ids' = [ids EXCEPT ![b] = Append(@, next)]
      /\ next' = next + 2
      /\ negation' = [id \in DOMAIN negation \cup {next} |->
                          IF id = next THEN next + 1 ELSE negation[id]]
  BY DEF Pair
<1>2. PreparationTypes /\ NegationsKept /\ IdsInOrder
  BY DEF TaskInv
<1>3. /\ next \in Nat /\ next + 1 \in Nat /\ next' \in Nat /\ next < next' /\ model.next \in Nat
      /\ assumptions \in Seq(Nat)
  BY <1>1, <1>2 DEF PreparationTypes, ModelTypes
<1> DEFINE first == Append(assumptions, next)
<1>4. assumptions' = Append(first, next + 1)
  BY <1>1, <1>3
<1>5. /\ HandedOut(assumptions, model.next, next)
      /\ model.next <= next /\ model.next <= next + 1 /\ model.next <= next'
      /\ Covered => InUse \subseteq 0 .. model.next - 1
  <2>1. /\ HandedOut(assumptions, model.next, next) /\ model.next <= next
        /\ Covered => InUse \subseteq 0 .. model.next - 1
    BY <1>2 DEF IdsInOrder, Preparing
  <2> QED
    BY <2>1, <1>1, <1>3
<1>6. HandedOut(first, model.next, next + 1) /\ Range(first) = Range(assumptions) \cup {next}
  BY <1>3, <1>5, HandedOutGrows
<1> HIDE DEF first
<1>7. /\ HandedOut(assumptions', model.next, (next + 1) + 1)
      /\ Range(assumptions') = Range(assumptions) \cup {next, next + 1}
  BY <1>3, <1>4, <1>5, <1>6, HandedOutGrows
<1>8. (next + 1) + 1 = next'
  BY <1>1, <1>3
<1>9. assumptions' \in Seq(Nat)
  BY <1>7 DEF HandedOut
<1>10. IdsInOrder'
  <2>1. HandedOut(assumptions, model.next, next)'
    BY <1>7, <1>8 DEF HandedOut, Increasing
  <2>2. Covered' => InUse' \subseteq 0 .. model'.next - 1
    BY <1>5 DEF Covered, InUse
  <2> QED
    BY <1>5, <2>1, <2>2 DEF IdsInOrder
<1>11. /\ BlocksApart'
       /\ ids' \in [Blocks -> Seq(Nat)]
       /\ Range(ids'[b]) = Range(ids[b]) \cup {next}
       /\ \A d \in Blocks : d # b => ids'[d] = ids[d]
  BY <1>1, <1>3, BlockGrows
<1>12. DOMAIN negation' = DOMAIN negation \cup {next}
  BY <1>1
<1>13. PreparationTypes'
  <2>1. negation' \in [DOMAIN negation' -> Nat]
    BY <1>1, <1>2, <1>3 DEF PreparationTypes
  <2>2. DOMAIN negation' \subseteq Range(assumptions')
    BY <1>2, <1>7, <1>12 DEF PreparationTypes
  <2> QED
    BY <1>2, <1>3, <1>9, <1>11, <2>1, <2>2 DEF PreparationTypes
<1>14. NegationsKept'
  <2>1. ASSUME NEW d \in Blocks, Range(ids[d]) \subseteq DOMAIN negation
        PROVE  Range(ids'[d]) \subseteq DOMAIN negation'
    BY <2>1, <1>11, <1>12
  <2>2. "fm" \in Blocks /\ "positive" \in Blocks /\ "negative" \in Blocks
    BY DEF Blocks
  <2>3. NegationWanted' => NegationWanted
    BY DEF NegationWanted
  <2> QED
    BY <1>2, <2>1, <2>2, <2>3 DEF NegationsKept
<1>15. TaskAssigned'
  BY DEF TaskInv, TaskAssigned, Exclusive, Preparing
<1> QED
  BY <1>10, <1>11, <1>13, <1>14, <1>15 DEF TaskInv

\* One constraint, assignment or test case is prepared.
LEMMA PrepareKeeps ==
  ASSUME TaskInv, PrepareConstraint \/ PrepareAssignment \/ PrepareTestCase
  PROVE  TaskInv'
<1>1. PreparationTypes
  BY DEF TaskInv
<1>2. CASE PrepareConstraint
  <2>1. /\ pc = "fm" /\ Len(ids.fm) + 1 <= Len(model.constraints)
        /\ UNCHANGED <<source, settings, model, pc, task>>
    BY <1>2 DEF PrepareConstraint
  <2>2. pc \in Preparing /\ "fm" \in Blocks \ {"positive", "negative"}
    BY <2>1 DEF Preparing, Blocks
  <2>3. Len(ids.fm) < Len(model.constraints)
    <3>1. ids.fm \in Seq(Nat) /\ model.constraints \in Seq(Seq(SUBSET Int))
      BY <1>1, <2>2 DEF PreparationTypes, ModelTypes
    <3>2. Len(ids.fm) \in Nat /\ Len(model.constraints) \in Nat
      BY <3>1, LenProperties
    <3> QED
      BY <2>1, <3>2
  <2>4. \/ ~NegationWanted /\ \E K : Single("fm", K)
        \/ \E K, N : Pair("fm", K, N)
    BY <1>2 DEF PrepareConstraint
  <2> QED
    BY <2>1, <2>2, <2>3, <2>4, SingleKeeps, PairKeeps
<1>3. CASE PrepareAssignment
  <2>1. /\ pc \in {"configuration", "testCase"} /\ settings[pc] # None
        /\ \E K : Single(pc, K)
        /\ UNCHANGED <<source, settings, model, pc, task>>
    BY <1>3 DEF PrepareAssignment
  <2>2. pc \in Preparing /\ pc \in Blocks \ {"positive", "negative"} /\ pc # "fm"
    BY <2>1 DEF Preparing, Blocks
  <2> QED
    BY <2>1, <2>2, SingleKeeps
<1>4. CASE PrepareTestCase
  <2>1. /\ pc \in {"positive", "negative"} /\ settings[pc] # None
        /\ \E K, N : Pair(pc, K, N)
        /\ UNCHANGED <<source, settings, model, pc, task>>
    BY <1>4 DEF PrepareTestCase
  <2>2. pc \in Preparing /\ pc \in Blocks /\ pc # "fm"
    BY <2>1 DEF Preparing, Blocks
  <2> QED
    BY <2>1, <2>2, PairKeeps
<1> QED
  BY <1>2, <1>3, <1>4

----------------------------------------------------------------------------
(* The roles.                                                               *)

TaskRecords == [DOMAIN NoTask -> Seq(Nat)]

\* The roles are lists of ids when the roots that they need are there.
LEMMA RolesTyped ==
  ASSUME TaskInv, Exclusive(settings), RootNeeded => ids.fm # <<>>
  PROVE  Roles \in TaskRecords
<1>1. PreparationTypes /\ NegationsKept
  BY DEF TaskInv
<1>2. \A b \in Blocks : ids[b] \in Seq(Nat)
  BY <1>1 DEF PreparationTypes
<1>3. /\ ids.fm \in Seq(Nat) /\ ids.configuration \in Seq(Nat) /\ ids.testCase \in Seq(Nat)
      /\ ids.positive \in Seq(Nat) /\ ids.negative \in Seq(Nat)
  BY <1>2 DEF Blocks
<1>4. ids.fm # <<>> => Root \in Seq(Nat) /\ Tail(ids.fm) \in Seq(Nat)
  <2> SUFFICES ASSUME ids.fm # <<>> PROVE Root \in Seq(Nat) /\ Tail(ids.fm) \in Seq(Nat)
    OBVIOUS
  <2>1. Tail(ids.fm) \in Seq(Nat)
    BY <1>3, HeadTailProperties
  <2>2. ids.fm[1] \in Nat
    BY <1>3
  <2> QED
    BY <2>1, <2>2 DEF Root
<1>5. ASSUME NEW list \in Seq(Nat), Range(list) \subseteq DOMAIN negation
      PROVE  NegatedOf(list) \in Seq(Nat)
  <2>1. PICK k \in Nat : DOMAIN list = 1 .. k
    BY LenProperties
  <2>2. \A i \in 1 .. k : negation[list[i]] \in Nat
    BY <1>1, <1>5, <2>1 DEF PreparationTypes, Range
  <2> QED
    BY <2>1, <2>2, IsASeq DEF NegatedOf
<1>6. NegatedOf(ids.positive) \in Seq(Nat) /\ NegatedOf(ids.negative) \in Seq(Nat)
  BY <1>1, <1>3, <1>5 DEF NegationsKept
<1>7. ASSUME NEW c \in Seq(Nat), NEW b \in Seq(Nat)
      PROVE  /\ [NoTask EXCEPT !.b = b, !.c = c] \in TaskRecords
             /\ [NoTask EXCEPT !.c = c] \in TaskRecords
             /\ \A tc, tv, n, m \in Seq(Nat) :
                  [NoTask EXCEPT !.b = b, !.c = c, !.tc = tc, !.tv = tv, !.negTc = n, !.negTv = m]
                    \in TaskRecords
  <2>1. NoTask \in TaskRecords
    <3>1. <<>> \in Seq(Nat)
      BY EmptySeq
    <3>2. NoTask \in [DOMAIN NoTask -> {<<>>}]
      BY DEF NoTask
    <3> QED
      BY <3>1, <3>2 DEF TaskRecords
  <2> QED
    BY <2>1 DEF TaskRecords
<1>8. <<>> \in Seq(Nat)
  BY EmptySeq
<1>9. CASE settings.positive # None
  <2>1. settings.configuration = None
    BY <1>9 DEF Exclusive
  <2>2. ids.fm # <<>>
    BY <2>1, <1>9 DEF RootNeeded
  <2> QED
    BY <2>2, <1>3, <1>4, <1>6, <1>7, <1>9 DEF Roles
<1>10. CASE settings.positive = None /\ settings.configuration # None
  <2>1. CASE settings.cfInC
    <3>1. ids.fm # <<>>
      BY <2>1, <1>10 DEF RootNeeded
    <3>2. Tail(ids.fm) \o ids.configuration \in Seq(Nat)
      BY <3>1, <1>3, <1>4, ConcatProperties
    <3> QED
      BY <2>1, <3>1, <3>2, <1>4, <1>7, <1>10 DEF Roles
  <2>2. CASE ~settings.cfInC
    BY <2>2, <1>3, <1>7, <1>10 DEF Roles
  <2> QED
    BY <2>1, <2>2
<1>11. CASE settings.positive = None /\ settings.configuration = None /\ settings.testCase # None
  <2>1. ids.fm # <<>>
    BY <1>11 DEF RootNeeded
  <2>2. Root \o ids.testCase \in Seq(Nat)
    BY <2>1, <1>3, <1>4, ConcatProperties
  <2> QED
    BY <2>1, <2>2, <1>4, <1>7, <1>11 DEF Roles
<1>12. CASE settings.positive = None /\ settings.configuration = None /\ settings.testCase = None
  <2>1. CASE settings.redundancy
    <3>1. (IF ids.fm = <<>> THEN <<>> ELSE Tail(ids.fm)) \in Seq(Nat)
      BY <1>4, <1>8
    <3> QED
      BY <2>1, <3>1, <1>7, <1>8, <1>12 DEF Roles
  <2>2. CASE ~settings.redundancy
    <3>1. ids.fm # <<>>
      BY <2>2, <1>12 DEF RootNeeded
    <3> QED
      BY <2>2, <3>1, <1>4, <1>7, <1>12 DEF Roles
  <2> QED
    BY <2>1, <2>2
<1> QED
  BY <1>9, <1>10, <1>11, <1>12

\* The roles are assigned to what was prepared.
LEMMA AssignKeeps ==
  ASSUME TaskInv, AssignSets
  PROVE  TaskInv'
<1>1. /\ pc = "assign" /\ pc' = "ready" /\ task' = Roles
      /\ RootNeeded => ids.fm # <<>>
      /\ UNCHANGED <<source, settings, model, next, kb, assumptions, ids, negation>>
  BY DEF AssignSets
<1>2. Exclusive(settings)
  BY <1>1 DEF TaskInv, TaskAssigned
<1>3. task' \in TaskRecords
  BY <1>1, <1>2, RolesTyped
<1>4. PreparationTypes'
  BY <1>1, <1>3 DEF TaskInv, PreparationTypes, TaskRecords, Phases
<1>5. IdsInOrder'
  BY <1>1 DEF TaskInv, IdsInOrder, Covered, InUse, HandedOut, Increasing
<1>6. BlocksApart'
  BY <1>1 DEF TaskInv, BlocksApart, Increasing
<1>7. NegationsKept'
  BY <1>1 DEF TaskInv, NegationsKept, NegationWanted
<1>8. TaskAssigned'
  <2>1. Roles' = Roles
    BY <1>1 DEF Roles, Root, NegatedOf
  <2>2. RootNeeded' = RootNeeded
    BY <1>1 DEF RootNeeded
  <2> QED
    BY <1>1, <1>2, <2>1, <2>2 DEF TaskAssigned, Exclusive
<1> QED
  BY <1>4, <1>5, <1>6, <1>7, <1>8 DEF TaskInv

\* The invariant holds in every state.
LEMMA TaskInvariant == Spec => []TaskInv
<1>1. Init => TaskInv
  BY TaskInitInv
<1>2. TaskInv /\ [Next]_vars => TaskInv'
  <2> SUFFICES ASSUME TaskInv, [Next]_vars PROVE TaskInv'
    OBVIOUS
  <2>1. CASE Next
    BY <2>1, ConfigureKeeps, BuildKeeps, NegateKeeps, StepsKeep, StartKeeps, PrepareKeeps,
       AssignKeeps, Zenon
    DEF Next
  <2>2. CASE UNCHANGED vars
    <3> USE <2>2 DEF vars
    <3>1. PreparationTypes'
      BY DEF TaskInv, PreparationTypes
    <3>2. IdsInOrder'
      BY DEF TaskInv, IdsInOrder, Covered, InUse, HandedOut, Increasing
    <3>3. BlocksApart'
      BY DEF TaskInv, BlocksApart, Increasing
    <3>4. NegationsKept'
      BY DEF TaskInv, NegationsKept, NegationWanted
    <3>5. TaskAssigned'
      <4>1. Roles' = Roles
        BY DEF Roles, Root, NegatedOf
      <4>2. RootNeeded' = RootNeeded
        BY DEF RootNeeded
      <4> QED
        BY <4>1, <4>2 DEF TaskInv, TaskAssigned, Exclusive
    <3> QED
      BY <3>1, <3>2, <3>3, <3>4, <3>5 DEF TaskInv
  <2> QED
    BY <2>1, <2>2
<1> QED
  BY <1>1, <1>2, PTL DEF Spec

\* From any source, settings and suites, preparation makes lists of ids
\* (DiagnosisModelBuilder.build, build_task_input, prepare_task).
THEOREM TaskTypeCorrect == Spec => []TypeOK
BY TaskInvariant, TaskInvImpliesTypes, PTL

\* However many constraints, assignments and test cases a task has, and however many
\* auxiliary variables their negations take, no assumption is given out twice or is a
\* variable of a clause, provided that a DIMACS file whose constraints are negated
\* names its variables (AssumptionIdAllocator, negate_cnf_tseitin, next_available_id).
THEOREM IdsAreApart == Spec => []IdsApart
BY TaskInvariant, TaskInvImpliesIdsApart, PTL

----------------------------------------------------------------------------
(* A list of the elements of X, each once.                                  *)

Lists(list, X) == list \in Seq(Nat) /\ IsInjective(list) /\ Range(list) = X

\* Lists that share nothing make a list together.
LEMMA JoinedLists ==
  ASSUME NEW s, NEW t, NEW X, NEW Y, Lists(s, X), Lists(t, Y), X \cap Y = {}
  PROVE  Lists(s \o t, X \cup Y)
<1>1. s \in Seq(Nat) /\ t \in Seq(Nat) /\ IsInjective(s) /\ IsInjective(t)
  BY DEF Lists
<1>2. PICK k \in Nat, m \in Nat : /\ Len(s) = k /\ DOMAIN s = 1 .. k
                                  /\ Len(t) = m /\ DOMAIN t = 1 .. m
  BY <1>1, LenProperties
<1> DEFINE st == s \o t
<1>3. /\ st \in Seq(Nat) /\ DOMAIN st = 1 .. k + m
      /\ \A i \in 1 .. k + m : st[i] = IF i <= k THEN s[i] ELSE t[i - k]
  <2>1. /\ st \in Seq(Nat) /\ Len(st) = k + m
        /\ \A i \in 1 .. k + m : st[i] = IF i <= k THEN s[i] ELSE t[i - k]
    <3>1. /\ st \in Seq(Nat) /\ Len(st) = Len(s) + Len(t)
          /\ \A i \in 1 .. Len(s) + Len(t) : st[i] = IF i <= Len(s) THEN s[i] ELSE t[i - Len(s)]
      BY <1>1, ConcatProperties, Zenon
    <3> HIDE DEF st
    <3> QED
      BY <3>1, <1>2
  <2> HIDE DEF st
  <2> QED
    BY <2>1, LenProperties
<1> HIDE DEF st
<1>4. \A i \in 1 .. k + m : i \in 1 .. k \/ (i > k /\ i - k \in 1 .. m)
  BY <1>2
<1>5. \A i \in 1 .. k + m :
        \/ i \in 1 .. k /\ st[i] = s[i] /\ st[i] \in X
        \/ i > k /\ i - k \in 1 .. m /\ st[i] = t[i - k] /\ st[i] \in Y
  <2> SUFFICES ASSUME NEW i \in 1 .. k + m
               PROVE  \/ i \in 1 .. k /\ st[i] = s[i] /\ st[i] \in X
                      \/ i > k /\ i - k \in 1 .. m /\ st[i] = t[i - k] /\ st[i] \in Y
    OBVIOUS
  <2>1. CASE i \in 1 .. k
    <3>1. st[i] = s[i]
      BY <2>1, <1>3
    <3> QED
      BY <2>1, <3>1, <1>2 DEF Lists, Range
  <2>2. CASE i > k /\ i - k \in 1 .. m
    <3>1. st[i] = t[i - k]
      BY <2>2, <1>3
    <3> QED
      BY <2>2, <3>1, <1>2 DEF Lists, Range
  <2> QED
    BY <2>1, <2>2, <1>4
<1>6. IsInjective(st)
  <2> SUFFICES ASSUME NEW i \in 1 .. k + m, NEW j \in 1 .. k + m, st[i] = st[j]
               PROVE  i = j
    BY <1>3 DEF IsInjective
  <2>1. CASE i \in 1 .. k /\ j \in 1 .. k
    <3>1. st[i] = s[i] /\ st[j] = s[j]
      BY <2>1, <1>3
    <3> QED
      BY <2>1, <3>1, <1>1, <1>2 DEF IsInjective
  <2>2. CASE i > k /\ j > k
    <3>1. /\ i - k \in 1 .. m /\ j - k \in 1 .. m
          /\ st[i] = t[i - k] /\ st[j] = t[j - k]
      BY <2>2, <1>3, <1>4
    <3>2. i - k = j - k
      BY <3>1, <1>1, <1>2 DEF IsInjective
    <3> QED
      BY <3>2
  <2> QED
    BY <2>1, <2>2, <1>5
<1>7. X \cup Y \subseteq Range(st)
  <2>1. ASSUME NEW x \in X PROVE x \in Range(st)
    <3>1. PICK i \in 1 .. k : s[i] = x
      BY <1>2 DEF Lists, Range
    <3>2. i \in 1 .. k + m /\ st[i] = x
      BY <3>1, <1>3
    <3> QED
      BY <3>2, <1>3 DEF Range
  <2>2. ASSUME NEW y \in Y PROVE y \in Range(st)
    <3>1. PICK i \in 1 .. m : t[i] = y
      BY <1>2 DEF Lists, Range
    <3>2. k + i \in 1 .. k + m /\ ~(k + i <= k) /\ (k + i) - k = i
      OBVIOUS
    <3>3. st[k + i] = y
      BY <3>1, <3>2, <1>3
    <3> QED
      BY <3>2, <3>3, <1>3 DEF Range
  <2> QED
    BY <2>1, <2>2
<1>8. Range(st) \subseteq X \cup Y
  BY <1>3, <1>5 DEF Range
<1> QED
  BY <1>3, <1>6, <1>7, <1>8 DEF Lists, st

\* The list of nothing, and that of one element.
LEMMA ShortLists ==
  /\ Lists(<<>>, {})
  /\ \A x \in Nat : Lists(<<x>>, {x})
<1>1. Lists(<<>>, {})
  BY EmptySeq DEF Lists, IsInjective, Range
<1>2. ASSUME NEW x \in Nat PROVE Lists(<<x>>, {x})
  BY DEF Lists, IsInjective, Range
<1> QED
  BY <1>1, <1>2

\* A list without its first element.
LEMMA RestOfList ==
  ASSUME NEW s, NEW X, Lists(s, X), s # <<>>
  PROVE  s[1] \in X /\ s[1] \in Nat /\ Lists(Tail(s), X \ {s[1]})
<1>1. s \in Seq(Nat) /\ IsInjective(s)
  BY DEF Lists
<1>2. PICK k \in Nat : Len(s) = k /\ DOMAIN s = 1 .. k
  BY <1>1, LenProperties
<1>3. k # 0 /\ 1 \in 1 .. k
  BY <1>1, <1>2, EmptySeq
<1>4. /\ Tail(s) \in Seq(Nat) /\ DOMAIN Tail(s) = 1 .. k - 1
      /\ \A i \in 1 .. k - 1 : Tail(s)[i] = s[i + 1]
  BY <1>1, <1>2, <1>3, HeadTailProperties, LenProperties
<1>5. \A i \in 1 .. k - 1 : i + 1 \in 1 .. k /\ i + 1 # 1
  BY <1>2
<1>6. \A i \in 1 .. k : i = 1 \/ (i - 1 \in 1 .. k - 1 /\ (i - 1) + 1 = i)
  BY <1>2
<1>7. IsInjective(Tail(s))
  <2> SUFFICES ASSUME NEW i \in 1 .. k - 1, NEW j \in 1 .. k - 1, s[i + 1] = s[j + 1]
               PROVE  i = j
    BY <1>4 DEF IsInjective
  <2>1. i + 1 = j + 1
    BY <1>1, <1>2, <1>5 DEF IsInjective
  <2> QED
    BY <2>1
<1>8. \A i \in 1 .. k - 1 : s[i + 1] \in X \ {s[1]}
  <2> SUFFICES ASSUME NEW i \in 1 .. k - 1 PROVE s[i + 1] \in X /\ s[i + 1] # s[1]
    OBVIOUS
  <2>1. s[i + 1] \in X
    BY <1>2, <1>5 DEF Lists, Range
  <2>2. s[i + 1] # s[1]
    BY <1>1, <1>2, <1>3, <1>5 DEF IsInjective
  <2> QED
    BY <2>1, <2>2
<1>9. \A x \in X \ {s[1]} : \E i \in 1 .. k - 1 : s[i + 1] = x
  <2> SUFFICES ASSUME NEW x \in X \ {s[1]} PROVE \E i \in 1 .. k - 1 : s[i + 1] = x
    OBVIOUS
  <2>1. PICK i \in 1 .. k : s[i] = x
    BY <1>2 DEF Lists, Range
  <2> QED
    BY <2>1, <1>6
<1>10. Range(Tail(s)) = X \ {s[1]}
  <2> DEFINE rest == Tail(s)
  <2>1. DOMAIN rest = 1 .. k - 1 /\ \A i \in 1 .. k - 1 : rest[i] = s[i + 1]
    BY <1>4
  <2> HIDE DEF rest
  <2>2. Range(rest) = {s[i + 1] : i \in 1 .. k - 1}
    BY <2>1 DEF Range
  <2> QED
    BY <2>2, <1>8, <1>9 DEF rest
<1>11. s[1] \in X
  BY <1>2, <1>3 DEF Lists, Range
<1>12. s[1] \in Nat
  BY <1>1, <1>2, <1>3, ElementOfSeq
<1> QED
  BY <1>4, <1>7, <1>10, <1>11, <1>12 DEF Lists

\* The blocks list what was given, each item once.
LEMMA BlocksAreLists ==
  ASSUME TaskInv
  PROVE  /\ \A b \in Blocks : Lists(ids[b], Range(ids[b]))
         /\ \A b, d \in Blocks : b # d => Range(ids[b]) \cap Range(ids[d]) = {}
         /\ DOMAIN ids = Blocks
         /\ \A b \in Blocks \ {"fm"} : settings[b] = None => ids[b] = <<>> /\ Range(ids[b]) = {}
<1>1. PreparationTypes /\ BlocksApart
  BY DEF TaskInv
<1>2. ids \in [Blocks -> Seq(Nat)]
  BY <1>1 DEF PreparationTypes
<1>3. ASSUME NEW b \in Blocks PROVE IsInjective(ids[b])
  <2>1. Increasing(ids[b]) /\ ids[b] \in Seq(Nat)
    BY <1>1, <1>2 DEF BlocksApart
  <2>2. PICK k \in Nat : DOMAIN ids[b] = 1 .. k /\ \A i \in 1 .. k : ids[b][i] \in Nat
    BY <2>1, LenProperties, ElementOfSeq
  <2>3. \A i, j \in 1 .. k : i = j \/ i < j \/ j < i
    OBVIOUS
  <2>4. \A i, j \in 1 .. k : i < j => ids[b][i] < ids[b][j]
    BY <2>1, <2>2 DEF Increasing
  <2> QED
    BY <2>2, <2>3, <2>4 DEF IsInjective
<1>4. Range(<<>>) = {}
  BY DEF Range
<1> QED
  BY <1>1, <1>2, <1>3, <1>4 DEF BlocksApart, Lists

\* What the negations of a list are.
LEMMA NegationsOfList ==
  ASSUME NEW list
  PROVE  Range(NegatedOf(list)) = {negation[id] : id \in Range(list)}
BY DEF NegatedOf, Range

\* Each input of the tasks has one role.
LEMMA EachHasOneRole ==
  ASSUME TaskInv, pc = "ready", Valid(settings),
         NEW fmRedundancy, fmRedundancy = (settings.redundancy /\ InputsOf(settings) = {"redundancy"}),
         NEW given, given = UNION {Range(ids[block]) : block \in DOMAIN ids}
  PROVE  /\ Lists(task.c \o task.b \o task.tc \o task.tv,
                  IF fmRedundancy /\ ids.fm # <<>> THEN given \ {ids.fm[1]} ELSE given)
         /\ Range(task.negTc) = {negation[id] : id \in Range(task.tc)}
         /\ Range(task.negTv) = {negation[id] : id \in Range(task.tv)}
         /\ fmRedundancy => Range(task.c) \subseteq Range(ids.fm)
<1> DEFINE F == Range(ids.fm)
           C == Range(ids.configuration)
           T == Range(ids.testCase)
           P == Range(ids.positive)
           N == Range(ids.negative)
           first == ids.fm[1]
           rest == Tail(ids.fm)
           kept == IF fmRedundancy /\ ids.fm # <<>> THEN given \ {ids.fm[1]} ELSE given
<1>1. /\ Lists(ids.fm, F) /\ Lists(ids.configuration, C) /\ Lists(ids.testCase, T)
      /\ Lists(ids.positive, P) /\ Lists(ids.negative, N)
      /\ F \cap C = {} /\ F \cap T = {} /\ F \cap P = {} /\ F \cap N = {} /\ P \cap N = {}
      /\ given = F \cup C \cup T \cup P \cup N
      /\ settings.configuration = None => ids.configuration = <<>> /\ C = {}
      /\ settings.testCase = None => ids.testCase = <<>> /\ T = {}
      /\ settings.positive = None => ids.positive = <<>> /\ P = {}
      /\ settings.negative = None => ids.negative = <<>> /\ N = {}
  BY BlocksAreLists DEF Blocks
<1>2. task = Roles /\ (RootNeeded => ids.fm # <<>>)
  BY DEF TaskInv, TaskAssigned
<1>3. ids.fm # <<>> => first \in F /\ Lists(rest, F \ {first}) /\ Lists(Root, {first})
  BY <1>1, RestOfList, ShortLists DEF Root
<1>4. Lists(<<>>, {})
  BY ShortLists
<1>5. settings \in SettingTypes
  BY DEF TaskInv, PreparationTypes
<1>6. /\ "positive" \in InputsOf(settings) <=> settings.positive # None
      /\ "configuration" \in InputsOf(settings) <=> settings.configuration # None
      /\ "testCase" \in InputsOf(settings) <=> settings.testCase # None
      /\ fmRedundancy => "positive" \notin InputsOf(settings)
                         /\ "configuration" \notin InputsOf(settings)
                         /\ "testCase" \notin InputsOf(settings)
  <2>1. fmRedundancy => InputsOf(settings) = {"redundancy"}
    OBVIOUS
  <2>2. fmRedundancy => "positive" \notin InputsOf(settings)
                         /\ "configuration" \notin InputsOf(settings)
                         /\ "testCase" \notin InputsOf(settings)
    BY <2>1
  <2> QED
    BY <1>5, <2>2 DEF InputsOf, Default, SettingTypes
<1>7. NegatedOf(<<>>) = <<>> /\ Range(<<>>) = {}
  BY DEF NegatedOf, Range
<1> HIDE DEF F, C, T, P, N, first, rest, kept
<1>8. CASE settings.positive # None
  <2>1. settings.configuration = None /\ settings.testCase = None /\ ~fmRedundancy
    BY <1>6, <1>8 DEF Valid
  <2>2. ids.fm # <<>>
    BY <2>1, <1>2, <1>8 DEF RootNeeded
  <2>3. /\ task.c = rest /\ task.b = Root /\ task.tc = ids.positive /\ task.tv = ids.negative
        /\ task.negTc = NegatedOf(ids.positive) /\ task.negTv = NegatedOf(ids.negative)
    BY <1>2, <1>8 DEF Roles, NoTask, rest
  <2>4. Lists(rest \o Root, (F \ {first}) \cup {first})
    BY <2>2, <1>3, JoinedLists
  <2>5. (F \ {first}) \cup {first} = F
    BY <2>2, <1>3
  <2>6. Lists(rest \o Root \o ids.positive, F \cup P)
    BY <2>4, <2>5, <1>1, JoinedLists
  <2>7. (F \cup P) \cap N = {}
    BY <1>1
  <2>8. Lists(rest \o Root \o ids.positive \o ids.negative, (F \cup P) \cup N)
    BY <2>6, <2>7, <1>1, JoinedLists
  <2>9. kept = (F \cup P) \cup N
    BY <2>1, <1>1 DEF kept
  <2> QED
    BY <2>1, <2>3, <2>8, <2>9, NegationsOfList DEF kept
<1>9. CASE settings.positive = None
  <2>1. settings.negative = None
    BY <1>9 DEF Valid
  <2>2. /\ task.tc = <<>> /\ task.tv = <<>> /\ task.negTc = <<>> /\ task.negTv = <<>>
    BY <1>2, <1>9 DEF Roles, NoTask
  <2>3. ASSUME NEW c, NEW b, NEW X, NEW Y, task.c = c, task.b = b, Lists(c, X), Lists(b, Y),
               X \cap Y = {}, X \cup Y = kept, fmRedundancy => X \subseteq F
        PROVE  /\ Lists(task.c \o task.b \o task.tc \o task.tv, kept)
               /\ Range(task.negTc) = {negation[id] : id \in Range(task.tc)}
               /\ Range(task.negTv) = {negation[id] : id \in Range(task.tv)}
               /\ fmRedundancy => Range(task.c) \subseteq F
    <3>1. Lists(c \o b, X \cup Y)
      BY <2>3, JoinedLists
    <3>2. Lists(c \o b \o <<>>, kept)
      <4>1. Lists(c \o b \o <<>>, (X \cup Y) \cup {})
        BY <3>1, <1>4, JoinedLists
      <4> QED
        BY <4>1, <2>3
    <3>3. Lists(c \o b \o <<>> \o <<>>, kept)
      <4>1. Lists(c \o b \o <<>> \o <<>>, kept \cup {})
        BY <3>2, <1>4, JoinedLists
      <4> QED
        BY <4>1
    <3>4. Range(task.c) = X
      BY <2>3 DEF Lists
    <3>5. {negation[id] : id \in {}} = {}
      OBVIOUS
    <3> QED
      BY <2>2, <2>3, <3>3, <3>4, <3>5, <1>7
  <2>4. CASE settings.configuration # None
    <3>1. settings.testCase = None /\ ~fmRedundancy
      BY <2>4, <1>6 DEF Valid
    <3>2. kept = F \cup C
      BY <3>1, <2>1, <1>1, <1>9 DEF kept
    <3>3. CASE settings.cfInC
      <4>1. ids.fm # <<>>
        BY <3>3, <2>4, <1>2 DEF RootNeeded
      <4>2. task.c = rest \o ids.configuration /\ task.b = Root
        BY <3>3, <2>4, <1>2, <1>9 DEF Roles, NoTask, rest
      <4>3. Lists(rest \o ids.configuration, (F \ {first}) \cup C)
        <5>1. (F \ {first}) \cap C = {}
          BY <1>1
        <5> QED
          BY <5>1, <4>1, <1>1, <1>3, JoinedLists
      <4>4. /\ ((F \ {first}) \cup C) \cap {first} = {}
            /\ ((F \ {first}) \cup C) \cup {first} = kept
        BY <4>1, <3>2, <1>1, <1>3
      <4> QED
        BY <4>1, <4>2, <4>3, <4>4, <3>1, <2>3, <1>3 DEF kept, F
    <3>4. CASE ~settings.cfInC
      <4>1. task.c = ids.configuration /\ task.b = ids.fm
        BY <3>4, <2>4, <1>2, <1>9 DEF Roles, NoTask
      <4>2. C \cap F = {} /\ C \cup F = kept
        BY <3>2, <1>1
      <4> QED
        BY <4>1, <4>2, <3>1, <2>3, <1>1 DEF kept, F
    <3> QED
      BY <3>3, <3>4
  <2>5. CASE settings.configuration = None /\ settings.testCase # None
    <3>1. ids.fm # <<>> /\ ~fmRedundancy
      BY <2>5, <1>2, <1>6 DEF RootNeeded
    <3>2. task.c = rest /\ task.b = Root \o ids.testCase
      BY <2>5, <1>2, <1>9 DEF Roles, NoTask, rest
    <3>3. Lists(Root \o ids.testCase, {first} \cup T)
      <4>1. {first} \cap T = {}
        BY <3>1, <1>1, <1>3
      <4> QED
        BY <4>1, <3>1, <1>1, <1>3, JoinedLists
    <3>4. kept = F \cup T
      BY <3>1, <2>1, <2>5, <1>1, <1>9 DEF kept
    <3>5. /\ (F \ {first}) \cap ({first} \cup T) = {}
          /\ (F \ {first}) \cup ({first} \cup T) = kept
      BY <3>1, <3>4, <1>1, <1>3
    <3> QED
      BY <3>1, <3>2, <3>3, <3>5, <2>3, <1>3 DEF kept, F
  <2>6. CASE settings.configuration = None /\ settings.testCase = None
    <3>1. given = F
      BY <2>1, <2>6, <1>1, <1>9
    <3>2. CASE ~settings.redundancy
      <4>1. ids.fm # <<>> /\ ~fmRedundancy
        BY <3>2, <2>6, <1>2 DEF RootNeeded
      <4>2. task.c = rest /\ task.b = Root
        BY <3>2, <2>6, <1>2, <1>9 DEF Roles, NoTask, rest
      <4>3. (F \ {first}) \cap {first} = {} /\ (F \ {first}) \cup {first} = kept
        BY <4>1, <3>1, <1>3 DEF kept
      <4> QED
        BY <4>1, <4>2, <4>3, <2>3, <1>3 DEF kept, F
    <3>3. CASE settings.redundancy
      <4>1. fmRedundancy
        <5>1. ~settings.cfInC
          BY <2>6 DEF Valid
        <5>2. InputsOf(settings) = {"redundancy"}
          <6>1. DOMAIN settings = {"redundancy", "cfInC", "configuration", "testCase",
                                   "positive", "negative"}
            BY <1>5 DEF SettingTypes
          <6>2. settings.cfInC = FALSE /\ settings.redundancy = TRUE
            BY <5>1, <3>3, <1>5 DEF SettingTypes
          <6>3. \A f \in DOMAIN settings : settings[f] # Default[f] <=> f = "redundancy"
            <7>1. /\ Default["redundancy"] = FALSE /\ Default["cfInC"] = FALSE
                  /\ Default["configuration"] = None /\ Default["testCase"] = None
                  /\ Default["positive"] = None /\ Default["negative"] = None
              BY DEF Default
            <7> QED
              BY <7>1, <6>1, <6>2, <2>1, <2>6, <1>9
          <6> QED
            BY <6>1, <6>3 DEF InputsOf
        <5> QED
          BY <5>2, <3>3
      <4>2. task.b = <<>> /\ task.c = IF ids.fm = <<>> THEN <<>> ELSE rest
        BY <3>3, <2>6, <1>2, <1>9 DEF Roles, NoTask, rest
      <4>3. CASE ids.fm = <<>>
        <5>1. kept = {}
          BY <4>3, <3>1, <1>7 DEF kept, F
        <5> QED
          BY <5>1, <4>2, <4>3, <2>3, <1>4 DEF kept, F
      <4>4. CASE ids.fm # <<>>
        <5>1. kept = F \ {first}
          BY <4>1, <4>4, <3>1 DEF kept, first
        <5> QED
          BY <5>1, <4>2, <4>4, <2>3, <1>3, <1>4 DEF kept, F
      <4> QED
        BY <4>3, <4>4
    <3> QED
      BY <3>2, <3>3
  <2> QED
    BY <2>4, <2>5, <2>6
<1> QED
  BY <1>8, <1>9

\* The root is not diagnosed, whatever the task.
LEMMA RootNotDiagnosed ==
  ASSUME TaskInv, pc = "ready", ids.fm # <<>>
  PROVE  ids.fm[1] \notin Range(task.c)
<1> DEFINE F == Range(ids.fm)
           C == Range(ids.configuration)
           first == ids.fm[1]
           rest == Tail(ids.fm)
<1>1. Lists(ids.fm, F) /\ Lists(ids.configuration, C) /\ F \cap C = {}
  BY BlocksAreLists DEF Blocks
<1>2. first \in F /\ Lists(rest, F \ {first})
  BY <1>1, RestOfList
<1>3. task.c \in {rest, rest \o ids.configuration, ids.configuration, <<>>}
  BY DEF TaskInv, TaskAssigned, Roles, NoTask
<1> HIDE DEF F, C, first, rest
<1>4. Lists(rest \o ids.configuration, (F \ {first}) \cup C)
  BY <1>1, <1>2, JoinedLists
<1>5. Lists(<<>>, {})
  BY ShortLists
<1>6. Range(task.c) \in {F \ {first}, (F \ {first}) \cup C, C, {}}
  BY <1>1, <1>2, <1>3, <1>4, <1>5 DEF Lists
<1>7. first \notin Range(task.c)
  BY <1>1, <1>2, <1>6
<1> QED
  BY <1>7 DEF first

\* The negation of every constraint is there when the search for redundant ones was
\* asked for before the model was built.
LEMMA ConstraintsNegated ==
  ASSUME TaskInv, pc = "ready", settings.redundancy, settings.positive = None, model.negations
  PROVE  Range(ids.fm) \subseteq DOMAIN negation
<1>1. PreparationTypes /\ BlocksApart /\ NegationsKept
  BY DEF TaskInv
<1>2. /\ ids.fm \in Seq(Nat) /\ model.negated \in Seq(SUBSET SUBSET Int)
      /\ model.constraints \in Seq(Seq(SUBSET Int))
  BY <1>1 DEF PreparationTypes, ModelTypes, Blocks
<1>3. Len(model.negated) = Len(model.constraints) /\ Len(ids.fm) <= Len(model.constraints)
  BY <1>1 DEF NegationsKept, BlocksApart
<1>4. CASE model.negated = <<>>
  <2>1. Len(ids.fm) <= 0 /\ Len(ids.fm) \in Nat
    BY <1>2, <1>3, <1>4, EmptySeq, LenProperties
  <2>2. ids.fm = <<>>
    BY <2>1, <1>2, EmptySeq
  <2> QED
    BY <2>2 DEF Range
<1>5. CASE model.negated # <<>>
  BY <1>1, <1>5 DEF NegationsKept, NegationWanted
<1> QED
  BY <1>4, <1>5

\* Whatever is given in a valid combination has one role in the task, but for the root
\* where redundant constraints are looked for, which has none; the root is never
\* diagnosed, and the negations that the algorithms look up are there (_assign_sets).
THEOREM RolesOfInputs == Spec => []InputsHaveRoles
<1>1. TaskInv => InputsHaveRoles
  <2> SUFFICES ASSUME TaskInv, pc = "ready", Valid(settings)
               PROVE  LET roles == task.c \o task.b \o task.tc \o task.tv
                          given == UNION {Range(ids[block]) : block \in DOMAIN ids}
                          fmRedundancy == settings.redundancy /\ InputsOf(settings) = {"redundancy"}
                      IN
                      /\ IsInjective(roles)
                      /\ Range(roles) = IF fmRedundancy /\ ids.fm # <<>> THEN given \ {ids.fm[1]}
                                        ELSE given
                      /\ ids.fm # <<>> => ids.fm[1] \notin Range(task.c)
                      /\ Range(task.negTc) = {negation[id] : id \in Range(task.tc)}
                      /\ Range(task.negTv) = {negation[id] : id \in Range(task.tv)}
                      /\ fmRedundancy /\ model.negations => Range(task.c) \subseteq DOMAIN negation
    BY DEF InputsHaveRoles
  <2> DEFINE given == UNION {Range(ids[block]) : block \in DOMAIN ids}
             fmRedundancy == settings.redundancy /\ InputsOf(settings) = {"redundancy"}
  <2>1. /\ Lists(task.c \o task.b \o task.tc \o task.tv,
                  IF fmRedundancy /\ ids.fm # <<>> THEN given \ {ids.fm[1]} ELSE given)
        /\ Range(task.negTc) = {negation[id] : id \in Range(task.tc)}
        /\ Range(task.negTv) = {negation[id] : id \in Range(task.tv)}
        /\ fmRedundancy => Range(task.c) \subseteq Range(ids.fm)
    BY EachHasOneRole
  <2>2. fmRedundancy => settings.redundancy /\ settings.positive = None
    <3>1. settings \in SettingTypes
      BY DEF TaskInv, PreparationTypes
    <3> QED
      BY <3>1 DEF InputsOf, Default, SettingTypes
  <2>3. fmRedundancy /\ model.negations => Range(ids.fm) \subseteq DOMAIN negation
    BY <2>2, ConstraintsNegated
  <2> QED
    BY <2>1, <2>2, <2>3, RootNotDiagnosed DEF Lists
<1> QED
  BY <1>1, TaskInvariant, PTL

----------------------------------------------------------------------------
(* What the clauses of a task mean.                                         *)

Features == VariablesIn(model.constraints) \cup Range(source.variables)

IsFeature(l) == l \in Literals /\ Variable(l) \in Range(source.variables)

\* What the assumption of the i-th item of a block demands, and what that of its
\* negation does.
Demand(A, b, i) ==
    IF b = "fm" THEN Satisfied(A, Range(model.constraints[i]))
    ELSE IF b \in {"configuration", "testCase"} THEN Asserts(A, Literal(settings[b][i]))
    ELSE \A l \in LiteralsOf(settings[b][i]) : Asserts(A, l)

Denial(A, b, i) ==
    IF b = "fm" THEN Satisfied(A, model.negated[i])
    ELSE \E l \in LiteralsOf(settings[b][i]) : Asserts(A, -l)

\* Clauses are of finitely many variables, and inputs of features.
Formulas ==
    /\ model.next >= 1
    /\ \A i \in DOMAIN model.constraints : Formula(Range(model.constraints[i]))
    /\ \A i \in DOMAIN model.negated : Formula(model.negated[i])
    /\ Formula(kb)
    /\ \A b \in {"configuration", "testCase"} : \A i \in DOMAIN ids[b] :
          IsFeature(Literal(settings[b][i]))
    /\ \A b \in {"positive", "negative"} : \A i \in DOMAIN ids[b] :
          \A l \in LiteralsOf(settings[b][i]) : IsFeature(l)

\* The negation of a constraint excludes it; and where constraints do not hold, there is
\* a choice of the auxiliary variables for all their negations.
NegationsMean ==
    /\ pc = "negate" \/ model.negated # <<>> => model.negations
    /\ \A i \in DOMAIN model.negated : \A A \in SUBSET Int :
          Satisfied(A, model.negated[i]) => ~Satisfied(A, Range(model.constraints[i]))
    /\ Covered => \A A \in SUBSET Features : \E X \in SUBSET (0 .. model.next - 1) :
          /\ X \cap Features = {}
          /\ \A i \in DOMAIN model.negated :
                Satisfied(A, Range(model.constraints[i])) \/ Satisfied(A \cup X, model.negated[i])

\* The assumptions are those of what was given and of the negations.
Listed ==
    /\ \A id \in Range(assumptions) :
          \/ \E b \in Blocks : id \in Range(ids[b])
          \/ \E o \in DOMAIN negation : id = o + 1
    /\ \A b \in Blocks : Range(ids[b]) \subseteq Range(assumptions)
    /\ \A o \in DOMAIN negation :
          /\ negation[o] = o + 1
          /\ o + 1 \in Range(assumptions)
          /\ \E b \in {"fm", "positive", "negative"} : o \in Range(ids[b])
          /\ \A b \in Blocks : o + 1 \notin Range(ids[b])
    /\ \A i \in DOMAIN ids.fm : ids.fm[i] \in DOMAIN negation => i \in DOMAIN model.negated

\* The clauses demand what the assumptions stand for, of those that are true.
DemandsMet(A) ==
    \A b \in Blocks : \A i \in DOMAIN ids[b] :
       /\ ids[b][i] \in A => Demand(A, b, i)
       /\ ids[b][i] \in DOMAIN negation /\ negation[ids[b][i]] \in A => Denial(A, b, i)

ClausesMean ==
    /\ pc \in {"builder", "negate", "built"} => kb = {}
    /\ \A A \in SUBSET Int : Satisfied(A, kb) <=> DemandsMet(A)

MeaningInv == Formulas /\ NegationsMean /\ Listed /\ ClausesMean

----------------------------------------------------------------------------
(* What the clauses mean, from the builder to the task.                     *)

\* The variables and features of a source are between 1 and a bound.
LEMMA SourceBounded ==
  ASSUME NEW s \in Sources
  PROVE  \E n \in Nat : VariablesIn(ClausesOf(s)) \cup Range(s.variables) \subseteq 1 .. n
<1>1. s.nvars \in Nat /\ IsFiniteSet(DOMAIN s.variables)
  BY SourcesAssumption
<1>2. PICK n \in Nat : Cardinality(DOMAIN s.variables) = n
  BY <1>1, FS_CardinalityType
<1> DEFINE used == VariablesIn(ClausesOf(s)) \cup Range(s.variables)
<1>3. used \subseteq IF s.kind = "dimacs" /\ s.nvars > n THEN 1 .. s.nvars ELSE 1 .. n
  BY <1>2, SourcesAssumption DEF Named
<1> HIDE DEF used
<1>4. used \subseteq 1 .. s.nvars \/ used \subseteq 1 .. n
  BY <1>3
<1> QED
  BY <1>1, <1>4 DEF used

\* The literal of a value of a feature.
LEMMA LiteralIsFeature ==
  ASSUME source \in Sources, NEW a, a.name \in DOMAIN source.variables
  PROVE  IsFeature(Literal(a))
<1> DEFINE v == source.variables[a.name]
<1>1. v \in Range(source.variables)
  BY DEF Range
<1>2. PICK n \in Nat : VariablesIn(ClausesOf(source)) \cup Range(source.variables) \subseteq 1 .. n
  BY SourceBounded
<1>3. v \in 1 .. n
  BY <1>1, <1>2
<1>4. Literal(a) = v \/ Literal(a) = -v
  BY DEF Literal
<1> HIDE DEF v
<1>5. \A l : l = v \/ l = -v => l \in Literals /\ Variable(l) = v
  BY <1>3 DEF Literals, Variable
<1> QED
  BY <1>1, <1>4, <1>5 DEF IsFeature

\* A list of clauses is one of clauses of literals if its clauses are a formula.
LEMMA ListOfFormula ==
  ASSUME NEW cs \in Seq(SUBSET Int), Formula(Range(cs))
  PROVE  cs \in Seq(SUBSET Literals)
<1>1. PICK n \in Nat : Len(cs) = n /\ DOMAIN cs = 1 .. n
  BY LenProperties
<1>2. \A i \in 1 .. n : cs[i] \in SUBSET Literals
  <2>1. Range(cs) \subseteq SUBSET Literals
    BY VariablesOfFormula
  <2> QED
    BY <1>1, <2>1 DEF Range
<1>3. cs = [i \in 1 .. n |-> cs[i]]
  BY <1>1
<1> QED
  BY <1>2, <1>3, IsASeq

\* The constraints of a source are formulas.
LEMMA KeyedFormulas ==
  ASSUME NEW s \in Sources, NEW i \in DOMAIN Keyed(s.lines)
  PROVE  Formula(Range(Keyed(s.lines)[i]))
<1>1. PICK n \in Nat : VariablesIn(ClausesOf(s)) \subseteq 1 .. n
  BY SourceBounded
<1> DEFINE cs == Keyed(s.lines)[i]
<1>2. /\ Keyed(s.lines) \in Seq(Seq(SUBSET Int))
      /\ VariablesIn(Keyed(s.lines)) \subseteq 1 .. n
  BY <1>1, KeyedLines
<1>3. cs \in Seq(SUBSET Int) /\ cs \in Range(Keyed(s.lines))
  BY <1>2, ElementOfSeq, LenProperties DEF Range
<1>4. Range(cs) \in SUBSET SUBSET Int
  BY <1>3, RangeProperties
<1>5. VariablesOf(Range(cs)) \subseteq 1 .. n
  BY <1>2, <1>3 DEF VariablesIn
<1> QED
  BY <1>4, <1>5, FormulaByVariables

\* A new builder means nothing.
LEMMA InitMeaning == Init => MeaningInv
<1> SUFFICES ASSUME Init PROVE MeaningInv
  OBVIOUS
<1>1. /\ model.constraints = <<>> /\ model.negated = <<>> /\ model.next = 1000 /\ kb = {}
      /\ pc = "builder" /\ assumptions = <<>> /\ negation = <<>>
      /\ \A b \in Blocks : ids[b] = <<>>
  BY DEF Init, NoIds, Blocks
<1>2. DOMAIN <<>> = {} /\ Range(<<>>) = {}
  BY DEF Range
<1>3. Formula({})
  BY DEF Formula
<1>4. Formulas
  BY <1>1, <1>2, <1>3 DEF Formulas, Blocks
<1>5. NegationsMean
  BY <1>1, <1>2 DEF NegationsMean
<1>6. Listed
  <2>1. DOMAIN negation = {} /\ Range(assumptions) = {} /\ DOMAIN ids.fm = {}
    BY <1>1, <1>2 DEF Blocks
  <2>2. \A b \in Blocks : Range(ids[b]) = {}
    BY <1>1, <1>2
  <2> QED
    BY <2>1, <2>2 DEF Listed
<1>7. ClausesMean
  BY <1>1, <1>2 DEF ClausesMean, DemandsMet, Satisfied
<1> QED
  BY <1>4, <1>5, <1>6, <1>7 DEF MeaningInv

\* Inputs given to a builder mean nothing yet.
LEMMA ConfigureMeaning ==
  ASSUME TaskInv, MeaningInv, Configure
  PROVE  MeaningInv'
<1>1. /\ pc \in {"builder", "built"}
      /\ UNCHANGED <<source, model, pc, kb, assumptions, ids, negation>>
  BY DEF Configure
<1>2. \A b \in Blocks : DOMAIN ids[b] = {}
  BY <1>1, NothingPrepared
<1>3. Formulas'
  BY <1>1, <1>2 DEF MeaningInv, Formulas, Blocks
<1>4. NegationsMean'
  BY <1>1 DEF MeaningInv, NegationsMean, Covered, Features
<1>5. Listed'
  BY <1>1 DEF MeaningInv, Listed
<1>6. ClausesMean'
  BY <1>1, <1>2 DEF MeaningInv, ClausesMean, DemandsMet, Satisfied
<1> QED
  BY <1>3, <1>4, <1>5, <1>6 DEF MeaningInv

\* A model that is built has the constraints of its source.
LEMMA BuildMeaning ==
  ASSUME TaskInv, MeaningInv, Build
  PROVE  MeaningInv'
<1>1. /\ pc = "builder"
      /\ model' = [constraints |-> Keyed(source.lines), negated |-> <<>>,
                   negations |-> settings.redundancy,
                   next |-> Floor(source, settings.redundancy)]
      /\ pc' = (IF settings.redundancy THEN "negate" ELSE "built")
      /\ UNCHANGED <<source, kb, assumptions, ids, negation>>
  BY DEF Build
<1>2. \A b \in Blocks : DOMAIN ids[b] = {}
  BY <1>1, NothingPrepared
<1>3. source \in Sources
  BY DEF TaskInv, PreparationTypes
<1>4. Floor(source, settings.redundancy) >= 1
  <2>1. source.nvars \in Nat /\ IsFiniteSet(DOMAIN source.variables)
        BY <1>3, SourcesAssumption
  <2> QED
    BY <2>1, FS_CardinalityType DEF Floor
<1>5. /\ model'.constraints = Keyed(source.lines) /\ DOMAIN model'.negated = {}
      /\ model'.next >= 1 /\ model'.negated = <<>> /\ model'.negations = settings.redundancy
  BY <1>1, <1>4
<1>6. Formulas'
  BY <1>1, <1>2, <1>3, <1>5, KeyedFormulas DEF MeaningInv, Formulas, Blocks
<1>7. NegationsMean'
  BY <1>1, <1>5 DEF NegationsMean
<1>8. Listed'
  BY <1>1, <1>2, <1>5 DEF MeaningInv, Listed, Blocks
<1>9. ClausesMean'
  BY <1>1, <1>2 DEF MeaningInv, ClausesMean, DemandsMet, Satisfied
<1> QED
  BY <1>6, <1>7, <1>8, <1>9 DEF MeaningInv

\* Steps from one phase to the next change no meaning.
LEMMA PhaseMeaning ==
  ASSUME MeaningInv,
         UNCHANGED <<source, settings, model, kb, assumptions, ids, negation>>,
         pc' \in {"builder", "negate", "built"} => pc \in {"builder", "negate", "built"},
         pc' = "negate" => pc = "negate"
  PROVE  MeaningInv'
<1>1. Formulas'
  BY DEF MeaningInv, Formulas, IsFeature, LiteralsOf, Literal
<1>2. NegationsMean'
  BY DEF MeaningInv, NegationsMean, Covered, Features
<1>3. Listed'
  BY DEF MeaningInv, Listed
<1>4. ClausesMean'
  BY DEF MeaningInv, ClausesMean, DemandsMet, Demand, Denial, LiteralsOf, Literal
<1> QED
  BY <1>1, <1>2, <1>3, <1>4 DEF MeaningInv

\* Negating a constraint: its models are none of the constraint, and where the constraint
\* does not hold, its auxiliary variables can be chosen without changing the others.
LEMMA NegateMeaning ==
  ASSUME TaskInv, MeaningInv, Negate
  PROVE  MeaningInv'
<1> DEFINE i == Len(model.negated) + 1
           cs == model.constraints[i]
           t == model.next
           negated == Negated(cs, t)
           n == Cardinality(Auxiliary(cs, t))
<1>1. /\ pc = "negate" /\ i <= Len(model.constraints)
      /\ model' = [model EXCEPT !.negated = Append(@, negated), !.next = @ + n]
      /\ UNCHANGED <<source, settings, pc, next, kb, assumptions, ids, negation>>
  BY DEF Negate
<1>2. PreparationTypes /\ IdsInOrder
  BY DEF TaskInv
<1>3. Formulas /\ NegationsMean /\ Listed /\ ClausesMean
  BY DEF MeaningInv
<1>4. /\ model \in ModelTypes /\ t \in Nat \ {0}
      /\ model.constraints \in Seq(Seq(SUBSET Int))
      /\ model.negated \in Seq(SUBSET SUBSET Int)
  <2>1. model \in ModelTypes /\ model.next \in Nat
    BY <1>2 DEF PreparationTypes, ModelTypes
  <2>2. model.next >= 1
    BY <1>3 DEF Formulas
  <2> QED
    BY <2>1, <2>2 DEF ModelTypes
<1>5. PICK k \in Nat, m \in Nat : Len(model.constraints) = k /\ Len(model.negated) = m
  BY <1>4, LenProperties
<1>6. m + 1 \in 1 .. k /\ i = m + 1 /\ DOMAIN model.constraints = 1 .. k
  BY <1>1, <1>4, <1>5, LenProperties
<1>7. /\ cs \in Seq(SUBSET Int) /\ cs \in Range(model.constraints)
      /\ Formula(Range(cs)) /\ cs = model.constraints[m + 1]
  <2>1. Formula(Range(model.constraints[m + 1]))
    BY <1>3, <1>6 DEF Formulas
  <2> QED
    BY <2>1, <1>4, <1>5, <1>6, ElementOfSeq DEF Range
<1> HIDE DEF cs, t, i
<1>8. cs \in Seq(SUBSET Literals)
  BY <1>7, ListOfFormula
<1>9. /\ Formula(negated)
      /\ Auxiliary(cs, t) \in SUBSET Nat
      /\ n \in Nat
      /\ \A v \in Auxiliary(cs, t) : t <= v /\ v < t + n
  BY <1>4, <1>7, AuxiliaryCounted, FormulaNegated
<1>10. negated \in SUBSET SUBSET Int
  BY <1>4, <1>7, VariablesOfNegated
<1>11. \A A : Satisfied(A, negated) => ~Satisfied(A, Range(cs))
  BY <1>4, <1>8, NegationExcludes
<1>12. ASSUME NEW A, ~Satisfied(A, Range(cs)), A \cap Auxiliary(cs, t) = {},
              VariablesOf(Range(cs)) \cap Auxiliary(cs, t) = {}
       PROVE  \E X \in SUBSET Auxiliary(cs, t) : Satisfied(A \cup X, negated)
  BY <1>4, <1>8, <1>12, NegationIsModelled
<1> HIDE DEF negated, n
<1>13. /\ model'.constraints = model.constraints
       /\ model'.negations = model.negations
       /\ model'.negated = Append(model.negated, negated)
       /\ model'.next = t + n
  BY <1>1, <1>4 DEF ModelTypes, t
<1>14. /\ DOMAIN model'.negated = 1 .. m + 1 /\ DOMAIN model.negated = 1 .. m
       /\ model'.negated[m + 1] = negated
       /\ \A j \in 1 .. m : model'.negated[j] = model.negated[j]
       /\ \A j \in 1 .. m + 1 : j \in 1 .. m \/ j = m + 1
  BY <1>4, <1>5, <1>10, <1>13, AppendProperties, LenProperties
<1>15. \A b \in Blocks : DOMAIN ids[b] = {}
  BY <1>1, NothingPrepared
<1>16. Formulas'
  <2>1. model'.next >= 1
    BY <1>4, <1>9, <1>13
  <2>2. \A j \in DOMAIN model'.negated : Formula(model'.negated[j])
    BY <1>3, <1>9, <1>14 DEF Formulas
  <2> QED
    BY <2>1, <2>2, <1>1, <1>3, <1>13, <1>15 DEF Formulas, Blocks
<1>17. ASSUME NEW j \in DOMAIN model'.negated, NEW A \in SUBSET Int,
              Satisfied(A, model'.negated[j])
       PROVE  ~Satisfied(A, Range(model'.constraints[j]))
  <2>1. CASE j \in 1 .. m
    BY <2>1, <1>3, <1>13, <1>14, <1>17 DEF NegationsMean
  <2>2. CASE j = m + 1
    BY <2>2, <1>7, <1>11, <1>13, <1>14, <1>17
  <2> QED
    BY <2>1, <2>2, <1>14
<1>18. ASSUME Covered', NEW A \in SUBSET Features'
       PROVE  \E X \in SUBSET (0 .. model'.next - 1) :
                /\ X \cap Features' = {}
                /\ \A j \in DOMAIN model'.negated :
                      \/ Satisfied(A, Range(model'.constraints[j]))
                      \/ Satisfied(A \cup X, model'.negated[j])
  <2>1. Covered /\ Features' = Features
    BY <1>1, <1>13, <1>18 DEF Covered, Features
  <2>2. InUse \subseteq 0 .. t - 1
    BY <1>1, <1>2, <2>1 DEF IdsInOrder, t
  <2>3. Features \subseteq InUse /\ VariablesOf(Range(cs)) \subseteq Features
    BY <1>7 DEF InUse, Features, VariablesIn
  <2>4. PICK X \in SUBSET (0 .. t - 1) :
          /\ X \cap Features = {}
          /\ \A j \in DOMAIN model.negated :
                Satisfied(A, Range(model.constraints[j])) \/ Satisfied(A \cup X, model.negated[j])
    BY <1>3, <1>18, <2>1 DEF NegationsMean, t
  <2>5. \A v \in Auxiliary(cs, t) : v \notin 0 .. t - 1 /\ v \in 0 .. t + n - 1
    BY <1>4, <1>9
  <2>6. 0 .. t - 1 \subseteq 0 .. t + n - 1
    BY <1>4, <1>9
  <2>7. CASE Satisfied(A, Range(cs))
    <3>1. ASSUME NEW j \in DOMAIN model'.negated
          PROVE  \/ Satisfied(A, Range(model'.constraints[j]))
                 \/ Satisfied(A \cup X, model'.negated[j])
      <4>1. CASE j \in 1 .. m
        BY <4>1, <1>13, <1>14, <2>4
      <4>2. CASE j = m + 1
        BY <4>2, <1>7, <1>13, <2>7
      <4> QED
        BY <4>1, <4>2, <1>14
    <3>2. X \in SUBSET (0 .. model'.next - 1) /\ X \cap Features' = {}
      <4>1. X \in SUBSET (0 .. t + n - 1) /\ X \cap Features = {}
        BY <2>4, <2>6
      <4>2. X \in SUBSET (0 .. model'.next - 1)
        BY <4>1, <1>4, <1>9, <1>13
      <4>3. X \cap Features' = {}
        BY <4>1, <2>1
      <4> QED
        BY <4>2, <4>3
    <3> QED
      BY <3>1, <3>2, Zenon
  <2>8. CASE ~Satisfied(A, Range(cs))
    <3>1. ~Satisfied(A \cup X, Range(cs))
      <4>1. \A v \in VariablesOf(Range(cs)) : v \in A <=> v \in A \cup X
        BY <2>3, <2>4
      <4>2. Range(cs) \in SUBSET SUBSET Literals
        BY <1>7, VariablesOfFormula
      <4> QED
        BY <4>1, <4>2, <2>8, SameFormula
    <3>2. (A \cup X) \cap Auxiliary(cs, t) = {} /\ VariablesOf(Range(cs)) \cap Auxiliary(cs, t) = {}
      BY <2>1, <2>2, <2>3, <2>4, <2>5, <1>18
    <3>3. PICK Y \in SUBSET Auxiliary(cs, t) : Satisfied((A \cup X) \cup Y, negated)
      BY <3>1, <3>2, <1>12
    <3>4. X \cup Y \in SUBSET (0 .. t + n - 1) /\ (X \cup Y) \cap Features = {}
      BY <2>2, <2>3, <2>4, <2>5, <2>6
    <3>5. ASSUME NEW j \in DOMAIN model'.negated
          PROVE  \/ Satisfied(A, Range(model'.constraints[j]))
                 \/ Satisfied(A \cup (X \cup Y), model'.negated[j])
      <4>1. CASE j = m + 1
        <5>1. (A \cup X) \cup Y = A \cup (X \cup Y)
          OBVIOUS
        <5> QED
          BY <5>1, <4>1, <3>3, <1>14
      <4>2. CASE j \in 1 .. m /\ ~Satisfied(A, Range(model.constraints[j]))
        <5>1. Satisfied(A \cup X, model.negated[j])
          BY <4>2, <1>14, <2>4
        <5>2. VariablesOf(model.negated[j]) \subseteq InUse
          BY <4>2, <1>14 DEF InUse, Range
        <5>3. \A v \in VariablesOf(model.negated[j]) : v \in A \cup X <=> v \in A \cup (X \cup Y)
          BY <5>2, <2>2, <2>5
        <5>4. model.negated[j] \in SUBSET SUBSET Literals
          BY <4>2, <1>3, <1>14, VariablesOfFormula DEF Formulas
        <5> QED
          BY <5>1, <5>3, <5>4, <4>2, <1>14, SameFormula
      <4>3. CASE j \in 1 .. m /\ Satisfied(A, Range(model.constraints[j]))
        BY <4>3, <1>13
      <4> QED
        BY <4>1, <4>2, <4>3, <1>14
    <3>6. X \cup Y \in SUBSET (0 .. model'.next - 1) /\ (X \cup Y) \cap Features' = {}
      <4>1. X \cup Y \in SUBSET (0 .. model'.next - 1)
        BY <3>4, <1>4, <1>9, <1>13
      <4>2. (X \cup Y) \cap Features' = {}
        BY <3>4, <2>1
      <4> QED
        BY <4>1, <4>2
    <3> QED
      BY <3>5, <3>6, Zenon
  <2> QED
    BY <2>7, <2>8
<1>19. NegationsMean'
  <2>1. model'.negations
    BY <1>1, <1>3, <1>13 DEF NegationsMean
  <2> QED
    BY <2>1, <1>17, <1>18 DEF NegationsMean
<1>20. Listed'
  BY <1>1, <1>3, <1>15 DEF Listed, Blocks
<1>21. ClausesMean'
  BY <1>1, <1>3, <1>15 DEF ClausesMean, DemandsMet, Satisfied
<1> QED
  BY <1>16, <1>19, <1>20, <1>21 DEF MeaningInv

\* What is given an id stands at the end of its block, after everything handed out.
LEMMA NewItem ==
  ASSUME TaskInv, pc \in Preparing, NEW b \in Blocks, ids' = [ids EXCEPT ![b] = Append(@, next)]
  PROVE  /\ next \in Nat /\ model.next \in Nat /\ model.next <= next
         /\ \E k \in Nat : Len(ids[b]) = k /\ DOMAIN ids[b] = 1 .. k /\ DOMAIN ids'[b] = 1 .. k + 1
              /\ ids'[b][k + 1] = next
              /\ \A i \in 1 .. k : ids'[b][i] = ids[b][i]
         /\ \A d \in Blocks \ {b} : ids'[d] = ids[d]
         /\ Range(ids'[b]) = Range(ids[b]) \cup {next}
         /\ \A d \in Blocks : \A x \in Range(ids[d]) : x \in Nat /\ x < next
         /\ \A x \in Range(assumptions) : x \in Nat /\ x < next
         /\ next \notin DOMAIN negation
<1>1. PreparationTypes /\ IdsInOrder /\ BlocksApart
  BY DEF TaskInv
<1>2. /\ ids \in [Blocks -> Seq(Nat)] /\ next \in Nat /\ model.next \in Nat /\ model.next <= next
      /\ ids[b] \in Seq(Nat)
  BY <1>1 DEF PreparationTypes, ModelTypes, IdsInOrder, Preparing
<1>3. PICK k \in Nat : Len(ids[b]) = k /\ DOMAIN ids[b] = 1 .. k
  BY <1>2, LenProperties
<1>4. ids'[b] = Append(ids[b], next) /\ \A d \in Blocks \ {b} : ids'[d] = ids[d]
  BY <1>2
<1>5. /\ DOMAIN ids'[b] = 1 .. k + 1 /\ ids'[b][k + 1] = next
      /\ \A i \in 1 .. k : ids'[b][i] = ids[b][i]
  BY <1>2, <1>3, <1>4, AppendProperties, LenProperties
<1>6. Range(ids'[b]) = Range(ids[b]) \cup {next}
  <2>1. \A i \in 1 .. k + 1 : i \in 1 .. k \/ i = k + 1
    OBVIOUS
  <2>2. k + 1 \in 1 .. k + 1 /\ 1 .. k \subseteq 1 .. k + 1
    OBVIOUS
  <2> QED
    BY <1>3, <1>5, <2>1, <2>2 DEF Range
<1>7. ASSUME NEW d \in Blocks, NEW x \in Range(ids[d]) PROVE x \in Nat /\ x < next
  <2>1. PICK i \in DOMAIN ids[d] : x = ids[d][i]
    BY <1>7 DEF Range
  <2>2. ids[d] \in Seq(Nat)
    BY <1>2
  <2> QED
    BY <2>1, <2>2, <1>1, ElementOfSeq, LenProperties DEF BlocksApart
<1>8. ASSUME NEW x \in Range(assumptions) PROVE x \in Nat /\ x < next
  <2>1. HandedOut(assumptions, model.next, next)
    BY <1>1 DEF IdsInOrder
  <2>2. PICK i \in DOMAIN assumptions : x = assumptions[i]
    BY <1>8 DEF Range
  <2> QED
    BY <2>1, <2>2, ElementOfSeq, LenProperties DEF HandedOut
<1>9. next \notin DOMAIN negation
  <2>1. DOMAIN negation \subseteq Range(assumptions)
    BY <1>1 DEF PreparationTypes
  <2> QED
    BY <2>1, <1>2, <1>8
<1> QED
  BY <1>2, <1>3, <1>4, <1>5, <1>6, <1>7, <1>8, <1>9

\* What an assumption demands does not depend on what is still to be prepared.
LEMMA SameDemands ==
  ASSUME UNCHANGED <<source, settings, model>>
  PROVE  /\ \A A, b, i : Demand(A, b, i)' <=> Demand(A, b, i)
         /\ \A A, b, i : Denial(A, b, i)' <=> Denial(A, b, i)
         /\ \A b, i : LiteralsOf(settings[b][i])' = LiteralsOf(settings[b][i])
         /\ \A b, i : Literal(settings[b][i])' = Literal(settings[b][i])
         /\ \A l : IsFeature(l)' <=> IsFeature(l)
         /\ NegationsMean /\ pc' = pc => NegationsMean'
<1>1. \A b, i : LiteralsOf(settings[b][i])' = LiteralsOf(settings[b][i])
  BY DEF LiteralsOf, Literal
<1>2. \A b, i : Literal(settings[b][i])' = Literal(settings[b][i])
  BY DEF Literal
<1>3. \A A, b, i : Demand(A, b, i)' <=> Demand(A, b, i)
  BY <1>1, <1>2 DEF Demand
<1>4. \A A, b, i : Denial(A, b, i)' <=> Denial(A, b, i)
  BY <1>1 DEF Denial
<1>5. \A l : IsFeature(l)' <=> IsFeature(l)
  BY DEF IsFeature
<1>6. NegationsMean /\ pc' = pc => NegationsMean'
  BY DEF NegationsMean, Covered, Features
<1> QED
  BY <1>1, <1>2, <1>3, <1>4, <1>5, <1>6

\* allocate: the clauses of an item count while its assumption is true.
LEMMA SingleMeaning ==
  ASSUME TaskInv, MeaningInv, pc \in Preparing, NEW b \in Blocks \ {"positive", "negative"}, NEW K,
         Single(b, K), UNCHANGED <<source, settings, model, pc>>, Formula(K),
         \A A \in SUBSET Int : Satisfied(A, K) <=> Demand(A, b, Len(ids[b]) + 1),
         b # "fm" => IsFeature(Literal(settings[b][Len(ids[b]) + 1]))
  PROVE  MeaningInv'
<1>1. /\ kb' = kb \cup Guarded(K, next)
      /\ assumptions' = Append(assumptions, next)
      /\ ids' = [ids EXCEPT ![b] = Append(@, next)]
      /\ negation' = negation
  BY DEF Single
<1>2. Formulas /\ NegationsMean /\ Listed /\ ClausesMean
  BY DEF MeaningInv
<1>3. /\ next \in Nat \ {0}
      /\ \A d \in Blocks \ {b} : ids'[d] = ids[d]
      /\ Range(ids'[b]) = Range(ids[b]) \cup {next}
      /\ \A d \in Blocks : \A x \in Range(ids[d]) : x \in Nat /\ x < next
      /\ \A x \in Range(assumptions) : x \in Nat /\ x < next
      /\ next \notin DOMAIN negation
  <2>1. model.next >= 1
    BY <1>2 DEF Formulas
  <2>2. /\ next \in Nat /\ model.next \in Nat /\ model.next <= next
        /\ \A d \in Blocks \ {b} : ids'[d] = ids[d]
        /\ Range(ids'[b]) = Range(ids[b]) \cup {next}
        /\ \A d \in Blocks : \A x \in Range(ids[d]) : x \in Nat /\ x < next
        /\ \A x \in Range(assumptions) : x \in Nat /\ x < next
        /\ next \notin DOMAIN negation
    BY <1>1, NewItem
  <2>3. next \in Nat \ {0}
    BY <2>1, <2>2
  <2> QED
    BY <2>2, <2>3
<1>4. PICK k \in Nat :
        /\ Len(ids[b]) = k /\ DOMAIN ids[b] = 1 .. k /\ DOMAIN ids'[b] = 1 .. k + 1
        /\ ids'[b][k + 1] = next
        /\ \A i \in 1 .. k : ids'[b][i] = ids[b][i]
  BY <1>1, NewItem
<1>5. \A i \in 1 .. k + 1 : i \in 1 .. k \/ i = k + 1
  OBVIOUS
<1>6. /\ \A A, d, i : Demand(A, d, i)' <=> Demand(A, d, i)
      /\ \A A, d, i : Denial(A, d, i)' <=> Denial(A, d, i)
      /\ \A d, i : LiteralsOf(settings[d][i])' = LiteralsOf(settings[d][i])
      /\ \A d, i : Literal(settings[d][i])' = Literal(settings[d][i])
      /\ \A l : IsFeature(l)' <=> IsFeature(l)
      /\ NegationsMean'
  BY <1>2, SameDemands
<1>7. Formulas'
  <2>1. Formula(kb')
    <3>1. Formula(Guarded(K, next)) /\ Formula(kb)
      BY <1>2, <1>3, FormulaGuarded DEF Formulas
    <3> QED
      BY <3>1, <1>1, FormulaOfBoth
  <2>2. ASSUME NEW d \in {"configuration", "testCase"}, NEW i \in DOMAIN ids'[d]
        PROVE  IsFeature(Literal(settings[d][i]))
    <3>1. CASE d # b
      <4>1. ids'[d] = ids[d]
        BY <3>1, <1>3 DEF Blocks
      <4> QED
        BY <4>1, <2>2, <1>2 DEF Formulas
    <3>2. CASE d = b /\ i \in 1 .. k
      BY <3>2, <1>2, <1>4 DEF Formulas
    <3>3. CASE d = b /\ i = k + 1
      BY <3>3, <1>4
    <3> QED
      BY <3>1, <3>2, <3>3, <2>2, <1>4, <1>5
  <2>3. \A d \in {"positive", "negative"} : ids'[d] = ids[d]
    BY <1>3 DEF Blocks
  <2>4. \A d \in {"configuration", "testCase"} : \A i \in DOMAIN ids'[d] :
          IsFeature(Literal(settings[d][i]))'
    BY <2>2, <1>6
  <2>5. \A d \in {"positive", "negative"} : \A i \in DOMAIN ids'[d] :
          \A l \in LiteralsOf(settings[d][i])' : IsFeature(l)'
    BY <2>3, <1>2, <1>6 DEF Formulas
  <2>6. /\ model'.next >= 1
        /\ \A i \in DOMAIN model'.constraints : Formula(Range(model'.constraints[i]))
        /\ \A i \in DOMAIN model'.negated : Formula(model'.negated[i])
    BY <1>2 DEF Formulas
  <2> QED
    BY <2>1, <2>4, <2>5, <2>6 DEF Formulas
<1>8. Listed'
  <2>1. Range(assumptions') = Range(assumptions) \cup {next}
    <3>1. HandedOut(assumptions, model.next, next) /\ next \in Nat /\ model.next \in Nat /\ model.next <= next
      BY <1>1, NewItem DEF TaskInv, IdsInOrder, Preparing
    <3> QED
      BY <3>1, <1>1, HandedOutGrows
  <2>2. \A d \in Blocks :
          Range(ids[d]) \subseteq Range(ids'[d]) /\ Range(ids'[d]) \subseteq Range(ids[d]) \cup {next}
    BY <1>3
  <2>3. ASSUME NEW o \in DOMAIN negation
        PROVE  /\ \E d \in {"fm", "positive", "negative"} : o \in Range(ids'[d])
               /\ \A d \in Blocks : o + 1 \notin Range(ids'[d])
    <3>1. o + 1 \in Range(assumptions)
      BY <1>2 DEF Listed
    <3>2. o + 1 # next
      BY <3>1, <1>3
    <3>4. {"fm", "positive", "negative"} \subseteq Blocks
      BY DEF Blocks
    <3> QED
      BY <3>2, <3>4, <2>2, <1>2 DEF Listed
  <2>4. ASSUME NEW i \in DOMAIN ids'.fm, ids'.fm[i] \in DOMAIN negation
        PROVE  i \in DOMAIN model.negated
    <3>1. CASE b = "fm"
      BY <3>1, <2>4, <1>2, <1>3, <1>4, <1>5 DEF Listed
    <3>2. CASE b # "fm"
      <4>1. ids'.fm = ids.fm
        BY <3>2, <1>3 DEF Blocks
      <4> QED
        BY <4>1, <2>4, <1>2 DEF Listed
    <3> QED
      BY <3>1, <3>2
  <2>5. ASSUME NEW id \in Range(assumptions')
        PROVE  (\E d \in Blocks : id \in Range(ids'[d])) \/ (\E o \in DOMAIN negation : id = o + 1)
    <3>1. CASE id = next
      BY <3>1, <1>3
    <3>2. CASE id \in Range(assumptions)
      BY <3>2, <2>2, <1>2 DEF Listed
    <3> QED
      BY <3>1, <3>2, <2>1
  <2>6. \A o \in DOMAIN negation :
          /\ negation[o] = o + 1
          /\ o + 1 \in Range(assumptions')
          /\ \E d \in {"fm", "positive", "negative"} : o \in Range(ids'[d])
          /\ \A d \in Blocks : o + 1 \notin Range(ids'[d])
    BY <2>1, <2>3, <1>2 DEF Listed
  <2>7. \A d \in Blocks : Range(ids'[d]) \subseteq Range(assumptions')
    BY <2>1, <2>2, <1>2, <1>3 DEF Listed
  <2> QED
    BY <2>4, <2>5, <2>6, <2>7, <1>1 DEF Listed
<1>9. ClausesMean'
  <2> SUFFICES ASSUME NEW A \in SUBSET Int PROVE Satisfied(A, kb') <=> DemandsMet(A)'
    BY DEF ClausesMean, Preparing
  <2>1. Satisfied(A, kb') <=> DemandsMet(A) /\ (next \in A => Demand(A, b, k + 1))
    <3>1. Satisfied(A, kb') <=> Satisfied(A, kb) /\ Satisfied(A, Guarded(K, next))
      BY <1>1 DEF Satisfied
    <3>2. Satisfied(A, kb) <=> DemandsMet(A)
      BY <1>2 DEF ClausesMean
    <3>3. Satisfied(A, Guarded(K, next)) <=> (next \in A => Satisfied(A, K))
      BY <1>3, GuardMeans
    <3>4. Satisfied(A, K) <=> Demand(A, b, k + 1)
      BY <1>4
    <3> QED
      BY <3>1, <3>2, <3>3, <3>4
  <2>2. DemandsMet(A)' <=>
          \A d \in Blocks : \A i \in DOMAIN ids'[d] :
             /\ ids'[d][i] \in A => Demand(A, d, i)
             /\ ids'[d][i] \in DOMAIN negation /\ negation[ids'[d][i]] \in A => Denial(A, d, i)
    BY <1>1, <1>6 DEF DemandsMet
  <2>3. ASSUME NEW d \in Blocks, NEW i \in DOMAIN ids'[d]
        PROVE  \/ i \in DOMAIN ids[d] /\ ids'[d][i] = ids[d][i]
               \/ d = b /\ i = k + 1 /\ ids'[d][i] = next
    BY <2>3, <1>3, <1>4, <1>5
  <2>4. /\ \A d \in Blocks : \A i \in DOMAIN ids[d] : i \in DOMAIN ids'[d] /\ ids'[d][i] = ids[d][i]
        /\ k + 1 \in DOMAIN ids'[b] /\ ids'[b][k + 1] = next
    <3>1. 1 .. k \subseteq 1 .. k + 1 /\ k + 1 \in 1 .. k + 1
      OBVIOUS
    <3> QED
      BY <3>1, <1>3, <1>4
  <2>5. ASSUME DemandsMet(A)' PROVE DemandsMet(A) /\ (next \in A => Demand(A, b, k + 1))
    BY <2>2, <2>4, <2>5 DEF DemandsMet
  <2>6. ASSUME DemandsMet(A), next \in A => Demand(A, b, k + 1) PROVE DemandsMet(A)'
    <3> SUFFICES ASSUME NEW d \in Blocks, NEW i \in DOMAIN ids'[d]
                 PROVE  /\ ids'[d][i] \in A => Demand(A, d, i)
                        /\ ids'[d][i] \in DOMAIN negation /\ negation[ids'[d][i]] \in A => Denial(A, d, i)
      BY <2>2
    <3>1. CASE i \in DOMAIN ids[d] /\ ids'[d][i] = ids[d][i]
      BY <3>1, <2>6 DEF DemandsMet
    <3>2. CASE d = b /\ i = k + 1 /\ ids'[d][i] = next
      BY <3>2, <2>6, <1>3
    <3> QED
      BY <3>1, <3>2, <2>3
  <2> QED
    BY <2>1, <2>5, <2>6
<1> QED
  BY <1>6, <1>7, <1>8, <1>9 DEF MeaningInv

\* allocate_pair: so do the clauses of an item and those of its negation.
LEMMA PairMeaning ==
  ASSUME TaskInv, MeaningInv, pc \in Preparing, NEW b \in {"fm", "positive", "negative"},
         NEW K, NEW N, Pair(b, K, N), UNCHANGED <<source, settings, model, pc>>,
         Formula(K), Formula(N),
         \A A \in SUBSET Int : Satisfied(A, K) <=> Demand(A, b, Len(ids[b]) + 1),
         \A A \in SUBSET Int : Satisfied(A, N) <=> Denial(A, b, Len(ids[b]) + 1),
         b = "fm" => Len(ids[b]) + 1 \in DOMAIN model.negated,
         b # "fm" => \A l \in LiteralsOf(settings[b][Len(ids[b]) + 1]) : IsFeature(l)
  PROVE  MeaningInv'
<1>1. /\ kb' = kb \cup Guarded(K, next) \cup Guarded(N, next + 1)
      /\ assumptions' = assumptions \o <<next, next + 1>>
      /\ ids' = [ids EXCEPT ![b] = Append(@, next)]
      /\ negation' = [id \in DOMAIN negation \cup {next} |->
                          IF id = next THEN next + 1 ELSE negation[id]]
  BY DEF Pair
<1>0. b \in Blocks
  BY DEF Blocks
<1>2. Formulas /\ NegationsMean /\ Listed /\ ClausesMean
  BY DEF MeaningInv
<1>3. /\ next \in Nat \ {0}
      /\ \A d \in Blocks \ {b} : ids'[d] = ids[d]
      /\ Range(ids'[b]) = Range(ids[b]) \cup {next}
      /\ \A d \in Blocks : \A x \in Range(ids[d]) : x \in Nat /\ x < next
      /\ \A x \in Range(assumptions) : x \in Nat /\ x < next
      /\ next \notin DOMAIN negation
  <2>1. model.next >= 1
    BY <1>2 DEF Formulas
  <2>2. /\ next \in Nat /\ model.next \in Nat /\ model.next <= next
        /\ \A d \in Blocks \ {b} : ids'[d] = ids[d]
        /\ Range(ids'[b]) = Range(ids[b]) \cup {next}
        /\ \A d \in Blocks : \A x \in Range(ids[d]) : x \in Nat /\ x < next
        /\ \A x \in Range(assumptions) : x \in Nat /\ x < next
        /\ next \notin DOMAIN negation
    BY <1>0, <1>1, NewItem
  <2>3. next \in Nat \ {0}
    BY <2>1, <2>2
  <2> QED
    BY <2>2, <2>3
<1>4. PICK k \in Nat :
        /\ Len(ids[b]) = k /\ DOMAIN ids[b] = 1 .. k /\ DOMAIN ids'[b] = 1 .. k + 1
        /\ ids'[b][k + 1] = next
        /\ \A i \in 1 .. k : ids'[b][i] = ids[b][i]
  BY <1>0, <1>1, NewItem
<1>5. \A i \in 1 .. k + 1 : i \in 1 .. k \/ i = k + 1
  OBVIOUS
<1>6. /\ \A A, d, i : Demand(A, d, i)' <=> Demand(A, d, i)
      /\ \A A, d, i : Denial(A, d, i)' <=> Denial(A, d, i)
      /\ \A d, i : LiteralsOf(settings[d][i])' = LiteralsOf(settings[d][i])
      /\ \A d, i : Literal(settings[d][i])' = Literal(settings[d][i])
      /\ \A l : IsFeature(l)' <=> IsFeature(l)
      /\ NegationsMean'
  BY <1>2, SameDemands
<1>7. Formulas'
  <2>1. Formula(kb')
    <3>1. Formula(Guarded(K, next)) /\ Formula(Guarded(N, next + 1)) /\ Formula(kb)
      BY <1>2, <1>3, FormulaGuarded DEF Formulas
    <3> QED
      BY <3>1, <1>1, FormulaOfBoth
  <2>2. ASSUME NEW d \in {"positive", "negative"}, NEW i \in DOMAIN ids'[d]
        PROVE  \A l \in LiteralsOf(settings[d][i]) : IsFeature(l)
    <3>1. CASE d # b
      <4>1. ids'[d] = ids[d]
        BY <3>1, <1>3 DEF Blocks
      <4> QED
        BY <4>1, <2>2, <1>2 DEF Formulas
    <3>2. CASE d = b /\ i \in 1 .. k
      BY <3>2, <1>2, <1>4 DEF Formulas
    <3>3. CASE d = b /\ i = k + 1
      BY <3>3, <1>4
    <3> QED
      BY <3>1, <3>2, <3>3, <2>2, <1>4, <1>5
  <2>3. \A d \in {"configuration", "testCase"} : ids'[d] = ids[d]
    BY <1>3 DEF Blocks
  <2>4. \A d \in {"positive", "negative"} : \A i \in DOMAIN ids'[d] :
          \A l \in LiteralsOf(settings[d][i])' : IsFeature(l)'
    BY <2>2, <1>6
  <2>5. \A d \in {"configuration", "testCase"} : \A i \in DOMAIN ids'[d] :
          IsFeature(Literal(settings[d][i]))'
    BY <2>3, <1>2, <1>6 DEF Formulas
  <2>6. /\ model'.next >= 1
        /\ \A i \in DOMAIN model'.constraints : Formula(Range(model'.constraints[i]))
        /\ \A i \in DOMAIN model'.negated : Formula(model'.negated[i])
    BY <1>2 DEF Formulas
  <2> QED
    BY <2>1, <2>4, <2>5, <2>6 DEF Formulas
<1>8. /\ DOMAIN negation' = DOMAIN negation \cup {next} /\ negation'[next] = next + 1
      /\ \A o \in DOMAIN negation : o # next /\ negation'[o] = negation[o]
  BY <1>1, <1>3
<1>9. Listed'
  <2>1. Range(assumptions') = Range(assumptions) \cup {next, next + 1}
    <3> DEFINE first == Append(assumptions, next)
    <3>1. /\ HandedOut(assumptions, model.next, next) /\ model.next \in Nat
          /\ next \in Nat /\ next + 1 \in Nat
          /\ model.next <= next /\ model.next <= next + 1
      <4>1. next \in Nat /\ model.next \in Nat /\ model.next <= next
        BY <1>0, <1>1, NewItem
      <4> QED
        BY <4>1 DEF TaskInv, IdsInOrder
    <3>2. assumptions \in Seq(Nat)
      BY DEF TaskInv, PreparationTypes
    <3>3. assumptions' = Append(first, next + 1)
      BY <1>1, <3>1, <3>2
    <3>4. HandedOut(first, model.next, next + 1) /\ Range(first) = Range(assumptions) \cup {next}
      BY <3>1, HandedOutGrows
    <3> HIDE DEF first
    <3>5. Range(Append(first, next + 1)) = Range(first) \cup {next + 1}
      BY <3>1, <3>4, HandedOutGrows
    <3> QED
      BY <3>3, <3>4, <3>5
  <2>2. \A d \in Blocks :
          Range(ids[d]) \subseteq Range(ids'[d]) /\ Range(ids'[d]) \subseteq Range(ids[d]) \cup {next}
    BY <1>3
  <2>3. ASSUME NEW o \in DOMAIN negation
        PROVE  /\ \E d \in {"fm", "positive", "negative"} : o \in Range(ids'[d])
               /\ \A d \in Blocks : o + 1 \notin Range(ids'[d])
    <3>1. o + 1 \in Range(assumptions)
      BY <1>2 DEF Listed
    <3>2. o + 1 # next
      BY <3>1, <1>3
    <3>3. {"fm", "positive", "negative"} \subseteq Blocks
      BY DEF Blocks
    <3> QED
      BY <3>2, <3>3, <2>2, <1>2 DEF Listed
  <2>4. /\ \E d \in {"fm", "positive", "negative"} : next \in Range(ids'[d])
        /\ \A d \in Blocks : next + 1 \notin Range(ids'[d])
    <3>1. next + 1 # next /\ \A d \in Blocks : \A x \in Range(ids[d]) : x # next + 1
      BY <1>3
    <3> QED
      BY <3>1, <2>2, <1>3
  <2>5. ASSUME NEW i \in DOMAIN ids'.fm, ids'.fm[i] \in DOMAIN negation'
        PROVE  i \in DOMAIN model.negated
    <3>1. CASE b = "fm" /\ i \in 1 .. k
      <4>1. ids'.fm[i] = ids.fm[i] /\ i \in DOMAIN ids.fm
        BY <3>1, <1>4
      <4>2. ids.fm[i] \in Range(ids.fm) /\ "fm" \in Blocks
        BY <4>1 DEF Range, Blocks
      <4>3. ids.fm[i] # next
        BY <4>2, <1>3
      <4> QED
        BY <4>1, <4>3, <2>5, <1>2, <1>8 DEF Listed
    <3>2. CASE b = "fm" /\ i = k + 1
      BY <3>2, <1>4
    <3>3. CASE b # "fm"
      <4>1. ids'.fm = ids.fm /\ "fm" \in Blocks
        BY <3>3, <1>3 DEF Blocks
      <4>2. ids.fm[i] \in Range(ids.fm)
        BY <4>1 DEF Range
      <4>3. ids.fm[i] # next
        <5>1. \A x \in Range(ids.fm) : x \in Nat /\ x < next
          BY <4>1, <1>3
        <5> QED
          BY <5>1, <4>2, <1>3
      <4> QED
        BY <4>1, <4>3, <2>5, <1>2, <1>8 DEF Listed
    <3> QED
      BY <3>1, <3>2, <3>3, <2>5, <1>4, <1>5
  <2>6. ASSUME NEW id \in Range(assumptions')
        PROVE  (\E d \in Blocks : id \in Range(ids'[d])) \/ (\E o \in DOMAIN negation' : id = o + 1)
    <3>1. CASE id = next
      BY <3>1, <1>0, <1>3
    <3>2. CASE id = next + 1
      BY <3>2, <1>8
    <3>3. CASE id \in Range(assumptions)
      BY <3>3, <2>2, <1>2, <1>8 DEF Listed
    <3> QED
      BY <3>1, <3>2, <3>3, <2>1
  <2>7. ASSUME NEW o \in DOMAIN negation'
        PROVE  /\ negation'[o] = o + 1
               /\ o + 1 \in Range(assumptions')
               /\ \E d \in {"fm", "positive", "negative"} : o \in Range(ids'[d])
               /\ \A d \in Blocks : o + 1 \notin Range(ids'[d])
    <3>1. CASE o \in DOMAIN negation
      BY <3>1, <2>1, <2>3, <1>2, <1>8 DEF Listed
    <3>2. CASE o = next
      BY <3>2, <2>1, <2>4, <1>8
    <3> QED
      BY <3>1, <3>2, <1>8
  <2>8. \A d \in Blocks : Range(ids'[d]) \subseteq Range(assumptions')
    BY <2>1, <2>2, <1>2, <1>3 DEF Listed
  <2> QED
    BY <2>5, <2>6, <2>7, <2>8 DEF Listed
<1>10. ClausesMean'
  <2> SUFFICES ASSUME NEW A \in SUBSET Int PROVE Satisfied(A, kb') <=> DemandsMet(A)'
    BY DEF ClausesMean, Preparing
  <2>1. Satisfied(A, kb') <=>
          /\ DemandsMet(A)
          /\ next \in A => Demand(A, b, k + 1)
          /\ next + 1 \in A => Denial(A, b, k + 1)
    <3>1. Satisfied(A, kb') <=>
            Satisfied(A, kb) /\ Satisfied(A, Guarded(K, next)) /\ Satisfied(A, Guarded(N, next + 1))
      BY <1>1 DEF Satisfied
    <3>2. Satisfied(A, kb) <=> DemandsMet(A)
      BY <1>2 DEF ClausesMean
    <3>3. Satisfied(A, Guarded(K, next)) <=> (next \in A => Satisfied(A, K))
      BY <1>3, GuardMeans
    <3>4. Satisfied(A, Guarded(N, next + 1)) <=> (next + 1 \in A => Satisfied(A, N))
      <4>1. next + 1 \in Nat \ {0}
        BY <1>3
      <4> QED
        BY <4>1, GuardMeans
    <3>5. (Satisfied(A, K) <=> Demand(A, b, k + 1)) /\ (Satisfied(A, N) <=> Denial(A, b, k + 1))
      BY <1>4
    <3> QED
      BY <3>1, <3>2, <3>3, <3>4, <3>5
  <2>2. DemandsMet(A)' <=>
          \A d \in Blocks : \A i \in DOMAIN ids'[d] :
             /\ ids'[d][i] \in A => Demand(A, d, i)
             /\ ids'[d][i] \in DOMAIN negation' /\ negation'[ids'[d][i]] \in A => Denial(A, d, i)
    BY <1>6 DEF DemandsMet
  <2>3. ASSUME NEW d \in Blocks, NEW i \in DOMAIN ids'[d]
        PROVE  \/ i \in DOMAIN ids[d] /\ ids'[d][i] = ids[d][i]
               \/ d = b /\ i = k + 1 /\ ids'[d][i] = next
    BY <2>3, <1>3, <1>4, <1>5
  <2>4. /\ \A d \in Blocks : \A i \in DOMAIN ids[d] : i \in DOMAIN ids'[d] /\ ids'[d][i] = ids[d][i]
        /\ k + 1 \in DOMAIN ids'[b] /\ ids'[b][k + 1] = next
    <3>1. 1 .. k \subseteq 1 .. k + 1 /\ k + 1 \in 1 .. k + 1
      OBVIOUS
    <3> QED
      BY <3>1, <1>3, <1>4
  <2>5. ASSUME NEW d \in Blocks, NEW i \in DOMAIN ids[d]
        PROVE  /\ ids[d][i] \in DOMAIN negation' <=> ids[d][i] \in DOMAIN negation
               /\ ids[d][i] \in DOMAIN negation => negation'[ids[d][i]] = negation[ids[d][i]]
    <3>1. ids[d][i] \in Range(ids[d])
      BY DEF Range
    <3>2. ids[d][i] # next
      BY <3>1, <1>3
    <3> QED
      BY <3>2, <1>8
  <2>6. ASSUME DemandsMet(A)'
        PROVE  DemandsMet(A) /\ (next \in A => Demand(A, b, k + 1)) /\ (next + 1 \in A => Denial(A, b, k + 1))
    <3>1. DemandsMet(A)
      BY <2>2, <2>4, <2>5, <2>6 DEF DemandsMet
    <3>2. (next \in A => Demand(A, b, k + 1)) /\ (next + 1 \in A => Denial(A, b, k + 1))
      BY <2>2, <2>4, <2>6, <1>0, <1>8
    <3> QED
      BY <3>1, <3>2
  <2>7. ASSUME DemandsMet(A), next \in A => Demand(A, b, k + 1), next + 1 \in A => Denial(A, b, k + 1)
        PROVE  DemandsMet(A)'
    <3> SUFFICES ASSUME NEW d \in Blocks, NEW i \in DOMAIN ids'[d]
                 PROVE  /\ ids'[d][i] \in A => Demand(A, d, i)
                        /\ ids'[d][i] \in DOMAIN negation' /\ negation'[ids'[d][i]] \in A => Denial(A, d, i)
      BY <2>2
    <3>1. CASE i \in DOMAIN ids[d] /\ ids'[d][i] = ids[d][i]
      BY <3>1, <2>5, <2>7 DEF DemandsMet
    <3>2. CASE d = b /\ i = k + 1 /\ ids'[d][i] = next
      BY <3>2, <2>7, <1>8
    <3> QED
      BY <3>1, <3>2, <2>3
  <2> QED
    BY <2>1, <2>6, <2>7
<1> QED
  BY <1>6, <1>7, <1>9, <1>10 DEF MeaningInv

\* Literals of features make formulas.
LEMMA FormulaOfFeatures ==
  ASSUME source \in Sources, NEW S, \A l \in S : IsFeature(l)
  PROVE  Formula(Units(S)) /\ Formula({S}) /\ Formula({{-l : l \in S}})
<1>1. PICK n \in Nat : VariablesIn(ClausesOf(source)) \cup Range(source.variables) \subseteq 1 .. n
  BY SourceBounded
<1>2. ASSUME NEW l \in S PROVE l \in (-n .. n) \ {0} /\ -l \in (-n .. n) \ {0}
  <2>1. l \in Literals /\ Variable(l) \in 1 .. n
    BY <1>1, <1>2 DEF IsFeature
  <2> QED
    BY <2>1 DEF Literals, Variable
<1>3. Units(S) \subseteq SUBSET ((-n .. n) \ {0})
  BY <1>2 DEF Units
<1>4. {S} \subseteq SUBSET ((-n .. n) \ {0})
  BY <1>2
<1>5. {{-l : l \in S}} \subseteq SUBSET ((-n .. n) \ {0})
  BY <1>2
<1> QED
  BY <1>3, <1>4, <1>5 DEF Formula

\* What is prepared is what was given: the clauses of a constraint and of its negation,
\* the literal of an assignment, the literals of a test case.
LEMMA PrepareMeaning ==
  ASSUME TaskInv, MeaningInv, PrepareConstraint \/ PrepareAssignment \/ PrepareTestCase
  PROVE  MeaningInv'
<1>1. /\ source \in Sources /\ ids \in [Blocks -> Seq(Nat)] /\ model \in ModelTypes
      /\ Formulas /\ NegationsMean
  BY DEF TaskInv, PreparationTypes, MeaningInv
<1>2. CASE PrepareConstraint
  <2> DEFINE i == Len(ids["fm"]) + 1
             K == Range(model.constraints[i])
             N == model.negated[i]
  <2>1. /\ pc = "fm" /\ i <= Len(model.constraints)
        /\ IF NegationWanted THEN Pair("fm", K, N) ELSE Single("fm", K)
        /\ UNCHANGED <<source, settings, model, pc>>
    BY <1>2 DEF PrepareConstraint
  <2>2. pc \in Preparing /\ "fm" \in Blocks \ {"positive", "negative"}
    BY <2>1 DEF Preparing, Blocks
  <2>3. i \in DOMAIN model.constraints
    <3>1. ids["fm"] \in Seq(Nat) /\ model.constraints \in Seq(Seq(SUBSET Int))
      BY <1>1, <2>2 DEF ModelTypes
    <3>2. PICK k \in Nat, m \in Nat : Len(ids["fm"]) = k /\ Len(model.constraints) = m
      BY <3>1, LenProperties
    <3>3. i \in 1 .. m
      BY <3>2, <2>1
    <3> QED
      BY <3>1, <3>2, <3>3, LenProperties
  <2>4. Formula(K)
    BY <1>1, <2>3 DEF Formulas
  <2>5. \A A : Satisfied(A, K) <=> Demand(A, "fm", i)
    BY DEF Demand
  <2>6. CASE NegationWanted
    <3>1. Len(model.negated) = Len(model.constraints)
      BY <1>1, <2>1, <2>6 DEF TaskInv, NegationsKept, NegationWanted, NegationsMean
    <3>2. i \in DOMAIN model.negated
      <4>1. model.negated \in Seq(SUBSET SUBSET Int) /\ model.constraints \in Seq(Seq(SUBSET Int))
        BY <1>1 DEF ModelTypes
      <4> QED
        BY <4>1, <3>1, <2>3, LenProperties
    <3>3. Formula(N)
      BY <1>1, <3>2 DEF Formulas
    <3>4. \A A : Satisfied(A, N) <=> Denial(A, "fm", i)
      BY DEF Denial
    <3>5. Pair("fm", K, N)
      BY <2>1, <2>6
    <3> HIDE DEF K, N
    <3> QED
      BY <2>1, <2>2, <2>4, <2>5, <3>2, <3>3, <3>4, <3>5, PairMeaning
  <2>7. CASE ~NegationWanted
    <3>1. Single("fm", K)
      BY <2>1, <2>7
    <3> HIDE DEF K
    <3> QED
      BY <2>1, <2>2, <2>4, <2>5, <3>1, SingleMeaning
  <2> QED
    BY <2>6, <2>7
<1>3. CASE PrepareAssignment
  <2> DEFINE l == Literal(settings[pc][Len(ids[pc]) + 1])
             K == {{l}}
  <2>1. /\ pc \in {"configuration", "testCase"}
        /\ Known(settings[pc]) /\ Len(ids[pc]) + 1 <= Len(settings[pc])
        /\ Single(pc, K)
        /\ UNCHANGED <<source, settings, model, pc>>
    BY <1>3 DEF PrepareAssignment
  <2>2. pc \in Preparing /\ pc \in Blocks \ {"positive", "negative"} /\ pc # "fm"
    BY <2>1 DEF Preparing, Blocks
  <2>3. IsFeature(l)
    <3>1. Len(ids[pc]) + 1 \in 1 .. Len(settings[pc])
      <4>1. settings[pc] \in Configurations \cup {None} /\ settings[pc] # None
        BY <1>3 DEF TaskInv, PreparationTypes, SettingTypes, PrepareAssignment
      <4>2. settings[pc] \in Seq(Range(settings[pc])) /\ ids[pc] \in Seq(Nat)
        BY <4>1, <1>1, <2>2, ConfigurationsAssumption
      <4>3. PICK k \in Nat, m \in Nat : Len(ids[pc]) = k /\ Len(settings[pc]) = m
        BY <4>2, LenProperties
      <4> QED
        BY <4>3, <2>1
    <3>2. settings[pc][Len(ids[pc]) + 1].name \in DOMAIN source.variables
      BY <2>1, <3>1 DEF Known
    <3> QED
      BY <3>2, <1>1, LiteralIsFeature
  <2>4. \A A : Satisfied(A, K) <=> Demand(A, pc, Len(ids[pc]) + 1)
    <3>1. \A A : Demand(A, pc, Len(ids[pc]) + 1) <=> Asserts(A, l)
      BY <2>1 DEF Demand
    <3> HIDE DEF l
    <3> QED
      BY <3>1 DEF Satisfied
  <2> HIDE DEF l
  <2>5. Formula(K)
    <3>1. \A x \in {l} : IsFeature(x)
      BY <2>3
    <3> QED
      BY <3>1, <1>1, FormulaOfFeatures
  <2> HIDE DEF K
  <2> QED
    BY <2>1, <2>2, <2>3, <2>4, <2>5, SingleMeaning DEF l
<1>4. CASE PrepareTestCase
  <2> DEFINE S == LiteralsOf(settings[pc][Len(ids[pc]) + 1])
             K == Units(S)
             N == {{-l : l \in S}}
  <2>1. /\ pc \in {"positive", "negative"}
        /\ Known(settings[pc][Len(ids[pc]) + 1])
        /\ Pair(pc, K, N)
        /\ UNCHANGED <<source, settings, model, pc>>
    BY <1>4 DEF PrepareTestCase
  <2>2. pc \in Preparing /\ pc \in {"fm", "positive", "negative"} /\ pc # "fm"
    BY <2>1 DEF Preparing
  <2>3. \A l \in S : IsFeature(l)
    BY <2>1, <1>1, LiteralIsFeature DEF LiteralsOf, Known
  <2>4. \A A : Satisfied(A, K) <=> Demand(A, pc, Len(ids[pc]) + 1)
    <3>1. \A A : Demand(A, pc, Len(ids[pc]) + 1) <=> \A l \in S : Asserts(A, l)
      BY <2>1 DEF Demand
    <3> QED
      BY <3>1, UnitsAssert
  <2>5. \A A : Satisfied(A, N) <=> Denial(A, pc, Len(ids[pc]) + 1)
    <3>1. \A A : Denial(A, pc, Len(ids[pc]) + 1) <=> \E l \in S : Asserts(A, -l)
      BY <2>1 DEF Denial
    <3> HIDE DEF S
    <3>2. \A A : (\E x \in {-l : l \in S} : Asserts(A, x)) <=> \E l \in S : Asserts(A, -l)
      OBVIOUS
    <3>3. \A A : Satisfied(A, N) <=> \E x \in {-l : l \in S} : Asserts(A, x)
      BY DEF Satisfied
    <3> QED
      BY <3>1, <3>2, <3>3
  <2>6. Formula(K) /\ Formula(N)
    BY <1>1, <2>3, FormulaOfFeatures
  <2> HIDE DEF K, N
  <2> QED
    BY <2>1, <2>2, <2>3, <2>4, <2>5, <2>6, PairMeaning
<1> QED
  BY <1>2, <1>3, <1>4

\* The clauses always mean what was given.
LEMMA MeaningInvariant == Spec => [](TaskInv /\ MeaningInv)
<1>1. Init => TaskInv /\ MeaningInv
  BY TaskInitInv, InitMeaning
<1>2. TaskInv /\ TaskInv' /\ MeaningInv /\ [Next]_vars => MeaningInv'
  <2> SUFFICES ASSUME TaskInv, MeaningInv, [Next]_vars PROVE MeaningInv'
    OBVIOUS
  <2>1. CASE Configure
    BY <2>1, ConfigureMeaning
  <2>2. CASE Build
    BY <2>2, BuildMeaning
  <2>3. CASE Negate
    BY <2>3, NegateMeaning
  <2>4. CASE PrepareConstraint \/ PrepareAssignment \/ PrepareTestCase
    BY <2>4, PrepareMeaning
  <2>5. CASE RefuseBuild \/ EndNegate \/ RefuseInput \/ StartPreparation \/ EndConstraints
    BY <2>5, PhaseMeaning
       DEF RefuseBuild, EndNegate, RefuseInput, StartPreparation, EndConstraints
  <2>6. CASE UnknownFeature \/ NoRoot \/ AssignSets
    BY <2>6, PhaseMeaning DEF UnknownFeature, NoRoot, AssignSets
  <2>7. CASE EndInput
    BY <2>7, PhaseMeaning DEF EndInput, After
  <2>8. CASE UNCHANGED vars
    BY <2>8, PhaseMeaning DEF vars
  <2> QED
    BY <2>1, <2>2, <2>3, <2>4, <2>5, <2>6, <2>7, <2>8 DEF Next
<1> QED
  BY <1>1, <1>2, TaskInvariant, PTL DEF Spec

----------------------------------------------------------------------------
(* What a check means.                                                      *)

\* An id stands for one thing that was given.
LEMMA OneOfEachId ==
  ASSUME TaskInv, NEW b \in Blocks, NEW d \in Blocks,
         NEW i \in DOMAIN ids[b], NEW j \in DOMAIN ids[d], ids[b][i] = ids[d][j]
  PROVE  b = d /\ i = j
<1>1. BlocksApart /\ ids \in [Blocks -> Seq(Nat)]
  BY DEF TaskInv, PreparationTypes
<1>2. ids[b][i] \in Range(ids[b]) /\ ids[d][j] \in Range(ids[d])
  BY DEF Range
<1>3. b = d
  BY <1>1, <1>2 DEF BlocksApart
<1>4. PICK k \in Nat : DOMAIN ids[b] = 1 .. k
  BY <1>1, LenProperties
<1>5. ids[b][i] \in Nat
  BY <1>1, ElementOfSeq, LenProperties
<1>6. i \in 1 .. k /\ j \in 1 .. k
  BY <1>3, <1>4
<1>7. ASSUME i # j PROVE FALSE
  <2>1. i < j \/ j < i
    BY <1>6, <1>7
  <2>2. ids[b][i] < ids[b][j] \/ ids[b][j] < ids[b][i]
    BY <2>1, <1>1, <1>3 DEF BlocksApart, Increasing
  <2> QED
    BY <2>2, <1>3, <1>5
<1> QED
  BY <1>3, <1>7

\* What an assumption stands for is what it demands.
LEMMA MeaningIsDemand ==
  ASSUME TaskInv, NEW b \in Blocks, NEW i \in DOMAIN ids[b], NEW A
  PROVE  MeaningOf(A, ids[b][i]) <=> Demand(A, b, i)
<1>1. /\ "fm" \in Blocks /\ ids["fm"] = ids.fm
      /\ {"configuration", "testCase"} \subseteq Blocks /\ {"positive", "negative"} \subseteq Blocks
  BY DEF Blocks
<1>2. \A d \in Blocks : \A j \in DOMAIN ids[d] : ids[b][i] = ids[d][j] => b = d /\ i = j
  BY OneOfEachId
<1>3. CASE b = "fm"
  <2>1. MeaningOf(A, ids[b][i]) <=> \A c \in Range(model.constraints[i]) : \E l \in c : Asserts(A, l)
    BY <1>1, <1>2, <1>3 DEF MeaningOf
  <2> QED
    BY <2>1, <1>3 DEF Demand, Satisfied
<1>4. CASE b \in {"configuration", "testCase"}
  <2>1. MeaningOf(A, ids[b][i]) <=> Asserts(A, Literal(settings[b][i]))
    BY <1>1, <1>2, <1>4 DEF MeaningOf
  <2> QED
    BY <2>1, <1>4 DEF Demand
<1>5. CASE b \in {"positive", "negative"}
  <2>1. MeaningOf(A, ids[b][i]) <=> \A l \in LiteralsOf(settings[b][i]) : Asserts(A, l)
    BY <1>1, <1>2, <1>5 DEF MeaningOf
  <2> QED
    BY <2>1, <1>5 DEF Demand
<1> QED
  BY <1>3, <1>4, <1>5 DEF Blocks

\* A demand is one on the features.
LEMMA DemandOnFeatures ==
  ASSUME TaskInv, MeaningInv, NEW b \in Blocks, NEW i \in DOMAIN ids[b], NEW A, NEW B,
         \A v \in Features : v \in A <=> v \in B
  PROVE  Demand(A, b, i) <=> Demand(B, b, i)
<1>1. Formulas
  BY DEF MeaningInv
<1>2. \A l : IsFeature(l) => (Asserts(A, l) <=> Asserts(B, l))
  BY SameLiteral DEF IsFeature, Features
<1>3. CASE b = "fm"
  <2>1. /\ ids.fm \in Seq(Nat) /\ model.constraints \in Seq(Seq(SUBSET Int))
        /\ Len(ids.fm) <= Len(model.constraints)
    BY DEF TaskInv, PreparationTypes, ModelTypes, BlocksApart, Blocks
  <2>2. PICK k \in Nat, m \in Nat : Len(ids.fm) = k /\ Len(model.constraints) = m
    BY <2>1, LenProperties
  <2>3. i \in DOMAIN model.constraints
    BY <1>3, <2>1, <2>2, LenProperties
  <2>4. VariablesOf(Range(model.constraints[i])) \subseteq Features
    BY <2>3 DEF Features, VariablesIn, Range
  <2>5. Range(model.constraints[i]) \in SUBSET SUBSET Literals
    BY <1>1, <2>3, VariablesOfFormula DEF Formulas
  <2>6. Satisfied(A, Range(model.constraints[i])) <=> Satisfied(B, Range(model.constraints[i]))
    BY <2>4, <2>5, SameFormula
  <2> QED
    BY <2>6, <1>3 DEF Demand
<1>4. CASE b \in {"configuration", "testCase"}
  BY <1>1, <1>2, <1>4 DEF Demand, Formulas
<1>5. CASE b \in {"positive", "negative"}
  BY <1>1, <1>2, <1>5 DEF Demand, Formulas
<1> QED
  BY <1>3, <1>4, <1>5 DEF Blocks

\* The negation of a test case is a denial of it.
LEMMA DenialOfTestCase ==
  ASSUME MeaningInv, NEW b \in {"positive", "negative"}, NEW i \in DOMAIN ids[b], NEW A
  PROVE  Denial(A, b, i) <=> ~Demand(A, b, i)
<1>1. \A l \in LiteralsOf(settings[b][i]) : Asserts(A, -l) <=> ~Asserts(A, l)
  BY OneOfTwo DEF MeaningInv, Formulas, IsFeature
<1> QED
  BY <1>1 DEF Demand, Denial

\* Each assumption stands for something given, or for the negation of a constraint or a
\* test case.
LEMMA EachAssumption ==
  ASSUME TaskInv, MeaningInv, NEW id \in Range(assumptions)
  PROVE  \/ \E b \in Blocks : \E i \in DOMAIN ids[b] :
               id = ids[b][i] /\ \A A : Means(A, id) <=> Demand(A, b, i)
         \/ \E b \in {"fm", "positive", "negative"} : \E i \in DOMAIN ids[b] :
               /\ ids[b][i] \in DOMAIN negation /\ id = negation[ids[b][i]]
               /\ \A A : Means(A, id) <=> ~Demand(A, b, i)
<1>1. Listed /\ DOMAIN ids = Blocks /\ ids \in [Blocks -> Seq(Nat)]
  BY DEF MeaningInv, TaskInv, PreparationTypes
<1>2. id \in UNION {Range(ids[block]) : block \in DOMAIN ids} <=> \E b \in Blocks : id \in Range(ids[b])
  BY <1>1
<1>3. CASE \E b \in Blocks : id \in Range(ids[b])
  <2>1. PICK b \in Blocks : \E i \in DOMAIN ids[b] : id = ids[b][i]
    BY <1>3 DEF Range
  <2>2. PICK i \in DOMAIN ids[b] : id = ids[b][i]
    BY <2>1
  <2>3. \A A : Means(A, id) <=> MeaningOf(A, id)
    BY <1>2, <1>3 DEF Means
  <2>4. \A A : MeaningOf(A, id) <=> Demand(A, b, i)
    BY <2>2, MeaningIsDemand
  <2> QED
    BY <2>2, <2>3, <2>4
<1>4. CASE ~\E b \in Blocks : id \in Range(ids[b])
  <2>1. PICK o \in DOMAIN negation : id = o + 1
    BY <1>1, <1>4 DEF Listed
  <2>2. PICK b \in {"fm", "positive", "negative"} : \E i \in DOMAIN ids[b] : o = ids[b][i]
    BY <1>1 DEF Listed, Range
  <2>3. PICK i \in DOMAIN ids[b] : o = ids[b][i]
    BY <2>2
  <2>4. b \in Blocks
    BY DEF Blocks
  <2>5. \A p \in DOMAIN negation : p \in Nat /\ negation[p] = p + 1
    <3>1. assumptions \in Seq(Nat) /\ DOMAIN negation \subseteq Range(assumptions)
      BY DEF TaskInv, PreparationTypes
    <3>2. Range(assumptions) \subseteq Nat
      BY <3>1, RangeProperties
    <3>3. \A p \in DOMAIN negation : p \in Nat
      BY <3>1, <3>2
    <3> QED
      BY <3>3, <1>1 DEF Listed
  <2>6. \A p \in DOMAIN negation : id = negation[p] <=> p = o
    BY <2>1, <2>5
  <2>7. \A A : Means(A, id) <=> ~MeaningOf(A, o)
    BY <1>2, <1>4, <2>6 DEF Means
  <2>8. \A A : MeaningOf(A, o) <=> Demand(A, b, i)
    BY <2>3, <2>4, MeaningIsDemand
  <2> QED
    BY <2>3, <2>6, <2>7, <2>8
<1> QED
  BY <1>3, <1>4

\* The clauses have a model under the selected assumptions only if an assignment of the
\* features fulfils what these stand for.
LEMMA ModelsAreSelections ==
  ASSUME TaskInv, MeaningInv, NEW S \in SUBSET Range(assumptions),
         NEW A \in SUBSET Int, Satisfied(A, kb), S \subseteq A
  PROVE  \E F \in SUBSET Features : \A id \in S : Means(F, id)
<1> DEFINE F == A \cap Features
<1>1. \A v \in Features : v \in A <=> v \in F
  OBVIOUS
<1>2. F \in SUBSET Features
  OBVIOUS
<1> HIDE DEF F
<1>3. DemandsMet(A) /\ Listed
  BY DEF MeaningInv, ClausesMean
<1>4. ASSUME NEW id \in S PROVE Means(F, id)
  <2>1. CASE \E b \in Blocks : \E i \in DOMAIN ids[b] :
               id = ids[b][i] /\ \A G : Means(G, id) <=> Demand(G, b, i)
    <3>1. PICK b \in Blocks : \E i \in DOMAIN ids[b] :
             id = ids[b][i] /\ \A G : Means(G, id) <=> Demand(G, b, i)
      BY <2>1
    <3>2. PICK i \in DOMAIN ids[b] :
             id = ids[b][i] /\ \A G : Means(G, id) <=> Demand(G, b, i)
      BY <3>1
    <3>3. Demand(A, b, i)
      BY <1>3, <1>4, <3>2 DEF DemandsMet
    <3>4. Demand(F, b, i)
      BY <1>1, <3>3, DemandOnFeatures
    <3> QED
      BY <3>2, <3>4
  <2>2. CASE \E b \in {"fm", "positive", "negative"} : \E i \in DOMAIN ids[b] :
               /\ ids[b][i] \in DOMAIN negation /\ id = negation[ids[b][i]]
               /\ \A G : Means(G, id) <=> ~Demand(G, b, i)
    <3>1. PICK b \in {"fm", "positive", "negative"} : \E i \in DOMAIN ids[b] :
               /\ ids[b][i] \in DOMAIN negation /\ id = negation[ids[b][i]]
               /\ \A G : Means(G, id) <=> ~Demand(G, b, i)
      BY <2>2
    <3>2. PICK i \in DOMAIN ids[b] :
               /\ ids[b][i] \in DOMAIN negation /\ id = negation[ids[b][i]]
               /\ \A G : Means(G, id) <=> ~Demand(G, b, i)
      BY <3>1
    <3>3. b \in Blocks
      BY DEF Blocks
    <3>4. Denial(A, b, i)
      BY <1>3, <1>4, <3>2, <3>3 DEF DemandsMet
    <3>5. ~Demand(A, b, i)
      <4>1. CASE b = "fm"
        <5>1. i \in DOMAIN model.negated
          BY <4>1, <3>2, <1>3 DEF Listed
        <5>2. ~Satisfied(A, Range(model.constraints[i]))
          BY <4>1, <5>1, <3>4 DEF MeaningInv, NegationsMean, Denial
        <5> QED
          BY <4>1, <5>2 DEF Demand
      <4>2. CASE b \in {"positive", "negative"}
        BY <4>2, <3>4, DenialOfTestCase
      <4> QED
        BY <4>1, <4>2
    <3>6. ~Demand(F, b, i)
      BY <1>1, <3>3, <3>5, DemandOnFeatures
    <3> QED
      BY <3>2, <3>6
  <2> QED
    BY <2>1, <2>2, EachAssumption
<1> QED
  BY <1>2, <1>4

\* What such an assignment needs to be a model of the clauses: the selected assumptions,
\* none of the others, and auxiliary variables.
LEMMA SelectionsHaveModels ==
  ASSUME TaskInv, MeaningInv, Covered, pc = "ready", NEW S \in SUBSET Range(assumptions),
         NEW F \in SUBSET Features, \A id \in S : Means(F, id)
  PROVE  \E A \in SUBSET Int :
            Satisfied(A, kb) /\ S \subseteq A /\ A \cap (Range(assumptions) \ S) = {}
<1>1. /\ PreparationTypes /\ IdsInOrder
      /\ Formulas /\ NegationsMean /\ Listed /\ ClausesMean
  BY DEF TaskInv, MeaningInv
<1>2. Range(assumptions) \cap InUse = {} /\ Features \subseteq InUse
  BY TaskInvImpliesIdsApart DEF IdsApart, InUse, Features
<1>3. PICK X \in SUBSET (0 .. model.next - 1) :
        /\ X \cap Features = {}
        /\ \A i \in DOMAIN model.negated :
              Satisfied(F, Range(model.constraints[i])) \/ Satisfied(F \cup X, model.negated[i])
  BY <1>1 DEF NegationsMean
<1>4. Range(assumptions) \subseteq Nat /\ Range(assumptions) \cap X = {}
  <2>1. HandedOut(assumptions, model.next, next) /\ model.next \in Nat
    BY <1>1 DEF IdsInOrder, PreparationTypes, ModelTypes
  <2>2. \A id \in Range(assumptions) : id \in Nat /\ model.next <= id
    BY <2>1, ElementOfSeq, LenProperties DEF HandedOut, Range
  <2> QED
    BY <2>1, <2>2
<1>5. InUse \subseteq 0 .. model.next - 1
  <2>1. assumptions # <<>> \/ pc \notin {"builder", "refused"}
    OBVIOUS
  <2> QED
    BY <2>1, <1>1 DEF IdsInOrder
<1> DEFINE A == F \cup X \cup S
<1>6. A \in SUBSET Int
  <2>1. 0 .. model.next - 1 \subseteq Int
    OBVIOUS
  <2>2. F \subseteq Int /\ X \subseteq Int
    BY <2>1, <1>2, <1>5
  <2>3. S \subseteq Int
    BY <1>4
  <2> QED
    BY <2>2, <2>3
<1>7. \A v \in Features : v \in F <=> v \in A
  BY <1>2, <1>3
<1>8. \A id \in Range(assumptions) : id \in A <=> id \in S
  BY <1>2, <1>4
<1>9. \A v \in InUse : v \in F \cup X <=> v \in A
  BY <1>2
<1>10. S \subseteq A
  OBVIOUS
<1> HIDE DEF A
<1>11. ASSUME NEW b \in Blocks, NEW i \in DOMAIN ids[b]
       PROVE  /\ ids[b][i] \in A => Demand(A, b, i)
              /\ ids[b][i] \in DOMAIN negation /\ negation[ids[b][i]] \in A => Denial(A, b, i)
  <2> DEFINE id == ids[b][i]
  <2>1. id \in Range(ids[b]) /\ id \in Range(assumptions)
    BY <1>1, <1>11 DEF Listed, Range
  <2>2. Demand(A, b, i) <=> Demand(F, b, i)
    BY <1>7, <1>11, DemandOnFeatures
  <2>3. ASSUME id \in A PROVE Demand(A, b, i)
    <3>1. Means(F, id)
      BY <2>1, <2>3, <1>8
    <3>2. Means(F, id) <=> MeaningOf(F, id)
      <4>1. id \in UNION {Range(ids[block]) : block \in DOMAIN ids}
        BY <2>1, <1>1 DEF PreparationTypes
      <4> QED
        BY <4>1 DEF Means
    <3>3. Demand(F, b, i)
      BY <3>1, <3>2, <1>11, MeaningIsDemand
    <3> QED
      BY <3>3, <2>2
  <2>4. ASSUME id \in DOMAIN negation, negation[id] \in A PROVE Denial(A, b, i)
    <3>1. /\ negation[id] = id + 1 /\ id + 1 \in Range(assumptions)
          /\ \A d \in Blocks : id + 1 \notin Range(ids[d])
          /\ \E d \in {"fm", "positive", "negative"} : id \in Range(ids[d])
      BY <2>4, <1>1 DEF Listed
    <3>2. b \in {"fm", "positive", "negative"}
      <4>1. PICK d \in {"fm", "positive", "negative"} : id \in Range(ids[d])
        BY <3>1
      <4>2. PICK j \in DOMAIN ids[d] : id = ids[d][j]
        BY <4>1 DEF Range
      <4>3. d \in Blocks
        BY DEF Blocks
      <4> QED
        BY <4>2, <4>3, <1>11, OneOfEachId
    <3>3. ~Demand(F, b, i)
      <4>1. Means(F, id + 1)
        BY <3>1, <2>4, <1>8
      <4>2. id + 1 \notin UNION {Range(ids[block]) : block \in DOMAIN ids}
        BY <3>1, <1>1 DEF PreparationTypes
      <4>3. PICK o \in DOMAIN negation : id + 1 = negation[o] /\ ~MeaningOf(F, o)
        BY <4>1, <4>2 DEF Means
      <4>4. o = id
        <5>1. negation[o] = o + 1
          BY <1>1 DEF Listed
        <5>2. o \in Nat /\ id \in Nat
          <6>1. DOMAIN negation \subseteq Range(assumptions)
            BY <1>1 DEF PreparationTypes
          <6> QED
            BY <6>1, <2>1, <1>4
        <5> QED
          BY <4>3, <5>1, <5>2
      <4> QED
        BY <4>3, <4>4, <1>11, MeaningIsDemand
    <3>4. CASE b = "fm"
      <4>1. i \in DOMAIN model.negated
        BY <3>4, <2>4, <1>1, <1>11 DEF Listed
      <4>2. Satisfied(F \cup X, model.negated[i])
        BY <3>3, <3>4, <4>1, <1>3 DEF Demand
      <4>3. VariablesOf(model.negated[i]) \subseteq InUse
        BY <4>1 DEF InUse, Range
      <4>4. model.negated[i] \in SUBSET SUBSET Literals
        BY <4>1, <1>1, VariablesOfFormula DEF Formulas
      <4>5. Satisfied(A, model.negated[i])
        BY <4>2, <4>3, <4>4, <1>9, SameFormula
      <4> QED
        BY <4>5, <3>4 DEF Denial
    <3>5. CASE b \in {"positive", "negative"}
      BY <3>5, <3>3, <2>2, <1>11, DenialOfTestCase
    <3> QED
      BY <3>2, <3>4, <3>5
  <2> QED
    BY <2>3, <2>4
<1>12. Satisfied(A, kb)
  <2>1. DemandsMet(A)
    BY <1>11 DEF DemandsMet
  <2> QED
    BY <2>1, <1>1, <1>6 DEF ClausesMean
<1>13. A \cap (Range(assumptions) \ S) = {}
  BY <1>8
<1> QED
  BY <1>6, <1>10, <1>12, <1>13

\* For every source, configuration and suite, whatever assumptions are selected, and
\* whether the others are left free or denied, the answer of a solver is what the
\* selected assumptions stand for (prepare_task, negate_cnf_tseitin, is_consistent,
\* find_model), provided that a DIMACS file whose constraints are negated names its variables.
THEOREM ChecksMeanWhatIsSelected == Spec => []ChecksMeanSelections
<1>1. TaskInv /\ MeaningInv => ChecksMeanSelections
  <2> SUFFICES ASSUME TaskInv, MeaningInv, pc = "ready", Covered,
                      NEW S \in SUBSET Range(assumptions)
               PROVE  LET possible == \E F \in SUBSET Features : \A id \in S : Means(F, id)
                          checked == kb \cup Units(S)
                      IN
                      /\ Satisfiable(checked) = possible
                      /\ Satisfiable(checked \cup Units({-id : id \in Range(assumptions) \ S})) = possible
    BY DEF ChecksMeanSelections, ChecksAreRight, Features
  <2> DEFINE possible == \E F \in SUBSET Features : \A id \in S : Means(F, id)
             checked == kb \cup Units(S)
             others == Range(assumptions) \ S
             denied == checked \cup Units({-id : id \in others})
  <2>1. Range(assumptions) \subseteq 1 .. next /\ next \in Nat
    <3>1. /\ HandedOut(assumptions, model.next, next) /\ model.next \in Nat /\ model.next >= 1
          /\ next \in Nat
      BY DEF TaskInv, IdsInOrder, PreparationTypes, ModelTypes, MeaningInv, Formulas
    <3>2. \A id \in Range(assumptions) : id \in Nat /\ model.next <= id /\ id < next
      BY <3>1, ElementOfSeq, LenProperties DEF HandedOut, Range
    <3> QED
      BY <3>1, <3>2
  <2>2. /\ S \in SUBSET (1 .. next) /\ others \in SUBSET (1 .. next)
        /\ S \in SUBSET (Nat \ {0}) /\ others \in SUBSET (Nat \ {0})
    BY <2>1
  <2>3. Formula(checked) /\ Formula(denied)
    <3>1. Formula(kb)
      BY DEF MeaningInv, Formulas
    <3>2. Formula(Units(S)) /\ Formula(Units({-id : id \in others}))
      BY <2>1, <2>2, FormulaOfUnits
    <3>3. Formula(checked)
      BY <3>1, <3>2, FormulaOfBoth
    <3> HIDE DEF checked, others
    <3> QED
      BY <3>2, <3>3, FormulaOfBoth
  <2>4. \A A : Satisfied(A, checked) <=> Satisfied(A, kb) /\ S \subseteq A
    <3>1. \A A : Satisfied(A, Units(S)) <=> S \subseteq A
      BY <2>2, UnitsMean
    <3> QED
      BY <3>1 DEF Satisfied
  <2>5. \A A : Satisfied(A, denied) <=> Satisfied(A, checked) /\ A \cap others = {}
    <3> HIDE DEF checked, others
    <3>1. \A A : Satisfied(A, Units({-id : id \in others})) <=> others \cap A = {}
      BY <2>2, UnitsMean
    <3>2. \A A : Satisfied(A, denied) <=> Satisfied(A, checked) /\ Satisfied(A, Units({-id : id \in others}))
      BY DEF Satisfied
    <3> QED
      BY <3>1, <3>2
  <2>6. HasModel(checked) => possible
    BY <2>4, ModelsAreSelections DEF HasModel
  <2>7. ASSUME possible PROVE HasModel(denied)
    <3>1. \E A \in SUBSET Int : Satisfied(A, kb) /\ S \subseteq A /\ A \cap others = {}
      BY <2>7, SelectionsHaveModels
    <3> HIDE DEF checked, denied, others
    <3> QED
      BY <3>1, <2>4, <2>5 DEF HasModel
  <2>8. HasModel(denied) => HasModel(checked)
    BY <2>5 DEF HasModel
  <2>9. Satisfiable(checked) = HasModel(checked) /\ Satisfiable(denied) = HasModel(denied)
    BY <2>3, SolverIsRight
  <2>10. possible \in BOOLEAN /\ HasModel(checked) \in BOOLEAN /\ HasModel(denied) \in BOOLEAN
    BY DEF HasModel
  <2>11. Satisfiable(checked) = possible /\ Satisfiable(denied) = possible
    <3> HIDE DEF possible, checked, denied
    <3> QED
      BY <2>6, <2>7, <2>8, <2>9, <2>10
  <2> QED
    BY <2>11
<1> QED
  BY <1>1, MeaningInvariant, PTL

----------------------------------------------------------------------------
(* Operations: what one holds and stores.                                    *)

Kinds == {"conflict", "diagnosis", "testcase", "testcase_quickxplain",
          "redundancy_testcases", "redundancy_constraints"}

LimitSettings == [Limits -> {x \in LimitValues : x > 0} \cup {Nothing}]

OperationStates ==
    [kind : Kinds, sat4j : BOOLEAN, incremental : BOOLEAN, limits : LimitSettings,
     m : LimitValues \cup {1, Nothing}]

CheckStates == [run : Nat, truth : BOOLEAN, end : Ends, read : BOOLEAN \cup {Nothing}]

Messages == [run : Nat, what : {"conflicts", "diagnoses", "redundant", "non_redundant"}]

OperationTyped ==
    /\ op \in OperationStates
    /\ phase \in {"idle", "label", "solve", "cleanup"}
    /\ run \in Nat
    /\ open \subseteq 1 .. run
    /\ failed \subseteq 1 .. run
    /\ checks \in Seq(CheckStates)
    /\ messages \in Seq(Messages)
    /\ lists \in (1 .. run) \cup {Nothing}

Released ==
    /\ phase = "label" => UsesHSDAG
    /\ checker = IF UsesHSDAG /\ phase \in {"solve", "cleanup"} THEN run ELSE Nothing
    /\ open \ (IF op.kind \in LeakingKinds THEN failed ELSE {}) =
         IF phase # "idle" /\ Backend = "incremental" THEN {run} ELSE {}

\* A check without an answer made its execution fail, and there is none after it.
Rests ==
    \A i \in DOMAIN checks :
        /\ checks[i].run \in 1 .. run
        /\ ~SolveRaises(checks[i].end) =>
             checks[i].read = (checks[i].truth /\ checks[i].end = "answers")
        /\ SolveRaises(checks[i].end) =>
             /\ checks[i].run \in failed
             /\ \A j \in DOMAIN checks : i < j => checks[j].run > checks[i].run

\* A run that asks for checks has not failed, and its HS-dag is the one that is held; an
\* operation with an HS-dag has no lists.
Running ==
    /\ phase \in {"label", "solve"} => run \notin failed
    /\ phase # "idle" => run > 0
    /\ phase = "solve" /\ UsesHSDAG => hsdag.run = run
    /\ UsesHSDAG => lists = Nothing

OperationInv == OperationTyped /\ Released /\ Rests /\ Running /\ ResultsAccountedFor

----------------------------------------------------------------------------

\* What the getters return stays accounted for in a step that leaves the results alone
\* and in which no execution comes to have succeeded.
LEMMA StillAccountedFor ==
  ASSUME OperationTyped, ResultsAccountedFor, Succeeded' = Succeeded, op'.kind = op.kind,
         run' \in Nat, run <= run', UNCHANGED <<messages, lists>>,
         hsdag' = hsdag \/ (hsdag'.run = run' /\ run' > 0)
  PROVE  ResultsAccountedFor'
<1> DEFINE S == Succeeded
<1>1. S' = S /\ S \subseteq 1 .. run /\ run \in Nat
  BY DEF Succeeded, OperationTyped
<1>2. Reported' = Reported /\ Parts' = Parts /\ Latest(Succeeded)' = Latest(Succeeded)
  BY Zenon DEF Reported, Parts, Latest, UsesHSDAG
<1>3. UsesHSDAG' = UsesHSDAG
  BY DEF UsesHSDAG
<1>4. ASSUME UsesHSDAG, S # {}
      PROVE  hsdag'.run \in 1 .. run' /\ \A r \in S : r <= hsdag'.run
  <2>1. hsdag.run \in 1 .. run /\ \A r \in S : r <= hsdag.run
    BY <1>4 DEF ResultsAccountedFor
  <2>2. 1 .. run \subseteq 1 .. run' /\ \A r \in S : r <= run'
    BY <1>1
  <2> HIDE DEF S
  <2> QED
    BY <2>1, <2>2
<1>5. UNCHANGED <<messages, lists>>
  OBVIOUS
<1> QED
  BY <1>1, <1>2, <1>3, <1>4, <1>5, Zenon DEF ResultsAccountedFor

TwoAdded(s, t, x, y, n) ==
    /\ DOMAIN s = 1 .. n /\ DOMAIN t = 1 .. n + 2
    /\ \A i \in 1 .. n : t[i] = s[i]
    /\ t[n + 1] = x /\ t[n + 2] = y

\* What ResultsAccountedFor says of messages, for the runs R and the parts a and b.
AccountFor(s, R, a, b) ==
    /\ Range(s) = [run : R, what : {a, b}]
    /\ IsInjective(s)
    /\ \A i, j \in DOMAIN s : i < j => s[i].run <= s[j].run

LEMMA TwoAtTheEnd ==
  ASSUME NEW S, NEW s \in Seq(S), NEW x, NEW y, NEW t, t = s \o <<x, y>>
  PROVE  Len(s) \in Nat /\ TwoAdded(s, t, x, y, Len(s))
<1>1. PICK n \in Nat : n = Len(s)
  OBVIOUS
<1>2. TwoAdded(s, t, x, y, n)
  BY <1>1 DEF TwoAdded
<1> QED
  BY <1>1, <1>2

\* Two messages x and y of a later execution r at the end of those of earlier ones.
LEMMA TwoMoreMessages ==
  ASSUME NEW R, R \subseteq Nat, NEW r \in Nat, \A q \in R : q < r,
         NEW a, NEW b, a # b,
         NEW x, NEW y, x = [run |-> r, what |-> a], y = [run |-> r, what |-> b],
         NEW s, NEW t, NEW n \in Nat, TwoAdded(s, t, x, y, n), AccountFor(s, R, a, b)
  PROVE  AccountFor(t, R \cup {r}, a, b)
<1>1. x.run = r /\ y.run = r /\ x # y
  OBVIOUS
<1>2. /\ DOMAIN s = 1 .. n /\ DOMAIN t = 1 .. n + 2
      /\ \A i \in 1 .. n : t[i] = s[i]
      /\ t[n + 1] = x /\ t[n + 2] = y
  BY DEF TwoAdded
<1>3. /\ Range(s) = [run : R, what : {a, b}] /\ IsInjective(s)
      /\ \A i, j \in 1 .. n : i < j => s[i].run <= s[j].run
  BY <1>2, Zenon DEF AccountFor
<1>4. \A i \in 1 .. n : s[i] \in Range(s) /\ s[i].run \in R
  BY <1>2, <1>3 DEF Range
<1>5. \A i \in 1 .. n : s[i].run < r /\ s[i] # x /\ s[i] # y
  <2> SUFFICES ASSUME NEW i \in 1 .. n PROVE s[i].run < r /\ s[i] # x /\ s[i] # y
    OBVIOUS
  <2>1. s[i].run \in R
    BY <1>4
  <2>2. s[i].run < r /\ s[i].run \in Nat
    BY <2>1
  <2>3. s[i].run # r
    BY <2>2
  <2> QED
    BY <1>1, <2>2, <2>3, Zenon
<1>6. 1 .. n + 2 = (1 .. n) \cup {n + 1, n + 2}
  OBVIOUS
<1>7. Range(t) = [run : R \cup {r}, what : {a, b}]
  <2>1. /\ {x, y} \subseteq [run : R \cup {r}, what : {a, b}]
        /\ Range(s) \subseteq [run : R \cup {r}, what : {a, b}]
    BY <1>3
  <2>2. Range(t) \subseteq Range(s) \cup {x, y} /\ Range(s) \subseteq Range(t) /\ {x, y} \subseteq Range(t)
    <3>1. Range(t) = {t[i] : i \in 1 .. n} \cup {t[n + 1], t[n + 2]}
      <4>1. Range(t) = {t[i] : i \in (1 .. n) \cup {n + 1, n + 2}}
        BY <1>2, <1>6, Zenon DEF Range
      <4> QED
        BY <4>1
    <3>2. {t[i] : i \in 1 .. n} = {s[i] : i \in 1 .. n}
      BY <1>2
    <3>3. Range(s) = {s[i] : i \in 1 .. n}
      BY <1>2 DEF Range
    <3> QED
      BY <1>2, <3>1, <3>2, <3>3
  <2>3. ASSUME NEW z \in [run : R \cup {r}, what : {a, b}] PROVE z \in Range(s) \cup {x, y}
    <3>1. CASE z.run \in R
      <4>1. z \in [run : R, what : {a, b}]
        BY <2>3, <3>1
      <4> QED
        BY <1>3, <4>1
    <3>2. CASE z.run \notin R
      <4>1. z = [run |-> z.run, what |-> z.what] /\ z.run = r /\ z.what \in {a, b}
        BY <2>3, <3>2
      <4> QED
        BY <4>1
    <3> QED
      BY <3>1, <3>2
  <2> QED
    BY <2>1, <2>2, <2>3, Zenon
<1>8. IsInjective(t)
  <2>1. \A i, j \in 1 .. n : s[i] = s[j] => i = j
    BY <1>2, <1>3 DEF IsInjective
  <2> SUFFICES ASSUME NEW i \in 1 .. n + 2, NEW j \in 1 .. n + 2, t[i] = t[j] PROVE i = j
    BY <1>2, Zenon DEF IsInjective
  <2>2. \A k \in 1 .. n + 2 : k \in 1 .. n \/ k = n + 1 \/ k = n + 2
    BY <1>6
  <2> QED
    BY <1>1, <1>2, <1>5, <2>1, <2>2
<1>9. ASSUME NEW i \in DOMAIN t, NEW j \in DOMAIN t, i < j PROVE t[i].run <= t[j].run
  <2>1. i \in 1 .. n \/ i = n + 1 \/ i = n + 2
    BY <1>2, <1>6
  <2>2. j \in 1 .. n \/ j = n + 1 \/ j = n + 2
    BY <1>2, <1>6
  <2>3. CASE i \in 1 .. n /\ j \in 1 .. n
    BY <1>2, <1>3, <1>9, <2>3
  <2>4. CASE i \in 1 .. n /\ j \notin 1 .. n
    <3>1. t[j].run = r /\ t[i].run < r /\ t[i].run \in Nat
      BY <1>1, <1>2, <1>4, <1>5, <2>2, <2>4
    <3> QED
      BY <3>1
  <2>5. CASE i \notin 1 .. n
    <3>1. j \notin 1 .. n
      BY <1>9, <2>1, <2>5
    <3>2. t[i].run = r /\ t[j].run = r
      BY <1>1, <1>2, <2>1, <2>2, <2>5, <3>1
    <3> QED
      BY <3>2
  <2> QED
    BY <2>3, <2>4, <2>5
<1> QED
  BY <1>7, <1>8, <1>9 DEF AccountFor

\* What the getters return is accounted for once the execution under way has stored its
\* two messages, at the end of those of the earlier ones or instead of them.
LEMMA MessagesAccountedFor ==
  ASSUME OperationTyped, Running, ResultsAccountedFor, phase = "solve",
         NEW a, NEW b, a # b, Parts = {a, b}, UNCHANGED <<op, run>>,
         Succeeded' = Succeeded \cup {run}, Latest(Succeeded)' = {run},
         messages' = IF op.kind \in {"conflict", "diagnosis"}
                     THEN messages \o <<Message(a), Message(b)>> ELSE <<Message(a), Message(b)>>
  PROVE  /\ Range(messages') = [run : Reported', what : Parts']
         /\ IsInjective(messages')
         /\ \A i, j \in DOMAIN messages' : i < j => messages'[i].run <= messages'[j].run
<1>1. /\ run \in Nat /\ Succeeded \subseteq Nat /\ \A q \in Succeeded : q < run
      /\ messages \in Seq(Messages)
  BY DEF OperationTyped, Running, Succeeded
<1>2. Parts' = {a, b}
  BY DEF Parts, UsesHSDAG
<1> DEFINE x == [run |-> run, what |-> a]
           y == [run |-> run, what |-> b]
<1>3. messages' = IF op.kind \in {"conflict", "diagnosis"} THEN messages \o <<x, y>> ELSE <<x, y>>
  BY Zenon DEF Message
<1>4. x = [run |-> run, what |-> a] /\ y = [run |-> run, what |-> b]
  OBVIOUS
<1> HIDE DEF x, y
<1>5. CASE op.kind \in {"conflict", "diagnosis"}
  <2>1. messages' = messages \o <<x, y>>
    BY <1>3, <1>5
  <2>2. AccountFor(messages, Succeeded, a, b)
    BY <1>5 DEF ResultsAccountedFor, Reported, AccountFor
  <2>3. Reported' = Succeeded \cup {run}
    BY <1>5 DEF Reported
  <2>4. AccountFor(messages', Succeeded \cup {run}, a, b)
    <3>1. Len(messages) \in Nat /\ TwoAdded(messages, messages', x, y, Len(messages))
      BY <1>1, <2>1, TwoAtTheEnd
    <3> QED
      BY <1>1, <1>4, <2>2, <3>1, TwoMoreMessages, Zenon
  <2> QED
    BY <1>2, <2>3, <2>4 DEF AccountFor
<1>6. CASE op.kind \notin {"conflict", "diagnosis"}
  <2> DEFINE none == <<>>
  <2>1. TwoAdded(none, messages', x, y, 0)
    <3>1. messages' = <<x, y>>
      BY <1>3, <1>6
    <3> QED
      BY <3>1 DEF TwoAdded
  <2>2. AccountFor(none, {}, a, b)
    <3>1. DOMAIN none = {} /\ [run : {}, what : {a, b}] = {}
      OBVIOUS
    <3>2. Range(none) = {} /\ IsInjective(none)
      BY <3>1, Zenon DEF Range, IsInjective
    <3> QED
      BY <3>1, <3>2, Zenon DEF AccountFor
  <2>3. Reported' = {run}
    BY <1>6 DEF Reported
  <2> HIDE DEF none
  <2>4. AccountFor(messages', {} \cup {run}, a, b)
    <3>1. {} \subseteq Nat /\ 0 \in Nat /\ \A q \in {} : q < run
      OBVIOUS
    <3> QED
      BY <1>1, <1>4, <2>1, <2>2, <3>1, TwoMoreMessages, Zenon
  <2>5. {} \cup {run} = {run}
    OBVIOUS
  <2> QED
    BY <1>2, <2>3, <2>4, <2>5 DEF AccountFor
<1> QED
  BY <1>5, <1>6

LEMMA OperationInitInv == OperationInit => OperationInv
<1> SUFFICES ASSUME OperationInit PROVE OperationInv
    OBVIOUS
<1>1. op \in OperationStates
  <2>1. [l \in Limits |-> Nothing] \in LimitSettings
    BY DEF LimitSettings
  <2>2. \A kind \in Kinds, sat4j \in BOOLEAN : NewOperation(kind, sat4j) \in OperationStates
    BY <2>1 DEF NewOperation, OperationStates
  <2>3. DiagnosisOperations \subseteq OperationStates
    BY <2>2 DEF DiagnosisOperations, Kinds
  <2>4. {DebuggingOperation, QuickXPlainOperation, TestCaseRedundancy, ConstraintRedundancy}
          \subseteq OperationStates
    <3> HIDE DEF NewOperation, OperationStates
    <3> QED
      BY <2>2 DEF DebuggingOperation, QuickXPlainOperation, TestCaseRedundancy,
                  ConstraintRedundancy, Kinds
  <2> QED
    BY <2>3, <2>4 DEF OperationInit
<1>2. OperationTyped
  BY <1>1 DEF OperationInit, OperationTyped
<1>3. Released /\ Rests
  BY DEF OperationInit, Released, Rests
<1>4. Running
  BY LimitAssumption DEF OperationInit, Running
<1>5. ResultsAccountedFor
  <2>1. Succeeded = {} /\ Latest(Succeeded) = {} /\ Reported = {}
    BY DEF OperationInit, Succeeded, Latest, Reported
  <2>2. messages = <<>> /\ DOMAIN messages = {} /\ lists = Nothing
    BY DEF OperationInit
  <2>3. Range(messages) = {} /\ IsInjective(messages)
    BY <2>2 DEF Range, IsInjective
  <2>4. [run : {}, what : Parts] = {}
    OBVIOUS
  <2> QED
    BY <2>1, <2>2, <2>3, <2>4 DEF ResultsAccountedFor
<1> QED
  BY <1>2, <1>3, <1>4, <1>5 DEF OperationInv

----------------------------------------------------------------------------
(* Configuration between two executions.                                    *)

LEMMA ConfiguredKeeps ==
  ASSUME OperationInv, NEW new \in OperationStates, new.kind = op.kind, Configured(new)
  PROVE  OperationInv'
<1> USE DEF OperationInv
<1>1. /\ phase = "idle" /\ op' = new /\ op'.kind = op.kind
      /\ UNCHANGED <<phase, run, open, checker, hsdag, checks, messages, lists, failed>>
  BY DEF Configured
<1>2. OperationTyped'
  BY <1>1 DEF OperationTyped
<1>3. Released' /\ Rests'
  BY <1>1 DEF Released, Rests, UsesHSDAG, Backend
<1>4. Running'
  BY <1>1 DEF Running, UsesHSDAG
<1>5. ResultsAccountedFor'
  <2>1. Succeeded' = Succeeded
    BY <1>1 DEF Succeeded
  <2>2. run' \in Nat /\ run <= run'
    BY <1>1 DEF OperationTyped
  <2> QED
    BY <1>1, <2>1, <2>2, StillAccountedFor
<1> QED
  BY <1>2, <1>3, <1>4, <1>5

LEMMA ConfigurationKeeps ==
  ASSUME OperationInv, WithLimit \/ WithM \/ WithIncremental
  PROVE  OperationInv'
<1>1. op \in OperationStates
  BY DEF OperationInv, OperationTyped
<1>2. CASE WithLimit
  <2>1. PICK l \in Limits, value \in LimitValues \cup {Nothing} :
          Positive(value) /\ Configured([op EXCEPT !.limits[l] = value])
    BY <1>2 DEF WithLimit
  <2>2. value \in {x \in LimitValues : x > 0} \cup {Nothing}
    BY <2>1, LimitAssumption DEF Positive
  <2>3. [op EXCEPT !.limits[l] = value] \in OperationStates
    BY <1>1, <2>1, <2>2 DEF OperationStates, LimitSettings
  <2>4. [op EXCEPT !.limits[l] = value].kind = op.kind
    BY <1>1 DEF OperationStates
  <2> HIDE DEF OperationInv
  <2> QED
    BY <2>1, <2>3, <2>4, ConfiguredKeeps
<1>3. CASE WithM
  <2>1. PICK value \in LimitValues : Configured([op EXCEPT !.m = value])
    BY <1>3 DEF WithM
  <2>2. /\ [op EXCEPT !.m = value] \in OperationStates
        /\ [op EXCEPT !.m = value].kind = op.kind
    BY <1>1, <2>1 DEF OperationStates
  <2> HIDE DEF OperationInv
  <2> QED
    BY <2>1, <2>2, ConfiguredKeeps
<1>4. CASE WithIncremental
  <2>1. PICK enabled \in BOOLEAN : Configured([op EXCEPT !.incremental = enabled])
    BY <1>4 DEF WithIncremental
  <2>2. /\ [op EXCEPT !.incremental = enabled] \in OperationStates
        /\ [op EXCEPT !.incremental = enabled].kind = op.kind
    BY <1>1, <2>1 DEF OperationStates
  <2> HIDE DEF OperationInv
  <2> QED
    BY <2>1, <2>2, ConfiguredKeeps
<1> QED
  BY <1>2, <1>3, <1>4

----------------------------------------------------------------------------
(* The phases of execute.                                                   *)

LEMMA JarMissingKeeps ==
  ASSUME OperationInv, JarMissing
  PROVE  OperationInv'
<1> USE DEF OperationInv
<1>1. /\ run \in Nat /\ run' = run + 1 /\ failed' = failed \cup {run'} /\ phase = "idle"
      /\ UNCHANGED <<op, phase, open, checker, hsdag, checks, messages, lists>>
  BY DEF OperationTyped, JarMissing
<1>2. 1 .. run \subseteq 1 .. run' /\ run' \in 1 .. run' /\ run' \in Nat
  BY <1>1
<1>3. OperationTyped'
  BY <1>1, <1>2 DEF OperationTyped
<1>4. Released'
  BY LimitAssumption DEF OperationTyped, Released, JarMissing, UsesHSDAG, Backend
<1>5. Rests'
  BY <1>1, <1>2 DEF Rests
<1>6. Running'
  BY <1>1 DEF Running, UsesHSDAG
<1>7. ResultsAccountedFor'
  <2>1. Succeeded' = Succeeded
    BY <1>1 DEF Succeeded
  <2>2. run <= run'
    BY <1>1
  <2> QED
    BY <1>1, <1>2, <2>1, <2>2, StillAccountedFor
<1> QED
  BY <1>3, <1>4, <1>5, <1>6, <1>7

LEMMA CreateCheckerKeeps ==
  ASSUME OperationInv, CreateChecker
  PROVE  OperationInv'
<1> USE DEF OperationInv
<1>1. /\ run \in Nat /\ run' = run + 1 /\ phase = "idle" /\ phase' \in {"label", "solve"}
      /\ phase' = "solve" => ~UsesHSDAG
      /\ open' \subseteq open \cup {run'}
      /\ UNCHANGED <<op, hsdag, checks, messages, lists, failed>>
  BY DEF OperationTyped, CreateChecker
<1>2. 1 .. run \subseteq 1 .. run' /\ run' \in 1 .. run' /\ run' \in Nat /\ run' \notin 1 .. run
  BY <1>1
<1>3. OperationTyped'
  BY <1>1, <1>2 DEF OperationTyped
<1>4. Released'
  BY LimitAssumption DEF OperationTyped, Released, CreateChecker, UsesHSDAG, Backend
<1>5. Rests'
  BY <1>1, <1>2 DEF Rests
<1>6. Running'
  BY <1>1, <1>2 DEF Running, OperationTyped, UsesHSDAG
<1>7. ResultsAccountedFor'
  <2>1. Succeeded' = Succeeded
    BY <1>1, <1>2 DEF Succeeded
  <2>2. run <= run'
    BY <1>1
  <2> QED
    BY <1>1, <1>2, <2>1, <2>2, StillAccountedFor
<1> QED
  BY <1>3, <1>4, <1>5, <1>6, <1>7

LEMMA CreateHSDAGKeeps ==
  ASSUME OperationInv, CreateHSDAG
  PROVE  OperationInv'
<1> USE DEF OperationInv
<1>1. OperationTyped'
  BY DEF OperationTyped, CreateHSDAG
<1>2. Released'
  BY LimitAssumption DEF OperationTyped, Released, CreateHSDAG, UsesHSDAG, Backend
<1>3. Rests'
  BY DEF Rests, CreateHSDAG
<1>4. /\ phase = "label" /\ phase' = "solve" /\ run > 0 /\ run \in Nat /\ hsdag'.run = run
      /\ UNCHANGED <<op, run, messages, lists, failed>>
  BY DEF Running, CreateHSDAG, OperationTyped
<1>5. Running'
  BY <1>4 DEF Running, UsesHSDAG
<1>6. ResultsAccountedFor'
  <2>1. Succeeded' = Succeeded
    BY <1>4 DEF Succeeded
  <2> QED
    BY <1>4, <2>1, StillAccountedFor
<1> QED
  BY <1>1, <1>2, <1>3, <1>5, <1>6

\* What a failure that leaves the checks alone, or comes with the last of them, keeps.
LEMMA RaiseKeeps ==
  ASSUME OperationInv, Raise, phase \in {"label", "solve"}, phase' \in {"idle", "cleanup"},
         phase' = "cleanup" <=> phase = "solve",
         phase = "label" => op.kind \in LeakingKinds,
         UNCHANGED <<op, run, open, checker, hsdag, messages, lists>>
  PROVE  /\ run \in failed' /\ failed \subseteq failed' /\ failed' \subseteq 1 .. run'
         /\ Released' /\ Running' /\ ResultsAccountedFor'
<1> USE DEF OperationInv
<1>1. run \in 1 .. run /\ run \in Nat /\ failed' = failed \cup {run}
  BY DEF OperationTyped, Running, Raise
<1>2. failed' \subseteq 1 .. run'
  BY <1>1 DEF OperationTyped
<1>3. Released'
  BY <1>1, LimitAssumption DEF OperationTyped, Released, UsesHSDAG, Backend, LeakingKinds, Running
<1>4. Running'
  BY DEF Running, UsesHSDAG
<1>5. ResultsAccountedFor'
  <2>1. Succeeded' = Succeeded
    BY <1>1 DEF Succeeded
  <2> QED
    BY <1>1, <2>1, StillAccountedFor
<1> QED
  BY <1>1, <1>2, <1>3, <1>4, <1>5

LEMMA FailureKeeps ==
  ASSUME OperationInv, NoTestCases \/ RedundancyNeedsTestCases
  PROVE  OperationInv'
<1>1. /\ Raise /\ phase \in {"label", "solve"} /\ phase' \in {"idle", "cleanup"}
      /\ phase' = "cleanup" <=> phase = "solve"
      /\ UNCHANGED <<op, run, open, checker, hsdag, checks, messages, lists>>
  BY DEF NoTestCases, RedundancyNeedsTestCases
<1>2. phase = "label" => op.kind \in LeakingKinds
  BY DEF NoTestCases, RedundancyNeedsTestCases, NeedsTestCases, LeakingKinds, OperationInv,
         Released, UsesHSDAG
<1>3. /\ run \in failed' /\ failed \subseteq failed' /\ failed' \subseteq 1 .. run'
      /\ Released' /\ Running' /\ ResultsAccountedFor'
  BY <1>1, <1>2, RaiseKeeps
<1>4. OperationTyped'
  BY <1>1, <1>3 DEF OperationInv, OperationTyped
<1>5. Rests'
  BY <1>1, <1>3 DEF OperationInv, Rests
<1> QED
  BY <1>3, <1>4, <1>5 DEF OperationInv

\* A check appended to the history: the run under way has not failed, so no check before
\* it in the same run was without an answer.
LEMMA CheckedKeeps ==
  ASSUME OperationInv, phase = "solve", failed \subseteq failed',
         NEW truth \in BOOLEAN, NEW end \in Ends, NEW read \in BOOLEAN \cup {Nothing},
         Checked(truth, end, read),
         ~SolveRaises(end) => read = (truth /\ end = "answers"),
         SolveRaises(end) => run \in failed'
  PROVE  checks' \in Seq(CheckStates) /\ Rests'
<1> DEFINE check == [run |-> run, truth |-> truth, end |-> end, read |-> read]
           n == Len(checks)
<1>1. /\ run \in 1 .. run /\ run \in Nat /\ run \notin failed /\ run' = run
      /\ checks \in Seq(CheckStates) /\ checks' = Append(checks, check)
  BY DEF OperationInv, OperationTyped, Running, Checked
<1>2. check \in CheckStates
  BY <1>1 DEF CheckStates
<1>3. /\ check.run = run
      /\ ~SolveRaises(check.end) => check.read = (check.truth /\ check.end = "answers")
      /\ SolveRaises(check.end) => check.run \in failed'
  OBVIOUS
<1> HIDE DEF check
<1>4. /\ n \in Nat /\ DOMAIN checks = 1 .. n /\ DOMAIN checks' = 1 .. n + 1
      /\ checks'[n + 1] = check /\ \A i \in 1 .. n : checks'[i] = checks[i]
      /\ checks' \in Seq(CheckStates)
  BY <1>1, <1>2
<1> HIDE DEF n
<1>5. \A i \in 1 .. n : /\ checks[i].run \in 1 .. run
                        /\ SolveRaises(checks[i].end) => checks[i].run < run
  <2> SUFFICES ASSUME NEW i \in 1 .. n
               PROVE  /\ checks[i].run \in 1 .. run
                      /\ SolveRaises(checks[i].end) => checks[i].run < run
    OBVIOUS
  <2>1. checks[i].run \in 1 .. run /\ (SolveRaises(checks[i].end) => checks[i].run \in failed)
    BY <1>4 DEF OperationInv, Rests
  <2>2. SolveRaises(checks[i].end) => checks[i].run # run
    BY <1>1, <2>1
  <2> QED
    BY <1>1, <2>1, <2>2
<1>6. ASSUME NEW i \in 1 .. n + 1
      PROVE  /\ checks'[i].run \in 1 .. run'
             /\ ~SolveRaises(checks'[i].end) =>
                  checks'[i].read = (checks'[i].truth /\ checks'[i].end = "answers")
             /\ SolveRaises(checks'[i].end) =>
                  /\ checks'[i].run \in failed'
                  /\ \A j \in 1 .. n + 1 : i < j => checks'[j].run > checks'[i].run
  <2>1. CASE i = n + 1
    <3>1. checks'[i] = check /\ \A j \in 1 .. n + 1 : ~(i < j)
      BY <1>4, <2>1
    <3> QED
      BY <1>1, <1>3, <3>1
  <2>2. CASE i # n + 1
    <3>1. i \in 1 .. n /\ checks'[i] = checks[i] /\ i \in DOMAIN checks
      BY <1>4, <2>2
    <3>2. ASSUME SolveRaises(checks[i].end), NEW j \in 1 .. n + 1, i < j
          PROVE  checks'[j].run > checks[i].run
      <4>1. CASE j = n + 1
        <5>1. checks'[j].run = run /\ checks[i].run < run
          BY <1>3, <1>4, <1>5, <3>1, <3>2, <4>1
        <5> QED
          BY <1>1, <1>5, <3>1, <5>1
      <4>2. CASE j # n + 1
        <5>1. j \in 1 .. n /\ checks'[j] = checks[j] /\ j \in DOMAIN checks
          BY <1>4, <4>2
        <5> QED
          BY <3>1, <3>2, <5>1 DEF OperationInv, Rests
      <4> QED
        BY <4>1, <4>2
    <3>3. /\ checks[i].run \in 1 .. run
          /\ ~SolveRaises(checks[i].end) =>
               checks[i].read = (checks[i].truth /\ checks[i].end = "answers")
          /\ SolveRaises(checks[i].end) => checks[i].run \in failed
      BY <3>1 DEF OperationInv, Rests
    <3> QED
      BY <1>1, <3>1, <3>2, <3>3
  <2> QED
    BY <2>1, <2>2
<1> QED
  BY <1>4, <1>6, Zenon DEF Rests

LEMMA CheckKeeps ==
  ASSUME OperationInv, CheckIncremental \/ CheckFresh \/ CheckSAT4J
  PROVE  OperationInv'
<1>1. \E truth \in BOOLEAN, end \in Ends, read \in BOOLEAN :
          Checked(truth, end, read) /\ ~SolveRaises(end) /\ read = (truth /\ end = "answers")
  <2>1. CASE CheckIncremental \/ CheckFresh
    <3>1. PICK truth \in BOOLEAN : Checked(truth, "answers", truth)
      BY <2>1 DEF CheckIncremental, CheckFresh
    <3>2. "answers" \in Ends /\ ~SolveRaises("answers") /\ truth = (truth /\ "answers" = "answers")
      BY DEF Ends, SolveRaises
    <3> QED
      BY <3>1, <3>2
  <2>2. CASE CheckSAT4J
    <3>1. PICK truth \in BOOLEAN, end \in Ends :
            ~SolveRaises(end) /\ Checked(truth, end, IsConsistent(Output(truth, end)))
      BY <2>2 DEF CheckSAT4J
    <3>2. IsConsistent(Output(truth, end)) = (truth /\ end = "answers")
      BY DEF IsConsistent, Output
    <3> QED
      BY <3>1, <3>2
  <2> QED
    BY <2>1, <2>2
<1>2. PICK truth \in BOOLEAN, end \in Ends, read \in BOOLEAN :
          Checked(truth, end, read) /\ ~SolveRaises(end) /\ read = (truth /\ end = "answers")
  BY <1>1
<1>3. /\ phase = "solve"
      /\ UNCHANGED <<op, phase, run, open, checker, hsdag, messages, lists, failed>>
  BY <1>2 DEF CheckIncremental, CheckFresh, CheckSAT4J, CanCheck, Checked
<1>4. checks' \in Seq(CheckStates) /\ Rests'
  BY <1>2, <1>3, CheckedKeeps
<1>5. OperationTyped' /\ Released' /\ Running'
  BY <1>3, <1>4 DEF OperationInv, OperationTyped, Released, Running, UsesHSDAG, Backend
<1>6. ResultsAccountedFor'
  <2>1. Succeeded' = Succeeded /\ run' \in Nat /\ run <= run'
    BY <1>3 DEF OperationInv, OperationTyped, Succeeded
  <2> QED
    BY <1>3, <2>1, StillAccountedFor DEF OperationInv
<1> QED
  BY <1>4, <1>5, <1>6 DEF OperationInv

LEMMA SAT4JFailsKeeps ==
  ASSUME OperationInv, SAT4JFails
  PROVE  OperationInv'
<1>1. PICK truth \in BOOLEAN, end \in Ends : SolveRaises(end) /\ Checked(truth, end, Nothing)
  BY DEF SAT4JFails
<1>2. /\ phase = "solve" /\ phase' = "cleanup" /\ Raise
      /\ UNCHANGED <<op, run, open, checker, hsdag, messages, lists>>
  BY <1>1 DEF SAT4JFails, CanCheck, Checked
<1>3. /\ run \in failed' /\ failed \subseteq failed' /\ failed' \subseteq 1 .. run'
      /\ Released' /\ Running' /\ ResultsAccountedFor'
  BY <1>2, RaiseKeeps
<1>4. checks' \in Seq(CheckStates) /\ Rests'
  BY <1>1, <1>2, <1>3, CheckedKeeps
<1>5. OperationTyped'
  BY <1>2, <1>3, <1>4 DEF OperationInv, OperationTyped
<1> QED
  BY <1>3, <1>4, <1>5 DEF OperationInv

\* What becomes of the other parts when an execution has its results.
LEMMA StoringKeeps ==
  ASSUME OperationInv, phase = "solve", phase' = "cleanup", UsesHSDAG => lists' = lists,
         UNCHANGED <<op, run, open, checker, hsdag, checks, failed>>
  PROVE  /\ Released' /\ Rests' /\ Running'
         /\ Succeeded' = Succeeded \cup {run} /\ Latest(Succeeded)' = {run}
         /\ run \in 1 .. run
<1>1. run \in Nat /\ run > 0 /\ run \notin failed
  BY DEF OperationInv, OperationTyped, Running
<1>2. Released' /\ Rests' /\ Running'
  BY DEF OperationInv, Released, Rests, Running, UsesHSDAG, Backend
<1>3. Succeeded' = Succeeded \cup {run}
  BY <1>1 DEF Succeeded
<1>4. Latest(Succeeded)' = {run}
  BY <1>1, <1>3 DEF Latest, Succeeded
<1> QED
  BY <1>1, <1>2, <1>3, <1>4

LEMMA StoreResultsKeeps ==
  ASSUME OperationInv, StoreResults
  PROVE  OperationInv'
<1>1. /\ phase = "solve" /\ UsesHSDAG /\ phase' = "cleanup"
      /\ UNCHANGED <<op, run, open, checker, hsdag, checks, lists, failed>>
  BY DEF StoreResults
<1>2. PICK a, b \in {"conflicts", "diagnoses"} :
        /\ a # b
        /\ messages' = IF op.kind \in {"conflict", "diagnosis"}
                       THEN messages \o <<Message(a), Message(b)>> ELSE <<Message(a), Message(b)>>
  BY Zenon DEF StoreResults, Extended, Replaced
<1>3. Parts = {a, b}
  BY <1>1, <1>2 DEF Parts
<1>4. /\ Released' /\ Rests' /\ Running' /\ run \in 1 .. run
      /\ Succeeded' = Succeeded \cup {run} /\ Latest(Succeeded)' = {run}
  BY <1>1, StoringKeeps
<1>5. messages' \in Seq(Messages)
  <2>1. /\ Message(a) \in Messages /\ Message(b) \in Messages /\ messages \in Seq(Messages)
    BY <1>2, <1>4 DEF Message, Messages, OperationInv, OperationTyped
  <2> HIDE DEF Message, Messages
  <2> QED
    BY <1>2, <2>1
<1>6. OperationTyped'
  BY <1>1, <1>5 DEF OperationInv, OperationTyped
<1>7. /\ Range(messages') = [run : Reported', what : Parts'] /\ IsInjective(messages')
      /\ \A i, j \in DOMAIN messages' : i < j => messages'[i].run <= messages'[j].run
  BY <1>1, <1>2, <1>3, <1>4, MessagesAccountedFor DEF OperationInv
<1>8. ResultsAccountedFor'
  <2>1. hsdag'.run = run /\ run' = run /\ UsesHSDAG' /\ \A r \in Succeeded' : r <= run
    BY <1>1, <1>4 DEF OperationInv, Running, UsesHSDAG, Latest
  <2> QED
    BY <1>4, <1>7, <2>1 DEF ResultsAccountedFor
<1> QED
  BY <1>4, <1>6, <1>8 DEF OperationInv

LEMMA StoreRedundantKeeps ==
  ASSUME OperationInv, StoreRedundant
  PROVE  OperationInv'
<1>1. /\ phase = "solve" /\ ~UsesHSDAG /\ phase' = "cleanup" /\ lists' = run
      /\ messages' = <<Message("redundant"), Message("non_redundant")>>
      /\ UNCHANGED <<op, run, open, checker, hsdag, checks, failed>>
  BY DEF StoreRedundant
<1>2. /\ Released' /\ Rests' /\ Running' /\ run \in 1 .. run
      /\ Succeeded' = Succeeded \cup {run} /\ Latest(Succeeded)' = {run}
  BY <1>1, StoringKeeps
<1>3. OperationTyped'
  <2>1. messages' \in Seq(Messages)
    BY <1>1, <1>2 DEF Message, Messages
  <2> QED
    BY <1>1, <1>2, <2>1 DEF OperationInv, OperationTyped
<1>4. /\ Range(messages') = [run : Reported', what : Parts'] /\ IsInjective(messages')
      /\ \A i, j \in DOMAIN messages' : i < j => messages'[i].run <= messages'[j].run
  <2>1. Parts = {"redundant", "non_redundant"} /\ op.kind \notin {"conflict", "diagnosis"}
    BY <1>1 DEF Parts, UsesHSDAG
  <2> QED
    BY <1>1, <1>2, <2>1, MessagesAccountedFor DEF OperationInv
<1>5. ResultsAccountedFor'
  <2>1. lists' # Nothing /\ lists' = run /\ ~UsesHSDAG'
    BY <1>1, <1>2, LimitAssumption DEF UsesHSDAG
  <2> QED
    BY <1>2, <1>4, <2>1 DEF ResultsAccountedFor
<1> QED
  BY <1>2, <1>3, <1>5 DEF OperationInv

LEMMA CleanupKeeps ==
  ASSUME OperationInv, Cleanup
  PROVE  OperationInv'
<1> USE DEF OperationInv
<1>1. OperationTyped'
  BY DEF OperationTyped, Cleanup
<1>2. Released'
  BY DEF OperationTyped, Released, Cleanup, UsesHSDAG, Backend
<1>3. Rests'
  BY DEF Rests, Cleanup
<1>4. /\ phase = "cleanup" /\ phase' = "idle" /\ run \in Nat
      /\ UNCHANGED <<op, run, hsdag, messages, lists, failed>>
  BY DEF Cleanup, OperationTyped
<1>5. Running'
  BY <1>4 DEF Running, UsesHSDAG
<1>6. ResultsAccountedFor'
  <2>1. Succeeded' = Succeeded
    BY <1>4 DEF Succeeded
  <2> QED
    BY <1>4, <2>1, StillAccountedFor
<1> QED
  BY <1>1, <1>2, <1>3, <1>5, <1>6

----------------------------------------------------------------------------

LEMMA OperationInvariant == OperationSpec => []OperationInv
<1>1. OperationInit => OperationInv
  BY OperationInitInv
<1>2. OperationInv /\ [OperationNext]_operationVars => OperationInv'
  <2> SUFFICES ASSUME OperationInv, [OperationNext]_operationVars PROVE OperationInv'
    OBVIOUS
  <2>1. CASE OperationNext
    BY <2>1, ConfigurationKeeps, JarMissingKeeps, CreateCheckerKeeps, CreateHSDAGKeeps,
       FailureKeeps, CheckKeeps, SAT4JFailsKeeps, StoreResultsKeeps, StoreRedundantKeeps,
       CleanupKeeps, Zenon
    DEF OperationNext
  <2>2. CASE UNCHANGED operationVars
    <3>1. UNCHANGED <<op, phase, run, open, checker, hsdag, checks, messages, lists, failed>>
      BY <2>2 DEF operationVars
    <3>2. Succeeded' = Succeeded /\ run' \in Nat /\ run <= run'
      BY <3>1 DEF OperationInv, OperationTyped, Succeeded
    <3>3. ResultsAccountedFor'
      BY <3>1, <3>2, StillAccountedFor DEF OperationInv
    <3> QED
      BY <3>1, <3>3 DEF OperationInv, OperationTyped, Released, Rests, Running, UsesHSDAG, Backend
  <2> QED
    BY <2>1, <2>2
<1> QED
  BY <1>1, <1>2, PTL DEF OperationSpec

\* However often an operation is executed and whatever fails, a run that has ended has
\* released its solver and its checker (execute's finally), except one that failed
\* before its try; and the limits that the HS-dag is given passed the setters.
THEOREM SolversAreReleased == OperationSpec => []SolversReleased
<1>1. OperationInv => SolversReleased
  BY DEF OperationInv, OperationTyped, Released, SolversReleased, OperationStates, LimitSettings
<1> QED
  BY <1>1, OperationInvariant, PTL

\* After any number of executions, whichever of them failed, get_result has the messages
\* of exactly the latest that succeeded, or of all that did for the conflict and the
\* diagnosis operation, whose set_result_messages extend the list; get_redundant is of
\* the latest that succeeded, and get_diagnoses of none before it.
THEOREM ResultsAreAccountedFor == OperationSpec => []ResultsAccountedFor
<1>1. OperationInv => ResultsAccountedFor
  BY DEF OperationInv
<1> QED
  BY <1>1, OperationInvariant, PTL

\* However many checks the executions ask for, nothing that any of them still reports
\* rests on a check that ran out of time or whose process did not start (the errors of
\* SAT4JChecker._solve); every answer was read right, only a process that dies is read
\* as "inconsistent".
THEOREM ResultsRest == OperationSpec => []ResultsRestOnAnswers
<1>1. OperationInv => ResultsRestOnAnswers
  <2> SUFFICES ASSUME OperationInv, NEW i \in DOMAIN checks,
                      NEW reported, reported = (\/ checks[i].run = lists
                                                \/ \E k \in DOMAIN messages :
                                                       messages[k].run = checks[i].run)
               PROVE  /\ reported => checks[i].end \in {"answers", "dies"}
                      /\ reported => checks[i].read = (checks[i].truth /\ checks[i].end = "answers")
                      /\ checks[i].end \in {"times_out", "no_start"} =>
                             \A j \in DOMAIN checks : i < j => checks[j].run > checks[i].run
    BY Zenon DEF ResultsRestOnAnswers
  <2>1. checks[i].end \in Ends /\ checks[i].run \in 1 .. run
    <3>1. checks[i] \in CheckStates
      BY DEF OperationInv, OperationTyped
    <3> QED
      BY <3>1 DEF OperationInv, CheckStates, Rests
  <2>2. reported => checks[i].run \notin failed
    <3>1. ASSUME checks[i].run = lists PROVE lists \notin failed
      <4>1. lists # Nothing
        BY <2>1, <3>1, LimitAssumption
      <4>2. ~UsesHSDAG
        BY <4>1 DEF OperationInv, Running
      <4> QED
        BY <4>1, <4>2 DEF OperationInv, ResultsAccountedFor, Latest, Succeeded
    <3>2. ASSUME NEW k \in DOMAIN messages PROVE messages[k].run \notin failed
      <4>1. messages[k] \in [run : Reported, what : Parts]
        BY DEF OperationInv, ResultsAccountedFor, Range
      <4>2. Reported \subseteq Succeeded
        BY DEF Reported, Latest
      <4> QED
        BY <4>1, <4>2 DEF Succeeded
    <3> QED
      BY <3>1, <3>2
  <2>3. /\ ~SolveRaises(checks[i].end) =>
             checks[i].read = (checks[i].truth /\ checks[i].end = "answers")
        /\ SolveRaises(checks[i].end) =>
             /\ checks[i].run \in failed
             /\ \A j \in DOMAIN checks : i < j => checks[j].run > checks[i].run
    BY DEF OperationInv, Rests
  <2>4. SolveRaises(checks[i].end) <=> checks[i].end \in {"times_out", "no_start"}
    BY DEF SolveRaises
  <2> QED
    BY <2>1, <2>2, <2>3, <2>4 DEF Ends
<1> QED
  BY <1>1, OperationInvariant, PTL
=============================================================================
