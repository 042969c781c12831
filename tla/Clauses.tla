------------------------------ MODULE Clauses ------------------------------
(* Propositional clauses as the transformations write them and the solvers  *)
(* read them: a literal is an integer, a clause a set of literals, a formula *)
(* a set of clauses.  An assumption guards a clause: the clause counts only  *)
(* while the assumption is true.                                             *)
EXTENDS Integers, Sequences, FiniteSets

Variable(l) == IF l < 0 THEN -l ELSE l

VariablesOf(K) == {Variable(l) : l \in UNION K}

Units(S) == {{l} : l \in S}

\* What a solver answers, by branching on a literal of a shortest clause.
Assign(K, l) == {c \ {-l} : c \in {d \in K : l \notin d}}

Shortest(K) == CHOOSE c \in K : \A d \in K : Cardinality(c) <= Cardinality(d)

Satisfiable(formula) ==
    LET sat[K \in SUBSET SUBSET UNION formula] ==
            IF K = {} THEN TRUE
            ELSE IF {} \in K THEN FALSE
            ELSE LET l == CHOOSE x \in Shortest(K) : TRUE IN
                 \/ sat[Assign(K, l)]
                 \/ Shortest(K) # {l} /\ sat[Assign(K, -l)]
    IN  sat[formula]

\* The clauses of K, each with the negated assumption appended.
Guarded(K, id) == {c \cup {-id} : c \in K}

\* The auxiliary variables of the negation of a list of clauses: none for less
\* than two clauses, else one for each.
Auxiliary(cs, t) == IF Len(cs) > 1 THEN t .. t + Len(cs) - 1 ELSE {}

\* A faulty variant, used by no definition: v => c instead of v => ~c.
DefinedBug(v, c) == {{-v, l} : l \in c} \cup {c \cup {v}}

\* v <=> ~c
Defined(v, c) == {{-v, -l} : l \in c} \cup {c \cup {v}}

\* negate_cnf_tseitin
Negated(cs, t) ==
    IF cs = <<>> THEN {{}}
    ELSE IF Len(cs) = 1 THEN {{-l} : l \in cs[1]}
    ELSE (UNION {Defined(t + i - 1, cs[i]) : i \in 1 .. Len(cs)}) \cup {Auxiliary(cs, t)}
=============================================================================
