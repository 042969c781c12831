---------------------------- MODULE Constraints ----------------------------
(***************************************************************************)
(* The vocabulary every algorithm of explanation/operations/algorithms     *)
(* shares: constraints (assumption literals in the code), the consistency  *)
(* check, and what a diagnosis, a conflict and their minimal versions are. *)
(*                                                                         *)
(* A knowledge base kb is a family of sets of constraints, its conflicts:  *)
(* a set of constraints is consistent exactly when it includes none of     *)
(* them.  Every answer a sound and complete solver can give is of this     *)
(* form, because switching an assumption off only removes clauses.         *)
(*                                                                         *)
(* A task is what an algorithm is called with: a record with the knowledge *)
(* base kb, the list c of constraints under consideration (set_c) and the  *)
(* background b (set_b), of which only the elements matter.                *)
(***************************************************************************)
EXTENDS Naturals, Sequences, Functions, SequencesExt

\* The answer of ConsistencyChecker.is_consistent on the constraints S.
Consistent(kb, S) == \A k \in kb : ~(k \subseteq S)

\* The tasks over a set of constraints.  No knowledge base has the empty
\* conflict: every clause is guarded by an assumption, so the solver finds the
\* clauses satisfiable when no assumption is enabled.
TaskOf(Constraint) ==
    [kb : SUBSET ((SUBSET Constraint) \ {{}}),
     c  : Seq(Constraint),
     b  : SUBSET Constraint]

\* utils.split: the first half is the shorter one when the length is odd.
FirstHalf(s) == SubSeq(s, 1, Len(s) \div 2)
SecondHalf(s) == SubSeq(s, (Len(s) \div 2) + 1, Len(s))

----------------------------------------------------------------------------
\* What the algorithms are asked for.

SetC(t) == Range(t.c)

IsDiagnosis(t, D) ==
    /\ D \subseteq SetC(t)
    /\ Consistent(t.kb, t.b \cup (SetC(t) \ D))

IsMinimalDiagnosis(t, D) ==
    /\ IsDiagnosis(t, D)
    /\ \A E \in SUBSET D : IsDiagnosis(t, E) => E = D

IsConflict(t, K) ==
    /\ K \subseteq SetC(t)
    /\ ~Consistent(t.kb, t.b \cup K)

IsMinimalConflict(t, K) ==
    /\ IsConflict(t, K)
    /\ \A E \in SUBSET K : IsConflict(t, E) => E = K

MinimalDiagnoses(t) == {D \in SUBSET SetC(t) : IsMinimalDiagnosis(t, D)}
MinimalConflicts(t) == {K \in SUBSET SetC(t) : IsMinimalConflict(t, K)}

----------------------------------------------------------------------------
\* Which of these the divide-and-conquer searches find.

\* The elements of a list before its n-th.
Earlier(s, n) == {s[m] : m \in 1 .. n - 1}

\* X is what a left-to-right scan of c keeps: each constraint that is consistent
\* with the background and the constraints kept before it.
KeptByScan(kb, b, c, X) ==
    \A n \in DOMAIN c :
        c[n] \in X <=> Consistent(kb, b \cup (Earlier(c, n) \cap X) \cup {c[n]})

PreferredSubset(t) ==
    CHOOSE X \in SUBSET SetC(t) : KeptByScan(t.kb, t.b, t.c, X)

\* X is what a left-to-right scan of c leaves that drops each constraint the others
\* can do without: those not dropped before it contradict the background without it.
LeftByScan(kb, b, c, X) ==
    \A n \in DOMAIN c :
        c[n] \in X <=> Consistent(kb, b \cup ((Range(c) \ (Earlier(c, n) \ X)) \ {c[n]}))

\* On an inconsistent background, the last constraint.
PreferredConflict(t) ==
    IF Consistent(t.kb, t.b)
    THEN CHOOSE X \in SUBSET SetC(t) : LeftByScan(t.kb, t.b, t.c, X)
    ELSE {Last(t.c)}
=============================================================================
