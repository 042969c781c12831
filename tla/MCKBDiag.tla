------------------------------ MODULE MCKBDiag ------------------------------
(***************************************************************************)
(* KBDiag on lists of up to MaxLen constraints with two test cases, each   *)
(* with conflicts of its own, with and without a background constraint and *)
(* a negated test case, for m = 1 and m = 2.                               *)
(***************************************************************************)
EXTENDS KBDiag

CONSTANTS MaxLen, Background, NegatedTestCase, FirstTestCase, SecondTestCase

MCConstraint == 1 .. MaxLen \cup {Background, NegatedTestCase}
MCTestCase == {FirstTestCase, SecondTestCase}

Sets(S, sizes) == {k \in SUBSET S : Cardinality(k) \in sizes}
With(t, family) == {k \cup {t} : k \in family}

\* One conflict with each test case, or two with the first.
KBs(n) ==
    {With(FirstTestCase, {k}) \cup With(SecondTestCase, {l}) :
        k \in Sets(1 .. n, 1 .. 3), l \in Sets(1 .. n, 1 .. 2)}
      \cup {With(FirstTestCase, {k, l}) : k \in Sets(1 .. n, {2}), l \in Sets(1 .. n, {2})}

List(n) == [i \in 1 .. n |-> i]

\* What the background and the negated test case have to do with it: nothing, they
\* are in conflict with a constraint in the second test case, or with each other,
\* or with each other in the first test case.
More ==
    {{}} \cup {{{x, y, SecondTestCase}} : x \in 1 .. 2, y \in {Background, NegatedTestCase}}
         \cup {{{Background, NegatedTestCase}},
               {{Background, NegatedTestCase, FirstTestCase}}}

MCTasks ==
    UNION {[kb : KBs(n), c : {List(n)}, b : {{}}, neg : {{}}, tc : {MCTestCase}, m : {1, 2}] :
              n \in 1 .. MaxLen}
      \cup
    [kb : {kb \cup more : kb \in KBs(3), more \in More}, c : {List(3)},
     b : {{}, {Background}}, neg : {{}, {NegatedTestCase}}, tc : {MCTestCase}, m : {1}]
=============================================================================
