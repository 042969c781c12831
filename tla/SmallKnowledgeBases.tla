------------------------ MODULE SmallKnowledgeBases ------------------------
(***************************************************************************)
(* The tasks the MC modules of the direct algorithms explore: every list   *)
(* of up to n constraints, one of which may be moved to the background,    *)
(* under every knowledge base whose conflicts all have one size of at most *)
(* 3 and every one with two conflicts of any sizes up to 3.                *)
(***************************************************************************)
EXTENDS Naturals, FiniteSets

Background == 0

Conflicts(S) == {k \in SUBSET S : Cardinality(k) \in 1 .. 3}

KBs(S) ==
    UNION {SUBSET {k \in Conflicts(S) : Cardinality(k) = m} : m \in 1 .. 3}
        \cup {{k, l} : k \in Conflicts(S), l \in Conflicts(S)}

SmallTasks(n) ==
    UNION {[kb : KBs((1 .. m) \cup b), c : {[i \in 1 .. m |-> i]}, b : {b}] :
              m \in 0 .. n - 1, b \in {{}, {Background}}}
        \cup [kb : KBs(1 .. n), c : {[i \in 1 .. n |-> i]}, b : {{}}]
=============================================================================
