-------------------------- MODULE TaskPreparation --------------------------
(* From a feature model or a DIMACS file to the task an operation solves.   *)
(* A DiagnosisModelBuilder is given its inputs and builds the knowledge     *)
(* base, with the negated constraints if it is asked for them; it may be    *)
(* given other inputs before build_task_input freezes them.  prepare_task   *)
(* then gives every constraint, assignment and test case an assumption, and *)
(* the assumptions their roles.  Names, texts and files are abstracted: a   *)
(* line of a source is a key and its clauses.                               *)
EXTENDS Clauses, Functions

CONSTANTS
    Sources,         \* what the builder was created from
    Configurations,  \* lists of [name, value], the names of each being different
    Suites,          \* lists of test cases, each a list of [name, value]
    MaxInputs,       \* bound: how many inputs a builder holds at a time
    None

ASSUME NoneAssumption == None \notin Configurations /\ None \notin Suites

\* A configuration is a list.
ASSUME ConfigurationsAssumption == \A x \in Configurations : x \in Seq(Range(x))

VARIABLES source, settings, model, pc, next, kb, assumptions, ids, negation, task

vars == <<source, settings, model, pc, next, kb, assumptions, ids, negation, task>>

----------------------------------------------------------------------------
Default == [redundancy |-> FALSE, cfInC |-> FALSE, configuration |-> None,
            testCase |-> None, positive |-> None, negative |-> None]

NoIds == [fm |-> <<>>, configuration |-> <<>>, testCase |-> <<>>,
          positive |-> <<>>, negative |-> <<>>]

NoTask == [c |-> <<>>, b |-> <<>>, tc |-> <<>>, tv |-> <<>>,
           negTc |-> <<>>, negTv |-> <<>>]

\* The with_* methods and for_redundancy: what one call makes of the settings.
Given(s) ==
    {[s EXCEPT !.redundancy = e] : e \in BOOLEAN}
    \cup {[s EXCEPT !.cfInC = e] : e \in BOOLEAN}
    \cup {[s EXCEPT !.configuration = x] : x \in Configurations}
    \cup {[s EXCEPT !.testCase = x] : x \in Configurations}
    \cup {[s EXCEPT !.positive = x] : x \in Suites}
    \cup {[s EXCEPT !.negative = x] : x \in Suites}
    \cup {[s EXCEPT !.positive = x, !.redundancy = TRUE] : x \in Suites}

InputsOf(s) == {f \in DOMAIN s : s[f] # Default[f]}

\* _validate
Valid(s) ==
    /\ s.configuration = None \/ s.positive = None
    /\ s.testCase = None \/ s.positive = None
    /\ s.testCase = None \/ s.configuration = None
    /\ s.cfInC => s.configuration # None
    /\ s.negative # None => s.positive # None

\* TaskInput.__post_init__
Exclusive(s) == s.positive # None => s.configuration = None /\ s.testCase = None

\* A map keyed by the text of a line holds each text once, where it came first.  The
\* clauses with it are those that came last.
FirstLines(lines) == {i \in DOMAIN lines : \A j \in 1 .. i - 1 : lines[j].key # lines[i].key}

\* The n-th of a set of places.
Nth(S, n) == CHOOSE i \in S : Cardinality({j \in S : j < i}) = n - 1

\* The last line with the text of line i.
LastLike(lines, i) ==
    LET same == {j \in DOMAIN lines : lines[j].key = lines[i].key} IN Nth(same, Cardinality(same))

Keyed(lines) ==
    [n \in 1 .. Cardinality(FirstLines(lines)) |->
        lines[LastLike(lines, Nth(FirstLines(lines), n))].clauses]

\* The first id after the variables of a source.  A feature model numbers its
\* features from 1; a DIMACS file declares how many variables there are, and names
\* some of them.  With negations, the ids of a DIMACS file start after the names.
Floor(s, negations) ==
    LET names == Cardinality(DOMAIN s.variables) IN
    IF s.kind = "dimacs" /\ ~negations /\ s.nvars > names THEN s.nvars + 1 ELSE names + 1

Init ==
    /\ source \in Sources
    /\ settings = Default
    /\ model = [constraints |-> <<>>, negated |-> <<>>, negations |-> FALSE, next |-> 1000]
    /\ pc = "builder"
    /\ next = 1
    /\ kb = {}
    /\ assumptions = <<>>
    /\ ids = NoIds
    /\ negation = <<>>
    /\ task = NoTask

\* A call of a with_* method, before build or between build and build_task_input.
Configure ==
    /\ pc \in {"builder", "built"}
    /\ \E s \in Given(settings) :
          /\ Cardinality(InputsOf(s)) <= MaxInputs
          /\ settings' = s
    /\ UNCHANGED <<source, model, pc, next, kb, assumptions, ids, negation, task>>

\* build: ValueError for the settings, or FlamaException for the file.  The builder
\* may be used again; that is what Configure does instead.
RefuseBuild ==
    /\ pc = "builder"
    /\ ~Valid(settings) \/ source.count # Len(source.lines)
    /\ pc' = "refused"
    /\ UNCHANGED <<source, settings, model, next, kb, assumptions, ids, negation, task>>

\* build: the constraints of the source; the negations follow if there are any.
Build ==
    /\ pc = "builder"
    /\ Valid(settings)
    /\ source.count = Len(source.lines)
    /\ model' = [constraints |-> Keyed(source.lines), negated |-> <<>>,
                 negations |-> settings.redundancy,
                 next |-> Floor(source, settings.redundancy)]
    /\ pc' = IF settings.redundancy THEN "negate" ELSE "built"
    /\ UNCHANGED <<source, settings, next, kb, assumptions, ids, negation, task>>

\* The faulty variants of a definition carry a Bug in their names; no specification
\* uses them, and each breaks a property that the definition keeps.

\* The auxiliary variables are not counted.
NegateBug ==
    LET i == Len(model.negated) + 1 IN
    /\ pc = "negate"
    /\ i <= Len(model.constraints)
    /\ model' = [model EXCEPT !.negated = Append(@, Negated(model.constraints[i], model.next))]
    /\ UNCHANGED <<source, settings, pc, next, kb, assumptions, ids, negation, task>>

\* _create_negated_forms, one constraint after the other.
Negate ==
    LET i == Len(model.negated) + 1 IN
    /\ pc = "negate"
    /\ i <= Len(model.constraints)
    /\ model' = [model EXCEPT !.negated = Append(@, Negated(model.constraints[i], model.next)),
                              !.next = @ + Cardinality(Auxiliary(model.constraints[i], @))]
    /\ UNCHANGED <<source, settings, pc, next, kb, assumptions, ids, negation, task>>

EndNegate ==
    /\ pc = "negate"
    /\ Len(model.negated) = Len(model.constraints)
    /\ pc' = "built"
    /\ UNCHANGED <<source, settings, model, next, kb, assumptions, ids, negation, task>>

\* build_task_input raises ValueError.
RefuseInput ==
    /\ pc = "built"
    /\ ~Exclusive(settings)
    /\ pc' = "refused"
    /\ UNCHANGED <<source, settings, model, next, kb, assumptions, ids, negation, task>>

\* build_task_input and the start of prepare_task.
StartPreparation ==
    /\ pc = "built"
    /\ Exclusive(settings)
    /\ pc' = "fm"
    /\ next' = model.next
    /\ UNCHANGED <<source, settings, model, kb, assumptions, ids, negation, task>>

----------------------------------------------------------------------------
(* The preparation adds one item after the other to the knowledge base.     *)

\* allocate: an assumption that guards the clauses K, for an item of a block.
Single(block, K) ==
    /\ kb' = kb \cup Guarded(K, next)
    /\ assumptions' = Append(assumptions, next)
    /\ ids' = [ids EXCEPT ![block] = Append(@, next)]
    /\ next' = next + 1
    /\ UNCHANGED negation

\* Only the assumption of the negation is listed.
PairBug(block, K, N) ==
    /\ kb' = kb \cup Guarded(K, next) \cup Guarded(N, next + 1)
    /\ assumptions' = Append(assumptions, next + 1)
    /\ ids' = [ids EXCEPT ![block] = Append(@, next)]
    /\ negation' = [id \in DOMAIN negation \cup {next} |->
                        IF id = next THEN next + 1 ELSE negation[id]]
    /\ next' = next + 2

\* allocate_pair: two assumptions, one for the clauses K and one for their negation N.
Pair(block, K, N) ==
    /\ kb' = kb \cup Guarded(K, next) \cup Guarded(N, next + 1)
    /\ assumptions' = assumptions \o <<next, next + 1>>
    /\ ids' = [ids EXCEPT ![block] = Append(@, next)]
    /\ negation' = [id \in DOMAIN negation \cup {next} |->
                        IF id = next THEN next + 1 ELSE negation[id]]
    /\ next' = next + 2

\* A task with test cases is given no negated constraints.
NegationWanted == settings.redundancy /\ settings.positive = None /\ model.negated # <<>>

\* prepare_kb
PrepareConstraint ==
    LET i == Len(ids.fm) + 1 IN
    /\ pc = "fm"
    /\ i <= Len(model.constraints)
    /\ IF NegationWanted THEN Pair("fm", Range(model.constraints[i]), model.negated[i])
       ELSE Single("fm", Range(model.constraints[i]))
    /\ UNCHANGED <<source, settings, model, pc, task>>

Literal(a) == IF a.value THEN source.variables[a.name] ELSE -source.variables[a.name]

Known(list) == \A i \in 1 .. Len(list) : list[i].name \in DOMAIN source.variables

\* prepare_configuration, for the configuration and for the single test case.
PrepareAssignment ==
    /\ pc \in {"configuration", "testCase"}
    /\ settings[pc] # None
    /\ Known(settings[pc])
    /\ LET i == Len(ids[pc]) + 1 IN
       /\ i <= Len(settings[pc])
       /\ Single(pc, {{Literal(settings[pc][i])}})
    /\ UNCHANGED <<source, settings, model, pc, task>>

LiteralsOf(testcase) == {Literal(testcase[j]) : j \in 1 .. Len(testcase)}

\* prepare_testsuite_with_negation: a test case is a conjunction, its negation a clause.
PrepareTestCase ==
    /\ pc \in {"positive", "negative"}
    /\ settings[pc] # None
    /\ LET i == Len(ids[pc]) + 1
           literals == LiteralsOf(settings[pc][i])
       IN
       /\ i <= Len(settings[pc])
       /\ Known(settings[pc][i])
       /\ Pair(pc, Units(literals), {{-l : l \in literals}})
    /\ UNCHANGED <<source, settings, model, pc, task>>

\* KeyError: before the first assignment of a configuration, or at a test case.
UnknownFeature ==
    /\ \/ /\ pc \in {"configuration", "testCase"}
          /\ settings[pc] # None
          /\ ~Known(settings[pc])
       \/ /\ pc \in {"positive", "negative"}
          /\ settings[pc] # None
          /\ Len(ids[pc]) < Len(settings[pc])
          /\ ~Known(settings[pc][Len(ids[pc]) + 1])
    /\ pc' = "refused"
    /\ UNCHANGED <<source, settings, model, next, kb, assumptions, ids, negation, task>>

\* The strategy for tasks with test cases, or the one for diagnosis tasks.
EndConstraints ==
    /\ pc = "fm"
    /\ Len(ids.fm) = Len(model.constraints)
    /\ pc' = IF settings.positive # None THEN "positive" ELSE "configuration"
    /\ UNCHANGED <<source, settings, model, next, kb, assumptions, ids, negation, task>>

After == [configuration |-> "testCase", testCase |-> "assign",
          positive |-> "negative", negative |-> "assign"]

EndInput ==
    /\ pc \in DOMAIN After
    /\ settings[pc] # None => Len(ids[pc]) = Len(settings[pc])
    /\ pc' = After[pc]
    /\ UNCHANGED <<source, settings, model, next, kb, assumptions, ids, negation, task>>

----------------------------------------------------------------------------
\* The roles need fm_originals[0] unless the configuration is diagnosed alone, or
\* redundant constraints are looked for.
RootNeeded ==
    /\ settings.configuration # None => settings.cfInC
    /\ settings.redundancy =>
         settings.positive # None \/ settings.configuration # None \/ settings.testCase # None

Root == <<ids.fm[1]>>
NegatedOf(list) == [i \in DOMAIN list |-> negation[list[i]]]

\* The root is diagnosed with the other constraints.
RolesBug ==
    IF settings.positive # None
    THEN [NoTask EXCEPT !.b = Root, !.c = Tail(ids.fm), !.tc = ids.positive,
                        !.tv = ids.negative, !.negTc = NegatedOf(ids.positive),
                        !.negTv = NegatedOf(ids.negative)]
    ELSE IF settings.configuration # None
    THEN IF settings.cfInC
         THEN [NoTask EXCEPT !.b = Root, !.c = ids.fm \o ids.configuration]
         ELSE [NoTask EXCEPT !.b = ids.fm, !.c = ids.configuration]
    ELSE IF settings.testCase # None
    THEN [NoTask EXCEPT !.b = Root \o ids.testCase, !.c = Tail(ids.fm)]
    ELSE IF settings.redundancy
    THEN [NoTask EXCEPT !.c = IF ids.fm = <<>> THEN <<>> ELSE Tail(ids.fm)]
    ELSE [NoTask EXCEPT !.b = Root, !.c = Tail(ids.fm)]

\* _assign_sets of the two strategies.
Roles ==
    IF settings.positive # None
    THEN [NoTask EXCEPT !.b = Root, !.c = Tail(ids.fm), !.tc = ids.positive,
                        !.tv = ids.negative, !.negTc = NegatedOf(ids.positive),
                        !.negTv = NegatedOf(ids.negative)]
    ELSE IF settings.configuration # None
    THEN IF settings.cfInC
         THEN [NoTask EXCEPT !.b = Root, !.c = Tail(ids.fm) \o ids.configuration]
         ELSE [NoTask EXCEPT !.b = ids.fm, !.c = ids.configuration]
    ELSE IF settings.testCase # None
    THEN [NoTask EXCEPT !.b = Root \o ids.testCase, !.c = Tail(ids.fm)]
    ELSE IF settings.redundancy
    THEN [NoTask EXCEPT !.c = IF ids.fm = <<>> THEN <<>> ELSE Tail(ids.fm)]
    ELSE [NoTask EXCEPT !.b = Root, !.c = Tail(ids.fm)]

\* IndexError: there is no constraint, hence no root.
NoRoot ==
    /\ pc = "assign"
    /\ RootNeeded /\ ids.fm = <<>>
    /\ pc' = "refused"
    /\ UNCHANGED <<source, settings, model, next, kb, assumptions, ids, negation, task>>

AssignSets ==
    /\ pc = "assign"
    /\ RootNeeded => ids.fm # <<>>
    /\ task' = Roles
    /\ pc' = "ready"
    /\ UNCHANGED <<source, settings, model, next, kb, assumptions, ids, negation>>

Next ==
    \/ Configure
    \/ RefuseBuild
    \/ Build
    \/ Negate
    \/ EndNegate
    \/ RefuseInput
    \/ StartPreparation
    \/ PrepareConstraint
    \/ EndConstraints
    \/ PrepareAssignment
    \/ PrepareTestCase
    \/ UnknownFeature
    \/ EndInput
    \/ NoRoot
    \/ AssignSets

Spec == Init /\ [][Next]_vars

----------------------------------------------------------------------------
VariablesIn(lists) == UNION {VariablesOf(Range(list)) : list \in Range(lists)}

ClausesOf(s) == [i \in DOMAIN s.lines |-> s.lines[i].clauses]

Named(s) == 1 .. Cardinality(DOMAIN s.variables)

\* The lines of a source have clauses, and finitely many variables have names.  A
\* feature model names every variable it uses.  The header of a DIMACS file counts
\* every variable of the file, but its comments may leave some without a name.
ASSUME SourcesAssumption ==
    \A s \in Sources :
        LET known == IF s.kind = "dimacs" /\ s.nvars > Cardinality(DOMAIN s.variables)
                     THEN 1 .. s.nvars ELSE Named(s)
        IN  /\ s.lines \in Seq(Range(s.lines))
            /\ ClausesOf(s) \in Seq(Seq(SUBSET Int))
            /\ s.nvars \in Nat
            /\ IsFiniteSet(DOMAIN s.variables)
            /\ VariablesIn(ClausesOf(s)) \cup Range(s.variables) \subseteq known

TypeOK ==
    /\ source \in Sources
    /\ settings \in [redundancy : BOOLEAN, cfInC : BOOLEAN,
                     configuration : Configurations \cup {None},
                     testCase : Configurations \cup {None},
                     positive : Suites \cup {None}, negative : Suites \cup {None}]
    /\ DOMAIN model = {"constraints", "negated", "negations", "next"}
    /\ model.next \in Nat
    /\ Len(model.negated) <= Len(model.constraints)
    /\ pc \in {"builder", "negate", "built", "fm", "configuration", "testCase",
               "positive", "negative", "assign", "ready", "refused"}
    /\ next \in Nat
    /\ assumptions \in Seq(Nat)
    /\ ids \in [DOMAIN NoIds -> Seq(Nat)]
    /\ DOMAIN negation \subseteq Range(assumptions)
    /\ task \in [DOMAIN NoTask -> Seq(Nat)]

\* The ids of negated constraints are counted from the named variables, so they are
\* safe when every variable of the source has a name.
Covered ==
    source.kind = "dimacs" /\ model.negations =>
        VariablesIn(ClausesOf(source)) \cup Range(source.variables) \subseteq Named(source)

\* No assumption is given out twice, and none is a variable of the constraints or an
\* auxiliary variable of their negations.
IdsApart ==
    Covered =>
        /\ IsInjective(assumptions)
        /\ Range(assumptions) \cap
             UNION {VariablesIn(model.constraints),
                    UNION {VariablesOf(K) : K \in Range(model.negated)},
                    Range(source.variables)} = {}

Asserts(A, l) == IF l > 0 THEN l \in A ELSE -l \notin A

\* What an assumption stands for, in the feature assignment A.
MeaningOf(A, id) ==
    \/ \E i \in DOMAIN ids.fm : id = ids.fm[i] /\
          \A c \in Range(model.constraints[i]) : \E l \in c : Asserts(A, l)
    \/ \E block \in {"configuration", "testCase"} : \E i \in DOMAIN ids[block] :
          id = ids[block][i] /\ Asserts(A, Literal(settings[block][i]))
    \/ \E block \in {"positive", "negative"} : \E i \in DOMAIN ids[block] :
          id = ids[block][i] /\ \A l \in LiteralsOf(settings[block][i]) : Asserts(A, l)

Means(A, id) ==
    IF id \in UNION {Range(ids[block]) : block \in DOMAIN ids} THEN MeaningOf(A, id)
    ELSE \E o \in DOMAIN negation : id = negation[o] /\ ~MeaningOf(A, o)

ChecksAreRight ==
    LET features == VariablesIn(model.constraints) \cup Range(source.variables) IN
    \A S \in SUBSET Range(assumptions) :
        LET possible == \E A \in SUBSET features : \A id \in S : Means(A, id)
            checked == kb \cup Units(S)
        IN
        /\ Satisfiable(checked) = possible
        /\ Satisfiable(checked \cup Units({-id : id \in Range(assumptions) \ S})) = possible

\* Whatever assumptions a check selects, the solver finds the knowledge base
\* consistent with them exactly when some choice of features fulfils what they stand
\* for, be it a constraint, its negation, an assignment or a test case; and it makes
\* no difference whether the other assumptions are left free (is_consistent) or
\* denied (find_model).
ChecksMeanSelections == pc = "ready" /\ Covered => ChecksAreRight

\* The same of any source the readers accept.
EveryCheckIsRight == pc = "ready" => ChecksAreRight

\* Every constraint, assignment and test case that was given has one role in the
\* task, and nothing else has one.  The root is never diagnosed: it is in the
\* background, or, when redundant constraints are looked for, in no role at all
\* (task_preparation.py:541-542, where the docstring at 471-472 has it among them).
\* The negations that the algorithms look up are there: of every test case, and of
\* every constraint if build was told that redundancy is the question.
InputsHaveRoles ==
    pc = "ready" /\ Valid(settings) =>
        LET roles == task.c \o task.b \o task.tc \o task.tv
            given == UNION {Range(ids[block]) : block \in DOMAIN ids}
            fmRedundancy == settings.redundancy /\ InputsOf(settings) = {"redundancy"}
        IN
        /\ IsInjective(roles)
        /\ Range(roles) = IF fmRedundancy /\ ids.fm # <<>> THEN given \ {ids.fm[1]} ELSE given
        /\ ids.fm # <<>> => ids.fm[1] \notin Range(task.c)
        /\ Range(task.negTc) = {negation[id] : id \in Range(task.tc)}
        /\ Range(task.negTv) = {negation[id] : id \in Range(task.tv)}
        /\ fmRedundancy /\ model.negations => Range(task.c) \subseteq DOMAIN negation
=============================================================================
