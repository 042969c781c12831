# TLA+ models of the explanation framework

The repository finds conflicts, diagnoses and redundancies in feature models: a
feature model (or a DIMACS file) becomes clauses guarded by *assumptions*, a
*task* says which constraints are under consideration (C) and which are given
(B), a SAT solver answers whether a set of constraints is consistent, and
divide-and-conquer algorithms ask it. This directory models that way from the
input to the results, and the profiler that measures it, in TLA+, checks the models
with TLC and proves the central ones correct with TLAPS.

## The system

| Component (under `src/`) | State | Operations | Correct when | Here |
| --- | --- | --- | --- | --- |
| FastDiag, `operations/algorithms/fastdiag.py` | the recursion: delta, C, B of each pending call | `find_diagnosis`, `_fd` | it ends with a minimal diagnosis | modelled, checked, proved |
| QuickXPlain, `quickxplain.py` | the same: D, C, B | `find_conflict`, `_qx` | it ends with a minimal conflict | modelled, checked, proved |
| HS-dag, `hsdag/hsdag.py`, `node.py` | the graph, `open_nodes`, `node_labels`, `path_labels`, two lookup maps | `construct` and all it calls | reports are sound, complete, within the limits | modelled, checked; safety and completeness proved for any labeler that keeps its promise, the form of the graph and of the reports for all searches of the repository |
| labelers, `hsdag/labeler/` | parameters shared between a node and its children | `get_label`, `identify_new_node_parameters` | a label is one for its node; children get the right parameters | modelled, checked, proved |
| QuickXPlainWithTestCases | as QuickXPlain | `find_conflict_set` | a conflict with the first failing test case | modelled as a labeler, checked, proved |
| KBDiag, `kbdiag.py` | as FastDiag, and the failing test cases | `find_diagnosis`, `_mssDirect` | C without the diagnosis passes every test case | modelled, checked, proved |
| FastDiagP, `fastdiagp.py` | lookup table of futures, a process pool | `find_diagnosis`, `lookahead`, `lookup_CC` | the answer of FastDiag, whatever the workers' timing | modelled, checked, safety proved |
| WipeOutR_FM, WipeOutR_T | the shrinking set | `find_redundancies`, `find_redundant_testcases` | what is left implies what was removed, and nothing left is redundant | modelled, checked, proved |
| checkers, `checker/backend.py` | a solver | `is_consistent`, `is_consistent_test_cases`, `find_model`, `cleanup` | the answer is that of the clauses; a failure is never an answer; the solver is released | answers, failures and life in an operation; not copies |
| builders and task preparation, `models/` | settings, id allocator, maps, the frozen task | `with_*`, `build`, `build_task_input`, `prepare_task` | a check of ids means what the constraints mean; each constraint has the right role | modelled, checked, proved |
| transformations, `transformations/` | the variables and the clauses | floors, negated forms, refusals | ids of auxiliary variables collide with nothing | as far as they number variables |
| operations and their fluent builders, `operations/pysat_*.py` | checker, HS-dag, limits, result messages | `execute`, `with_*`, the getters | solvers are released, it is clear of which executions the results are | modelled, checked, proved |
| profiler, `src/profiling/` | metrics and their types, mode, lock, the global profiler | `start`, `stop`, `reset`, `increment`, `record_time`, `set_gauge`, decorators | no record lost, values fit their types, no crash when stopped midway | modelled, checked, proved |
| API, registry, presets | none that outlives a call | wrappers | - | not modelled |

An operation prepares a task, builds a checker for it, hands both to a labeler
and runs an HS-dag with the labeler. The HS-dag calls the labeler once per node
without a reusable label; the labeler runs FastDiag or QuickXPlain, which call
the checker. Everything runs in one thread, except FastDiagP's checks (a process
pool) and the profiler (any thread may record).

What is hard in this code is listed, line by line, under `hazards` in
`PROJECT.json`: the consistency checks that the recursion skips because another
call has already decided them; labels computed for one node and reused at
another; the pruning of a graph in which nodes are shared; parameters written by
one call and read by a later one; futures that outlive their pool; variables that
share a number with an assumption; a solver or a list of messages that outlives its run; a
metric that is checked in one session of the profiler and written in the next.

## Modules

| Module | Models |
| --- | --- |
| `Constraints` | consistency, tasks, `split`; minimal diagnoses and conflicts; what a left-to-right scan finds |
| `OneAnswer` | abstract: a task is answered once, with an acceptable answer |
| `FastDiag`, `QuickXPlain` | the recursive searches as a call stack, one action per way a call goes on |
| `KBDiag` | the same for KBDiag, whose checks are rounds over test cases and whose calls hand on those that failed |
| `FastDiagP` | extends `FastDiag` with the look-ahead, the lookup table and the process pool, over several calls of one instance |
| `WipeOutR` | WipeOutR_FM and WipeOutR_T: what is left, and the cursors of the loops |
| `Labelers` | what the HS-dag asks of FastDiag, QuickXPlain, QuickXPlainWithTestCases and KBDiag, and what an operation hands them first (`Prepared`) |
| `HSDAG` | the HS-dag over any labeler (constant operators) |
| `Clauses` | clauses, what a solver answers, guards, the negation of a list of clauses |
| `TaskPreparation` | from the source through the builder to the task, constraint by constraint |
| `Operations` | an operation from its builder through several executions |
| `Profiler` | the profilers, and the threads that record in them, step by step |
| `SmallKnowledgeBases`, `MC*` | instances for TLC |
| `ConstraintsProofs`, `FastDiagProofs` (with `FastDiagP`), `QuickXPlainProofs`, `KBDiagProofs`, `WipeOutRProofs`, `HSDAGProofs`, `ProfilerProofs`, `TasksAndOperationsProofs` | lemmas, inductive invariants, theorems; `ConstraintsProofs` has what the others share and what the labelers answer |

`TaskPreparation` ends where the algorithms begin: `ChecksMeanSelections` says that
the solver, asked with some assumptions, answers what the algorithms' modules call
`Consistent`. `Operations` is the frame around an algorithm: it is silent about which
checks are asked and says what happens to the answers, to the solver and to the
results.

### How the models correspond to the code

*Knowledge bases.* A constraint is an assumption literal. A consistency check
enables a set of them; switching one off only removes clauses, so the inconsistent
sets are upward closed and are given by their minimal ones. `kb` is that
family; `Consistent(kb, S)` holds when S includes none of them. Any solver's
answers are of this form, and any such family is the answers of some clauses.
The empty set is never a conflict, since every clause has a guard.

*Lists and sets.* C is a list where the code cuts it by position. `delta`, `B`
and the returned parts are only tested for emptiness, concatenated, subtracted
and handed to the checker: they are sets. The lists never repeat an element.

*Calls.* `arg` is the call being entered, `stack` holds the locals of the calls
that wait, `ret` what the last call returned. `SearchFirstHalf` and
`SearchSecondHalf` are the two recursive calls, `KeepAll`/`DropOne` and
`DropAll`/`KeepOne` the two early returns, `JoinHalves` the last line.

*HS-dag.* One action per branch of `create_nodes`, `label`, `process_labels` and
`expand`; an action performs the whole branch. `process_labels` is
`ComputeLabel`, a `ReplaceLabel` for each known label that includes the fresh
one, and `AddLabel`. Two branches are absent because they cannot be reached: a
known label that is part of the fresh one (a node with a label disjoint from its
path never computes one: the last part of `NoReportTwice`), and the labels that are
lists of lists. Node ids are indices, so `Node.generating_node_id` is not a variable.
`expand` appends to `open_nodes` whatever `depth_first_search` says: the code
that would use it is commented out. `greater` is the set of places of `node_labels`
whose label includes the fresh one, collected at `ComputeLabel`: `node_labels` does
not change until `AddLabel`. `ReplaceLabel` takes the lowest place first, as the loop
does, and `Replace` is what it does there (`update_dag` and `clean_up_nodes`).
`Reusable` are the places of the labels that are disjoint from a path; `ReuseLabel`
takes the first.

*The labeler's contract.* `IHSLabelable` says what methods a labeler has and nothing
of what they return. `LabelerKeepsPromise` says what the HS-dag needs of them, asked
only about the parameters the search has in hand: a label is right for its
parameters, and so is the lack of one (at the root, on a consistent background);
`get_label` changes nothing that the parameters describe; the parameters of a child describe the rest below the arc. The
labels of QuickXPlainWithTestCases and KBDiag need not be minimal (`Minimal`), and of
KBDiag nothing is asked at a node without a label, where it has lost its test cases.
The `hsdag` run checks the promise of the four labelers of the repository, and
`LabelersKeepPromise` proves it.

*Labelers.* `Recorded` is what `get_label` leaves in the parameters object, which
the node keeps and its children are derived from. `Labelers` uses the sets that
the searches return (`PreferredSubset`, `PreferredConflict`) instead of the
searches. They are defined without a loop: the preferred subset is the one set that
keeps exactly the constraints consistent with the background and with what is kept
before them (`KeptByScan`); the preferred conflict is the one that has exactly
those the others cannot spare (`LeftByScan`). That these sets are what FastDiag and
QuickXPlain find, and KBDiag with m = 1, is checked and proved (`DiagnosisIsPreferred`,
`ConflictIsPreferred`, the latter for lists without repetition: two copies of a
constraint can spare each other). The guards around the search are proved to agree as
well: what each module answers is the whole label (`...FindsTheLabel`). `Where` is `diff`
and every loop that keeps some elements of a list in their order; `First` is where
`list.index` finds something. `Parameters` are the records the labelers pass around.

*KBDiag.* A round of checks is `Failing`, the set of test cases that fail. A call
is entered with the test cases `arg.tc` and goes on with `StillFailing`.
`find_diagnosis` returns the failing test cases too; only the labeler uses them
(`FailingTestCases` in `Labelers`).

*FastDiagP.* The search has FastDiag's variables, and the two actions that check nothing
are FastDiag's; a name that ends in `P` is FastDiagP's own version. `mode` says where a
call of `_fd` is between its check being needed and its being answered: `lookahead`,
then `wait`. `lookahead` is a recursion without a result, in which every call ends
with up to three others: it is a worklist of calls to make (`Look` records), and
`LookAhead` makes the next one. It submits checks to the pool and writes their
futures to `lookup_table`, under the key `get_hashcode` computes, which sorts:
the key of a check is a set. The pool is a queue of checks and the workers that
took one; `Answer` is a worker's answer, in any order. The table outlives a call
of `find_diagnosis`, the pool does not. `LookUp` is `lookup_CC`: it waits for a
future that has no answer, starts a look-ahead for one that is missing, and
fails (`AttributeError` in the code) when the look-ahead has not submitted it.

*WipeOutR.* A suite is a list of constraints or test cases with the meaning of each,
the set of its models; a negation may be missing (`None`), which the code
handles by keeping the element. The loops over indices are the cursors; the list
of redundancies is the complement of what is left.

*Tasks.* `Configure` is any `with_*` call; it is possible between `build` and
`build_task_input` as well, as in the code. `Build` numbers the variables (`Floor`) and
starts `Negate`, which is the loop over the constraints in `_create_negated_forms`;
the preparation then takes one constraint, assignment or test case per step and
gives it an assumption, or two (`Single`, `Pair`: `allocate`, `allocate_pair`). A line of a
source is a key and its clauses: two lines with one text are one constraint
(`Keyed`), because the code keys its map by the text; it has the place of the first and
the clauses of the last of them. Everything that raises ends in
`refused`, whichever exception it is. `kb` is the real set of clauses, so a check is
evaluated: `Satisfiable` branches on literals, and `Means` says, over assignments of the
features alone, what an assumption stands for.

*Operations.* One action per phase of `execute`; `phase` says which, `run` counts the
executions. `open` are the runs whose incremental solver was not deleted. A check has
a true answer, chosen freely, and its solver ends in one of four ways (`Ends`): it
answers, dies, runs out of time or cannot be started, the last three for SAT4J only.
`SolveRaises` says which of these `_solve` raises for, `Output` what the process has
written otherwise, and `IsConsistent` what the checker reads in it: nothing written reads
"inconsistent". `checks` is the history of the checks of all executions, so that
`ResultsRestOnAnswers` can ask of everything still reported, also of an earlier execution,
what it rests on. `SolversReleased` names the one way a solver stays behind, an operation for
test cases that is given a task without them: `prepare_hsdag` is outside of the `try`.

*Profiler.* The code of a lifecycle operation runs under the lock from end to end:
one action. Recording is not, so a thread goes through `check` (`is_profiling`), `look`
and `register` or `compare` (`_register_metric`, without the lock), `acquire` and `write`
(under it). A stored value is its shape, list or number, with the records that
went into it, which no reader of the code sees but which the properties count. `since`
is history too, the session in which the profile was made or last cleared: a start without
its Manager begins a session and leaves profile and `since` as they are. `raced`
remembers the profilers in which two types met, or a reset met a call.

The final `node_labels` and `path_labels` of the HS-dag model were compared with
those of the Python classes, driven by a table of conflicts in place of a
solver, on 2365 knowledge bases and limits, and with KBDiag's labeler on 4676 more:
they are the same lists.

## What the runs show

| Run | Instance | Shows |
| --- | --- | --- |
| `fastdiag` | lists of up to five, one constraint possibly in the background; every knowledge base whose conflicts have one size of at most 3, and every pair of conflicts of such sizes | the contract of every pending call, the preferred minimal diagnosis, implementation of `OneAnswer`, termination |
| `quickxplain` | the same | the same for conflicts |
| `kbdiag` | lists of up to five, two test cases with conflicts of their own, m = 1 and 2; a background and a negated test case over three | the same for a diagnosis of the test cases, minimal up to parts of m |
| `fastdiagp` | lists of up to four, two calls of an instance, 2, 3 and 6 processors, answers in any order | it does what FastDiag does; it fails only with fewer than three processors; what is waited for is being checked; the first call returns |
| `wipeoutr` | suites of up to four elements, every meaning of each over three configurations, some without a negation | what is removed is covered by what is left, nothing left is redundant, termination |
| `hsdag` | QuickXPlain and FastDiag labelers: every antichain over 4 constraints under 8 settings of the limits, every family of pairs over 5; QuickXPlainWithTestCases and KBDiag: 4 constraints, two test cases with up to two conflicts each, the first also with a negated test case | sound labels and reports, limits, breadth-first reports, completeness, no report twice, relabelling and pruning keep the graph and its maps consistent, a decided node is not decided again, the four labelers keep their promise, termination |
| `tasks` | a feature model and four DIMACS files, up to three inputs, changed at any time | ids apart, checks mean their selections, each input has its role, the root is never diagnosed |
| `operations` | each operation with each backend, three executions, three checks among them | solvers released, of which executions the results are, nothing reported rests on a check without an answer |
| `profiler` | two threads, two calls each, one key, three types, two sessions | no record lost, at most one record of each thread from before its profile, values fit their types |
| `hsdag_losing` | three pair conflicts in one test case, single ones in the other | **violation**: no diagnosis although there is one |
| `dimacs` | a DIMACS file with three variables, two of them named | **violation**: a check with the wrong answer |
| `fastdiagp_again` | as `fastdiagp`, 6 processors | **violation**: a second call that never returns |

*Bounds.* `MaxLen` bounds the length of C. Five constraints give recursion of depth
three with odd and even splits on both sides, and for m = 2 parts that are
dropped, searched and kept at two depths; conflicts of three constraints out of
five can be spread over all the parts. Four constraints in the HS-dag give three
levels of nodes, shared nodes, closed nodes and reused labels; the pair families
over five give wider graphs. Two test cases are enough for a label that is not
minimal for the other test case, which is what sets off `process_labels`, and for
a part in which one test case passes while the other still fails. In `FastDiagP`,
`MaxCalls` is 2, the least that meets a table left by another call. Two processors
allow no check at all (the case that fails), three one at a time, six (as any
number from five on) three at a time by several workers.

In `tasks`, `MaxInputs` is 3: the largest sets of inputs that belong together (test
cases that pass, test cases that fail, redundancy) and every pair that `_validate`
refuses, with one more. The sources are one for each branch of the numbering: a
feature model, a file whose variables are all named, one with a variable that is
not, one with a wrong count, one with no clause. `MaxRuns` is 3, so that a failed run
comes between two that are not; `MaxChecks` is 3 for all of them together, so that each
execution may have a check, or one of them an answer before and after a failure;
`LimitValues` has a value that is accepted and one that is not. In `profiler`, `MaxCalls`
2 lets one thread finish a call and begin another while the other one is between
its check and its write, `MaxSessions` 2 lets the profiler start again meanwhile.
Threads are symmetric: nothing in `Profiler` tells them apart, and no liveness property
is checked there.

*Backgrounds.* The roots of the HS-dag runs have an empty background: with
QuickXPlain, an inconsistent background makes `find_conflict` blame the last
constraint, and the HS-dag then reports all of C as a diagnosis, which is not
one. The FastDiag and KBDiag labelers check their background, the QuickXPlain
labelers do not. `FastDiag` and `QuickXPlain` themselves are checked and proved with any
background.

*Fairness.* `WF_vars(Next)`: a call runs in one thread and each consistency check
returns. `FastDiagP` has fairness for the caller and for the workers separately: the
caller is a thread of its own, and a worker that took a check answers it.
SAT4J's time limit raises an exception, which ends the call
altogether: `Operations` models that, the algorithms' modules do not. `TaskPreparation`,
`Operations` and `Profiler` have safety properties only: nothing obliges a caller to
go on.

*Deadlock* checking is off because every run ends: a call that has returned has no
next step, and the bounds end the others.

## What is proved

For every set of constraints, every knowledge base, every list (of any length, with
repetitions unless it is said otherwise) and every background:

* `FastDiagProofs!FastDiagIsCorrect`: `FastDiag!Spec` implements `OneAnswer`: a
  single answer, a minimal diagnosis when C contradicts a consistent B, none
  otherwise. `PreferredDiagnosisFound`: it is the preferred one.
* `QuickXPlainProofs!QuickXPlainIsCorrect`: the same with a minimal conflict.
  `PreferredConflictFound`: the preferred one, for lists without repetition.
* `FastDiagFindsTheLabel`, `FastDiagPFindsTheLabel` (on a consistent background),
  `QuickXPlainFindsTheLabel` (for lists without repetition) and `KBDiagFindsTheLabel` (for
  m = 1): the answer of the recursion is the label that `Labelers` gives the HS-dag.
* `TypeCorrect` and `CallsCorrect` in both: the inductive invariant `TypeOK /\ CallsOK`.
* `KBDiagProofs!KBDiagIsCorrect`: `KBDiag!Spec` implements `OneAnswer`, for any number of
  test cases and any m: a diagnosis of the test cases minimal up to parts of m; all of C
  when B and the negated test cases fail together; no label otherwise. `CallsCorrect`:
  dropping the test cases that passed loses none that matters. `PreferredDiagnosisFound`:
  for m = 1, the preferred diagnosis. `TypeCorrect` as above.
* `FastDiagProofs!FastDiagPRunsFastDiag`: on a consistent background each step of
  `FastDiagP` is a step of `FastDiag` or none, for every number of processors and order
  of answers. Hence, in every call of an instance, `CallsCorrectP`, `FastDiagPIsCorrect`
  (a minimal diagnosis whenever there is one) and `PreferredDiagnosisFoundP` (the
  preferred one, so the order of answers does not show). `NeedsThreeCpus`: with three processors the future that is read is in the table.
  `PoolServes`, for lists without repetition: a check is given to the pool once, and
  one that the first call waits for is still there.
* `WipeOutRProofs!NothingLost`, `NothingRedundant`: for every suite and every
  meaning of its elements, the constraints left have the models of all, a removed
  test case is covered by one that is left, and nothing left with a negation is
  redundant. `TypeCorrect` is the invariant on the cursors.
* `HSDAGProofs`, for every knowledge base, any limits and graph of any size, and every
  labeler whose labels are made of the C of their parameters and whose children lack the
  arc and nothing else (`LabelerStaysInC`), right or wrong: `NothingTwice`, `LimitsHold`,
  `ReportedInOrder` (shortest first), `LookupIsRight` (the node rule 1.a finds is on
  the path it is looked up for), `OneOpenPerPath` (no two open nodes are at the end of
  one path), `StatusesLast` (an action property: a decided node keeps its status, its
  children and, with one exception, its label) and `TypeCorrect`.
* The same, for labelers that keep their promise: `LabelsSound`, `ReportsSound` (what
  `get_conflicts` and `get_diagnoses` return is right). `SearchComplete`: with minimal
  labels on a consistent background, a search that no limit on the reports ends has
  reported every minimal diagnosis and every minimal conflict (with `max_depth`, every
  path up to that length).
* `HSDAGProofs!SearchesAreWellFormed`: every search of the repository's labelers stays in
  C, on all parameters an operation builds it on, so the first group holds of it without
  a condition: also with KBDiag and negated test cases, and on backgrounds that
  contradict themselves.
* `HSDAGProofs!LabelersKeepPromise`, `SearchesAreRight`: where KBDiag has no negated test
  cases and no label is found on a contradictory background (`PromiseConditions`), the
  four labelers keep the promise along every search, so its labels and reports are
  sound, and with QuickXPlain and FastDiag it is complete. Both conditions are needed,
  see the assumptions.
* `ProfilerProofs`, for any number of threads, keys, profilers, sessions and calls:
  `CountsExact`, a stored value holds exactly the records that were completed in it;
  `TypesAlwaysAgree`, a value has the shape of its type and a record fails only for a
  reason, unless two types were registered at once or a reset met a call;
  `FewRecordsAreStale`, of the sessions before the one in which a profile was made or
  cleared, a thread leaves at most one record in it, starts that fail included.
* `TasksAndOperationsProofs`, of the task, for every source, configuration and suite and
  any number of inputs: `IdsAreApart`, no assumption is given out twice or is a variable
  of a clause (where `Covered`); `RolesOfInputs`, each thing given has one role, except the root
  where redundant constraints are looked for, which has none; the root is never
  diagnosed, and the negations that are looked up are there; `TaskTypeCorrect`.
  `ChecksMeanWhatIsSelected`: whichever assumptions are selected, and whether the others
  are free or denied, the solver answers what the selected ones stand for (where
  `Covered`). This is what lets the modules of the algorithms speak of constraints
  that are consistent, and not of clauses. `SolverIsRight`: `Satisfiable`, a search by
  branching, finds whether clauses have a model, whatever they are.
* `TasksAndOperationsProofs`, of the operations: `SolversAreReleased`,
  `ResultsAreAccountedFor`, `ResultsRest`, for any number of executions and checks and any
  limits.

### The arguments

*FastDiag and QuickXPlain.* The specification alone is not inductive: that the last
call returns a maximal satisfiable subset follows only from what each pending call was
asked for. `CallsOK` says it for each frame of the stack: `Asked(i)` is the list and
the background the frame waits for, `FrameOK(i)` ties each frame to the one above
and, after the first recursive call, says that its result is maximal in the first
half. An empty delta carries the fact that the skipped check fails. The step
lemmas go action by action; `MaximalOfHalves` (`IrreducibleOfHalves`) is the
mathematical core: maximal in the first half, then maximal in the second with
the first in the background, is maximal in the whole.

*The preferred answer.* A second invariant, `ScansOK`, says of each frame which list it
was asked about (`AskedList`) and that its result is what a scan of that list keeps
(`Scanned`), or what it cannot spare (`Spared`). A scan of a list is a scan of its first
half and then one of its second with the result of the first in the background
(`HalvesElements`, `ScanDecides`). That no two sets answer to the description is an
induction over the list, done by its least counterexample: two such sets differ
first at some place (`FirstDifference`, from `LeastElement`), and at that place they
agree on all that decides it. QuickXPlain needs a case more than FastDiag: a call on
an inconsistent background blames the last constraint of its list, whatever else is in
it. Such calls exist only when the background of the task is inconsistent, and
the invariant keeps the two regimes apart.

*KBDiag.* The contract is FastDiag's, with two differences. A call is handed the test cases
that failed where it was called from: a set of constraints that is smaller fails no
others (`RoundOfFailing`), so the round over them finds what a round over all would.
And `Maximal` asks for a part of at most m around every constraint left out; parts stay
small when what the other half keeps is taken out of them (`SmallerPart`), so
`MaximalOfHalves` holds again. `get_label` checks B, `find_diagnosis` the negated test
cases, and nobody both together. Where some test case fails on these alone (`Hopeless`)
there is no contract: `NothingKept` says that every call still has that test case and
keeps nothing, which makes the answer all of C. The preferred diagnosis is FastDiag's
for the knowledge base `Each`, whose single check is a round over all test cases
(`EachPasses`); `ScansOK` is in the invariant from the start. TLC checked the invariant
on the `kbdiag` instance before it was proved.

*FastDiagP* extends `FastDiag` and shares its variables, so a step needs no mapping: it
either changes none of them or is a step of FastDiag. What has to be proved
is that the verdict looked up is that of the constraints asked for: the invariant
says that every future in the table, wherever it came from, is filed under the
set it checks, and that the pool answers what `Consistent` says. `PoolServes` has an
invariant of its own, `PoolInv`: what a call is about are constraints of its task
(`WithinTask`), and during the first call the checks in the queue are those in the
table without an answer, each once (`QueueOK`). It assumes that no task lists a
constraint twice (`NoRepetition`), because `InOrder`, which lists a set by the places
of its elements, is a list of constraints only then.

*WipeOutR.* One pass from the end suffices because removing elements later
cannot make an element redundant that was not when it was visited: fewer
elements entail less. The invariant says so for the part already visited, and
that what was removed is entailed by what is left at every moment.

*HS-dag.* None of the properties is inductive alone, and they need one another. The
invariant has two parts. `Shape` is about the graph and what was reported, and is kept
whatever the labels mean, as long as they stay in C. `Described` and `Sound` are about
what they mean, and rest on the labeler's promise:

* `Inv1` is the well-formed graph: types (`Typed`), and what each part of the search
  finds when its turn comes (`InTurn`: an open node without parents is the root and has
  a label; a computed label is not empty);
* `AtHand`: the node that is labelled is open or was just pruned, and the one that is
  expanded is open. Hence the exception of `DecidedOnce`: in the middle of replacing
  labels the node at hand may be pruned, and is labelled all the same;
* `Disjoint`: arcs still to be taken are not on the path of their node, so that paths
  repeat nothing; `RestAtNodes`: the C of a node is what is not on its path;
* `Described`: the parameters of every node describe what is left of the knowledge
  base below its path. This is what turns the labeler's promise, which is about the
  parameters of one node, into a statement about the whole knowledge base
  (`LabelRight`, used by `Sound`), and it survives `get_label` writing into parameters;
* `Sound`: every known label and reported path is right for the whole;
* `Distinct`: no two reports are the same. A fresh label includes no known one, because
  a known label disjoint from the path would have been reused, and a path that is
  reported again would have been pruned;
* `Limited`: while the search goes on no limit is reached, so that one report more
  passes none;
* `Ordered`: `open_nodes` holds at most two levels, in order, and no report is longer
  than a path that is open;
* `LookupFinds` needs all of `clean_up_nodes`: it takes a pruned node's path out of the
  map, and only nodes it reaches lose a parent (`Unhooked`);
* `NoLoops`: no path takes an arc twice and no node is twice in `open_nodes`;
* `OpenWait` and `OnePath`: an open node is in `open_nodes`, or its level is over. Open nodes
  at the end of one path would both be waiting when the second is generated, and rule 3.ii
  closes the second.

Completeness is the hitting-set argument. Suppose a report is missing, and let G be a set
that meets every known label and includes no reported path (`Guide`): the missing path
itself, or what is left of the constraints without the missing label. Then a node whose
path is inside G is still to be expanded (`Frontier`): the label of the node at hand meets
G, so that one of its arcs stays inside, and a path inside G is not reported. When nothing
is open any more there is no such set (`NoGuideLeft`). `OnTheWay` says so of every moment,
and needs the rest of `Inv2`:

* `Waiting`: with `OpenWait`, where the nodes still to be expanded are;
* `Undisturbed`: with minimal labels none is part of another (`Least`), so nothing is
  replaced or pruned, every node is found in the map, and `can_prune` closes a node only
  for the sake of another with the same path (`NotClosed`);
* `Ended`: the search stops when nothing is open or a limit is met. Without a root there
  is nothing to find.

`Meeting` and `Least` use `MonotoneAssumption`: every minimal diagnosis meets every conflict,
and what is right and part of a minimal label is that label. The labels of KBDiag and of
QuickXPlainWithTestCases need not be minimal, and the run `hsdag_losing` shows what is lost.

The hypotheses `[]LabelerStaysInC` and `[]LabelerKeepsPromise` are about the labeler and
not about the search. The second implies the first (`PromiseStaysInC`) and holds of every
state of the `hsdag` run. That the repository's labelers stay in C needs only that their
parameters are typed and repeat nothing (`AnyNode`, `LabelOfStays`, `ChildOfStays`). That
they keep the promise is proved in three layers.

* What the loops find (`ConstraintsProofs`): the preferred subset exists and is maximal, the
  preferred conflict exists and is minimal. An invariant of the scan over the list is
  stated over its first n elements, so the induction over the list is again a least
  counterexample (`UpTo`, `LoopDecides`).
* What each labeler answers for any parameters (`LabelOfIsRight`, `NoLabelOfIsRight`), that
  `get_label` changes nothing the parameters describe (`AfterLabelIsRight`), and that a
  child describes the rest (`ChildOfIsRight`). The last is where the labelers differ.
  QuickXPlainWithTestCases' child starts at its parent's failing test case, and KBDiag's
  has only the failing ones: the others stay consistent with fewer constraints
  (`RemainingFail`, and the part of `ChildOfIsRight` about KBDiag).
* Which parameters the search has in hand (`AtNode`, `ParametersAtNodes`): C repeats
  nothing, so that taking the arc out leaves none of it; what `get_label` wrote is what
  it would find again, since nothing else of the parameters changes; KBDiag's have no
  negated test cases, the first of the `PromiseConditions`. Below the root of a diagnosis labeler the background may be
  inconsistent, for the arcs went into it; there `get_label` returns no label, and that
  is the right answer.

The promise and the invariant of the search need each other: that the arc at hand is in
the C of its node is `Disjoint` and `Described`, which hold as long as the promise was
kept. At each state the promise follows from what holds of the same state
(`PromiseKept`), so one induction over the steps does both.

*Profiler.* For the counts the invariant is that a thread about to write holds the lock
of the profiler of its call, that the profile is there, and that the value read is
still the stored one; nothing changes a profile without its lock. Registering a type
and reading `is_profiling` happen without the lock, and the proof shows that they cannot
disturb the counts. The steps before a thread holds the lock share one lemma
(`StepKeeps`), and so do the four lifecycle operations (`LifecycleKeeps`). For the types
(`TypesInv`): a profiler in use has a profile (`HasProfile`), and a thread that found
its key registered still finds it so (`Known`). For stale records (`FewStale`): a thread
that is late, between its check and its write when a new profile is made or the old one
cleared, has left no stale record in it so far; the one it writes is its last, since its
next call reads a session that is not before the profile's (`SinceInv`).

*Task preparation.* The invariant is `TaskInv`, and TLC checked it on the `tasks` instance
before it was proved. `IdsInOrder` is the numbering: everything in use is below
`model.next`, assumptions are handed out in increasing order from there, and `next` is
above them all. Before any is handed out it has to be shown that negating takes exactly
as many numbers as it says: the variables of a negation are those of the constraint,
the guard and one auxiliary variable per clause that needs one (`VariablesOfNegated`,
`AuxiliaryCounted`). `BlocksApart` says that the ids of the five kinds of things given
are lists of their own, increasing and disjoint, and that what was not given has none;
`NegationsKept` that each negation looked up is there. Together they make every
expression of `_assign_sets` a list without repetitions whose parts are disjoint
(`JoinedLists`, `RestOfList`, `EachHasOneRole`, `RootNotDiagnosed`). That the lines kept by `Keyed` are lines of
the source is again a least counterexample (`EachPlaceExists`).

What the clauses mean is a second invariant, `MeaningInv`, also checked by TLC first.
`ClausesMean` says that an assignment satisfies `kb` exactly if it meets the demand of
every assumption it makes true, and the denial of every negated one; each step adds the
clauses that an id guards (`GuardMeans`), and what they demand (`DefinedMeans`,
`NegatedMeans`). `NegationsMean` says that a negation excludes its constraint
(`NegationExcludes`), and that where constraints fail the auxiliary variables of all
their negations can be chosen at once, outside the features (`NegationIsModelled`):
the numbers of `IdsInOrder` keep those of one negation apart from those of the next.
Then a choice of features becomes a model of the clauses when the selected ids are
made true, all others false, and the auxiliary variables chosen
(`SelectionsHaveModels`), and a model restricted to the features is such a choice
(`ModelsAreSelections`). Ids must be apart from features for both, which is `IdsApart`.

That the solver finds the model is `SolverIsRight`. `Satisfiable` is the function
that satisfies a recursive equation. "Has a model" satisfies it too
(`BranchAnswerIsRight`), so there is such a function; and any other would differ from it
at a smallest number of literals, where a step of the search is right because what is
left after it has fewer (`BranchIsSmaller`).

*Operations.* The invariant, `OperationInv`, adds to the properties what holds in the
middle of a run: one that asks for checks has not failed, and its HS-dag is the one held
(`Running`); a check without an answer has made its run fail, and no check of that run
comes after it (`Rests`). So storing results adds a run none of whose checks lacks an
answer, and its two messages come after those of the runs before
(`StillAccountedFor` is the lemma of every other step).

The types (`TypeOK`) of FastDiag, QuickXPlain and WipeOutR are theorems and are not
repeated in the runs.

### Assumptions

On the constants: `TasksAssumption` (the tasks are tasks over `Constraint`),
`CpusAssumption` (a machine has a processor), `MaxCallsAssumption` (an instance is called
at least once), `SuitesAssumption` (a suite repeats no element), `LimitsAssumption` (a
limit of the HS-dag is absent or a positive number), `FiniteAssumption` (a knowledge base
has finitely many constraints), `MonotoneAssumption` (what cannot be kept cannot be kept
with more constraints), in `Profiler` `CallsAssumption`,
`NoneAssumption` and `BoundAssumption` (calls have a key, a type and tries; `None` is none
of the values it stands beside), in `TaskPreparation` `NoneAssumption`,
`ConfigurationsAssumption` (a configuration is a list) and
`SourcesAssumption` (the lines of a source are finite lists of clauses, finitely many
variables have names, and the names, or the count in the header of a DIMACS file, cover
the variables of the clauses) and in `Operations` `LimitAssumption` (limits are integers,
and `Nothing` is none). In the theorems: `NoRepetition`, `[]LabelerStaysInC` and `[]LabelerKeepsPromise`, as above.
TLC evaluates the constants' in each run and checks the promise, which implies the other,
in `hsdag`.

`SearchesAreWellFormed`, `LabelersKeepPromise` and `SearchesAreRight` assume
`RepositoryLabelers`: the operators the HS-dag is given are those of `Labelers`, and each
initial parameters are `Prepared`, that is, typed, C repeats nothing, which
`InputsHaveRoles` says of the tasks, and nothing is written into them yet. Operations build
searches on such parameters only.

The last two theorems also assume `PromiseConditions`, which operations do not see to:

* KBDiag has no negated test cases (`NothingNegated`); `pysat_testcase.py:60-61` passes on
  those a task has;
* `get_label` finds no label where the background contradicts itself or a test case
  (`NothingContradicted`). FastDiag's and KBDiag's guards see to that. QuickXPlain's do
  not, and `pysat_conflict.py:49` passes on any background.

Neither can be left out. Run on roots that violate one of them, with KBDiag and a negated
test case or with QuickXPlain and a background that is a conflict of its own, the `hsdag`
instance violates `LabelerKeepsPromise`, `LabelsAreSound` and `ReportsAreSound`: see the
findings, and the bounds on backgrounds above. TLC evaluates all of this of the parameters
of the HS-dag runs (`InitialIsPrepared`).

### Only model-checked

* Termination of anything: liveness is outside the prover.

## Findings

Shown by a run and listed in `PROJECT.json`:

* with QuickXPlainWithTestCases the HS-dag can lose every diagnosis, when it prunes
  nodes that are still reachable from elsewhere (`hsdag_losing`);
* FastDiagP waits for ever in a second call of the same instance
  (`fastdiagp_again`);
* for the redundancy of a DIMACS file whose comments do not name every variable, an
  assumption gets the number of a variable, and WipeOutR_FM is given wrong answers
  (`dimacs`). `Covered` is the condition under which that cannot happen, and the
  passing run checks the rest.

Met while modelling, modelled as the code has it, and without a run of their own:

* `can_prune` (`hsdag.py:240`) closes a node when its path is part of a reported one,
  not when a reported one is part of its path, so the HS-dag reports diagnoses that
  are not minimal. `Complete` and `ReportsAreSound` hold all the same.
* With KBDiag and negative test cases a node below the root may report a diagnosis
  that is none (`kbdiag.py:64`): the path and the negated test cases are never checked
  together. The `hsdag` run has KBDiag without negated test cases. `kbdiag` has
  them, also such as fail together with the background: then all of C is the answer.
* A node with a reused label is never passed to `get_label`, so with KBDiag its
  children get no test cases (`kbdiag_labeler.py:75`), and their paths are reported
  as conflicts whether they are or not.
* `label` (`hsdag.py:139`) gives the computed label to its node even when `process_labels`
  has just made `clean_up_nodes` prune that node; the label then names a node that is no
  longer part of the graph. It happens in the trace of `hsdag_losing`. `DecidedOnce` states it
  as the one exception.
* For the redundancy of constraints the docstring at `task_preparation.py:471-472` says
  "C = CF (i.e., = PySATModel + {f0 = true}), B = {}", so with the root in C. The code
  (541-542) leaves the root out of C and of everything else, as the docstring of
  `prepare_task` says (`pysat_diagnosis_model.py:97-98`, "no root"). The solver is then free
  to reject the root in every check. `InputsHaveRoles` states what the code does.
* A conflict or diagnosis operation that is executed again extends its messages, the
  others replace them (`pysat_conflict.py:74`, `pysat_diagnosis.py:73`): `get_result` mixes
  executions. After an execution that failed midway, `get_diagnoses` and `get_conflicts` are
  of that one, `get_result` is not. `ResultsAccountedFor` says of which executions each is.
* When the Manager of a `MULTI_PROCESS` session cannot be started, `start` has already begun
  the session (`core.py:219-223`) and keeps the profile of the one before: its records and
  the new ones mix, and without an earlier profile each record is a `TypeError`.
* A checker made for an operation for test cases is not released when the task has
  none (`pysat_abstract_hsdag_explanation.py:221`).
* A SAT4J process that dies is read as "inconsistent" (`backend.py:244`).

With two processors FastDiagP fails on its first check (`FailsOnlyBelowThreeCpus`
says exactly when); nothing in the repository promises otherwise.

## Not modelled

* Parsing, and the clauses flamapy makes of a relation: a source is keys and clauses.
* Descriptions, formatting, export, statistics: they change no state.
* `prepare_variable_assignments` and the encoders, and the inputs of CXPlain
  (requirement, sub-configuration): no operation of the repository uses them.
* Copies of a checker and its way to a worker process: FastDiagP's workers are asked
  as if they had the checker itself.
* The registry (a dictionary), the API (names) and the presets (configurations).
* The profiler's readers; its `MULTI_PROCESS` mode is a profile of the same kind whose
  Manager may fail to start (`StartFails`) and is not shared with other processes.

## Plan

Done: all modules above, one run for all labelers, and the proofs above; every safety
property of a passing run is stated by a theorem. What would come next is termination, for
which the models state fairness and TLC checks bounded instances: a measure on the call
stack of the recursive searches and on the open nodes of the HS-dag would turn it into
safety properties. After that, the copies of a checker that FastDiagP's workers use.
