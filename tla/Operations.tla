----------------------------- MODULE Operations -----------------------------
(* The life of an operation: made by a fluent builder, configured, executed *)
(* several times on prepared tasks, and asked for its results in between.   *)
(* One execution creates a checker, makes the labeler and the HS-dag (or    *)
(* WipeOutR), runs the checks that this asks for, stores the results and    *)
(* releases the checker.  What the checks are about and what follows from    *)
(* the answers is left to the modules of the algorithms; here a check has a  *)
(* true answer and its solver ends in some way, and the question is what     *)
(* becomes of it.  checks is the history of all checks of the operation; the *)
(* numbers of runs in the other variables say whose results they hold.       *)
EXTENDS Integers, Sequences, FiniteSets, Functions

CONSTANTS
    MaxRuns,        \* bound: executions of one operation
    MaxChecks,      \* bound: checks of all executions together
    LimitValues,    \* the limits tried, some of them not positive
    Nothing

ASSUME LimitAssumption == LimitValues \subseteq Int /\ Nothing \notin Int

VARIABLES op, jar, phase, run, taskKind, open, checker, hsdag, checks, messages, lists, failed

operationVars == <<op, jar, phase, run, taskKind, open, checker, hsdag, checks, messages, lists, failed>>

----------------------------------------------------------------------------
Limits == {"conflicts", "diagnoses", "depth"}

NewOperation(kind, sat4j) ==
    [kind |-> kind, sat4j |-> sat4j, incremental |-> TRUE,
     limits |-> [l \in Limits |-> Nothing], m |-> 1]

\* for_conflict, for_diagnosis and their SAT4J variants
DiagnosisOperations == {NewOperation(k, s) : k \in {"conflict", "diagnosis"}, s \in BOOLEAN}
\* for_debugging of the two builders for test cases
DebuggingOperation == NewOperation("testcase", FALSE)
QuickXPlainOperation == NewOperation("testcase_quickxplain", FALSE)
\* for_redundancy_test_cases, for_redundancy_constraints
TestCaseRedundancy == NewOperation("redundancy_testcases", FALSE)
ConstraintRedundancy == NewOperation("redundancy_constraints", FALSE)

UsesHSDAG == op.kind \notin {"redundancy_testcases", "redundancy_constraints"}

\* The labelers and WipeOutR_T that read set_tc, which only a TestCaseTask has.
NeedsTestCases == op.kind \in {"testcase", "testcase_quickxplain", "redundancy_testcases"}

\* SolverBackend.from_flags
Backend == IF op.sat4j THEN "sat4j" ELSE IF op.incremental THEN "incremental" ELSE "fresh"

\* How _create_hsdag writes a limit for the HS-dag.
HSDAGLimit(l) ==
    IF op.limits[l] # Nothing THEN op.limits[l] ELSE IF l = "depth" THEN 0 ELSE -1

OperationInit ==
    /\ op \in DiagnosisOperations \cup
              {DebuggingOperation, QuickXPlainOperation, TestCaseRedundancy, ConstraintRedundancy}
    /\ jar \in BOOLEAN
    /\ phase = "idle"
    /\ run = 0
    /\ taskKind = Nothing
    /\ open = {}
    /\ checker = Nothing
    /\ hsdag = Nothing
    /\ checks = <<>>
    /\ messages = <<>>
    /\ lists = Nothing
    /\ failed = {}

----------------------------------------------------------------------------
(* Configuration.  build returns the operation itself, so a builder goes on *)
(* configuring what it has built, between two executions as well.           *)

Configured(new) ==
    /\ phase = "idle"
    /\ op' = new
    /\ UNCHANGED <<jar, phase, run, taskKind, open, checker, hsdag, checks, messages, lists, failed>>

\* The setters raise ValueError for anything else.
Positive(value) == value # Nothing => value >= 1

\* with_max_conflicts, with_max_diagnoses, with_max_depth
WithLimit ==
    \E l \in Limits, value \in LimitValues \cup {Nothing} :
        /\ UsesHSDAG
        /\ Positive(value)
        /\ Configured([op EXCEPT !.limits[l] = value])

\* with_m
WithM ==
    \E value \in LimitValues :
        /\ op.kind = "testcase"
        /\ Positive(value)
        /\ Configured([op EXCEPT !.m = value])

\* with_incremental
WithIncremental == \E enabled \in BOOLEAN : Configured([op EXCEPT !.incremental = enabled])

----------------------------------------------------------------------------
(* Execution.                                                               *)

\* An error leaves execute; nothing that was stored before is touched.
Raise == failed' = failed \cup {run}

\* execute is called; SAT4J without its jar fails as soon as the checker is created.
JarMissing ==
    /\ phase = "idle"
    /\ run < MaxRuns
    /\ Backend = "sat4j" /\ ~jar
    /\ run' = run + 1
    /\ failed' = failed \cup {run + 1}
    /\ UNCHANGED <<op, jar, phase, taskKind, open, checker, hsdag, checks, messages, lists>>

\* build_checker; only the incremental checker keeps a solver.
CreateChecker ==
    /\ phase = "idle"
    /\ run < MaxRuns
    /\ Backend = "sat4j" => jar
    /\ run' = run + 1
    /\ taskKind' \in {"diagnosis", "testcase"}
    /\ open' = IF Backend = "incremental" THEN open \cup {run + 1} ELSE open
    /\ phase' = IF UsesHSDAG THEN "label" ELSE "solve"
    /\ UNCHANGED <<op, jar, checker, hsdag, checks, messages, lists, failed>>

\* prepare_hsdag: AttributeError for a task without test cases, outside of the try.
NoTestCases ==
    /\ phase = "label"
    /\ NeedsTestCases /\ taskKind # "testcase"
    /\ Raise
    /\ phase' = "idle"
    /\ UNCHANGED <<op, jar, run, taskKind, open, checker, hsdag, checks, messages, lists>>

\* prepare_hsdag: the labeler and the HS-dag with the limits of the operation.
CreateHSDAG ==
    /\ phase = "label"
    /\ NeedsTestCases => taskKind = "testcase"
    /\ checker' = run
    /\ hsdag' = [run |-> run, limits |-> [l \in Limits |-> HSDAGLimit(l)]]
    /\ phase' = "solve"
    /\ UNCHANGED <<op, jar, run, taskKind, open, checks, messages, lists, failed>>

\* The redundancy operations read the task in their try.
RedundancyNeedsTestCases ==
    /\ phase = "solve"
    /\ ~UsesHSDAG /\ NeedsTestCases /\ taskKind # "testcase"
    /\ Raise
    /\ phase' = "cleanup"
    /\ UNCHANGED <<op, jar, run, taskKind, open, checker, hsdag, checks, messages, lists>>

CanCheck ==
    /\ phase = "solve"
    /\ ~UsesHSDAG /\ NeedsTestCases => taskKind = "testcase"
    /\ Len(checks) < MaxChecks

\* How the solver of a check ends: it answers, its process dies (out of memory, say),
\* runs out of time, or cannot be started.  The solvers of PySAT answer.
Ends == {"answers", "dies", "times_out", "no_start"}

\* SAT4JChecker._solve: what a process that ended has written; its exit code is not
\* looked at.
Output(truth, end) ==
    IF end # "answers" THEN "" ELSE IF truth THEN "SATISFIABLE" ELSE "UNSATISFIABLE"

\* SAT4JChecker.is_consistent
IsConsistent(output) == output = "SATISFIABLE"

\* The faulty variants of a definition carry a Bug in their names; no specification
\* uses them, and each breaks a property that the definition keeps.

\* A run that is out of time is taken for an inconsistent set.
SolveRaisesBug(end) == end = "no_start"

\* SolverTimeoutError and RuntimeError of _solve.
SolveRaises(end) == end \in {"times_out", "no_start"}

Checked(truth, end, read) ==
    /\ checks' = Append(checks, [run |-> run, truth |-> truth, end |-> end, read |-> read])
    /\ UNCHANGED <<op, jar, run, taskKind, open, checker, hsdag, messages, lists>>

\* IncrementalPySATChecker: the solver kept for the run is asked.
CheckIncremental ==
    /\ CanCheck
    /\ Backend = "incremental" /\ run \in open
    /\ \E truth \in BOOLEAN : Checked(truth, "answers", truth)
    /\ UNCHANGED <<phase, failed>>

\* NonIncrementalPySATChecker: a solver is made, asked and deleted.
CheckFresh ==
    /\ CanCheck
    /\ Backend = "fresh"
    /\ \E truth \in BOOLEAN : Checked(truth, "answers", truth)
    /\ UNCHANGED <<phase, failed>>

\* SAT4JChecker: a process that ends is read by what it has written.
CheckSAT4J ==
    /\ CanCheck
    /\ Backend = "sat4j"
    /\ \E truth \in BOOLEAN, end \in Ends :
           ~SolveRaises(end) /\ Checked(truth, end, IsConsistent(Output(truth, end)))
    /\ UNCHANGED <<phase, failed>>

\* One that does not end in time, or does not start, is an error.
SAT4JFails ==
    /\ CanCheck
    /\ Backend = "sat4j"
    /\ \E truth \in BOOLEAN, end \in Ends : SolveRaises(end) /\ Checked(truth, end, Nothing)
    /\ Raise
    /\ phase' = "cleanup"

Message(what) == [run |-> run, what |-> what]

\* set_result_messages of the two families: one extends the list, one replaces it.
Extended ==
    messages \o (IF op.kind = "conflict" THEN <<Message("conflicts"), Message("diagnoses")>>
                 ELSE <<Message("diagnoses"), Message("conflicts")>>)

\* The messages of earlier executions are kept.
ReplacedBug == messages \o <<Message("diagnoses"), Message("conflicts")>>
Replaced == <<Message("diagnoses"), Message("conflicts")>>

\* construct returns; the results are formatted and stored.
StoreResults ==
    /\ phase = "solve"
    /\ UsesHSDAG
    /\ messages' = IF op.kind \in {"conflict", "diagnosis"} THEN Extended ELSE Replaced
    /\ phase' = "cleanup"
    /\ UNCHANGED <<op, jar, run, taskKind, open, checker, hsdag, checks, lists, failed>>

\* WipeOutR returns; the lists and the messages are stored.
StoreRedundant ==
    /\ phase = "solve"
    /\ ~UsesHSDAG
    /\ NeedsTestCases => taskKind = "testcase"
    /\ lists' = run
    /\ messages' = <<Message("redundant"), Message("non_redundant")>>
    /\ phase' = "cleanup"
    /\ UNCHANGED <<op, jar, run, taskKind, open, checker, hsdag, checks, failed>>

\* The checker is released only when there are results.
CleanupBug ==
    /\ phase = "cleanup"
    /\ open' = IF run \in failed THEN open ELSE open \ {run}
    /\ checker' = Nothing
    /\ phase' = "idle"
    /\ UNCHANGED <<op, jar, run, taskKind, hsdag, checks, messages, lists, failed>>

\* The finally of execute.
Cleanup ==
    /\ phase = "cleanup"
    /\ open' = open \ {run}
    /\ checker' = Nothing
    /\ phase' = "idle"
    /\ UNCHANGED <<op, jar, run, taskKind, hsdag, checks, messages, lists, failed>>

OperationNext ==
    \/ WithLimit
    \/ WithM
    \/ WithIncremental
    \/ JarMissing
    \/ CreateChecker
    \/ NoTestCases
    \/ CreateHSDAG
    \/ RedundancyNeedsTestCases
    \/ CheckIncremental
    \/ CheckFresh
    \/ CheckSAT4J
    \/ SAT4JFails
    \/ StoreResults
    \/ StoreRedundant
    \/ Cleanup

OperationSpec == OperationInit /\ [][OperationNext]_operationVars

----------------------------------------------------------------------------
LeakingKinds == {"testcase", "testcase_quickxplain"}

\* What an operation holds, and that it holds a solver only while it runs: a run that
\* ends, with results or with an error, leaves no checker and no solver behind, and
\* while a run asks for checks its solver is there.  The one exception is a run that
\* fails before its try, when an operation for test cases is given another task.
SolversReleased ==
    /\ op.limits \in [Limits -> {x \in LimitValues : x > 0} \cup {Nothing}]
    /\ open \subseteq 1 .. run /\ failed \subseteq 1 .. run
    /\ checker = IF UsesHSDAG /\ phase \in {"solve", "cleanup"} THEN run ELSE Nothing
    /\ open \ (IF op.kind \in LeakingKinds THEN failed ELSE {}) =
         IF phase # "idle" /\ Backend = "incremental" THEN {run} ELSE {}

\* The executions that succeeded, and those whose messages are kept.
Succeeded == {r \in 1 .. run : r \notin failed /\ (r = run => phase \in {"idle", "cleanup"})}
Latest(runs) == {r \in runs : \A s \in runs : s <= r}
Reported == IF op.kind \in {"conflict", "diagnosis"} THEN Succeeded ELSE Latest(Succeeded)
Parts == IF UsesHSDAG THEN {"conflicts", "diagnoses"} ELSE {"redundant", "non_redundant"}

\* Whose results the getters return, whatever executions succeeded and failed before.
\* get_result has two messages of an execution, each once and in the order of the
\* executions: of the latest that succeeded, except that the conflict and the diagnosis
\* operation extend their list and so have those of every one that succeeded.
\* get_redundant returns the lists of the latest that succeeded.  get_diagnoses and
\* get_conflicts read the HS-dag of the latest that made one, which may have failed: it
\* is never of an execution before the latest that succeeded.
ResultsAccountedFor ==
    /\ Range(messages) = [run : Reported, what : Parts]
    /\ IsInjective(messages)
    /\ \A i, j \in DOMAIN messages : i < j => messages[i].run <= messages[j].run
    /\ ~UsesHSDAG => IF lists = Nothing THEN Succeeded = {} ELSE lists \in Latest(Succeeded)
    /\ UsesHSDAG /\ Succeeded # {} =>
         hsdag.run \in 1 .. run /\ \A r \in Succeeded : r <= hsdag.run

\* Everything that is still reported, of however many executions, rests on checks whose
\* solver answered, and answered what was read; the one exception is a SAT4J process
\* that dies, which is read as "inconsistent".  No result rests on a check that ran out
\* of time or whose process did not start: such a check is the last of its execution.
ResultsRestOnAnswers ==
    \A i \in DOMAIN checks :
        LET check == checks[i]
            reported == check.run = lists \/ \E k \in DOMAIN messages : messages[k].run = check.run
        IN  /\ reported => check.end \in {"answers", "dies"}
            /\ reported => check.read = (check.truth /\ check.end = "answers")
            /\ check.end \in {"times_out", "no_start"} =>
                   \A j \in DOMAIN checks : i < j => checks[j].run > check.run
=============================================================================
