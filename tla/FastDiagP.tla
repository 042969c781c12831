------------------------------ MODULE FastDiagP ------------------------------
(***************************************************************************)
(* The FastDiagP algorithm (explanation/operations/algorithms/             *)
(* fastdiagp.py): FastDiag's search, whose consistency checks are answered *)
(* by a pool of worker processes.  Before _fd needs a check that nobody    *)
(* asked for yet, lookahead asks for it and for some it may need next.     *)
(*                                                                         *)
(* The search is that of FastDiag, with its variables; the names of what   *)
(* FastDiagP does in its own way end in P.  Where FastDiag checks, a call  *)
(* of _fd goes through lookahead and lookup_CC: mode says where it is.     *)
(*                                                                         *)
(* A check is known by its constraints (get_hashcode sorts them), so the   *)
(* lookup table maps sets of constraints to what their futures hold.  The  *)
(* pool is a queue; its workers have the first of it in hand and answer    *)
(* them in any order.  lookahead calls itself at most twice, each time as  *)
(* its last step but one or its last, so the calls still to run are a list *)
(* todo, and each is a step: workers answer in between.                    *)
(*                                                                         *)
(* An instance serves one call of find_diagnosis after another and keeps   *)
(* its lookup table.  As in FastDiag, only the elements of set_b and of    *)
(* returned lists matter, and of set_c and its parts the order, which is   *)
(* that of the task's list.                                                *)
(***************************************************************************)
EXTENDS FastDiag, FiniteSets

CONSTANTS
    Cpus,           \* the numbers of processors of the machine
    MaxCalls        \* bound: how often find_diagnosis is called

ASSUME CpusAssumption == Cpus \subseteq Nat \ {0}
ASSUME MaxCallsAssumption == MaxCalls \in Nat \ {0}

\* Of FastDiag's variables, task is what find_diagnosis is called with, and diag what
\* it answers.
VARIABLES
    cpus,           \* mp.cpu_count()
    calls,          \* the calls of find_diagnosis so far
    mode,           \* "search", or what a call of _fd is in: "lookahead", "wait" (in
                    \* lookup_CC), "failed" (the error that ends find_diagnosis)
    table,          \* lookup_table
    count,          \* currentNumGenCC
    todo,           \* the calls of lookahead still to run, in order
    queue           \* the checks given to the pool and not answered

machine == <<cpus, calls>>
pool == <<table, queue>>
lookahead == <<mode, count, todo>>
varsP == <<vars, machine, lookahead, pool>>

----------------------------------------------------------------------------
\* The faulty variants of a definition carry a Bug in their names; no specification
\* uses them, and each breaks a property that the definition keeps.

MaxNumGenCC == IF cpus - 1 < 4 THEN cpus - 1 ELSE 4
Workers == IF MaxNumGenCC > 1 THEN MaxNumGenCC ELSE 1

\* The count is not reset.
FirstCountBug == count

\* currentNumGenCC is reset to 1 for each lookahead.
FirstCount == 1

\* The background is left out of the check and its hash.
KeyBug(b, c) == Range(c)

\* get_hashcode(set_b + set_c)
Key(b, c) == b \cup Range(c)
Known == DOMAIN table
Wanted == Key(arg.b, arg.c)

\* What the checker copied for a future answers.
Verdict(S) == IF Consistent(task.kb, S) THEN "yes" ELSE "no"

Look == [c : Seq(Constraint), b : SUBSET Constraint, delta : Seq(Seq(Constraint))]

TypeOKP ==
    /\ TypeOK
    /\ cpus \in Cpus
    /\ calls \in 1 .. MaxCalls
    /\ mode \in {"search", "lookahead", "wait", "failed"}
    /\ Known \subseteq SUBSET Constraint
    /\ \A k \in Known : table[k] \in {"pending", "yes", "no"}
    /\ count \in 0 .. 4
    /\ todo \in Seq(Look)
    /\ queue \in Seq(SUBSET Constraint)

InitP ==
    /\ Init
    /\ cpus \in Cpus
    /\ calls = 1
    /\ mode = "search"
    /\ table = <<>>
    /\ count = 0
    /\ todo = <<>>
    /\ queue = <<>>

----------------------------------------------------------------------------
\* find_diagnosis

NoDiagnosis ==
    /\ pc = "label"
    /\ NothingToDiagnose(task)
    /\ pc' = "done"
    /\ UNCHANGED <<task, arg, ret, stack, diag, machine, lookahead, pool>>

\* The pool is made, and _fd([], C, B) called.
StartFdP ==
    /\ pc = "label"
    /\ ~NothingToDiagnose(task)
    /\ pc' = "call"
    /\ arg' = [delta |-> {}, c |-> task.c, b |-> task.b]
    /\ UNCHANGED <<task, ret, stack, diag, machine, lookahead, pool>>

\* The outermost _fd returned; leaving the with statement terminates the pool,
\* and checks that were not answered never will be.
FindDiagnosisP ==
    /\ FindDiagnosis
    /\ queue' = <<>>
    /\ UNCHANGED <<machine, lookahead, table>>

\* find_diagnosis returned or raised.
Over == pc = "done" \/ mode = "failed"

\* find_diagnosis is called again, with other constraints of the knowledge base.
NextCall ==
    /\ Over
    /\ calls < MaxCalls
    /\ calls' = calls + 1
    /\ task' \in {t \in Tasks : t.kb = task.kb}
    /\ pc' = "label"
    /\ mode' = "search"
    /\ stack' = <<>>
    /\ diag' = {}
    /\ UNCHANGED <<cpus, arg, ret, pool, count, todo>>

----------------------------------------------------------------------------
\* _fd

Entered == pc = "call" /\ mode = "search"

\* is_consistent_with_lookahead finds the check in the table...
LookUp ==
    /\ Entered
    /\ arg.delta # {}
    /\ Wanted \in Known
    /\ mode' = "wait"
    /\ UNCHANGED <<vars, machine, count, todo, pool>>

\* The list of the elements of S, a part of C.
InOrder(S) ==
    LET before(x) == {y \in S : \E i, j \in 1 .. Len(task.c) :
                                    i < j /\ task.c[i] = y /\ task.c[j] = x}
    IN  [n \in 1 .. Cardinality(S) |-> CHOOSE x \in S : Cardinality(before(x)) = n - 1]

\* ... or looks ahead.
StartLookahead ==
    /\ Entered
    /\ arg.delta # {}
    /\ Wanted \notin Known
    /\ mode' = "lookahead"
    /\ count' = FirstCount
    /\ todo' = <<[c |-> arg.c, b |-> arg.b, delta |-> <<InOrder(arg.delta)>>]>>
    /\ UNCHANGED <<vars, machine, pool>>

\* lookup_CC waits for the answer, and _fd returns C if it is positive.
KeepAllP ==
    /\ mode = "wait"
    /\ table[Wanted] = "yes"
    /\ ret' = Range(arg.c)
    /\ pc' = "return"
    /\ mode' = "search"
    /\ UNCHANGED <<task, arg, stack, diag, machine, count, todo, pool>>

\* _fd goes on: the check was negative, or skipped because delta is empty.
Denied ==
    \/ mode = "wait" /\ table[Wanted] = "no"
    \/ Entered /\ arg.delta = {}

DropOneP ==
    /\ Denied
    /\ Len(arg.c) = 1
    /\ ret' = {}
    /\ pc' = "return"
    /\ mode' = "search"
    /\ UNCHANGED <<task, arg, stack, diag, machine, count, todo, pool>>

SearchFirstHalfP ==
    /\ Denied
    /\ Len(arg.c) # 1
    /\ stack' = Append(stack, [c1 |-> FirstHalf(arg.c), c2 |-> SecondHalf(arg.c),
                               b |-> arg.b, at |-> "first", delta1 |-> {}])
    /\ arg' = [delta |-> Range(SecondHalf(arg.c)), c |-> FirstHalf(arg.c), b |-> arg.b]
    /\ mode' = "search"
    /\ UNCHANGED <<task, pc, ret, diag, machine, count, todo, pool>>

\* The rest of _fd needs no check and is FastDiag's.
SearchSecondHalfP == SearchSecondHalf /\ UNCHANGED <<machine, lookahead, pool>>
JoinHalvesP == JoinHalves /\ UNCHANGED <<machine, lookahead, pool>>

----------------------------------------------------------------------------
\* lookahead

\* The call that comes next when nothing is left of set_c: the first list of
\* delta is considered, a part of it if it can be split.
FromDelta(b, delta) ==
    LET first == Head(delta) IN
    IF delta = <<>> \/ first = <<>> THEN <<>>
    ELSE IF Len(first) = 1 THEN <<[c |-> first, b |-> b, delta |-> Tail(delta)]>>
    ELSE <<[c |-> FirstHalf(first), b |-> b,
            delta |-> <<SecondHalf(first)>> \o Tail(delta)]>>

\* B U C assumed consistent (cases 2.1, 2.2 and 2.3): it joins the background.
\* A last element of which the check is known is skipped, with the list after it.
IfConsistent(look, known) ==
    LET key == Key(look.b, look.c)
        delta == look.delta
    IN
    IF Len(delta) > 1 /\ Len(delta[1]) = 1
    THEN IF Key(key, delta[1]) \in known
         THEN <<[c |-> FirstHalf(delta[2]), b |-> key,
                 delta |-> <<SecondHalf(delta[2])>> \o Tail(Tail(delta))]>>
         ELSE <<>>
    ELSE FromDelta(key, delta)

\* B U C assumed inconsistent (cases 1.1, 1.2 and 1.3).
IfInconsistent(look) ==
    IF Len(look.c) > 1
    THEN <<[c |-> FirstHalf(look.c), b |-> look.b,
            delta |-> <<SecondHalf(look.c)>> \o look.delta]>>
    ELSE IF Len(look.c) = 1 THEN FromDelta(look.b, look.delta) ELSE <<>>

\* The limit of generated checks is reached.
StopLookingAhead ==
    /\ mode = "lookahead"
    /\ todo # <<>>
    /\ count >= MaxNumGenCC
    /\ todo' = Tail(todo)
    /\ UNCHANGED <<vars, machine, mode, count, pool>>

\* A check is given to the pool again although its future is in the table.
LookAheadBug ==
    LET look == Head(todo)
        key == Key(look.b, look.c)
    IN
    /\ mode = "lookahead"
    /\ todo # <<>>
    /\ count < MaxNumGenCC
    /\ count' = count + 1
    /\ table' = [k \in Known \cup {key} |-> IF k \in Known THEN table[k] ELSE "pending"]
    /\ queue' = Append(queue, key)
    /\ todo' = IfConsistent(look, Known \cup {key}) \o IfInconsistent(look) \o Tail(todo)
    /\ UNCHANGED <<vars, machine, mode>>

LookAhead ==
    LET look == Head(todo)
        key == Key(look.b, look.c)
    IN
    /\ mode = "lookahead"
    /\ todo # <<>>
    /\ count < MaxNumGenCC
    /\ IF key \in Known THEN UNCHANGED <<count, table, queue>>
       ELSE /\ count' = count + 1
            /\ table' = [k \in Known \cup {key} |->
                            IF k \in Known THEN table[k] ELSE "pending"]
            /\ queue' = Append(queue, key)
    /\ todo' = IfConsistent(look, Known \cup {key}) \o IfInconsistent(look) \o Tail(todo)
    /\ UNCHANGED <<vars, machine, mode>>

\* lookup_CC gets the future.  There is none if the limit leaves no room for it:
\* None has no attribute ready, and the error terminates the pool.
EndLookahead ==
    /\ mode = "lookahead"
    /\ todo = <<>>
    /\ IF Wanted \in Known
       THEN mode' = "wait" /\ UNCHANGED queue
       ELSE mode' = "failed" /\ queue' = <<>>
    /\ UNCHANGED <<vars, machine, count, todo, table>>

\* The answer of a worker is lost.
AnswerBugLost(i) ==
    /\ i \in 1 .. Len(queue)
    /\ i <= Workers
    /\ queue' = RemoveAt(queue, i)
    /\ UNCHANGED <<vars, machine, lookahead, table>>

\* A worker answers a check it has in hand.
Answer(i) ==
    /\ i \in 1 .. Len(queue)
    /\ i <= Workers
    /\ table' = [table EXCEPT ![queue[i]] = Verdict(queue[i])]
    /\ queue' = RemoveAt(queue, i)
    /\ UNCHANGED <<vars, machine, lookahead>>

----------------------------------------------------------------------------
\* The steps of the process that called find_diagnosis.
Step ==
    \/ NoDiagnosis
    \/ StartFdP
    \/ LookUp
    \/ StartLookahead
    \/ StopLookingAhead
    \/ LookAhead
    \/ EndLookahead
    \/ KeepAllP
    \/ DropOneP
    \/ SearchFirstHalfP
    \/ SearchSecondHalfP
    \/ JoinHalvesP
    \/ FindDiagnosisP

NextP ==
    \/ Step
    \/ NextCall
    \/ \E i \in 1 .. 4 : Answer(i)

SpecP == InitP /\ [][NextP]_varsP

\* The caller runs on, and so do the workers of a pool until it is terminated;
\* nobody has to call find_diagnosis again.
FairSpecP ==
    /\ SpecP
    /\ WF_varsP(Step)
    /\ WF_varsP(\E i \in 1 .. 4 : Answer(i))

----------------------------------------------------------------------------
\* On a consistent background, speculation and answers out of order change nothing
\* in what the search does: each step is one of FastDiag's or none, on an instance
\* that served other calls before, too.  (FastDiag's labeler checks the background,
\* find_diagnosis does not.)
RunsFastDiag ==
    /\ Init
    /\ [][Consistent(task.kb, task.b) => Next \/ NextCall]_vars

\* The future that lookup_CC reads is there: lookahead asks for the check that is
\* needed before any other, whatever the limit, as long as the limit is not 1.
FailsOnlyBelowThreeCpus == mode = "failed" => cpus < 3

\* A check is given to the pool once, and one that somebody waits for in the first
\* call is still with the pool.
ChecksAreServed ==
    /\ TypeOKP
    /\ IsInjective(queue)
    /\ Range(queue) \subseteq {k \in Known : table[k] = "pending"}
    /\ mode = "wait" /\ calls = 1 /\ table[Wanted] = "pending" => Wanted \in Range(queue)

\* The first call of find_diagnosis returns (or fails).
FirstCallReturns == <>Over

\* Every call of find_diagnosis returns (or fails).
EachCallReturns == pc = "label" ~> Over
=============================================================================
