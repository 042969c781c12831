------------------------------ MODULE Profiler ------------------------------
(* The profilers of a program and the threads that record metrics in them.  *)
(* The lock of a profiler protects its profile, but whether it is profiling *)
(* is read, and the type of a metric registered, without the lock: a stop,  *)
(* a start or a reset, and another thread's registration, may come between. *)
(* A stored value is abstracted to its shape and to the records that went   *)
(* into it: a counter's sum or a gauge is a number, a timer's is a list.    *)
EXTENDS Integers, Sequences, FiniteSets

CONSTANTS
    Threads,
    Keys,
    Calls,          \* what threads call: key, type of the metric, tries (2 for count_calls)
    MaxProfilers,   \* bound: profilers made by use_global_profiler
    MaxSessions,    \* bound: starts of one profiler
    MaxCalls,       \* bound: calls of one thread
    None

ASSUME CallsAssumption ==
    Calls \subseteq [key : Keys, type : {"counter", "timer", "gauge"}, tries : {1, 2}]

\* What a profile may hold for a key.
Values == [shape : {"list", "number"}, of : Seq([by : Threads, session : Nat])]

ASSUME NoneAssumption ==
    /\ None \notin Threads /\ None \notin {"counter", "timer", "gauge"}
    /\ None \notin Values /\ None \notin [Keys -> Values \cup {None}]

ASSUME BoundAssumption == MaxProfilers \in Nat

VARIABLES
    prof,       \* every profiler that was made
    newest,     \* how many profilers were made
    global,     \* the global profiler; 0 is a NullProfiler
    lock,       \* who holds the lock of each profiler
    pc, call,   \* where each thread is in recording a metric, and which
    made,       \* how many calls each thread has made
    errors,     \* what calls have failed with
    writes,     \* records completed in each value since the profile was made or cleared
    raced       \* profilers where types were registered, or reset, while a call was under way

vars == <<prof, newest, global, lock, pc, call, made, errors, writes, raced>>

----------------------------------------------------------------------------
Profilers == 1 .. MaxProfilers

NoMetrics == [k \in Keys |-> None]

\* The shape of what each type of metric stores; a gauge is taken to be a number.
Shape(type) == IF type = "timer" THEN "list" ELSE "number"

\* since is history: the session in which the profile was made or last cleared.
NewProfiler == [profiling |-> FALSE, session |-> 0, timed |-> FALSE,
                profile |-> None, since |-> 0, meta |-> NoMetrics, broken |-> FALSE]

Init ==
    /\ prof = [i \in Profilers |-> NewProfiler]
    /\ newest = 0
    /\ global = 0
    /\ lock = [i \in Profilers |-> None]
    /\ pc = [t \in Threads |-> "idle"]
    /\ call = [t \in Threads |-> None]
    /\ made = [t \in Threads |-> 0]
    /\ errors = {}
    /\ writes = [i \in Profilers |-> [k \in Keys |-> 0]]
    /\ raced = {}

Goto(t, label) == pc' = [pc EXCEPT ![t] = label]

\* What the profiler knows of the call of a thread.
My(t) == prof[call[t].prof]
MyType(t) == My(t).meta[call[t].what.key]
MyValue(t) == My(t).profile[call[t].what.key]

\* The threads between the check and the end of a record in profiler i.
UnderWay(i) == {t \in Threads : pc[t] \in {"look", "register", "compare", "acquire", "write"}
                                /\ call[t].prof = i}

----------------------------------------------------------------------------
(* Lifecycle.  Each is atomic under the lock.                               *)

\* use_global_profiler: DISABLED stands for a NullProfiler, BENCHMARK for a new Profiler.
UseGlobalProfiler ==
    /\ \/ global' = 0 /\ newest' = newest
       \/ global' = newest + 1 /\ newest' = newest + 1 /\ newest < MaxProfilers
    /\ UNCHANGED <<prof, lock, pc, call, made, errors, writes, raced>>

\* set_global_profiler: the next calls go to a profiler made before.
SetGlobalProfiler ==
    /\ global' \in 1 .. newest
    /\ UNCHANGED <<prof, newest, lock, pc, call, made, errors, writes, raced>>

\* The faulty variants of a definition carry a Bug in their names; no specification
\* uses them, and each breaks a property that the definition keeps.

\* The profile of the session before is kept.
StartedBug(p) ==
    [p EXCEPT !.profiling = TRUE, !.session = @ + 1, !.timed = TRUE,
              !.profile = IF @ = None THEN NoMetrics ELSE @, !.since = p.session + 1]

\* A new profile; the types registered before stay.
Started(p) ==
    [p EXCEPT !.profiling = TRUE, !.session = @ + 1, !.timed = TRUE,
              !.profile = NoMetrics, !.since = p.session + 1]

\* The Manager is not there, and the profile is as it was.
StartedWithoutManager(p) ==
    [p EXCEPT !.profiling = TRUE, !.session = @ + 1, !.timed = TRUE, !.broken = TRUE]

\* Without a profile the total time was not written, and the start time is not cleared.
Stopped(p) == [p EXCEPT !.profiling = FALSE, !.timed = @ /\ p.profile = None]

Cleared(p) ==
    [p EXCEPT !.profile = IF @ = None THEN None ELSE NoMetrics,
              !.since = p.session, !.meta = NoMetrics, !.timed = FALSE]

\* start of a profiler that is not running; for another it raises ProfilerError.
Start(i) ==
    /\ lock[i] = None
    /\ i <= newest /\ ~prof[i].profiling /\ prof[i].session < MaxSessions
    /\ prof' = [prof EXCEPT ![i] = Started(@)]
    /\ writes' = [writes EXCEPT ![i] = [k \in Keys |-> 0]]
    /\ UNCHANGED <<newest, global, lock, pc, call, made, errors, raced>>

\* start in MULTI_PROCESS mode when the process of the Manager cannot be started: the
\* profiler is running already, with the profile it had, or none.
StartFails(i) ==
    /\ lock[i] = None
    /\ i <= newest /\ ~prof[i].profiling /\ prof[i].session < MaxSessions
    /\ prof' = [prof EXCEPT ![i] = StartedWithoutManager(@)]
    /\ UNCHANGED <<newest, global, lock, pc, call, made, errors, writes, raced>>

\* stop: the profile stays for export, as a regular dict, and the Manager ends.  With no
\* profile to write the total time to it raises TypeError, but the profiler has stopped.
Stop(i) ==
    /\ lock[i] = None
    /\ prof[i].profiling
    /\ prof' = [prof EXCEPT ![i] = Stopped(@)]
    /\ errors' = IF prof[i].timed /\ prof[i].profile = None
                 THEN errors \cup {[prof |-> i, why |-> "no profile"]} ELSE errors
    /\ UNCHANGED <<newest, global, lock, pc, call, made, writes, raced>>

\* reset: the profile and the types are cleared; the profiler goes on if it is running.
Reset(i) ==
    /\ lock[i] = None /\ i <= newest
    /\ prof' = [prof EXCEPT ![i] = Cleared(@)]
    /\ writes' = [writes EXCEPT ![i] = [k \in Keys |-> 0]]
    /\ raced' = IF UnderWay(i) = {} THEN raced ELSE raced \cup {i}
    /\ UNCHANGED <<newest, global, lock, pc, call, made, errors>>

----------------------------------------------------------------------------
(* Recording.                                                               *)

\* A decorated function or a timer takes its profiler, and its body runs.
Begin(t) ==
    /\ pc[t] = "idle"
    /\ global # 0 /\ made[t] < MaxCalls
    /\ \E what \in Calls :
           call' = [call EXCEPT ![t] = [prof |-> global, what |-> what, tries |-> what.tries,
                                        session |-> 0, old |-> None]]
    /\ made' = [made EXCEPT ![t] = @ + 1]
    /\ Goto(t, "check")
    /\ UNCHANGED <<prof, newest, global, lock, errors, writes, raced>>

\* Nothing is recorded while the profiler is not running.
Check(t) ==
    /\ pc[t] = "check"
    /\ IF My(t).profiling
       THEN call' = [call EXCEPT ![t].session = My(t).session] /\ Goto(t, "look")
       ELSE call' = [call EXCEPT ![t] = None] /\ Goto(t, "idle")
    /\ UNCHANGED <<prof, newest, global, lock, made, errors, writes, raced>>

\* _register_metric: is the key registered?
Look(t) ==
    /\ pc[t] = "look"
    /\ Goto(t, IF MyType(t) = None THEN "register" ELSE "compare")
    /\ UNCHANGED <<prof, newest, global, lock, call, made, errors, writes, raced>>

\* It was not, so it is now.
Register(t) ==
    /\ pc[t] = "register"
    /\ prof' = [prof EXCEPT ![call[t].prof].meta[call[t].what.key] = call[t].what.type]
    /\ raced' = IF MyType(t) \in {None, call[t].what.type} THEN raced
                ELSE raced \cup {call[t].prof}
    /\ Goto(t, "acquire")
    /\ UNCHANGED <<newest, global, lock, call, made, errors, writes>>

\* It was, with another type perhaps, or a reset has just removed it.
CompareBug(t) ==
    /\ pc[t] = "compare"
    /\ MyType(t) # None
    /\ Goto(t, "acquire")
    /\ UNCHANGED <<prof, newest, global, lock, call, made, errors, writes, raced>>

Compare(t) ==
    /\ pc[t] = "compare"
    /\ MyType(t) = call[t].what.type
    /\ Goto(t, "acquire")
    /\ UNCHANGED <<prof, newest, global, lock, call, made, errors, writes, raced>>

\* An error of the record; count_calls takes it for one of the function, and counts again.
Fail(t, why) ==
    /\ errors' = errors \cup {[prof |-> call[t].prof, why |-> why]}
    /\ IF call[t].tries > 1
       THEN call' = [call EXCEPT ![t].tries = @ - 1] /\ Goto(t, "check")
       ELSE call' = [call EXCEPT ![t] = None] /\ Goto(t, "idle")
    /\ UNCHANGED <<prof, newest, global, lock, made, writes, raced>>

\* ProfilerError for another type, KeyError if it is gone.
Refuse(t) ==
    /\ pc[t] = "compare"
    /\ MyType(t) # call[t].what.type
    /\ Fail(t, IF MyType(t) = None THEN "no key" ELSE "other type")

Fits(t) ==
    MyValue(t) # None /\ call[t].what.type # "gauge" =>
        MyValue(t).shape = Shape(call[t].what.type)

\* Two calls may read a value before either writes it.
AcquireBug(t) ==
    /\ pc[t] = "acquire"
    /\ My(t).profile # None /\ Fits(t)
    /\ call' = [call EXCEPT ![t].old = MyValue(t)]
    /\ Goto(t, "write")
    /\ UNCHANGED <<prof, newest, global, lock, made, errors, writes, raced>>

\* The lock is taken and the value read.
Acquire(t) ==
    /\ pc[t] = "acquire"
    /\ lock[call[t].prof] = None
    /\ My(t).profile # None
    /\ Fits(t)
    /\ lock' = [lock EXCEPT ![call[t].prof] = t]
    /\ call' = [call EXCEPT ![t].old = MyValue(t)]
    /\ Goto(t, "write")
    /\ UNCHANGED <<prof, newest, global, made, errors, writes, raced>>

\* There is no profile, or the value is of the other shape: TypeError, and the lock is free.
RecordFails(t) ==
    /\ pc[t] = "acquire"
    /\ lock[call[t].prof] = None
    /\ IF My(t).profile = None THEN Fail(t, "no profile") ELSE ~Fits(t) /\ Fail(t, "other shape")

\* The old value with this record, or this record alone for a gauge.
NewValue(t) ==
    LET record == [by |-> t, session |-> call[t].session]
    IN  [shape |-> Shape(call[t].what.type),
         of |-> IF call[t].old = None \/ call[t].what.type = "gauge" THEN <<record>>
                ELSE Append(call[t].old.of, record)]

\* The new value is stored, and the lock is free.
Write(t) ==
    LET i == call[t].prof  k == call[t].what.key
    IN  /\ pc[t] = "write"
        /\ prof' = [prof EXCEPT ![i].profile[k] = NewValue(t)]
        /\ writes' = [writes EXCEPT ![i][k] = IF call[t].what.type = "gauge" THEN 1 ELSE @ + 1]
        /\ lock' = [lock EXCEPT ![i] = None]
        /\ call' = [call EXCEPT ![t] = None]
        /\ Goto(t, "idle")
        /\ UNCHANGED <<newest, global, made, errors, raced>>

Step(t) ==
    \/ Begin(t)
    \/ Check(t)
    \/ Look(t)
    \/ Register(t)
    \/ Compare(t)
    \/ Refuse(t)
    \/ Acquire(t)
    \/ RecordFails(t)
    \/ Write(t)

Next ==
    \/ UseGlobalProfiler
    \/ SetGlobalProfiler
    \/ \E i \in Profilers : Start(i) \/ StartFails(i) \/ Stop(i) \/ Reset(i)
    \/ \E t \in Threads : Step(t)

Spec == Init /\ [][Next]_vars

----------------------------------------------------------------------------
\* No record is lost and none is counted twice: what a value holds is as many records
\* as were completed in it, whatever the threads do at the same time.  core.py says
\* that a profiler is thread-safe.
CountsAreExact ==
    \A i \in Profilers, k \in Keys :
        prof[i].profile # None =>
            writes[i][k] = IF prof[i].profile[k] = None THEN 0 ELSE Len(prof[i].profile[k].of)

\* The records in profiler i that thread t began before the session of the profile.
Stale(i, t) ==
    LET At(k) == IF prof[i].profile[k] = None THEN <<>> ELSE prof[i].profile[k].of
    IN  {x \in Keys \X (1 .. MaxCalls * Cardinality(Threads)) :
            /\ x[2] \in DOMAIN At(x[1])
            /\ At(x[1])[x[2]].by = t
            /\ At(x[1])[x[2]].session < prof[i].since}

\* A start makes a new profile and a reset clears it; is_profiling is read before the
\* lock is taken, so that a record may begin before that and be written after it.  Of
\* what a thread began in sessions before the one in which the profile was made or
\* cleared, the profile holds one record at most, from the call then under way.  A start
\* without its Manager makes no profile: the one of the session before goes on, and the
\* records of both sessions are in it.
StaleRecordsAreFew ==
    \A i \in Profilers, t \in Threads :
        prof[i].profile # None => Cardinality(Stale(i, t)) <= 1

\* Unless two threads register a key with different types at the same moment, or a reset
\* comes in the middle of a call, every stored value has the shape of its registered
\* type, so that get_stats and the summary can read it, and the only error a decorated
\* function can fail with is the ProfilerError for a key of another type, or, after a
\* start that failed, the lack of a profile.
TypesAgree ==
    \A i \in Profilers \ raced :
        /\ \A k \in Keys :
               prof[i].profile # None /\ prof[i].profile[k] # None =>
                   prof[i].meta[k] # None /\ prof[i].profile[k].shape = Shape(prof[i].meta[k])
        /\ \A e \in errors :
               e.prof = i => e.why = "other type" \/ (prof[i].broken /\ e.why = "no profile")
=============================================================================
