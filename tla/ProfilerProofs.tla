--------------------------- MODULE ProfilerProofs ---------------------------
(* No record is lost, types agree with values and few records are stale,     *)
(* for any number of threads, keys, profilers, sessions and calls.           *)
EXTENDS Profiler, FiniteSetTheorems, TLAPS

Types == {"counter", "timer", "gauge"}

Profiles == [Keys -> Values \cup {None}]

ProfilerStates ==
    [profiling : BOOLEAN, session : Nat, timed : BOOLEAN, profile : Profiles \cup {None},
     since : Nat, meta : [Keys -> Types \cup {None}], broken : BOOLEAN]

CallStates ==
    [prof : Profilers, what : Calls, tries : Nat, session : Nat, old : Values \cup {None}]

Recording == {"check", "look", "register", "compare", "acquire", "write"}

\* The part of the state that the argument is about has its type.
Typed ==
    /\ prof \in [Profilers -> ProfilerStates]
    /\ newest \in 0 .. MaxProfilers
    /\ global \in 0 .. newest
    /\ lock \in [Profilers -> Threads \cup {None}]
    /\ pc \in [Threads -> Recording \cup {"idle"}]
    /\ call \in [Threads -> CallStates \cup {None}]
    /\ \A t \in Threads : pc[t] # "idle" => call[t] \in CallStates
    /\ writes \in [Profilers -> [Keys -> Nat]]

\* A thread that is about to write holds the lock of its profiler, whose profile is
\* there and still holds the value that the thread read.
WriterHolds(t) ==
    pc[t] = "write" =>
        /\ lock[call[t].prof] = t
        /\ My(t).profile # None
        /\ call[t].old = MyValue(t)

\* The induction goes through because nothing changes a profile without its lock.
Inv ==
    /\ Typed
    /\ \A t \in Threads : WriterHolds(t)
    /\ CountsAreExact

----------------------------------------------------------------------------
LEMMA InitInv == Init => Inv
<1> SUFFICES ASSUME Init PROVE Inv
    OBVIOUS
<1>1. NewProfiler \in ProfilerStates
  BY DEF NewProfiler, ProfilerStates, NoMetrics
<1>2. Typed
  BY <1>1, BoundAssumption DEF Init, Typed, Profilers, Recording
<1>3. CountsAreExact
  BY DEF Init, CountsAreExact, NewProfiler
<1> QED
  BY <1>2, <1>3 DEF Init, Inv, WriterHolds

----------------------------------------------------------------------------
(* The lifecycle: who changes a profile waits for its lock.                 *)

LEMMA LifecycleKeeps ==
  ASSUME Inv, NEW i \in Profilers, NEW q \in ProfilerStates, lock[i] = None,
         prof' = [prof EXCEPT ![i] = q],
         UNCHANGED <<newest, global, lock, pc, call>>,
         \/ /\ q.profile \in {None, NoMetrics}
            /\ writes' = [writes EXCEPT ![i] = [k \in Keys |-> 0]]
         \/ q.profile = prof[i].profile /\ writes' = writes
  PROVE  Inv'
<1> USE DEF Inv
<1> HIDE DEF NoMetrics, ProfilerStates, Profiles
<1>1. Typed'
  <2>1. writes' \in [Profilers -> [Keys -> Nat]]
    BY DEF Typed
  <2> QED
    BY <2>1 DEF Typed
<1>2. ASSUME NEW t \in Threads PROVE WriterHolds(t)'
  <2> SUFFICES ASSUME pc[t] = "write" PROVE WriterHolds(t)'
    BY DEF WriterHolds
  <2>1. lock[call[t].prof] = t /\ call[t].prof \in Profilers
    BY DEF WriterHolds, Typed, CallStates
  <2>2. call[t].prof # i
    BY <2>1, NoneAssumption
  <2> QED
    BY <2>1, <2>2 DEF WriterHolds, My, MyValue, Typed
<1>3. CountsAreExact'
  <2> SUFFICES ASSUME NEW j \in Profilers, NEW k \in Keys, prof'[j].profile # None
               PROVE  writes'[j][k] = IF prof'[j].profile[k] = None THEN 0
                                      ELSE Len(prof'[j].profile[k].of)
    BY DEF CountsAreExact
  <2>1. CASE j # i
    <3>1. prof'[j] = prof[j] /\ writes'[j] = writes[j]
      BY <2>1 DEF Typed
    <3> QED
      BY <3>1 DEF CountsAreExact
  <2>2. CASE j = i
    <3>1. prof'[i] = q
      BY DEF Typed
    <3>2. CASE q.profile = prof[i].profile /\ writes' = writes
      BY <2>2, <3>1, <3>2 DEF CountsAreExact
    <3>3. CASE q.profile \in {None, NoMetrics} /\ writes' = [writes EXCEPT ![i] = [m \in Keys |-> 0]]
      <4>1. writes'[i][k] = 0
        BY <3>3 DEF Typed
      <4>2. q.profile[k] = None
        BY <2>2, <3>1, <3>3 DEF NoMetrics
      <4> QED
        BY <2>2, <3>1, <4>1, <4>2
    <3> QED
      BY <3>2, <3>3
  <2> QED
    BY <2>1, <2>2
<1> QED
  BY <1>1, <1>2, <1>3

\* What a start, a stop and a reset make of a profiler, and of its profile.
LEMMA LifecycleStates ==
  ASSUME NEW p \in ProfilerStates
  PROVE  /\ Started(p) \in ProfilerStates /\ Started(p).profile = NoMetrics
         /\ Started(p).meta = p.meta /\ Started(p).broken = p.broken
         /\ Started(p).since = Started(p).session
         /\ /\ StartedWithoutManager(p) \in ProfilerStates
            /\ StartedWithoutManager(p).profile = p.profile
            /\ StartedWithoutManager(p).meta = p.meta /\ StartedWithoutManager(p).broken
            /\ StartedWithoutManager(p).since = p.since
            /\ StartedWithoutManager(p).session = p.session + 1
         /\ Stopped(p) \in ProfilerStates /\ Stopped(p).profile = p.profile
         /\ Stopped(p).meta = p.meta /\ Stopped(p).broken = p.broken /\ ~Stopped(p).profiling
         /\ Stopped(p).since = p.since /\ Stopped(p).session = p.session
         /\ Cleared(p) \in ProfilerStates /\ Cleared(p).profile \in {None, NoMetrics}
         /\ Cleared(p).profiling = p.profiling /\ Cleared(p).broken = p.broken
         /\ Cleared(p).profile = None => p.profile = None
         /\ Cleared(p).since = Cleared(p).session
<1>1. /\ NoMetrics \in Profiles /\ NoMetrics \in [Keys -> Types \cup {None}]
      /\ NoMetrics # None
  BY NoneAssumption DEF NoMetrics, Profiles
<1>2. PICK n \in Nat : n = p.session + 1
  <2>1. p.session \in Nat
    BY DEF ProfilerStates
  <2> QED
    BY <2>1
<1> HIDE DEF NoMetrics, Profiles
<1>3. /\ Started(p) \in ProfilerStates /\ Started(p).profile = NoMetrics
      /\ Started(p).meta = p.meta /\ Started(p).broken = p.broken
      /\ Started(p).since = Started(p).session
  <2> DEFINE At(m) == [p EXCEPT !.profiling = TRUE, !.session = m, !.timed = TRUE,
                                !.profile = NoMetrics, !.since = m]
  <2>1. Started(p) = At(n)
    BY <1>2, Zenon DEF Started
  <2>2. /\ At(n) \in ProfilerStates /\ At(n).profile = NoMetrics
        /\ At(n).meta = p.meta /\ At(n).broken = p.broken /\ At(n).since = At(n).session
    BY <1>1 DEF ProfilerStates
  <2> QED
    BY <2>1, <2>2, Zenon
<1>4. /\ StartedWithoutManager(p) \in ProfilerStates
      /\ StartedWithoutManager(p).profile = p.profile
      /\ StartedWithoutManager(p).meta = p.meta /\ StartedWithoutManager(p).broken
      /\ StartedWithoutManager(p).since = p.since
      /\ StartedWithoutManager(p).session = p.session + 1
  <2> DEFINE At(m) == [p EXCEPT !.profiling = TRUE, !.session = m, !.timed = TRUE,
                                !.broken = TRUE]
  <2>1. StartedWithoutManager(p) = At(n)
    BY <1>2, Zenon DEF StartedWithoutManager
  <2>2. At(n) \in ProfilerStates /\ At(n).profile = p.profile
        /\ At(n).meta = p.meta /\ At(n).broken /\ At(n).since = p.since /\ At(n).session = n
    BY DEF ProfilerStates
  <2> QED
    BY <1>2, <2>1, <2>2, Zenon
<1>5. /\ Stopped(p) \in ProfilerStates /\ Stopped(p).profile = p.profile
      /\ Stopped(p).meta = p.meta /\ Stopped(p).broken = p.broken /\ ~Stopped(p).profiling
      /\ Stopped(p).since = p.since /\ Stopped(p).session = p.session
  BY DEF Stopped, ProfilerStates
<1>6. /\ Cleared(p) \in ProfilerStates /\ Cleared(p).profile \in {None, NoMetrics}
      /\ Cleared(p).profiling = p.profiling /\ Cleared(p).broken = p.broken
      /\ Cleared(p).profile = None => p.profile = None
      /\ Cleared(p).since = Cleared(p).session
  BY <1>1 DEF Cleared, ProfilerStates
<1> QED
  BY <1>3, <1>4, <1>5, <1>6

LEMMA StartKeeps ==
  ASSUME Inv, NEW i \in Profilers, Start(i)
  PROVE  Inv'
<1>1. prof[i] \in ProfilerStates
  BY DEF Inv, Typed
<1> HIDE DEF Inv, Started, NoMetrics
<1>2. Started(prof[i]) \in ProfilerStates
  BY <1>1, LifecycleStates, Zenon
<1>3. Started(prof[i]).profile \in {None, NoMetrics}
  BY <1>1, LifecycleStates, Zenon
<1>4. /\ lock[i] = None
      /\ prof' = [prof EXCEPT ![i] = Started(prof[i])]
      /\ writes' = [writes EXCEPT ![i] = [k \in Keys |-> 0]]
      /\ UNCHANGED <<newest, global, lock, pc, call>>
  BY DEF Start
<1> QED
  BY <1>2, <1>3, <1>4, LifecycleKeeps

LEMMA StartFailsKeeps ==
  ASSUME Inv, NEW i \in Profilers, StartFails(i)
  PROVE  Inv'
<1>1. prof[i] \in ProfilerStates
  BY DEF Inv, Typed
<1> HIDE DEF Inv, StartedWithoutManager, NoMetrics
<1>2. StartedWithoutManager(prof[i]) \in ProfilerStates
  BY <1>1, LifecycleStates, Zenon
<1>3. StartedWithoutManager(prof[i]).profile = prof[i].profile
  BY <1>1, LifecycleStates, Zenon
<1>4. /\ lock[i] = None
      /\ prof' = [prof EXCEPT ![i] = StartedWithoutManager(prof[i])]
      /\ writes' = writes
      /\ UNCHANGED <<newest, global, lock, pc, call>>
  BY DEF StartFails
<1> QED
  BY <1>2, <1>3, <1>4, LifecycleKeeps

LEMMA StopKeeps ==
  ASSUME Inv, NEW i \in Profilers, Stop(i)
  PROVE  Inv'
<1>1. prof[i] \in ProfilerStates
  BY DEF Inv, Typed
<1> HIDE DEF Inv, Stopped, NoMetrics
<1>2. Stopped(prof[i]) \in ProfilerStates
  BY <1>1, LifecycleStates, Zenon
<1>3. Stopped(prof[i]).profile = prof[i].profile
  BY <1>1, LifecycleStates, Zenon
<1>4. /\ lock[i] = None
      /\ prof' = [prof EXCEPT ![i] = Stopped(prof[i])]
      /\ writes' = writes
      /\ UNCHANGED <<newest, global, lock, pc, call>>
  BY DEF Stop
<1> QED
  BY <1>2, <1>3, <1>4, LifecycleKeeps

LEMMA ResetKeeps ==
  ASSUME Inv, NEW i \in Profilers, Reset(i)
  PROVE  Inv'
<1>1. prof[i] \in ProfilerStates
  BY DEF Inv, Typed
<1> HIDE DEF Inv, Cleared, NoMetrics
<1>2. Cleared(prof[i]) \in ProfilerStates
  BY <1>1, LifecycleStates, Zenon
<1>3. Cleared(prof[i]).profile \in {None, NoMetrics}
  BY <1>1, LifecycleStates, Zenon
<1>4. /\ lock[i] = None
      /\ prof' = [prof EXCEPT ![i] = Cleared(prof[i])]
      /\ writes' = [writes EXCEPT ![i] = [k \in Keys |-> 0]]
      /\ UNCHANGED <<newest, global, lock, pc, call>>
  BY DEF Reset
<1> QED
  BY <1>2, <1>3, <1>4, LifecycleKeeps

----------------------------------------------------------------------------
(* Recording: only the thread that holds the lock changes the profile.      *)

\* The steps of a thread before it holds the lock leave the profiles as they are.
LEMMA StepKeeps ==
  ASSUME Inv, NEW t \in Threads, NEW c \in CallStates \cup {None}, NEW label,
         pc[t] # "write", label \in Recording \cup {"idle"}, label # "write",
         label # "idle" => c \in CallStates,
         call' = [call EXCEPT ![t] = c], pc' = [pc EXCEPT ![t] = label],
         UNCHANGED <<prof, newest, global, lock, writes>>
  PROVE  Inv'
<1> USE DEF Inv
<1> HIDE DEF ProfilerStates, CallStates
<1>1. Typed'
  BY DEF Typed
<1>2. ASSUME NEW u \in Threads PROVE WriterHolds(u)'
  <2>1. CASE u = t
    BY <2>1 DEF WriterHolds, Typed
  <2>2. CASE u # t
    BY <2>2 DEF WriterHolds, Typed, My, MyValue
  <2> QED
    BY <2>1, <2>2
<1>3. CountsAreExact'
  BY DEF CountsAreExact
<1> QED
  BY <1>1, <1>2, <1>3

LEMMA FailKeeps ==
  ASSUME Inv, NEW t \in Threads, NEW why, pc[t] \notin {"idle", "write"}, Fail(t, why)
  PROVE  Inv'
<1>1. call[t] \in CallStates
  BY DEF Inv, Typed
<1>2. /\ UNCHANGED <<prof, newest, global, lock, writes>>
      /\ \/ /\ call[t].tries > 1
            /\ call' = [call EXCEPT ![t].tries = @ - 1] /\ pc' = [pc EXCEPT ![t] = "check"]
         \/ call' = [call EXCEPT ![t] = None] /\ pc' = [pc EXCEPT ![t] = "idle"]
  BY DEF Fail, Goto
<1>3. CASE call[t].tries > 1 /\ call' = [call EXCEPT ![t].tries = @ - 1]
           /\ pc' = [pc EXCEPT ![t] = "check"]
  <2>1. PICK n \in Nat : n = call[t].tries - 1
    BY <1>1, <1>3 DEF CallStates
  <2>2. [call[t] EXCEPT !.tries = n] \in CallStates
    BY <1>1 DEF CallStates
  <2>3. call' = [call EXCEPT ![t] = [call[t] EXCEPT !.tries = n]]
    BY <1>3, <2>1
  <2> HIDE DEF Inv, CallStates
  <2> QED
    BY <1>2, <1>3, <2>2, <2>3, StepKeeps DEF Recording
<1>4. CASE call' = [call EXCEPT ![t] = None] /\ pc' = [pc EXCEPT ![t] = "idle"]
  <2> HIDE DEF Inv, CallStates
  <2> QED
    BY <1>2, <1>4, StepKeeps
<1> QED
  BY <1>2, <1>3, <1>4

LEMMA BeginKeeps ==
  ASSUME Inv, NEW t \in Threads, Begin(t)
  PROVE  Inv'
<1>1. PICK what \in Calls :
        call' = [call EXCEPT ![t] = [prof |-> global, what |-> what, tries |-> what.tries,
                                     session |-> 0, old |-> None]]
  BY DEF Begin
<1> DEFINE c == [prof |-> global, what |-> what, tries |-> what.tries, session |-> 0, old |-> None]
<1>2. c \in CallStates
  <2>1. global \in Profilers
    BY BoundAssumption DEF Begin, Inv, Typed, Profilers
  <2>2. what.tries \in Nat
    BY CallsAssumption
  <2> QED
    BY <2>1, <2>2 DEF CallStates
<1>3. /\ pc[t] = "idle" /\ pc' = [pc EXCEPT ![t] = "check"]
      /\ UNCHANGED <<prof, newest, global, lock, writes>>
  BY DEF Begin, Goto
<1> HIDE DEF c, Inv, CallStates
<1> QED
  BY <1>1, <1>2, <1>3, StepKeeps DEF c, Recording

LEMMA CheckKeeps ==
  ASSUME Inv, NEW t \in Threads, Check(t)
  PROVE  Inv'
<1>1. pc[t] = "check" /\ call[t] \in CallStates
  BY DEF Inv, Typed, Check
<1>2. My(t).session \in Nat
  BY <1>1 DEF Inv, Typed, My, CallStates, ProfilerStates
<1>3. /\ UNCHANGED <<prof, newest, global, lock, writes>>
      /\ \/ call' = [call EXCEPT ![t].session = My(t).session] /\ pc' = [pc EXCEPT ![t] = "look"]
         \/ call' = [call EXCEPT ![t] = None] /\ pc' = [pc EXCEPT ![t] = "idle"]
  BY DEF Check, Goto
<1>4. [call[t] EXCEPT !.session = My(t).session] \in CallStates
  BY <1>1, <1>2 DEF CallStates
<1>5. CASE call' = [call EXCEPT ![t].session = My(t).session] /\ pc' = [pc EXCEPT ![t] = "look"]
  <2>1. call' = [call EXCEPT ![t] = [call[t] EXCEPT !.session = My(t).session]]
    BY <1>5
  <2> HIDE DEF Inv, CallStates, My
  <2> QED
    BY <1>1, <1>3, <1>4, <1>5, <2>1, StepKeeps DEF Recording
<1>6. CASE call' = [call EXCEPT ![t] = None] /\ pc' = [pc EXCEPT ![t] = "idle"]
  <2> HIDE DEF Inv, CallStates
  <2> QED
    BY <1>1, <1>3, <1>6, StepKeeps
<1> QED
  BY <1>3, <1>5, <1>6

LEMMA LookKeeps ==
  ASSUME Inv, NEW t \in Threads, Look(t) \/ Compare(t)
  PROVE  Inv'
<1>1. /\ pc[t] \in {"look", "compare"}
      /\ UNCHANGED <<prof, newest, global, lock, call, writes>>
      /\ \E label \in {"register", "compare", "acquire"} : pc' = [pc EXCEPT ![t] = label]
  BY DEF Look, Compare, Goto
<1>2. call[t] \in CallStates /\ call' = [call EXCEPT ![t] = call[t]]
  BY <1>1 DEF Inv, Typed
<1> HIDE DEF Inv, CallStates
<1> QED
  BY <1>1, <1>2, StepKeeps DEF Recording

LEMMA RefuseKeeps ==
  ASSUME Inv, NEW t \in Threads, Refuse(t) \/ RecordFails(t)
  PROVE  Inv'
<1>1. pc[t] \notin {"idle", "write"} /\ \E why : Fail(t, why)
  BY Zenon DEF Refuse, RecordFails
<1> HIDE DEF Inv
<1> QED
  BY <1>1, FailKeeps

LEMMA GlobalKeeps ==
  ASSUME Inv, UseGlobalProfiler \/ SetGlobalProfiler
  PROVE  Inv'
<1>1. UNCHANGED <<prof, lock, pc, call, writes>>
  BY DEF UseGlobalProfiler, SetGlobalProfiler
<1>2. newest' \in 0 .. MaxProfilers /\ global' \in 0 .. newest'
  BY BoundAssumption DEF Inv, Typed, UseGlobalProfiler, SetGlobalProfiler
<1>3. Typed'
  BY <1>1, <1>2 DEF Inv, Typed
<1>4. CountsAreExact' /\ \A t \in Threads : WriterHolds(t)'
  BY <1>1 DEF Inv, CountsAreExact, WriterHolds, My, MyValue
<1> QED
  BY <1>3, <1>4 DEF Inv

LEMMA RegisterKeeps ==
  ASSUME Inv, NEW t \in Threads, Register(t)
  PROVE  Inv'
<1> USE DEF Inv
<1> DEFINE i == call[t].prof
           q == [prof[i] EXCEPT !.meta[call[t].what.key] = call[t].what.type]
<1>1. pc[t] = "register" /\ call[t] \in CallStates
  BY DEF Typed, Register
<1>2. i \in Profilers /\ prof[i] \in ProfilerStates
      /\ call[t].what.key \in Keys /\ call[t].what.type \in Types
  BY <1>1, CallsAssumption DEF Typed, CallStates, Types
<1>3. q \in ProfilerStates /\ q.profile = prof[i].profile
  BY <1>2 DEF ProfilerStates
<1>4. /\ prof' = [prof EXCEPT ![i] = q]
      /\ pc' = [pc EXCEPT ![t] = "acquire"]
      /\ UNCHANGED <<newest, global, lock, call, writes>>
  BY DEF Register, Goto
<1> HIDE DEF i, q, ProfilerStates, CallStates
<1>5. Typed'
  BY <1>1, <1>2, <1>3, <1>4 DEF Typed, Recording
<1>6. \A j \in Profilers : prof'[j].profile = prof[j].profile
  BY <1>2, <1>3, <1>4 DEF Typed
<1>7. ASSUME NEW u \in Threads PROVE WriterHolds(u)'
  <2> SUFFICES ASSUME pc'[u] = "write" PROVE WriterHolds(u)'
    BY DEF WriterHolds
  <2>1. pc[u] = "write"
    BY <1>4 DEF Typed
  <2>2. call[u].prof \in Profilers
    BY <2>1 DEF Typed, CallStates
  <2> QED
    BY <1>4, <1>6, <2>1, <2>2 DEF WriterHolds, My, MyValue
<1>8. CountsAreExact'
  BY <1>4, <1>6 DEF CountsAreExact
<1> QED
  BY <1>5, <1>7, <1>8

LEMMA AcquireKeeps ==
  ASSUME Inv, NEW t \in Threads, Acquire(t)
  PROVE  Inv'
<1> USE DEF Inv
<1> DEFINE i == call[t].prof
           c == [call[t] EXCEPT !.old = MyValue(t)]
<1>1. pc[t] = "acquire" /\ call[t] \in CallStates
  BY DEF Typed, Acquire
<1>2. i \in Profilers /\ prof[i] \in ProfilerStates /\ call[t].what.key \in Keys
  BY <1>1, CallsAssumption DEF Typed, CallStates
<1>3. /\ lock[i] = None
      /\ prof[i].profile # None
      /\ lock' = [lock EXCEPT ![i] = t]
      /\ call' = [call EXCEPT ![t] = c]
      /\ pc' = [pc EXCEPT ![t] = "write"]
      /\ UNCHANGED <<prof, newest, global, writes>>
  BY DEF Acquire, Goto, My
<1>4. MyValue(t) = prof[i].profile[call[t].what.key]
  BY DEF MyValue, My
<1>5. MyValue(t) \in Values \cup {None}
  BY <1>2, <1>3, <1>4 DEF ProfilerStates, Profiles
<1>6. /\ c \in CallStates
      /\ c.prof = i /\ c.what = call[t].what /\ c.old = MyValue(t)
  BY <1>1, <1>5 DEF CallStates
<1> HIDE DEF c, ProfilerStates, CallStates
<1>7. Typed'
  BY <1>1, <1>2, <1>3, <1>6 DEF Typed, Recording
<1>8. ASSUME NEW u \in Threads PROVE WriterHolds(u)'
  <2>1. CASE u = t
    <3>1. call'[t] = c /\ lock'[i] = t
      BY <1>2, <1>3 DEF Typed
    <3> QED
      BY <1>3, <1>4, <1>6, <2>1, <3>1 DEF WriterHolds, My, MyValue
  <2>2. CASE u # t
    <3> SUFFICES ASSUME pc'[u] = "write" PROVE WriterHolds(u)'
      BY DEF WriterHolds
    <3>1. pc[u] = "write" /\ call'[u] = call[u]
      BY <1>3, <2>2 DEF Typed
    <3>2. call[u].prof # i
      BY <1>3, <3>1, NoneAssumption DEF WriterHolds
    <3>3. call[u].prof \in Profilers
      BY <3>1 DEF Typed, CallStates
    <3> HIDE DEF i
    <3> QED
      BY <1>3, <3>1, <3>2, <3>3 DEF WriterHolds, My, MyValue, Typed
  <2> QED
    BY <2>1, <2>2
<1>9. CountsAreExact'
  BY <1>3 DEF CountsAreExact
<1> QED
  BY <1>7, <1>8, <1>9

\* One record more, or the first.
LEMMA NewValues ==
  ASSUME NEW t \in Threads, call[t] \in CallStates
  PROVE  /\ NewValue(t) \in Values
         /\ Len(NewValue(t).of) =
              IF call[t].old = None \/ call[t].what.type = "gauge" THEN 1
              ELSE Len(call[t].old.of) + 1
<1> DEFINE R == [by : Threads, session : Nat]
           record == [by |-> t, session |-> call[t].session]
<1>1. record \in R
  BY DEF CallStates
<1>2. Shape(call[t].what.type) \in {"list", "number"}
  BY DEF Shape
<1>3. CASE call[t].old = None \/ call[t].what.type = "gauge"
  <2>1. NewValue(t) = [shape |-> Shape(call[t].what.type), of |-> <<record>>]
    BY <1>3 DEF NewValue
  <2>2. <<record>> \in Seq(R) /\ Len(<<record>>) = 1
    BY <1>1
  <2> HIDE DEF record, R, NewValue, Shape
  <2> QED
    BY <1>2, <1>3, <2>1, <2>2 DEF Values, R
<1>4. CASE ~(call[t].old = None \/ call[t].what.type = "gauge")
  <2>1. NewValue(t) = [shape |-> Shape(call[t].what.type), of |-> Append(call[t].old.of, record)]
    BY <1>4 DEF NewValue
  <2>2. call[t].old.of \in Seq(R)
    BY <1>4 DEF CallStates, Values
  <2> HIDE DEF record, R, NewValue, Shape
  <2>3. Append(call[t].old.of, record) \in Seq(R)
        /\ Len(Append(call[t].old.of, record)) = Len(call[t].old.of) + 1
    BY <1>1, <2>2
  <2> QED
    BY <1>2, <1>4, <2>1, <2>3 DEF Values, R
<1> QED
  BY <1>3, <1>4

LEMMA WriteKeeps ==
  ASSUME Inv, NEW t \in Threads, Write(t)
  PROVE  Inv'
<1> USE DEF Inv
<1> DEFINE i == call[t].prof
           k == call[t].what.key
           v == NewValue(t)
           w == IF call[t].what.type = "gauge" THEN 1 ELSE writes[i][k] + 1
           profile == [prof[i].profile EXCEPT ![k] = v]
           q == [prof[i] EXCEPT !.profile = profile]
<1>1. pc[t] = "write" /\ call[t] \in CallStates
  BY DEF Typed, Write
<1>2. i \in Profilers /\ k \in Keys /\ prof[i] \in ProfilerStates
  BY <1>1, CallsAssumption DEF Typed, CallStates
<1>3. lock[i] = t /\ prof[i].profile # None /\ call[t].old = prof[i].profile[k]
  BY <1>1 DEF WriterHolds, My, MyValue
<1>4. v \in Values /\ v # None
      /\ Len(v.of) = IF call[t].old = None \/ call[t].what.type = "gauge" THEN 1
                     ELSE Len(call[t].old.of) + 1
  <2> HIDE DEF v
  <2>1. v \in Values
        /\ Len(v.of) = IF call[t].old = None \/ call[t].what.type = "gauge" THEN 1
                       ELSE Len(call[t].old.of) + 1
    BY <1>1, NewValues, Zenon DEF v
  <2> QED
    BY <2>1, NoneAssumption
<1>5. /\ prof' = [prof EXCEPT ![i] = q]
      /\ writes' = [writes EXCEPT ![i][k] = w]
      /\ lock' = [lock EXCEPT ![i] = None]
      /\ call' = [call EXCEPT ![t] = None]
      /\ pc' = [pc EXCEPT ![t] = "idle"]
      /\ UNCHANGED <<newest, global>>
  <2> HIDE DEF v
  <2> QED
    BY DEF Write, Goto, v
<1>6. writes[i][k] = IF prof[i].profile[k] = None THEN 0 ELSE Len(prof[i].profile[k].of)
  BY <1>2, <1>3 DEF CountsAreExact
<1>7. w = Len(v.of)
  <2> HIDE DEF v
  <2>2. CASE call[t].what.type = "gauge"
    BY <1>4, <2>2
  <2>3. CASE call[t].what.type # "gauge" /\ prof[i].profile[k] = None
    BY <1>3, <1>4, <1>6, <2>3
  <2>4. CASE call[t].what.type # "gauge" /\ prof[i].profile[k] # None
    BY <1>3, <1>4, <1>6, <2>4
  <2> QED
    BY <2>2, <2>3, <2>4
<1>8. prof[i].profile \in Profiles
  BY <1>2, <1>3 DEF ProfilerStates
<1> HIDE DEF v
<1>9. profile \in Profiles /\ profile[k] = v /\ \A l \in Keys : l # k => profile[l] = prof[i].profile[l]
  BY <1>2, <1>4, <1>8 DEF Profiles
<1> HIDE DEF profile, w
<1>10. q \in ProfilerStates /\ q.profile = profile
  BY <1>2, <1>9 DEF ProfilerStates
<1>11. w \in Nat
  <2>1. writes[i][k] \in Nat
    BY <1>2 DEF Typed
  <2> QED
    BY <2>1 DEF w
<1> HIDE DEF q, ProfilerStates, CallStates
<1>12. Typed'
  BY <1>1, <1>2, <1>5, <1>10, <1>11 DEF Typed
<1>13. ASSUME NEW u \in Threads PROVE WriterHolds(u)'
  <2> SUFFICES ASSUME pc'[u] = "write" PROVE WriterHolds(u)'
    BY DEF WriterHolds
  <2>1. u # t /\ pc[u] = "write" /\ call'[u] = call[u]
    BY <1>5 DEF Typed
  <2>2. call[u].prof # i
    BY <1>3, <2>1 DEF WriterHolds
  <2>3. call[u].prof \in Profilers
    BY <2>1 DEF Typed, CallStates
  <2> HIDE DEF i
  <2> QED
    BY <1>5, <2>1, <2>2, <2>3 DEF WriterHolds, My, MyValue, Typed
<1>14. CountsAreExact'
  <2> SUFFICES ASSUME NEW j \in Profilers, NEW l \in Keys, prof'[j].profile # None
               PROVE  writes'[j][l] = IF prof'[j].profile[l] = None THEN 0
                                      ELSE Len(prof'[j].profile[l].of)
    BY DEF CountsAreExact
  <2> HIDE DEF i, k
  <2>1. CASE j # i
    <3>1. prof'[j] = prof[j] /\ writes'[j] = writes[j]
      BY <1>5, <2>1 DEF Typed
    <3> QED
      BY <3>1 DEF CountsAreExact
  <2>2. CASE j = i
    <3>1. prof'[i].profile = profile
      BY <1>2, <1>5, <1>10 DEF Typed
    <3>2. CASE l = k
      <4>1. writes'[i][k] = w
        BY <1>2, <1>5 DEF Typed
      <4> QED
        BY <1>4, <1>7, <1>9, <2>2, <3>1, <3>2, <4>1
    <3>3. CASE l # k
      <4>1. writes'[i][l] = writes[i][l]
        BY <1>2, <1>5, <3>3 DEF Typed
      <4>2. writes[i][l] = IF prof[i].profile[l] = None THEN 0 ELSE Len(prof[i].profile[l].of)
        BY <1>2, <1>3 DEF CountsAreExact
      <4> QED
        BY <1>9, <2>2, <3>1, <3>3, <4>1, <4>2
    <3> QED
      BY <3>2, <3>3
  <2> QED
    BY <2>1, <2>2
<1> QED
  BY <1>12, <1>13, <1>14

----------------------------------------------------------------------------
\* Every step keeps the invariant.
LEMMA StepInv == Inv /\ [Next]_vars => Inv'
<1> SUFFICES ASSUME Inv, [Next]_vars PROVE Inv'
  OBVIOUS
<1>1. CASE UseGlobalProfiler \/ SetGlobalProfiler
  BY <1>1, GlobalKeeps, Zenon
<1>2. ASSUME NEW i \in Profilers, Start(i) \/ StartFails(i) \/ Stop(i) \/ Reset(i)
      PROVE  Inv'
  BY <1>2, StartKeeps, StartFailsKeeps, StopKeeps, ResetKeeps, Zenon
<1>3. ASSUME NEW t \in Threads, Step(t) PROVE Inv'
  BY <1>3, BeginKeeps, CheckKeeps, LookKeeps, RegisterKeeps, RefuseKeeps, AcquireKeeps,
     WriteKeeps, Zenon DEF Step
<1>4. CASE UNCHANGED vars
  <2>1. UNCHANGED <<prof, newest, global, lock, pc, call, writes>>
    BY <1>4 DEF vars
  <2>2. Typed'
    BY <2>1, Zenon DEF Inv, Typed
  <2>3. CountsAreExact' /\ \A t \in Threads : WriterHolds(t)'
    BY <2>1, Zenon DEF Inv, CountsAreExact, WriterHolds, My, MyValue
  <2> QED
    BY <2>2, <2>3 DEF Inv
<1> QED
  BY <1>1, <1>2, <1>3, <1>4, Zenon DEF Next

\* However many threads record in however many profilers, and whenever a profiler is
\* started, stopped or reset, a stored value holds exactly as many records as were
\* completed in it: the lock of Profiler.increment_counter, record_time and set_gauge
\* (core.py) is enough, although is_profiling and the types are read without it.
THEOREM CountsExact == Spec => []CountsAreExact
<1>1. Init => Inv
  BY InitInv
<1>2. Inv /\ [Next]_vars => Inv'
  BY StepInv
<1>3. Inv => CountsAreExact
  BY DEF Inv
<1> QED
  BY <1>1, <1>2, <1>3, PTL DEF Spec

----------------------------------------------------------------------------
(* The types that are registered.                                           *)

InRecord == {"look", "register", "compare", "acquire", "write"}

\* A profiler that is running, or in which a record is under way, has a profile, or
\* it was started without a Manager.
HasProfile ==
    /\ \A i \in Profilers : prof[i].profiling /\ prof[i].profile = None => prof[i].broken
    /\ \A t \in Threads : pc[t] \in InRecord /\ My(t).profile = None => My(t).broken

\* A thread that found its key registered still finds it so, and one that went on
\* finds it registered with its own type.
Known(t) ==
    /\ pc[t] = "compare" => MyType(t) # None
    /\ pc[t] \in {"acquire", "write"} => MyType(t) = call[t].what.type

TypesInv ==
    /\ HasProfile
    /\ \A t \in Threads : pc[t] # "idle" /\ call[t].prof \notin raced => Known(t)
    /\ TypesAgree

\* What an error may be: that of a key of another type, or of a start that failed.
Excused(e) ==
    e.why = "other type" \/ (prof[e.prof].broken /\ e.why = "no profile")

\* A step that changes profiler i under its lock.
LEMMA LifecycleTypes ==
  ASSUME Inv, TypesInv, NEW i \in Profilers, NEW q \in ProfilerStates,
         prof' = [prof EXCEPT ![i] = q],
         UNCHANGED <<pc, call>>, raced \subseteq raced',
         prof[i].broken => q.broken,
         q.profiling /\ q.profile = None => q.broken,
         q.profile = None => prof[i].profile = None,
         \/ q.meta = prof[i].meta /\ q.profile \in {prof[i].profile, NoMetrics}
         \/ UnderWay(i) = {} /\ q.profile \in {None, NoMetrics}
         \/ i \in raced',
         \A e \in errors' : e \in errors \/ (e.prof = i /\ e.why = "no profile" /\ q.broken)
  PROVE  TypesInv'
<1> HIDE DEF ProfilerStates, NoMetrics
<1>1. prof'[i] = q /\ \A j \in Profilers : j # i => prof'[j] = prof[j]
  BY DEF Inv, Typed
<1>2. \A t \in Threads : pc[t] # "idle" => call[t].prof \in Profilers /\ call[t].what.key \in Keys
  BY CallsAssumption DEF Inv, Typed, CallStates
<1>3. HasProfile'
  <2>1. \A j \in Profilers : prof'[j].profiling /\ prof'[j].profile = None => prof'[j].broken
    BY <1>1 DEF TypesInv, HasProfile
  <2>2. ASSUME NEW t \in Threads, pc[t] \in InRecord, prof'[call[t].prof].profile = None
        PROVE  prof'[call[t].prof].broken
    <3>1. pc[t] # "idle"
      BY <2>2 DEF InRecord
    <3>2. call[t].prof = i \/ prof'[call[t].prof] = prof[call[t].prof]
      BY <3>1, <1>1, <1>2
    <3> QED
      BY <2>2, <3>2, <1>1 DEF TypesInv, HasProfile, My
  <2> QED
    BY <2>1, <2>2 DEF HasProfile, My
<1>4. ASSUME NEW t \in Threads, pc[t] # "idle", call[t].prof \notin raced'
      PROVE  Known(t)'
  <2>1. Known(t)
    BY <1>4 DEF TypesInv
  <2>2. CASE call[t].prof # i
    BY <1>1, <1>2, <1>4, <2>1, <2>2 DEF Known, MyType, My
  <2>3. CASE call[t].prof = i
    <3>1. UnderWay(i) = {} => pc[t] \notin {"compare", "acquire", "write"}
      BY <2>3 DEF UnderWay
    <3> QED
      BY <1>1, <1>4, <2>1, <2>3, <3>1 DEF Known, MyType, My
  <2> QED
    BY <2>2, <2>3
<1>5. ASSUME NEW j \in Profilers \ raced'
      PROVE  /\ \A k \in Keys :
                    prof'[j].profile # None /\ prof'[j].profile[k] # None =>
                        /\ prof'[j].meta[k] # None
                        /\ prof'[j].profile[k].shape = Shape(prof'[j].meta[k])
             /\ \A e \in errors' :
                    e.prof = j =>
                        e.why = "other type" \/ (prof'[j].broken /\ e.why = "no profile")
  <2>1. \A k \in Keys : NoMetrics[k] = None
    BY DEF NoMetrics
  <2>2. /\ \A k \in Keys :
               prof[j].profile # None /\ prof[j].profile[k] # None =>
                   prof[j].meta[k] # None /\ prof[j].profile[k].shape = Shape(prof[j].meta[k])
        /\ \A e \in errors :
               e.prof = j => e.why = "other type" \/ (prof[j].broken /\ e.why = "no profile")
    BY DEF TypesInv, TypesAgree
  <2>3. CASE j # i
    BY <1>1, <2>2, <2>3
  <2>4. CASE j = i
    <3>1. prof'[j] = q /\ i \notin raced'
      BY <1>1, <2>4
    <3>2. ASSUME NEW k \in Keys, q.profile # None, q.profile[k] # None
          PROVE  q.meta[k] # None /\ q.profile[k].shape = Shape(q.meta[k])
      <4>1. q.profile # NoMetrics
        BY <2>1, <3>2
      <4>2. q.meta = prof[i].meta /\ q.profile = prof[i].profile
        BY <3>1, <3>2, <4>1
      <4> QED
        BY <2>2, <2>4, <3>2, <4>2
    <3>3. ASSUME NEW e \in errors', e.prof = i
          PROVE  e.why = "other type" \/ (q.broken /\ e.why = "no profile")
      <4>1. CASE e \in errors
        BY <2>2, <2>4, <3>3, <4>1
      <4>2. CASE e.prof = i /\ e.why = "no profile" /\ q.broken
        BY <4>2
      <4> QED
        BY <4>1, <4>2
    <3> QED
      BY <3>1, <3>2, <3>3, <2>4
  <2> QED
    BY <2>3, <2>4
<1>6. TypesAgree'
  BY <1>5 DEF TypesAgree
<1> QED
  BY <1>3, <1>4, <1>6 DEF TypesInv

\* A step of thread t that leaves the profilers alone.
LEMMA StepTypes ==
  ASSUME Inv, TypesInv, NEW t \in Threads, NEW c \in CallStates \cup {None}, NEW label,
         call' = [call EXCEPT ![t] = c], pc' = [pc EXCEPT ![t] = label],
         UNCHANGED <<prof, raced>>,
         label \in InRecord /\ prof[c.prof].profile = None => prof[c.prof].broken,
         label = "compare" /\ c.prof \notin raced => prof[c.prof].meta[c.what.key] # None,
         label \in {"acquire", "write"} /\ c.prof \notin raced =>
             prof[c.prof].meta[c.what.key] = c.what.type,
         \A e \in errors' : e \in errors \/ e.prof \in raced \/ Excused(e)
  PROVE  TypesInv'
<1> HIDE DEF CallStates
<1>1. /\ call'[t] = c /\ pc'[t] = label
      /\ \A u \in Threads : u # t => call'[u] = call[u] /\ pc'[u] = pc[u]
  BY DEF Inv, Typed
<1>2. HasProfile'
  BY <1>1 DEF TypesInv, HasProfile, My
<1>3. ASSUME NEW u \in Threads, pc'[u] # "idle", call'[u].prof \notin raced'
      PROVE  Known(u)'
  <2>1. CASE u = t
    BY <1>1, <1>3, <2>1 DEF Known, MyType, My
  <2>2. CASE u # t
    BY <1>1, <1>3, <2>2 DEF TypesInv, Known, MyType, My
  <2> QED
    BY <2>1, <2>2
<1>4. TypesAgree'
  BY DEF TypesInv, TypesAgree, Excused
<1> QED
  BY <1>2, <1>3, <1>4 DEF TypesInv

\* Starting, stopping and resetting a profiler.
LEMMA LifecycleStepTypes ==
  ASSUME Inv, TypesInv, NEW i \in Profilers, Start(i) \/ StartFails(i) \/ Stop(i) \/ Reset(i)
  PROVE  TypesInv'
<1>1. prof[i] \in ProfilerStates
  BY DEF Inv, Typed
<1>3. CASE Start(i)
  <2>1. /\ Started(prof[i]).meta = prof[i].meta /\ Started(prof[i]).broken = prof[i].broken
        /\ Started(prof[i]) \in ProfilerStates /\ Started(prof[i]).profile = NoMetrics
    BY <1>1, LifecycleStates, Zenon
  <2>2. NoMetrics # None
    BY NoneAssumption DEF NoMetrics
  <2>3. /\ prof' = [prof EXCEPT ![i] = Started(prof[i])]
        /\ UNCHANGED <<pc, call, errors, raced>>
    BY <1>3 DEF Start
  <2> HIDE DEF Inv, TypesInv, ProfilerStates, NoMetrics
  <2> QED
    BY <2>1, <2>2, <2>3, LifecycleTypes
<1>4. CASE StartFails(i)
  <2>1. /\ StartedWithoutManager(prof[i]) \in ProfilerStates
        /\ StartedWithoutManager(prof[i]).profile = prof[i].profile
        /\ StartedWithoutManager(prof[i]).meta = prof[i].meta
        /\ StartedWithoutManager(prof[i]).broken
    BY <1>1, LifecycleStates, Zenon
  <2>2. /\ prof' = [prof EXCEPT ![i] = StartedWithoutManager(prof[i])]
        /\ UNCHANGED <<pc, call, errors, raced>>
    BY <1>4 DEF StartFails
  <2> HIDE DEF Inv, TypesInv, ProfilerStates, NoMetrics
  <2> QED
    BY <2>1, <2>2, LifecycleTypes
<1>5. CASE Stop(i)
  <2> DEFINE q == Stopped(prof[i])
  <2>1. /\ q \in ProfilerStates /\ q.profile = prof[i].profile
        /\ q.meta = prof[i].meta /\ q.broken = prof[i].broken /\ ~q.profiling
    BY <1>1, LifecycleStates, Zenon
  <2>2. /\ prof' = [prof EXCEPT ![i] = q]
        /\ UNCHANGED <<pc, call, raced>> /\ prof[i].profiling
        /\ errors' = IF prof[i].timed /\ prof[i].profile = None
                     THEN errors \cup {[prof |-> i, why |-> "no profile"]} ELSE errors
    BY <1>5 DEF Stop
  <2> HIDE DEF q
  <2>3. prof[i].profile = None => q.broken
    BY <2>1, <2>2 DEF TypesInv, HasProfile
  <2>4. \A e \in errors' : e \in errors \/ (e.prof = i /\ e.why = "no profile" /\ q.broken)
    <3> DEFINE new == [prof |-> i, why |-> "no profile"]
    <3>1. new.prof = i /\ new.why = "no profile"
      OBVIOUS
    <3>2. prof[i].profile # None \/ ~prof[i].timed => errors' = errors
      BY <2>2
    <3>3. prof[i].profile = None => errors' \subseteq errors \cup {new}
      BY <2>2
    <3> HIDE DEF new
    <3> QED
      BY <2>3, <3>1, <3>2, <3>3
  <2> HIDE DEF Inv, TypesInv, ProfilerStates, NoMetrics
  <2> QED
    BY <2>1, <2>2, <2>4, LifecycleTypes
<1>6. CASE Reset(i)
  <2> DEFINE q == Cleared(prof[i])
  <2>1. /\ q \in ProfilerStates /\ q.profile \in {None, NoMetrics}
        /\ (q.profile = None => prof[i].profile = None)
        /\ q.broken = prof[i].broken /\ q.profiling = prof[i].profiling
    BY <1>1, LifecycleStates, Zenon
  <2>2. /\ prof' = [prof EXCEPT ![i] = q]
        /\ UNCHANGED <<pc, call, errors>>
        /\ raced' = IF UnderWay(i) = {} THEN raced ELSE raced \cup {i}
    BY <1>6 DEF Reset
  <2> HIDE DEF q
  <2>3. raced \subseteq raced' /\ (UnderWay(i) = {} \/ i \in raced')
    BY <2>2
  <2>4. q.profiling /\ q.profile = None => q.broken
    BY <2>1 DEF TypesInv, HasProfile
  <2> HIDE DEF Inv, TypesInv, ProfilerStates, NoMetrics
  <2> QED
    BY <2>1, <2>2, <2>3, <2>4, LifecycleTypes
<1> QED
  BY <1>3, <1>4, <1>5, <1>6

\* A call begins, and goes on if its profiler is running: then it has a profile.
LEMMA BeginTypes ==
  ASSUME Inv, TypesInv, NEW t \in Threads, Begin(t) \/ Check(t)
  PROVE  TypesInv'
<1>1. CASE Begin(t)
  <2>1. PICK what \in Calls :
          call' = [call EXCEPT ![t] = [prof |-> global, what |-> what, tries |-> what.tries,
                                       session |-> 0, old |-> None]]
    BY <1>1 DEF Begin
  <2> DEFINE c == [prof |-> global, what |-> what, tries |-> what.tries, session |-> 0, old |-> None]
  <2>2. c \in CallStates
    <3>1. global \in Profilers
      BY <1>1, BoundAssumption DEF Begin, Inv, Typed, Profilers
    <3>2. what.tries \in Nat
      BY CallsAssumption
    <3> QED
      BY <3>1, <3>2 DEF CallStates
  <2>3. pc' = [pc EXCEPT ![t] = "check"] /\ UNCHANGED <<prof, errors, raced>>
    BY <1>1 DEF Begin, Goto
  <2> HIDE DEF c, Inv, TypesInv, CallStates
  <2> QED
    BY <2>1, <2>2, <2>3, StepTypes DEF c, InRecord
<1>2. CASE Check(t)
  <2>1. pc[t] = "check" /\ call[t] \in CallStates
    BY <1>2 DEF Inv, Typed, Check
  <2>2. My(t).session \in Nat
    BY <2>1 DEF Inv, Typed, My, CallStates, ProfilerStates
  <2>3. /\ UNCHANGED <<prof, errors, raced>>
        /\ \/ /\ My(t).profiling /\ call' = [call EXCEPT ![t].session = My(t).session]
              /\ pc' = [pc EXCEPT ![t] = "look"]
           \/ call' = [call EXCEPT ![t] = None] /\ pc' = [pc EXCEPT ![t] = "idle"]
    BY <1>2 DEF Check, Goto
  <2> DEFINE c == [call[t] EXCEPT !.session = My(t).session]
  <2>4. c \in CallStates /\ c.prof = call[t].prof
    BY <2>1, <2>2 DEF CallStates
  <2>5. CASE My(t).profiling /\ call' = [call EXCEPT ![t].session = My(t).session]
             /\ pc' = [pc EXCEPT ![t] = "look"]
    <3>1. call' = [call EXCEPT ![t] = c]
      BY <2>5
    <3>2. prof[c.prof].profile = None => prof[c.prof].broken
      BY <2>1, <2>4, <2>5 DEF TypesInv, HasProfile, My, CallStates
    <3> HIDE DEF c, Inv, TypesInv, CallStates
    <3> QED
      BY <2>3, <2>4, <2>5, <3>1, <3>2, StepTypes
  <2>6. CASE call' = [call EXCEPT ![t] = None] /\ pc' = [pc EXCEPT ![t] = "idle"]
    <3> HIDE DEF Inv, TypesInv, CallStates
    <3> QED
      BY <2>3, <2>6, StepTypes DEF InRecord
  <2> QED
    BY <2>3, <2>5, <2>6
<1> QED
  BY <1>1, <1>2

\* A call looks its key up, and goes on if it has its own type.
LEMMA LookTypes ==
  ASSUME Inv, TypesInv, NEW t \in Threads, Look(t) \/ Compare(t)
  PROVE  TypesInv'
<1>1. PICK label \in InRecord :
          /\ pc' = [pc EXCEPT ![t] = label]
          /\ label = "compare" => MyType(t) # None
          /\ label \in {"acquire", "write"} => MyType(t) = call[t].what.type
  BY DEF Look, Compare, Goto, InRecord
<1>2. pc[t] \in {"look", "compare"} /\ UNCHANGED <<prof, call, errors, raced>>
  BY DEF Look, Compare
<1>3. call[t] \in CallStates /\ call' = [call EXCEPT ![t] = call[t]]
  BY <1>2 DEF Inv, Typed
<1>4. prof[call[t].prof].profile = None => prof[call[t].prof].broken
  BY <1>2 DEF TypesInv, HasProfile, InRecord, My
<1> HIDE DEF Inv, TypesInv, CallStates
<1> QED
  BY <1>1, <1>2, <1>3, <1>4, StepTypes DEF MyType, My

\* A record fails for a type that another call has registered, or a profile that a
\* failed start left out; the rest is excluded where no race was.
LEMMA FailTypes ==
  ASSUME Inv, TypesInv, NEW t \in Threads, Refuse(t) \/ RecordFails(t)
  PROVE  TypesInv'
<1>1. PICK why :
          /\ Fail(t, why)
          /\ \/ pc[t] = "compare" /\ (MyType(t) # None => why = "other type")
             \/ pc[t] = "acquire" /\ My(t).profile = None /\ why = "no profile"
             \/ pc[t] = "acquire" /\ My(t).profile # None /\ ~Fits(t)
  BY DEF Refuse, RecordFails
<1>2. /\ call[t] \in CallStates /\ call[t].prof \in Profilers /\ call[t].what.key \in Keys
      /\ call[t].what.type \in Types
  BY <1>1, CallsAssumption DEF Inv, Typed, CallStates, Types
<1>3. call[t].prof \in raced \/ why = "other type" \/ (My(t).broken /\ why = "no profile")
  <2> SUFFICES ASSUME call[t].prof \notin raced
               PROVE  why = "other type" \/ (My(t).broken /\ why = "no profile")
    OBVIOUS
  <2>1. Known(t)
    BY <1>1 DEF TypesInv
  <2>2. CASE pc[t] = "compare"
    BY <1>1, <2>1, <2>2 DEF Known
  <2>3. CASE pc[t] = "acquire" /\ My(t).profile = None /\ why = "no profile"
    BY <2>3 DEF TypesInv, HasProfile, InRecord
  <2>4. CASE pc[t] = "acquire" /\ My(t).profile # None
    <3>1. MyType(t) = call[t].what.type
      BY <2>1, <2>4 DEF Known
    <3>2. MyValue(t) # None => MyValue(t).shape = Shape(MyType(t))
      BY <1>2, <2>4 DEF TypesInv, TypesAgree, MyValue, MyType, My
    <3>3. Fits(t)
      BY <3>1, <3>2 DEF Fits
    <3> QED
      BY <1>1, <2>4, <3>3
  <2> QED
    BY <1>1, <2>2, <2>3, <2>4
<1> DEFINE new == [prof |-> call[t].prof, why |-> why]
<1>4. /\ errors' = errors \cup {new} /\ UNCHANGED <<prof, raced>>
      /\ \/ /\ call[t].tries > 1
            /\ call' = [call EXCEPT ![t].tries = @ - 1] /\ pc' = [pc EXCEPT ![t] = "check"]
         \/ call' = [call EXCEPT ![t] = None] /\ pc' = [pc EXCEPT ![t] = "idle"]
  BY <1>1 DEF Fail, Goto
<1>5. new.prof \in raced \/ Excused(new)
  BY <1>3 DEF Excused, My
<1>6. \A e \in errors' : e \in errors \/ e.prof \in raced \/ Excused(e)
  <2> HIDE DEF new
  <2> QED
    BY <1>4, <1>5
<1>7. CASE call[t].tries > 1 /\ call' = [call EXCEPT ![t].tries = @ - 1]
           /\ pc' = [pc EXCEPT ![t] = "check"]
  <2>1. PICK n \in Nat : n = call[t].tries - 1
    BY <1>2, <1>7 DEF CallStates
  <2>2. [call[t] EXCEPT !.tries = n] \in CallStates
    BY <1>2 DEF CallStates
  <2>3. call' = [call EXCEPT ![t] = [call[t] EXCEPT !.tries = n]]
    BY <1>7, <2>1
  <2> HIDE DEF Inv, TypesInv, CallStates, new
  <2> QED
    BY <1>4, <1>6, <1>7, <2>2, <2>3, StepTypes DEF InRecord
<1>8. CASE call' = [call EXCEPT ![t] = None] /\ pc' = [pc EXCEPT ![t] = "idle"]
  <2> HIDE DEF Inv, TypesInv, CallStates, new
  <2> QED
    BY <1>4, <1>6, <1>8, StepTypes DEF InRecord
<1> QED
  BY <1>4, <1>7, <1>8

\* The lock is taken.
LEMMA AcquireTypes ==
  ASSUME Inv, TypesInv, NEW t \in Threads, Acquire(t)
  PROVE  TypesInv'
<1> DEFINE c == [call[t] EXCEPT !.old = MyValue(t)]
<1>1. /\ pc[t] = "acquire" /\ call[t] \in CallStates /\ My(t).profile # None
      /\ call' = [call EXCEPT ![t] = c] /\ pc' = [pc EXCEPT ![t] = "write"]
      /\ UNCHANGED <<prof, errors, raced>>
  BY DEF Inv, Typed, Acquire, Goto
<1>2. MyValue(t) \in Values \cup {None}
  BY <1>1, CallsAssumption DEF Inv, Typed, CallStates, MyValue, My, ProfilerStates, Profiles
<1>3. c \in CallStates /\ c.prof = call[t].prof /\ c.what = call[t].what
  BY <1>1, <1>2 DEF CallStates
<1>4. call[t].prof \notin raced => MyType(t) = call[t].what.type
  BY <1>1 DEF TypesInv, Known
<1> HIDE DEF c, Inv, TypesInv, CallStates
<1> QED
  BY <1>1, <1>3, <1>4, StepTypes DEF MyType, My

\* A type is registered: where that is no race, the key had none or this one.
LEMMA RegisterTypes ==
  ASSUME Inv, TypesInv, NEW t \in Threads, Register(t)
  PROVE  TypesInv'
<1> DEFINE i == call[t].prof
           k == call[t].what.key
           type == call[t].what.type
           q == [prof[i] EXCEPT !.meta[k] = type]
<1>1. pc[t] = "register" /\ call[t] \in CallStates
  BY DEF Inv, Typed, Register
<1>2. i \in Profilers /\ prof[i] \in ProfilerStates /\ k \in Keys /\ type \in Types
  BY <1>1, CallsAssumption DEF Inv, Typed, CallStates, Types
<1>3. type # None
  BY <1>2, NoneAssumption DEF Types
<1>4. /\ q.profile = prof[i].profile /\ q.broken = prof[i].broken /\ q.profiling = prof[i].profiling
      /\ q.meta[k] = type /\ \A l \in Keys : l # k => q.meta[l] = prof[i].meta[l]
  BY <1>2 DEF ProfilerStates
<1>5. /\ prof' = [prof EXCEPT ![i] = q] /\ pc' = [pc EXCEPT ![t] = "acquire"]
      /\ UNCHANGED <<call, errors>>
      /\ raced \subseteq raced' /\ (i \in raced' \/ prof[i].meta[k] \in {None, type})
  BY DEF Register, Goto, MyType, My
<1> HIDE DEF i, k, type, q, ProfilerStates, CallStates
<1>6. /\ prof'[i] = q /\ \A j \in Profilers : j # i => prof'[j] = prof[j]
      /\ pc'[t] = "acquire" /\ \A u \in Threads : u # t => pc'[u] = pc[u]
  BY <1>2, <1>5 DEF Inv, Typed
<1>7. \A j \in Profilers : /\ prof'[j].profile = prof[j].profile
                           /\ prof'[j].broken = prof[j].broken
                           /\ prof'[j].profiling = prof[j].profiling
  BY <1>4, <1>6
<1>8. \A u \in Threads : pc[u] # "idle" =>
          call[u].prof \in Profilers /\ call[u].what.key \in Keys /\ call[u].what.type \in Types
  BY CallsAssumption DEF Inv, Typed, CallStates, Types
<1>9. HasProfile'
  <2>1. \A j \in Profilers : prof'[j].profiling /\ prof'[j].profile = None => prof'[j].broken
    BY <1>7 DEF TypesInv, HasProfile
  <2>2. \A u \in Threads : pc'[u] \in InRecord => pc[u] \in InRecord
    BY <1>1, <1>6 DEF InRecord
  <2>3. \A u \in Threads : pc[u] \in InRecord => call[u].prof \in Profilers
    BY <1>8 DEF InRecord
  <2>4. \A u \in Threads : pc'[u] \in InRecord /\ prof'[call'[u].prof].profile = None =>
            prof'[call'[u].prof].broken
    BY <1>5, <1>7, <2>2, <2>3 DEF TypesInv, HasProfile, My
  <2> QED
    BY <2>1, <2>4 DEF HasProfile, My
<1>10. ASSUME NEW u \in Threads, pc'[u] # "idle", call'[u].prof \notin raced'
       PROVE  Known(u)'
  <2>1. CASE u = t
    BY <1>4, <1>5, <1>6, <2>1 DEF Known, MyType, My, i, k, type
  <2>2. CASE u # t
    <3>1. pc'[u] = pc[u] /\ pc[u] # "idle" /\ call'[u] = call[u] /\ call[u].prof \notin raced
      BY <1>5, <1>6, <1>10, <2>2
    <3>2. Known(u)
      BY <3>1 DEF TypesInv
    <3>3. CASE call[u].prof = i /\ call[u].what.key = k
      <4>1. MyType(u) = prof[i].meta[k] /\ MyType(u)' = type
        BY <1>4, <1>6, <3>1, <3>3 DEF MyType, My
      <4>2. call[u].what.type # None
        BY <1>8, <3>1, NoneAssumption DEF Types
      <4> QED
        BY <1>3, <1>5, <1>10, <3>1, <3>2, <3>3, <4>1, <4>2 DEF Known
    <3>4. CASE ~(call[u].prof = i /\ call[u].what.key = k)
      <4>1. MyType(u)' = MyType(u)
        BY <1>4, <1>6, <1>8, <3>1, <3>4 DEF MyType, My
      <4> QED
        BY <3>1, <3>2, <4>1 DEF Known
    <3> QED
      BY <3>3, <3>4
  <2> QED
    BY <2>1, <2>2
<1>11. ASSUME NEW j \in Profilers \ raced', NEW l \in Keys,
              prof[j].profile # None, prof[j].profile[l] # None
       PROVE  prof'[j].meta[l] # None /\ prof[j].profile[l].shape = Shape(prof'[j].meta[l])
  <2>1. prof[j].meta[l] # None /\ prof[j].profile[l].shape = Shape(prof[j].meta[l])
    BY <1>5, <1>11 DEF TypesInv, TypesAgree
  <2>2. prof'[j].meta[l] = prof[j].meta[l]
    <3>1. CASE j = i /\ l = k
      BY <1>4, <1>5, <1>6, <2>1, <3>1
    <3>2. CASE ~(j = i /\ l = k)
      BY <1>4, <1>6, <3>2
    <3> QED
      BY <3>1, <3>2
  <2> QED
    BY <2>1, <2>2
<1>12. TypesAgree'
  <2>1. \A j \in Profilers \ raced', e \in errors' :
            e.prof = j => e.why = "other type" \/ (prof'[j].broken /\ e.why = "no profile")
    BY <1>5, <1>7 DEF TypesInv, TypesAgree
  <2> QED
    BY <1>7, <1>11, <2>1 DEF TypesAgree
<1> QED
  BY <1>9, <1>10, <1>12 DEF TypesInv

\* A value is written: it has the shape of the type that the thread knows registered.
LEMMA WriteTypes ==
  ASSUME Inv, TypesInv, NEW t \in Threads, Write(t)
  PROVE  TypesInv'
<1> DEFINE i == call[t].prof
           k == call[t].what.key
           v == NewValue(t)
           profile == [prof[i].profile EXCEPT ![k] = v]
           q == [prof[i] EXCEPT !.profile = profile]
<1>1. pc[t] = "write" /\ call[t] \in CallStates
  BY DEF Inv, Typed, Write
<1>2. i \in Profilers /\ prof[i] \in ProfilerStates /\ k \in Keys /\ call[t].what.type \in Types
  BY <1>1, CallsAssumption DEF Inv, Typed, CallStates, Types
<1>3. prof[i].profile # None
  BY <1>1 DEF Inv, WriterHolds, My
<1>4. v.shape = Shape(call[t].what.type)
  BY DEF NewValue
<1>5. /\ prof' = [prof EXCEPT ![i] = q]
      /\ call' = [call EXCEPT ![t] = None] /\ pc' = [pc EXCEPT ![t] = "idle"]
      /\ UNCHANGED <<errors, raced>>
  <2> HIDE DEF v
  <2> QED
    BY DEF Write, Goto, v
<1>6. prof[i].profile \in Profiles
  BY <1>2, <1>3 DEF ProfilerStates
<1> HIDE DEF v
<1>7. profile # None
  <2>1. v \in Values
    BY <1>1, <1>2, NewValues, Zenon DEF v, Inv, WriterHolds
  <2> HIDE DEF v
  <2>2. profile \in Profiles
    BY <1>2, <1>6, <2>1 DEF Profiles
  <2> QED
    BY <2>2, NoneAssumption DEF Profiles
<1>8. profile[k] = v /\ \A l \in Keys : l # k => profile[l] = prof[i].profile[l]
  BY <1>2, <1>6 DEF Profiles
<1> HIDE DEF profile
<1>9. /\ q.profile = profile /\ q.meta = prof[i].meta
      /\ q.broken = prof[i].broken /\ q.profiling = prof[i].profiling
  BY <1>2 DEF ProfilerStates
<1> HIDE DEF i, k, q, ProfilerStates, CallStates
<1>10. /\ prof'[i] = q /\ \A j \in Profilers : j # i => prof'[j] = prof[j]
       /\ pc'[t] = "idle" /\ \A u \in Threads : u # t => pc'[u] = pc[u] /\ call'[u] = call[u]
  BY <1>1, <1>2, <1>5 DEF Inv, Typed
<1>11. \A j \in Profilers : /\ prof'[j].meta = prof[j].meta /\ prof'[j].broken = prof[j].broken
                            /\ prof'[j].profiling = prof[j].profiling
                            /\ (prof'[j].profile = None => prof[j].profile = None)
  BY <1>7, <1>9, <1>10
<1>12. \A u \in Threads : pc[u] # "idle" => call[u].prof \in Profilers
  BY DEF Inv, Typed, CallStates
<1>13. HasProfile'
  <2>1. \A j \in Profilers : prof'[j].profiling /\ prof'[j].profile = None => prof'[j].broken
    BY <1>11 DEF TypesInv, HasProfile
  <2>2. \A u \in Threads : pc'[u] \in InRecord =>
            pc[u] \in InRecord /\ call'[u] = call[u] /\ call[u].prof \in Profilers
    BY <1>10, <1>12 DEF InRecord
  <2>3. \A u \in Threads : pc'[u] \in InRecord /\ prof'[call'[u].prof].profile = None =>
            prof'[call'[u].prof].broken
    BY <1>11, <2>2 DEF TypesInv, HasProfile, My
  <2> QED
    BY <2>1, <2>3 DEF HasProfile, My
<1>14. ASSUME NEW u \in Threads, pc'[u] # "idle", call'[u].prof \notin raced'
       PROVE  Known(u)'
  <2>1. pc'[u] = pc[u] /\ call'[u] = call[u]
    BY <1>10, <1>14
  <2>2. Known(u) /\ prof'[call[u].prof].meta = prof[call[u].prof].meta
    BY <1>5, <1>11, <1>12, <1>14, <2>1 DEF TypesInv
  <2> QED
    BY <2>1, <2>2 DEF Known, MyType, My
<1>15. ASSUME NEW j \in Profilers \ raced', NEW l \in Keys,
              prof'[j].profile # None, prof'[j].profile[l] # None
       PROVE  prof'[j].meta[l] # None /\ prof'[j].profile[l].shape = Shape(prof'[j].meta[l])
  <2>1. CASE j = i /\ l = k
    <3>1. prof[i].meta[k] = call[t].what.type
      BY <1>1, <1>5, <1>15, <2>1 DEF TypesInv, Known, MyType, My, i, k
    <3>2. call[t].what.type # None
      BY <1>2, NoneAssumption DEF Types
    <3> QED
      BY <1>4, <1>8, <1>9, <1>10, <2>1, <3>1, <3>2
  <2>2. CASE ~(j = i /\ l = k)
    <3>1. prof'[j].profile[l] = prof[j].profile[l] /\ prof[j].profile # None
      BY <1>3, <1>8, <1>9, <1>10, <1>15, <2>2
    <3>2. prof[j].meta[l] # None /\ prof[j].profile[l].shape = Shape(prof[j].meta[l])
      BY <1>5, <1>15, <3>1 DEF TypesInv, TypesAgree
    <3> QED
      BY <1>11, <3>1, <3>2
  <2> QED
    BY <2>1, <2>2
<1>16. TypesAgree'
  <2>1. \A j \in Profilers \ raced', e \in errors' :
            e.prof = j => e.why = "other type" \/ (prof'[j].broken /\ e.why = "no profile")
    BY <1>5, <1>11 DEF TypesInv, TypesAgree
  <2> QED
    BY <1>15, <2>1 DEF TypesAgree
<1> QED
  BY <1>13, <1>14, <1>16 DEF TypesInv

\* Every step keeps what is known of the types.
LEMMA TypesStep == Inv /\ TypesInv /\ [Next]_vars => TypesInv'
<1> SUFFICES ASSUME Inv, TypesInv, [Next]_vars PROVE TypesInv'
  OBVIOUS
<1>1. ASSUME UNCHANGED <<prof, pc, call, errors, raced>> PROVE TypesInv'
  BY <1>1, Zenon DEF TypesInv, HasProfile, Known, TypesAgree, MyType, My
<1>2. CASE UseGlobalProfiler \/ SetGlobalProfiler \/ UNCHANGED vars
  <2>1. UNCHANGED <<prof, pc, call, errors, raced>>
    BY <1>2 DEF UseGlobalProfiler, SetGlobalProfiler, vars
  <2> QED
    BY <1>1, <2>1
<1>3. ASSUME NEW i \in Profilers, Start(i) \/ StartFails(i) \/ Stop(i) \/ Reset(i)
      PROVE  TypesInv'
  BY <1>3, LifecycleStepTypes, Zenon
<1>4. ASSUME NEW t \in Threads, Step(t) PROVE TypesInv'
  BY <1>4, BeginTypes, LookTypes, RegisterTypes, FailTypes, AcquireTypes, WriteTypes, Zenon
     DEF Step
<1> QED
  BY <1>2, <1>3, <1>4, Zenon DEF Next

\* Whatever threads share a profiler, and whenever it is started, stopped or reset: where
\* no two of them register a key with different types at once, and no reset comes in the
\* middle of a call, _register_metric (core.py) is enough, though it takes no lock.  A
\* value has the shape of its type, and a record fails for a key of another type or for
\* a start that failed, and for nothing else.
THEOREM TypesAlwaysAgree == Spec => []TypesAgree
<1>1. Init => Inv /\ TypesInv
  <2> SUFFICES ASSUME Init PROVE TypesInv
    BY InitInv
  <2>1. \A i \in Profilers : prof[i].profile = None /\ ~prof[i].profiling
    BY DEF Init, NewProfiler
  <2>2. errors = {} /\ \A t \in Threads : pc[t] = "idle"
    BY DEF Init
  <2> QED
    BY <2>1, <2>2 DEF TypesInv, HasProfile, Known, TypesAgree, InRecord
<1>2. Inv /\ TypesInv /\ [Next]_vars => Inv' /\ TypesInv'
  BY StepInv, TypesStep
<1>3. Inv /\ TypesInv => TypesAgree
  BY DEF TypesInv
<1> QED
  BY <1>1, <1>2, <1>3, PTL DEF Spec

----------------------------------------------------------------------------
(* Records of an earlier session.                                           *)

\* Where the records of a value are.
Places(i, k) == IF prof[i].profile[k] = None THEN {} ELSE DOMAIN prof[i].profile[k].of

IsStale(i, t, k, n) ==
    /\ prof[i].profile[k].of[n].by = t
    /\ prof[i].profile[k].of[n].session < prof[i].since

\* A thread in the middle of a record that it began before the session of the profile.
Late(i, t) == pc[t] \in InRecord /\ call[t].prof = i /\ call[t].session < prof[i].since

\* A thread has left at most one stale record, and none while it is late: its next
\* record will be the first that is stale, and the last.
FewStale(i, t) ==
    prof[i].profile # None =>
        /\ \A k, l \in Keys : \A m \in Places(i, k), n \in Places(i, l) :
               IsStale(i, t, k, m) /\ IsStale(i, t, l, n) => k = l /\ m = n
        /\ Late(i, t) => \A k \in Keys : \A n \in Places(i, k) : ~IsStale(i, t, k, n)

StaleInv == \A i \in Profilers, t \in Threads : FewStale(i, t)

\* No profile is of a session that is still to come, so that nobody who begins a record
\* now is late.
SinceInv == \A i \in Profilers : prof[i].since <= prof[i].session

\* A step that writes no record: a profile is as it was, or empty, and no thread becomes
\* late in a profile that stays.
LEMMA QuietStale ==
  ASSUME StaleInv,
         \A i \in Profilers :
             \/ /\ prof'[i].profile = prof[i].profile /\ prof'[i].since = prof[i].since
                /\ \A t \in Threads : Late(i, t)' => Late(i, t)
             \/ prof'[i].profile \in {None, NoMetrics}
  PROVE  StaleInv'
<1> SUFFICES ASSUME NEW i \in Profilers, NEW t \in Threads PROVE FewStale(i, t)'
  BY DEF StaleInv
<1> FewStale(i, t)
  BY DEF StaleInv
<1>1. CASE /\ prof'[i].profile = prof[i].profile /\ prof'[i].since = prof[i].since
           /\ (Late(i, t)' => Late(i, t))
  <2>1. \A k \in Keys : Places(i, k)' = Places(i, k)
    BY <1>1 DEF Places
  <2>2. \A k \in Keys : \A n \in Places(i, k) : IsStale(i, t, k, n)' <=> IsStale(i, t, k, n)
    BY <1>1 DEF IsStale
  <2>3. prof[i].profile # None => FewStale(i, t)'
    <3> SUFFICES ASSUME prof[i].profile # None
                 PROVE  FewStale(i, t)'
      OBVIOUS
    <3>1. \A k, l \in Keys : \A m \in Places(i, k)', n \in Places(i, l)' :
              IsStale(i, t, k, m)' /\ IsStale(i, t, l, n)' => k = l /\ m = n
      BY <2>1, <2>2 DEF FewStale
    <3>2. Late(i, t)' => \A k \in Keys : \A n \in Places(i, k)' : ~IsStale(i, t, k, n)'
      BY <1>1, <2>1, <2>2 DEF FewStale
    <3> QED
      BY <3>1, <3>2 DEF FewStale
  <2> QED
    BY <1>1, <2>3 DEF FewStale
<1>2. CASE prof'[i].profile \in {None, NoMetrics}
  <2>1. \A k \in Keys : prof'[i].profile # None => Places(i, k)' = {}
    BY <1>2 DEF Places, NoMetrics
  <2> QED
    BY <2>1 DEF FewStale
<1> QED
  BY <1>1, <1>2

\* Starting, stopping and resetting a profiler write no record.
LEMMA LifecycleStale ==
  ASSUME Inv, StaleInv, NEW i \in Profilers, Start(i) \/ StartFails(i) \/ Stop(i) \/ Reset(i)
  PROVE  StaleInv'
<1>1. prof[i] \in ProfilerStates
  BY DEF Inv, Typed
<1>2. UNCHANGED <<pc, call>>
  BY DEF Start, StartFails, Stop, Reset
<1>3. PICK q \in ProfilerStates :
          /\ prof' = [prof EXCEPT ![i] = q]
          /\ \/ q.profile = prof[i].profile /\ q.since = prof[i].since
             \/ q.profile \in {None, NoMetrics}
  <2>1. CASE Start(i)
    <3> DEFINE p == Started(prof[i])
    <3>1. p \in ProfilerStates /\ p.profile = NoMetrics
      BY <1>1, LifecycleStates, Zenon
    <3>2. prof' = [prof EXCEPT ![i] = p]
      BY <2>1 DEF Start
    <3> HIDE DEF p, NoMetrics, ProfilerStates
    <3> QED
      BY <3>1, <3>2
  <2>2. CASE StartFails(i)
    <3> DEFINE p == StartedWithoutManager(prof[i])
    <3>1. p \in ProfilerStates /\ p.profile = prof[i].profile /\ p.since = prof[i].since
      BY <1>1, LifecycleStates, Zenon
    <3>2. prof' = [prof EXCEPT ![i] = p]
      BY <2>2 DEF StartFails
    <3> HIDE DEF p, NoMetrics, ProfilerStates
    <3> QED
      BY <3>1, <3>2
  <2>3. CASE Stop(i)
    <3> DEFINE p == Stopped(prof[i])
    <3>1. p \in ProfilerStates /\ p.profile = prof[i].profile /\ p.since = prof[i].since
      BY <1>1, LifecycleStates, Zenon
    <3>2. prof' = [prof EXCEPT ![i] = p]
      BY <2>3 DEF Stop
    <3> HIDE DEF p, NoMetrics, ProfilerStates
    <3> QED
      BY <3>1, <3>2
  <2>4. CASE Reset(i)
    BY <1>1, <2>4, LifecycleStates DEF Reset
  <2> QED
    BY <2>1, <2>2, <2>3, <2>4
<1>4. prof'[i] = q /\ \A j \in Profilers : j # i => prof'[j] = prof[j]
  BY <1>3 DEF Inv, Typed
<1>5. \A j \in Profilers, t \in Threads :
          prof'[j].since = prof[j].since => (Late(j, t)' => Late(j, t))
  BY <1>2 DEF Late
<1>6. ASSUME NEW j \in Profilers
      PROVE  \/ /\ prof'[j].profile = prof[j].profile /\ prof'[j].since = prof[j].since
                /\ \A t \in Threads : Late(j, t)' => Late(j, t)
             \/ prof'[j].profile \in {None, NoMetrics}
  <2>1. CASE j # i
    BY <1>4, <1>5, <2>1
  <2>2. CASE j = i
    BY <1>3, <1>4, <1>5, <2>2
  <2> QED
    BY <2>1, <2>2
<1> HIDE DEF StaleInv, Inv, NoMetrics, ProfilerStates, Late
<1> QED
  BY <1>6, QuietStale

\* What a call does before it writes: no thread becomes late, because Check takes the
\* session of the moment.
LEMMA RecordingStale ==
  ASSUME Inv, SinceInv, StaleInv, NEW t \in Threads,
         \/ Begin(t) \/ Check(t) \/ Look(t) \/ Register(t) \/ Compare(t) \/ Refuse(t)
         \/ Acquire(t) \/ RecordFails(t)
  PROVE  StaleInv'
<1>1. \A u \in Threads : u # t => pc'[u] = pc[u] /\ call'[u] = call[u]
  BY DEF Inv, Typed, Begin, Check, Look, Register, Compare, Refuse, Acquire, RecordFails, Fail, Goto
<1>2. pc[t] # "idle" => call[t] \in CallStates /\ call[t].prof \in Profilers /\ call[t].what.key \in Keys
  BY CallsAssumption DEF Inv, Typed, CallStates
<1>3. \A i \in Profilers : /\ prof'[i].profile = prof[i].profile
                           /\ prof'[i].since = prof[i].since
  <2>1. CASE Register(t)
    <3> DEFINE q == [prof[call[t].prof] EXCEPT !.meta[call[t].what.key] = call[t].what.type]
    <3>1. call[t].prof \in Profilers /\ prof[call[t].prof] \in ProfilerStates
      BY <1>2, <2>1 DEF Inv, Typed, Register
    <3>2. q.profile = prof[call[t].prof].profile /\ q.since = prof[call[t].prof].since
      BY <3>1 DEF ProfilerStates
    <3>3. prof' = [prof EXCEPT ![call[t].prof] = q]
      BY <2>1 DEF Register
    <3> HIDE DEF q
    <3> QED
      BY <3>1, <3>2, <3>3 DEF Inv, Typed
  <2>2. CASE ~Register(t)
    BY <2>2 DEF Begin, Check, Look, Compare, Refuse, Acquire, RecordFails, Fail
  <2> QED
    BY <2>1, <2>2
<1>4. ASSUME NEW i \in Profilers PROVE Late(i, t)' => Late(i, t)
  <2>1. CASE Begin(t) \/ Refuse(t) \/ RecordFails(t)
    <3>1. pc'[t] \in {"check", "idle"}
      BY <2>1 DEF Inv, Typed, Begin, Refuse, RecordFails, Fail, Goto
    <3> QED
      BY <3>1 DEF Late, InRecord
  <2>2. CASE Check(t)
    <3>1. CASE pc'[t] = "idle"
      BY <3>1 DEF Late, InRecord
    <3>2. CASE pc'[t] # "idle"
      <4>1. pc[t] = "check" /\ call[t] \in CallStates /\ call[t].prof \in Profilers
        BY <1>2, <2>2 DEF Check
      <4>2. call' = [call EXCEPT ![t] = [call[t] EXCEPT !.session = My(t).session]]
        BY <2>2, <3>2 DEF Check, Goto, Inv, Typed
      <4>3. call'[t].prof = call[t].prof /\ call'[t].session = prof[call[t].prof].session
        BY <4>1, <4>2 DEF Inv, Typed, CallStates, My
      <4>4. /\ prof[call[t].prof].session \in Nat /\ prof[call[t].prof].since \in Nat
            /\ prof[call[t].prof].since <= prof[call[t].prof].session
        BY <4>1 DEF Inv, Typed, ProfilerStates, SinceInv
      <4> QED
        BY <1>3, <4>1, <4>3, <4>4 DEF Late
    <3> QED
      BY <3>1, <3>2
  <2>3. CASE Look(t) \/ Register(t) \/ Compare(t)
    <3>1. call' = call /\ pc[t] \in InRecord
      BY <2>3 DEF Look, Register, Compare, InRecord
    <3> QED
      BY <1>3, <3>1 DEF Late
  <2>4. CASE Acquire(t)
    <3>1. pc[t] = "acquire" /\ call[t] \in CallStates
      BY <1>2, <2>4 DEF Acquire
    <3>2. call' = [call EXCEPT ![t] = [call[t] EXCEPT !.old = MyValue(t)]]
      BY <2>4 DEF Acquire
    <3>3. call'[t].prof = call[t].prof /\ call'[t].session = call[t].session
      BY <3>1, <3>2 DEF Inv, Typed, CallStates
    <3> QED
      BY <1>3, <3>1, <3>3 DEF Late, InRecord
  <2> QED
    BY <2>1, <2>2, <2>3, <2>4
<1>5. \A i \in Profilers, u \in Threads : Late(i, u)' => Late(i, u)
  <2> SUFFICES ASSUME NEW i \in Profilers, NEW u \in Threads, u # t PROVE Late(i, u)' => Late(i, u)
    BY <1>4
  <2> QED
    BY <1>1, <1>3 DEF Late
<1> HIDE DEF StaleInv, Inv, Late
<1> QED
  BY <1>3, <1>5, QuietStale

\* The records of a new value: those of the old one, each in its place, and this one after them.
LEMMA NewRecords ==
  ASSUME NEW t \in Threads, call[t] \in CallStates
  PROVE  \E last \in Nat :
           /\ NewValue(t).of[last].by = t /\ NewValue(t).of[last].session = call[t].session
           /\ \A n \in DOMAIN NewValue(t).of :
                  \/ n = last
                  \/ call[t].old # None /\ n \in DOMAIN call[t].old.of
                     /\ NewValue(t).of[n] = call[t].old.of[n]
<1> DEFINE R == [by : Threads, session : Nat]
           record == [by |-> t, session |-> call[t].session]
<1>1. record \in R /\ record.by = t /\ record.session = call[t].session
  BY DEF CallStates
<1>2. CASE call[t].old = None \/ call[t].what.type = "gauge"
  <2>1. NewValue(t).of = <<record>>
    BY <1>2 DEF NewValue
  <2> HIDE DEF record
  <2>2. <<record>>[1] = record /\ DOMAIN <<record>> = {1}
    OBVIOUS
  <2> WITNESS 1 \in Nat
  <2> QED
    BY <1>1, <2>1, <2>2
<1>3. CASE ~(call[t].old = None \/ call[t].what.type = "gauge")
  <2> DEFINE s == call[t].old.of
  <2>1. NewValue(t).of = Append(s, record)
    BY <1>3 DEF NewValue
  <2>2. s \in Seq(R)
    BY <1>3 DEF CallStates, Values
  <2> HIDE DEF record, s, R
  <2>3. PICK last \in Nat : last = Len(s) + 1
    BY <2>2
  <2>4. /\ Append(s, record)[last] = record
        /\ \A n \in DOMAIN Append(s, record) :
               n = last \/ (n \in DOMAIN s /\ Append(s, record)[n] = s[n])
    BY <1>1, <2>2, <2>3
  <2> WITNESS last \in Nat
  <2> QED
    BY <1>1, <1>3, <2>1, <2>4 DEF s
<1> QED
  BY <1>2, <1>3

\* A value is written: the record is stale if the thread is late, and it is then the
\* first of its thread that is; the other records stay where they are.
LEMMA WriteStale ==
  ASSUME Inv, StaleInv, NEW t \in Threads, Write(t)
  PROVE  StaleInv'
<1> DEFINE i == call[t].prof
           k == call[t].what.key
           v == NewValue(t)
           profile == [prof[i].profile EXCEPT ![k] = v]
           q == [prof[i] EXCEPT !.profile = profile]
<1>1. pc[t] = "write" /\ call[t] \in CallStates
  BY DEF Inv, Typed, Write
<1>2. i \in Profilers /\ prof[i] \in ProfilerStates /\ k \in Keys
  BY <1>1, CallsAssumption DEF Inv, Typed, CallStates
<1>3. prof[i].profile # None /\ call[t].old = prof[i].profile[k]
  BY <1>1 DEF Inv, WriterHolds, My, MyValue
<1>4. prof[i].profile \in Profiles
  BY <1>2, <1>3 DEF ProfilerStates
<1>5. PICK last \in Nat :
        /\ v.of[last].by = t /\ v.of[last].session = call[t].session
        /\ \A n \in DOMAIN v.of : n = last \/ (n \in Places(i, k) /\ v.of[n] = prof[i].profile[k].of[n])
  <2>1. PICK last \in Nat :
          /\ v.of[last].by = t /\ v.of[last].session = call[t].session
          /\ \A n \in DOMAIN v.of :
                 \/ n = last
                 \/ call[t].old # None /\ n \in DOMAIN call[t].old.of /\ v.of[n] = call[t].old.of[n]
    BY <1>1, NewRecords, Zenon
  <2> HIDE DEF v, i, k
  <2> QED
    BY <1>3, <2>1 DEF Places
<1>6. v # None
  BY <1>1, NewValues, NoneAssumption, Zenon
<1>7. /\ prof' = [prof EXCEPT ![i] = q]
      /\ call' = [call EXCEPT ![t] = None] /\ pc' = [pc EXCEPT ![t] = "idle"]
  <2> HIDE DEF v
  <2> QED
    BY DEF Write, Goto, v
<1> HIDE DEF v
<1>8. profile[k] = v /\ \A l \in Keys : l # k => profile[l] = prof[i].profile[l]
  BY <1>2, <1>4 DEF Profiles
<1> HIDE DEF profile
<1>9. q.profile = profile /\ q.since = prof[i].since
  BY <1>2 DEF ProfilerStates
<1> HIDE DEF q, i, k, ProfilerStates, CallStates
<1>10. /\ prof'[i] = q /\ \A j \in Profilers : j # i => prof'[j] = prof[j]
       /\ pc'[t] = "idle" /\ \A u \in Threads : u # t => pc'[u] = pc[u] /\ call'[u] = call[u]
  BY <1>1, <1>2, <1>7 DEF Inv, Typed
<1>11. \A j \in Profilers, u \in Threads : Late(j, u)' => u # t /\ Late(j, u)
  <2>1. \A j \in Profilers : prof'[j].since = prof[j].since
    BY <1>9, <1>10
  <2> QED
    BY <1>10, <2>1 DEF Late, InRecord
<1>12. ASSUME NEW j \in Profilers, NEW u \in Threads, j # i PROVE FewStale(j, u)'
  <2>1. FewStale(j, u) /\ prof'[j] = prof[j] /\ (Late(j, u)' => Late(j, u))
    BY <1>10, <1>11, <1>12 DEF StaleInv
  <2>2. /\ \A l \in Keys : Places(j, l)' = Places(j, l)
        /\ \A l \in Keys : \A n \in Places(j, l) : IsStale(j, u, l, n)' <=> IsStale(j, u, l, n)
    BY <2>1 DEF Places, IsStale
  <2> QED
    BY <2>1, <2>2 DEF FewStale
<1>13. ASSUME NEW j \in Profilers, NEW u \in Threads, j = i PROVE FewStale(j, u)'
  <2> SUFFICES ASSUME prof'[j].profile # None PROVE FewStale(j, u)'
    BY <1>9, <1>10, <1>13 DEF FewStale
  <2>1. FewStale(j, u)
    BY DEF StaleInv
  <2>2. ASSUME NEW l \in Keys, NEW n \in Places(j, l)', IsStale(j, u, l, n)'
        PROVE  \/ n \in Places(j, l) /\ IsStale(j, u, l, n)
               \/ l = k /\ n = last /\ u = t /\ Late(j, t)
    <3>1. CASE l # k
      <4>1. prof'[j].profile[l] = prof[j].profile[l] /\ prof'[j].since = prof[j].since
        BY <1>8, <1>9, <1>10, <1>13, <3>1
      <4>2. Places(j, l)' = Places(j, l)
        BY <4>1 DEF Places
      <4> QED
        BY <2>2, <4>1, <4>2 DEF IsStale
    <3>2. CASE l = k
      <4>1. prof'[j].profile[l] = v /\ prof'[j].since = prof[j].since
        BY <1>8, <1>9, <1>10, <1>13, <3>2
      <4>2. n \in DOMAIN v.of
        BY <1>6, <2>2, <4>1 DEF Places
      <4>3. v.of[n].by = u /\ v.of[n].session < prof[j].since
        BY <2>2, <4>1 DEF IsStale
      <4>4. CASE n = last
        BY <1>1, <1>5, <1>13, <3>2, <4>3, <4>4 DEF Late, InRecord, i
      <4>5. CASE n \in Places(j, k) /\ v.of[n] = prof[j].profile[k].of[n]
        BY <1>13, <3>2, <4>3, <4>5 DEF IsStale
      <4> QED
        BY <1>5, <1>13, <4>2, <4>4, <4>5
    <3> QED
      BY <3>1, <3>2
  <2>3. \A l, m \in Keys : \A n \in Places(j, l)', o \in Places(j, m)' :
            IsStale(j, u, l, n)' /\ IsStale(j, u, m, o)' => l = m /\ n = o
    BY <1>3, <1>13, <2>1, <2>2 DEF FewStale
  <2>4. Late(j, u)' => \A l \in Keys : \A n \in Places(j, l)' : ~IsStale(j, u, l, n)'
    BY <1>3, <1>11, <1>13, <2>1, <2>2 DEF FewStale
  <2> QED
    BY <2>3, <2>4 DEF FewStale
<1> QED
  BY <1>12, <1>13 DEF StaleInv

\* A start and a reset bring the profile to the session; the rest leaves it behind.
LEMMA SinceStep == Inv /\ SinceInv /\ [Next]_vars => SinceInv'
<1> SUFFICES ASSUME Inv, SinceInv, [Next]_vars PROVE SinceInv'
  OBVIOUS
<1>1. CASE \E i \in Profilers : Start(i) \/ StartFails(i) \/ Stop(i) \/ Reset(i)
  <2>1. PICK i \in Profilers : Start(i) \/ StartFails(i) \/ Stop(i) \/ Reset(i)
    BY <1>1
  <2>2. prof[i] \in ProfilerStates /\ prof[i].since <= prof[i].session
    BY DEF Inv, Typed, SinceInv
  <2>3. prof[i].session \in Nat /\ prof[i].since \in Nat
    BY <2>2 DEF ProfilerStates
  <2>4. PICK q \in ProfilerStates :
            /\ prof' = [prof EXCEPT ![i] = q]
            /\ \/ q.since = prof[i].since /\ q.session \in {prof[i].session, prof[i].session + 1}
               \/ q.since = q.session
    <3>1. CASE Start(i)
      <4> DEFINE p == Started(prof[i])
      <4>1. p \in ProfilerStates /\ p.since = p.session
        BY <2>2, LifecycleStates, Zenon
      <4>2. prof' = [prof EXCEPT ![i] = p]
        BY <3>1 DEF Start
      <4> HIDE DEF p, ProfilerStates
      <4> QED
        BY <4>1, <4>2
    <3>2. CASE StartFails(i)
      <4> DEFINE p == StartedWithoutManager(prof[i])
      <4>1. p \in ProfilerStates /\ p.since = prof[i].since /\ p.session = prof[i].session + 1
        BY <2>2, LifecycleStates, Zenon
      <4>2. prof' = [prof EXCEPT ![i] = p]
        BY <3>2 DEF StartFails
      <4> HIDE DEF p, ProfilerStates
      <4> QED
        BY <4>1, <4>2
    <3>3. CASE Stop(i)
      <4> DEFINE p == Stopped(prof[i])
      <4>1. p \in ProfilerStates /\ p.since = prof[i].since /\ p.session = prof[i].session
        BY <2>2, LifecycleStates, Zenon
      <4>2. prof' = [prof EXCEPT ![i] = p]
        BY <3>3 DEF Stop
      <4> HIDE DEF p, ProfilerStates
      <4> QED
        BY <4>1, <4>2
    <3>4. CASE Reset(i)
      <4> DEFINE p == Cleared(prof[i])
      <4>1. p \in ProfilerStates /\ p.since = p.session
        BY <2>2, LifecycleStates, Zenon
      <4>2. prof' = [prof EXCEPT ![i] = p]
        BY <3>4 DEF Reset
      <4> HIDE DEF p, ProfilerStates
      <4> QED
        BY <4>1, <4>2
    <3> QED
      BY <2>1, <3>1, <3>2, <3>3, <3>4
  <2>5. q.session \in Nat
    BY DEF ProfilerStates
  <2>6. q.since <= q.session
    BY <2>2, <2>3, <2>4, <2>5
  <2> HIDE DEF ProfilerStates
  <2> QED
    BY <2>4, <2>6 DEF SinceInv, Inv, Typed
<1>2. CASE \E t \in Threads : Register(t) \/ Write(t)
  <2>1. PICK t \in Threads : Register(t) \/ Write(t)
    BY <1>2
  <2>2. call[t].prof \in Profilers /\ prof[call[t].prof] \in ProfilerStates
    BY <2>1 DEF Inv, Typed, Register, Write, CallStates
  <2>3. PICK q : /\ prof' = [prof EXCEPT ![call[t].prof] = q]
                 /\ q.since = prof[call[t].prof].since /\ q.session = prof[call[t].prof].session
    <3>1. CASE Register(t)
      <4> DEFINE q == [prof[call[t].prof] EXCEPT !.meta[call[t].what.key] = call[t].what.type]
      <4>1. prof' = [prof EXCEPT ![call[t].prof] = q]
        BY <3>1 DEF Register
      <4>2. q.since = prof[call[t].prof].since /\ q.session = prof[call[t].prof].session
        BY <2>2 DEF ProfilerStates
      <4> HIDE DEF q
      <4> QED
        BY <4>1, <4>2
    <3>2. CASE Write(t)
      <4> DEFINE q == [prof[call[t].prof] EXCEPT !.profile[call[t].what.key] = NewValue(t)]
      <4>1. prof' = [prof EXCEPT ![call[t].prof] = q]
        BY <3>2 DEF Write
      <4>2. q.since = prof[call[t].prof].since /\ q.session = prof[call[t].prof].session
        BY <2>2 DEF ProfilerStates
      <4> HIDE DEF q
      <4> QED
        BY <4>1, <4>2
    <3> QED
      BY <2>1, <3>1, <3>2
  <2> HIDE DEF ProfilerStates
  <2> QED
    BY <2>2, <2>3 DEF SinceInv, Inv, Typed
<1>3. CASE UNCHANGED prof
  BY <1>3 DEF SinceInv
<1> QED
  BY <1>1, <1>2, <1>3 DEF Next, Step, vars, UseGlobalProfiler, SetGlobalProfiler, Begin, Check,
                          Look, Compare, Refuse, Acquire, RecordFails, Fail

\* Every step leaves few records stale.
LEMMA StaleStep == Inv /\ SinceInv /\ StaleInv /\ [Next]_vars => StaleInv'
<1> SUFFICES ASSUME Inv, SinceInv, StaleInv, [Next]_vars PROVE StaleInv'
  OBVIOUS
<1>1. CASE UseGlobalProfiler \/ SetGlobalProfiler \/ UNCHANGED vars
  <2>1. UNCHANGED <<prof, pc, call>>
    BY <1>1 DEF UseGlobalProfiler, SetGlobalProfiler, vars
  <2>2. \A i \in Profilers, t \in Threads : Late(i, t)' => Late(i, t)
    BY <2>1 DEF Late
  <2> HIDE DEF StaleInv, Late
  <2> QED
    BY <2>1, <2>2, QuietStale
<1>2. ASSUME NEW i \in Profilers, Start(i) \/ StartFails(i) \/ Stop(i) \/ Reset(i)
      PROVE  StaleInv'
  BY <1>2, LifecycleStale, Zenon
<1>3. ASSUME NEW t \in Threads, Step(t) PROVE StaleInv'
  BY <1>3, RecordingStale, WriteStale, Zenon DEF Step
<1> QED
  BY <1>1, <1>2, <1>3, Zenon DEF Next

\* What the invariant says of the set of stale records of a thread.
LEMMA StaleIsFew == StaleInv => StaleRecordsAreFew
<1> SUFFICES ASSUME StaleInv, NEW i \in Profilers, prof[i].profile # None,
                    NEW t \in Threads
             PROVE  Cardinality(Stale(i, t)) <= 1
  BY DEF StaleRecordsAreFew
<1>1. \A k, l \in Keys : \A m \in Places(i, k), n \in Places(i, l) :
          IsStale(i, t, k, m) /\ IsStale(i, t, l, n) => k = l /\ m = n
  BY DEF StaleInv, FewStale
<1>2. ASSUME NEW x \in Stale(i, t)
      PROVE  /\ x[1] \in Keys /\ x[2] \in Places(i, x[1]) /\ IsStale(i, t, x[1], x[2])
             /\ x = <<x[1], x[2]>>
  <2>1. x \in Keys \X (1 .. MaxCalls * Cardinality(Threads))
    BY DEF Stale
  <2>2. prof[i].profile[x[1]] # None /\ x[2] \in DOMAIN prof[i].profile[x[1]].of
    BY DEF Stale
  <2>3. IsStale(i, t, x[1], x[2])
    BY <2>2 DEF Stale, IsStale
  <2> QED
    BY <2>1, <2>2, <2>3 DEF Places
<1>3. \A x, y \in Stale(i, t) : x = y
  BY <1>1, <1>2
<1>4. Stale(i, t) = {} \/ \E x : Stale(i, t) = {x}
  BY <1>3
<1>5. Cardinality(Stale(i, t)) \in {0, 1}
  BY <1>4, FS_EmptySet, FS_Singleton
<1> QED
  BY <1>5

\* is_profiling is read before the lock is taken (core.py), so that a record may begin
\* before a start or a reset and be written after it.  But of the sessions before the one
\* in which the profile was made or cleared, each thread leaves one record at most in it,
\* however often the profiler is started again, with or without a Manager, and whatever
\* the others do.
THEOREM FewRecordsAreStale == Spec => []StaleRecordsAreFew
<1>1. Init => Inv /\ SinceInv /\ StaleInv
  <2> SUFFICES ASSUME Init PROVE SinceInv /\ StaleInv
    BY InitInv
  <2> QED
    BY DEF Init, NewProfiler, SinceInv, StaleInv, FewStale
<1>2. Inv /\ SinceInv /\ StaleInv /\ [Next]_vars => Inv' /\ SinceInv' /\ StaleInv'
  BY StepInv, SinceStep, StaleStep
<1>3. StaleInv => StaleRecordsAreFew
  BY StaleIsFew
<1> QED
  BY <1>1, <1>2, <1>3, PTL DEF Spec
=============================================================================
