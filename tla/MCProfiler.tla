----------------------------- MODULE MCProfiler -----------------------------
(* Two threads that share a key, as a counter, a timer and a gauge.         *)
EXTENDS Profiler, TLC

Call(key, type, tries) == [key |-> key, type |-> type, tries |-> tries]

MCKeys == {"runtime"}

\* @count_calls, @measure_time, set_gauge
MCCalls == {Call("runtime", "counter", 2), Call("runtime", "timer", 1),
            Call("runtime", "gauge", 1)}

Symmetry == Permutations(Threads)
=============================================================================
