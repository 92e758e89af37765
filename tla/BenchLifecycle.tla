--------------------------- MODULE BenchLifecycle ---------------------------
(***************************************************************************)
(* What rd-agent promises about commands and benchmarks: it acknowledges   *)
(* no command that it has not loaded, runs no workload and no benchmark    *)
(* that the loaded command does not ask for, one benchmark at a time and   *)
(* alone on the machine, and during a benchmark the only recorded result   *)
(* that changes is its own, after its program has finished, under the      *)
(* number it was asked for.                                                *)
(***************************************************************************)
EXTENDS Naturals

CONSTANT Benchmarks

VARIABLES
    mode,       \* idle, running workloads, or in one of the benchmarks
    workloads,  \* the workloads running
    done,       \* whether the benchmark's program has finished
    results,    \* the numbers of the recorded results
    command,    \* the loaded command: its number, the results asked for, and
                \* the workloads
    acked       \* the number of the command that is acknowledged

vars == <<mode, workloads, done, results, command, acked>>

Wanted(b) == command.bench[b] > results[b]

\* The acknowledgement comes first, but writing it may fail.
Acknowledged == acked' \in {acked, command.seq}

Init == mode = "Idle" /\ workloads = {} /\ done = FALSE

\* The agent starts, with whatever results there are.
Boot ==
    /\ mode = "Idle" /\ acked' = 0
    /\ UNCHANGED <<mode, workloads, done>>

\* Outside benchmarks users may replace the recorded results, too.
Load ==
    /\ mode \in Benchmarks => UNCHANGED results
    /\ UNCHANGED <<mode, workloads, done, acked>>

Acknowledge == Acknowledged /\ UNCHANGED <<mode, workloads, done, results, command>>

Serve ==
    /\ mode \in {"Idle", "Running"} /\ mode' = "Running"
    /\ \A b \in Benchmarks : ~Wanted(b)
    /\ workloads' \subseteq command.loads
    /\ Acknowledged /\ UNCHANGED <<done, results, command>>

StartBenchmark ==
    /\ mode = "Idle" /\ mode' \in Benchmarks /\ Wanted(mode')
    /\ Acknowledged /\ UNCHANGED <<workloads, done, results, command>>

Complete ==
    /\ mode \in Benchmarks /\ ~done
    /\ done' = TRUE
    /\ UNCHANGED <<mode, workloads, results, command, acked>>

\* Recording may fail half way and be repeated, so it need not end the mode.  Who
\* asks for the greatest number there is gets the next one, which may wrap.
Record ==
    /\ mode \in Benchmarks /\ done
    /\ \E n \in {command.bench[mode], results[mode] + 1, 0} :
          results' = [results EXCEPT ![mode] = n]
    /\ \/ UNCHANGED <<mode, done>>
       \/ mode' = "Idle" /\ done' = FALSE
    /\ UNCHANGED <<workloads, command, acked>>

\* To make way for a benchmark, on cancellation or failure.
GoIdle ==
    /\ mode' = "Idle" /\ workloads' = {} /\ done' = FALSE
    /\ Acknowledged /\ UNCHANGED <<results, command>>

\* The agent is gone, and with it what it had loaded.
End ==
    /\ mode' = "Idle" /\ workloads' = {} /\ done' = FALSE
    /\ UNCHANGED <<results, acked>>

Next ==
    \/ Boot \/ Load \/ Acknowledge \/ Serve \/ StartBenchmark \/ Complete
    \/ Record \/ GoIdle \/ End

Spec == Init /\ [][Next]_vars
=============================================================================
