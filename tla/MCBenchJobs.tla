---------------------------- MODULE MCBenchJobs ----------------------------
(* Finite instances of BenchJobs: the command lines of resctl-bench.       *)
EXTENDS BenchJobs

\* Command lines of resctl-bench.
Job(kind, id, runs) ==
    [kind |-> kind, id |-> id, runs |-> runs, ignore |-> FALSE, apply |-> TRUE,
     commit |-> kind \notin {"iocost-qos", "iocost-tune"}]
Tune == Job("iocost-tune", "none", <<>>)
IoCost == Job("iocost-params", "none", <<>>)
Hashd == Job("hashd-params", "none", <<>>)
Qos == Job("iocost-qos", "none", <<1, 2, 3>>)
\* What it measures is only used by the rest of the line.
Trial == [Job("iocost-params", "b", <<>>) EXCEPT !.commit = FALSE]
\* It takes every configuration as it is, however slow.
EveryQos == [Qos EXCEPT !.ignore = TRUE]
OtherQos == Job("iocost-qos", "a", <<1, 3>>)

MCCmdLines == {<<IoCost, Hashd, Qos>>, <<Qos, Tune>>, <<Tune>>, <<Qos, Qos>>}
\* A line with iocost-tune before iocost-qos leaves entries behind that a later
\* iocost-tune never gets past, so it is not run beside one.
MCOthers == [line \in MCCmdLines |->
    {<<"run", <<Hashd, Qos>> >>, <<"run", <<EveryQos>> >>, <<"run", <<Trial, Qos>> >>,
     <<"study", <<Qos>> >>, <<"solve", <<IoCost>> >>}
    \cup (IF Tune \in Range(line) THEN {} ELSE {<<"run", <<Tune, Qos>> >>})]
\* A slower and a faster machine: what is too slow to run, and what is to be raised.
MCModels == <<[slow |-> {2}, raised |-> {}], [slow |-> {}, raised |-> {3}]>>
\* A line whose second iocost-qos runs with the parameters of the first.
TwoQos == {<<IoCost, Qos, OtherQos>>}
NoOthers == [line \in TwoQos |-> {}]
OneModel == <<[slow |-> {}, raised |-> {}]>>
=============================================================================
