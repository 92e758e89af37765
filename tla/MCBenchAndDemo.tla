--------------------------- MODULE MCBenchAndDemo ---------------------------
(* What is used around rd-agent, side by side: the jobs and result file of *)
(* resctl-bench, its storage and its protection job, resctl-demo with its  *)
(* agent and its documents, the benchmark of rd-hashd and its files.  One  *)
(* of them, chosen at the start, moves in each behaviour.                  *)
EXTENDS MCBenchJobs, StorageBench, MemHogBench, DemoAgent, DemoDocs, HashdBench, HashdFiles

-----------------------------------------------------------------------------
\* Documents of resctl-demo: one that redirects, one with work to undo when left.
Line(at, do, arg) == [at |-> at, cond |-> "", cmd |-> [do |-> do, arg |-> arg]]
LineIf(cond, at, do, arg) == [at |-> at, cond |-> cond, cmd |-> [do |-> do, arg |-> arg]]
MCLines == [
    index |-> <<Line("pre", "reset", "all-with-params"), Line("body", "jump", "play"),
                Line("body", "jump", "intro"), Line("body", "toggle", "hashd")>>,
    intro |-> <<LineIf("HaveBench", "pre", "jump", "play"), Line("pre", "graph", ""),
                Line("body", "on", "needed"), Line("body", "toggle", "loop")>>,
    play |-> <<Line("pre", "reset", "prep"), Line("pre", "knob", "hashd-params"),
               Line("pre", "on", "hashdA"), Line("post", "reset", "all-with-params"),
               LineIf("NeedBench", "body", "(", ""), Line("body", "reset", "secondaries"),
               Line("body", "on", "hashdB"), Line("body", ")", ""),
               Line("body", "(", ""), Line("body", "off", "sysload"),
               Line("body", "off", "resctl"), Line("body", "on", "sysload"),
               Line("body", ")", ""), Line("body", "toggle", "resctl")>>]

\* The times of rotations: the microseconds go from one digit to two.
MCTimes == << <<1, 9>>, <<1, 10>>, <<1, 11>>, <<2, 0>>, <<2, 1>>, <<2, 2>>, <<2, 3>>, <<2, 4>> >>

\* From a machine that gives way at once to one that degrades from early on, and
\* ones that never fall short by some or any of the three thresholds.
MCSaturations ==
    LET Triple(u, b, r) == [up |-> u, bisect |-> b, refine |-> r]
        sharp == {3, 20, 31, 64, 65, 100, 160, 177, 222, 290, 320, 400}
    IN {Triple(s, s, s) : s \in sharp}
       \cup {Triple(400, 400, 3), Triple(400, 400, 310), Triple(320, 200, 40), Triple(400, 300, 101),
             Triple(177, 130, 127), Triple(250, 120, 119), Triple(130, 62, 2), Triple(70, 9, 8),
             Triple(257, 256, 190), Triple(64, 47, 1)}

-----------------------------------------------------------------------------
VARIABLE part

demoVars == <<minderVars, docVars>>
hashdVars == <<benchRunVars, fileVars>>
mcVars == <<part, jobVars, storeVars, hogVars, demoVars, hashdVars>>

Init ==
    /\ part \in {"jobs", "storage", "hog", "minder", "docs", "bench", "files"}
    /\ JobsInit /\ StorageInit /\ HogInit /\ DemoInit /\ DocsInit /\ BenchRunInit /\ FilesInit
    /\ part # "jobs" => goal = <<Tune>>
    /\ part # "storage" => memory.profile = 0 /\ memory.avail = 0
    /\ part # "storage" => real = CHOOSE r \in Reals : TRUE
    /\ part # "hog" => scenario.kind = "mem-hog"
    /\ part # "minder" => keep /\ ~service.running
    /\ part # "docs" => \A b \in Benches : benchSeq[b] = 0
    /\ part # "bench" => sat = CHOOSE s \in Saturations : TRUE
    /\ part # "bench" => ~benchParams.test

Others2(vs) == UNCHANGED <<vs, part>>

Next ==
    \/ /\ part = "jobs" /\ JobsNext
       /\ Others2(<<storeVars, hogVars, demoVars, hashdVars>>)
    \/ /\ part = "storage" /\ StorageNext
       /\ Others2(<<jobVars, hogVars, demoVars, hashdVars>>)
    \/ /\ part = "hog" /\ HogBenchNext
       /\ Others2(<<jobVars, storeVars, demoVars, hashdVars>>)
    \/ /\ part = "minder" /\ DemoNext
       /\ Others2(<<jobVars, storeVars, hogVars, docVars, hashdVars>>)
    \/ /\ part = "docs" /\ DocsNext
       /\ Others2(<<jobVars, storeVars, hogVars, minderVars, hashdVars>>)
    \/ /\ part = "bench" /\ BenchRunNext
       /\ Others2(<<jobVars, storeVars, hogVars, demoVars, fileVars>>)
    \/ /\ part = "files" /\ FilesNext
       /\ Others2(<<jobVars, storeVars, hogVars, demoVars, benchRunVars>>)

Fairness ==
    /\ WF_jobVars(part = "jobs" /\ LaunchGoal) /\ WF_jobVars(part = "jobs" /\ Steps)
    /\ WF_jobVars(part = "jobs" /\ RemoveFile)
    /\ WF_minderVars(part = "minder" /\ (RunRequest \/ UpdateView))
    /\ WF_minderVars(part = "minder" /\ (StatusWakes \/ StatusMinds))
    /\ WF_minderVars(part = "minder" /\ (JoinStatus \/ DropService))

Spec == Init /\ [][Next]_mcVars /\ Fairness

TypeOK == JobsTypeOK /\ StorageTypeOK /\ HogTypeOK /\ DemoTypeOK /\ DocsTypeOK /\ BenchTypeOK /\ FilesTypeOK

\* What the storage and the protection job record was measured for that record
\* and as they say, whatever failed or changed on the way.
RecordsSound == StorageSound /\ HogSound

\* A command line of resctl-bench that is started again after every crash and
\* failure ends up with a result for each of its jobs, unless the file has QoS
\* runs of other io.cost parameters, for which iocost-qos asks to remove it.
JobsCompleted == <>[](part = "jobs" => AllDone \/ OtherParams)

\* The view of the agent in resctl-demo keeps settling on what the agent does, or
\* on what the user has last wanted of it.
DemoViewFollows == []<>(part = "minder" => ViewSettled)
=============================================================================
