-------------------------- MODULE MCAgentReports --------------------------
(* What rd-agent reports and what it and others read back, side by side:   *)
(* the reporter, the rings of the graphs fed by its files, the journal     *)
(* tailer, a configuration file with its writers, and the slices.  One of  *)
(* them, chosen at the start, moves in each behaviour; the graphs are      *)
(* looked at with a reporter that neither fails nor restarts.              *)
EXTENDS ReportRing, JournalTailer, ConfigFile, AgentSlices

VARIABLE part

mcVars == <<part, graphVars, journalVars, configVars, sliceVars>>

Init ==
    /\ part \in {"reporter", "graphs", "journal", "file", "slices"}
    /\ GraphInit /\ JournalInit /\ ConfigInit
    /\ SliceInit /\ (part # "slices" => want = [s \in Slices |-> CHOOSE v \in Vals : TRUE])

Next ==
    /\ UNCHANGED part
    /\ \/ /\ part = "reporter" /\ ReporterNext
          /\ UNCHANGED <<ringVars, journalVars, configVars, sliceVars>>
       \/ /\ part = "graphs" /\ GraphNext /\ faults' = 0 /\ restarts' = 0 /\ ~exiting'
          /\ UNCHANGED <<journalVars, configVars, sliceVars>>
       \/ part = "journal" /\ JournalNext /\ UNCHANGED <<graphVars, configVars, sliceVars>>
       \/ part = "file" /\ ConfigNext /\ UNCHANGED <<graphVars, journalVars, sliceVars>>
       \/ part = "slices" /\ SliceNext /\ UNCHANGED <<graphVars, journalVars, configVars>>

Fairness ==
    /\ WF_reporterVars(part = "reporter" /\ RunnerThread)
    /\ SF_reporterVars(part = "reporter" /\ ReportThread)
    /\ WF_journalVars(part = "journal" /\ (ReadLine \/ ReadEnd))
    /\ WF_journalVars(part = "journal" /\ (Process \/ Leave))
    /\ WF_journalVars(part = "journal" /\ Reap)
    /\ WF_sliceVars(part = "slices" /\ SliceSteps)

Spec == Init /\ [][Next]_mcVars /\ Fairness

(* Where the slices move, they converge (AgentSlices).                     *)
SlicesServed == part = "slices" => SlicesConverge

TypeOK == ReporterTypeOK /\ JournalTypeOK /\ ConfigTypeOK /\ SliceTypeOK
=============================================================================
