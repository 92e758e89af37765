-------------------------- MODULE MCAgentServices --------------------------
(* The parts of rd-agent that drive systemd services, side by side: side   *)
(* workloads and their daemon, a transient unit, the two rd-hashds, oomd   *)
(* and the sideloader's configuration, and the system settings an agent    *)
(* takes over for its life.  One of them, chosen at the start, moves in    *)
(* each behaviour.                                                         *)
EXTENDS SideRunner, TransientUnit, HashdSet, ServiceConfig, AgentSession

VARIABLE part

mcVars == <<part, sideVars, unitVars, hashdSetVars, serviceVars, sessionVars>>

Init ==
    /\ part \in {"side", "unit", "hashds", "services", "session"}
    /\ SideInit /\ HashdSetInit /\ ServiceInit
    /\ SessionInit /\ (part # "session" => sys.iocost = "off" /\ sys.swap = "low")
    /\ UnitInit /\ (part # "unit" => loaded = "none" /\ holds = CHOOSE n \in Sizes : TRUE)

Others(vs) == UNCHANGED <<vs, part>>

Next ==
    \/ part = "side" /\ SideNext /\ Others(<<unitVars, hashdSetVars, serviceVars, sessionVars>>)
    \/ part = "unit" /\ UnitNext /\ Others(<<sideVars, hashdSetVars, serviceVars, sessionVars>>)
    \/ part = "hashds" /\ HashdSetNext /\ Others(<<sideVars, unitVars, serviceVars, sessionVars>>)
    \/ part = "services" /\ ServiceNext /\ Others(<<sideVars, unitVars, hashdSetVars, sessionVars>>)
    \/ part = "session" /\ SessionNext /\ Others(<<sideVars, unitVars, hashdSetVars, serviceVars>>)

Fairness ==
    /\ WF_sideVars(part = "side" /\ Agent)
    /\ WF_sideVars(part = "side" /\ Daemon)
    /\ SF_sideVars(part = "side" /\ Assess("ok", TRUE))

Spec == Init /\ [][Next]_mcVars /\ Fairness

TypeOK == SideTypeOK /\ UnitTypeOK /\ HashdSetTypeOK /\ ServiceTypeOK /\ SessionTypeOK
=============================================================================
