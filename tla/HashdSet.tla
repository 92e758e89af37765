------------------------------ MODULE HashdSet ------------------------------
(***************************************************************************)
(* The two rd-hashd instances of the agent (rd-agent/src/hashd.rs): their  *)
(* shares of the benchmarked load, the parameter files, the services, and  *)
(* the reports of the daemons, which are the agent's only if they are new  *)
(* enough.  The clock counts the milliseconds a report's timestamp has; a  *)
(* unit takes at least one to stop or to start.                            *)
(***************************************************************************)
EXTENDS Naturals, FiniteSets

CONSTANTS
    RpsMax,             \* knobs.rps_max, of the benchmark
    Weights,            \* the weights a command may carry
    Expiry,             \* the report's 3 seconds
    MaxHashdTime, MaxHashdCmds, MaxHashdFaults  \* bounds

ASSUME HashdSetAssumption ==
    /\ RpsMax \in Nat \ {0} /\ Weights \subseteq Nat /\ Expiry \in Nat
    /\ {MaxHashdTime, MaxHashdCmds, MaxHashdFaults} \subseteq Nat

H == {1, 2}     \* hashd-A and hashd-B
VARIABLES
    cmd,        \* cmd.hashd, as the agent read it last
    hashd,      \* [svc, startedAt, rpsMax] of each
    applyAt,    \* the step of apply(): "idle", "goners", "params", "start", "resctl", "panic"
    left,       \* the instances the step is still to do
    paramsFile, \* params.json: the rps_max written last
    daemon,     \* the running daemon of each: [life, rps], life 0 if none runs
    repFile,    \* report.json of each: [at, life]
    shown,      \* the last report of the agent (ghost): of each, [life, at] of the load and
                \* latency it shows, and the life the memory probe shown is of
    ioWeight,   \* in the cgroup, in percent
    lives, hashdTime, hashdCmds, hashdFaults

hashdSetVars == <<cmd, hashd, applyAt, left, paramsFile, daemon, repFile, shown, ioWeight,
                  lives, hashdTime, hashdCmds, hashdFaults>>

Active(i) == cmd[i].active
Cmds == [H -> [active: BOOLEAN, weight: Weights]]
Never == 0
NoReportYet == [at |-> Never, life |-> 0]
NothingShown == [at |-> Never, life |-> 0, probe |-> 0]
Stopped(i) == hashd[i].svc = 0

HashdSetTypeOK ==
    /\ cmd \in Cmds
    /\ hashd \in [H -> [svc: 0..lives, startedAt: 0..MaxHashdTime, rpsMax: 1..RpsMax]]
    /\ applyAt \in {"idle", "goners", "params", "start", "resctl", "panic"} /\ left \subseteq H
    /\ paramsFile \in [H -> 1..RpsMax]
    /\ daemon \in [H -> [life: 0..lives, rps: 0..RpsMax]]
    /\ repFile \in [H -> [at: 0..MaxHashdTime, life: 0..lives]]
    /\ shown \in [H -> [at: 0..MaxHashdTime, life: 0..lives, probe: 0..lives]]
    /\ ioWeight \in [H -> 0..100]
    /\ lives \in 0..(2 * MaxHashdCmds + 2) /\ hashdTime \in 1..MaxHashdTime
    /\ hashdCmds \in 0..MaxHashdCmds /\ hashdFaults \in 0..MaxHashdFaults

HashdSetInit ==
    /\ cmd = [i \in H |-> [active |-> FALSE, weight |-> CHOOSE w \in Weights : TRUE]]
    /\ hashd = [i \in H |-> [svc |-> 0, startedAt |-> Never, rpsMax |-> 1]]
    /\ applyAt = "idle" /\ left = {} /\ paramsFile = [i \in H |-> 1]
    /\ daemon = [i \in H |-> [life |-> 0, rps |-> 0]]
    /\ repFile = [i \in H |-> NoReportYet] /\ shown = [i \in H |-> NothingShown]
    /\ ioWeight = [i \in H |-> 0] /\ lives = 0 /\ hashdTime = 1 /\ hashdCmds = 0 /\ hashdFaults = 0

(***************************************************************************)
(* weights_to_fracs(), in thousandths: no active instance has less than a  *)
(* tenth.                                                                  *)
(***************************************************************************)
Frac(i) ==
    LET sum == cmd[1].weight + cmd[2].weight
        f == (1000 * cmd[i].weight) \div sum IN
    IF ~Active(i) THEN 0 ELSE IF ~Active(3 - i) THEN 1000
    ELSE IF sum = 0 THEN 500 ELSE IF f < 100 THEN 100 ELSE IF f > 900 THEN 900 ELSE f

\* A share of n, rounded, but at least 1; ceil() is used for the weights.
Share(n, f) == LET r == (n * f + 500) \div 1000 IN IF r = 0 THEN 1 ELSE r
Percent(f) == (f + 9) \div 10

Unapplied == UNCHANGED <<cmd, repFile, shown, hashdCmds>>
Spend == hashdTime < MaxHashdTime /\ hashdTime' = hashdTime + 1

\* A new command is read: Runner::apply_workloads() is HashdSet::apply().
NewCmd ==
    /\ applyAt = "idle" /\ hashdCmds < MaxHashdCmds /\ hashdCmds' = hashdCmds + 1
    /\ cmd' \in Cmds /\ cmd' # cmd /\ applyAt' = "goners"
    /\ left' = {i \in H : ~cmd'[i].active /\ ~Stopped(i)}
    /\ UNCHANGED <<hashd, paramsFile, daemon, repFile, shown, ioWeight, lives, hashdTime, hashdFaults>>

\* Dropping a service stops its unit.
Goner(i) ==
    /\ applyAt = "goners" /\ i \in left /\ left' = left \ {i} /\ Spend
    /\ hashd' = [hashd EXCEPT ![i].svc = 0, ![i].startedAt = Never]
    /\ daemon' = [daemon EXCEPT ![i] = [life |-> 0, rps |-> 0]]
    /\ Unapplied /\ UNCHANGED <<applyAt, paramsFile, ioWeight, lives, hashdFaults>>

\* update_params() of all that run, written where something changed.
UpdateParams ==
    /\ applyAt = "goners" /\ left = {} /\ applyAt' = "start"
    /\ hashd' = [i \in H |-> IF Active(i) THEN [hashd[i] EXCEPT !.rpsMax = Share(RpsMax, Frac(i))]
                                          ELSE hashd[i]]
    /\ paramsFile' = [i \in H |-> IF Active(i) THEN hashd'[i].rpsMax ELSE paramsFile[i]]
    /\ left' = {i \in H : Active(i) /\ Stopped(i)}
    /\ Unapplied /\ UNCHANGED <<daemon, ioWeight, lives, hashdTime, hashdFaults>>

\* Hashd::start(): a unit of that name, left by an earlier agent, is stopped.
StartHashd(i) ==
    /\ applyAt = "start" /\ i \in left /\ Spend
    /\ \/ /\ hashd' = [hashd EXCEPT ![i].svc = lives + 1,
                                    ![i].startedAt = hashdTime']
          /\ daemon' = [daemon EXCEPT ![i] = [life |-> lives + 1, rps |-> paramsFile[i]]]
          /\ lives' = lives + 1 /\ left' = left \ {i} /\ UNCHANGED <<applyAt, hashdFaults>>
       \/ /\ hashdFaults < MaxHashdFaults /\ hashdFaults' = hashdFaults + 1
          /\ applyAt' = "panic" /\ UNCHANGED <<hashd, daemon, lives, left>>
    /\ Unapplied /\ UNCHANGED <<paramsFile, ioWeight>>

UpdateResctl ==
    /\ applyAt = "start" /\ left = {} /\ applyAt' = "idle"
    /\ ioWeight' = [i \in H |-> IF Stopped(i) THEN ioWeight[i] ELSE Percent(Frac(i))]
    /\ Unapplied /\ UNCHANGED <<hashd, left, paramsFile, daemon, lives, hashdTime, hashdFaults>>

\* HashdSet::stop(), when the runner becomes idle, or panics.
StopAll ==
    /\ applyAt \in {"idle", "panic"} /\ \E i \in H : ~Stopped(i)
    /\ hashd' = [i \in H |-> [hashd[i] EXCEPT !.svc = 0, !.startedAt = Never]]
    /\ daemon' = [i \in H |-> [life |-> 0, rps |-> 0]] /\ Spend
    /\ UNCHANGED <<cmd, applyAt, left, paramsFile, repFile, shown, ioWeight, lives, hashdCmds, hashdFaults>>

\* The daemon reads its parameters when the file changes, and reports.
DaemonReads(i) ==
    /\ daemon[i].life # 0 /\ daemon[i].rps # paramsFile[i]
    /\ daemon' = [daemon EXCEPT ![i].rps = paramsFile[i]]
    /\ UNCHANGED <<cmd, hashd, applyAt, left, paramsFile, repFile, shown, ioWeight, lives,
                   hashdTime, hashdCmds, hashdFaults>>
DaemonReports(i) ==
    /\ daemon[i].life # 0 /\ repFile' = [repFile EXCEPT ![i] = [at |-> hashdTime, life |-> daemon[i].life]]
    /\ repFile' # repFile
    /\ UNCHANGED <<cmd, hashd, applyAt, left, paramsFile, daemon, shown, ioWeight, lives,
                   hashdTime, hashdCmds, hashdFaults>>
DaemonDies(i) ==
    /\ daemon[i].life # 0 /\ hashdFaults < MaxHashdFaults /\ hashdFaults' = hashdFaults + 1
    /\ daemon' = [daemon EXCEPT ![i] = [life |-> 0, rps |-> 0]]
    /\ UNCHANGED <<cmd, hashd, applyAt, left, paramsFile, repFile, shown, ioWeight, lives, hashdTime, hashdCmds>>
Pass ==
    /\ Spend /\ UNCHANGED <<cmd, hashd, applyAt, left, paramsFile, daemon, repFile, shown, ioWeight,
                            lives, hashdCmds, hashdFaults>>

\* Mutant: a report counts if it is not older than three seconds.
SinceExpiry(i) == IF hashdTime > Expiry THEN hashdTime - Expiry ELSE 0
Since(i) ==
    LET e == IF hashdTime > Expiry THEN hashdTime - Expiry ELSE 0 IN
    IF hashd[i].startedAt > e THEN hashd[i].startedAt ELSE e

\* HashdSet::report(), which the reporter calls with the runner locked.  Of
\* a report that is too old mem_probe_size and mem_probe_at are kept.
Shown(i) ==
    [at |-> IF repFile[i].at >= Since(i) THEN repFile[i].at ELSE Never,
     life |-> IF repFile[i].at >= Since(i) THEN repFile[i].life ELSE 0,
     probe |-> repFile[i].life]
ReportHashd ==
    /\ applyAt = "idle"
    /\ shown' = [i \in H |-> Shown(i)]
    /\ shown' # shown
    /\ UNCHANGED <<cmd, hashd, applyAt, left, paramsFile, daemon, repFile, ioWeight, lives,
                   hashdTime, hashdCmds, hashdFaults>>

HashdSetNext ==
    \/ NewCmd \/ UpdateParams \/ UpdateResctl \/ StopAll \/ ReportHashd \/ Pass
    \/ \E i \in H : \/ Goner(i) \/ StartHashd(i) \/ DaemonReads(i) \/ DaemonReports(i) \/ DaemonDies(i)

HashdSetSpec == HashdSetInit /\ [][HashdSetNext]_hashdSetVars

(***************************************************************************)
(* The load and the latency the agent reports of an instance that runs     *)
(* were measured by this instance, never by one it replaced.  The size of  *)
(* the memory probe and its time may be those of the one it replaced, but  *)
(* only in a report that shows nothing else of either: never beside what   *)
(* the running instance measured.                                          *)
(***************************************************************************)
ReportsOfThisLife ==
    [][shown' # shown => \A i \in H : ~Stopped(i) =>
           /\ shown'[i].life \in {0, hashd[i].svc}
           /\ shown'[i].life # 0 => shown'[i].probe = hashd[i].svc]_hashdSetVars
=============================================================================
