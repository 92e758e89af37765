----------------------------- MODULE SideRunner -----------------------------
(***************************************************************************)
(* Side workloads: the agent's SideRunner (rd-agent/src/side.rs), which    *)
(* starts system services itself and hands sideloads over as job files,    *)
(* and the sideloader daemon (rd-agent/src/misc/sideloader.py), which      *)
(* polls the job directory, starts, freezes, kills and stops the jobs.     *)
(*                                                                         *)
(* The daemon tells job files by their inode numbers, which the file       *)
(* system uses again as soon as an inode is neither linked nor open.       *)
(***************************************************************************)
EXTENDS Integers, FiniteSets

CONSTANTS
    Sys, Side,      \* names of sysloads and sideloads
    Inodes,         \* bound: inode numbers, used again lowest first
    CrashMidSave,   \* whether the agent may die between writing and renaming
    MaxCmds, MaxFaults, MaxCrashes, MaxOverloads    \* bounds

None == 0
ASSUME NamesAssumption == Sys \cap Side = {} /\ None \notin Sys \cup Side /\ Inodes \subseteq Nat \ {None}
ASSUME BoundsAssumption == CrashMidSave \in BOOLEAN /\ {MaxCmds, MaxFaults, MaxCrashes, MaxOverloads} \subseteq Nat

Names == Sys \cup Side

VARIABLES
    target,     \* the sysloads and sideloads of the command file
    active,     \* SideRunner::sysloads and sideloads
    pc,         \* where the runner thread is
    todo,       \* names it still has to start
    cur,        \* the sideload it is saving the job of, or dropping
    removed,    \* what it still has to drop
    scr,        \* names that have a scratch directory
    unit,       \* the service of each name
    frozen,     \* names whose cgroup is frozen
    file,       \* inode of each job file
    staging,    \* inode of each job's staging file
    content,    \* the job an inode was written with, or none yet
    leaked,     \* sideloads whose unit could not be looked up once
    warned,     \* names whose last stop failed, and sysloads a dead agent left
    dpc,        \* where the daemon's loop is
    jobfiles,   \* inodes of the job files it has loaded, and holds open
    new,        \* inodes it has just opened
    jobs,       \* inode of each job it runs
    pending,    \* inode of each job that waits for the overload to end
    killing,    \* jobs it still has to stop
    killed,     \* jobs it has decided to kill
    overload,   \* overload_at
    cmds, faults, crashes, overloads

agentVars == <<target, active, pc, todo, cur, removed, leaked, warned, cmds>>
files == <<file, staging, content>>
daemonVars == <<dpc, jobfiles, new, jobs, pending, killing, killed, overload, overloads>>
units == <<scr, unit, frozen>>
sideVars == <<agentVars, files, daemonVars, units, faults, crashes>>

NoJobs == [n \in Side |-> None]

SideTypeOK ==
    /\ target \subseteq Names /\ active \subseteq Names
    /\ pc \in {"idle", "start", "write", "rename", "insert", "drop", "dropStop"}
    /\ todo \subseteq Names /\ cur \in Names \cup {None} /\ removed \subseteq Names
    /\ scr \subseteq Names /\ frozen \subseteq Side
    /\ unit \in [Names -> {"none", "running", "done", "failed"}]
    /\ {file, staging, jobs, pending} \subseteq [Side -> Inodes \cup {None}]
    /\ content \in [Inodes -> Side \cup {None}]
    /\ leaked \subseteq Side /\ warned \subseteq Names
    /\ dpc \in {"down", "open", "load", "kill", "start", "assess"}
    /\ jobfiles \subseteq Inodes /\ new \subseteq Inodes
    /\ killing \subseteq Side /\ killed \subseteq Side /\ overload \in BOOLEAN
    /\ cmds \in 0..MaxCmds /\ faults \in 0..MaxFaults
    /\ crashes \in 0..MaxCrashes /\ overloads \in 0..MaxOverloads

SideInit ==
    /\ target = {} /\ active = {} /\ pc = "idle" /\ todo = {} /\ cur = None /\ removed = {}
    /\ scr = {} /\ frozen = {} /\ unit = [n \in Names |-> "none"]
    /\ file = NoJobs /\ staging = NoJobs /\ content = [i \in Inodes |-> None]
    /\ leaked = {} /\ warned = {}
    /\ dpc = "down" /\ jobfiles = {} /\ new = {} /\ jobs = NoJobs /\ pending = NoJobs
    /\ killing = {} /\ killed = {} /\ overload = FALSE
    /\ cmds = 0 /\ faults = 0 /\ crashes = 0 /\ overloads = 0

Linked == {file[n] : n \in Side} \cup {staging[n] : n \in Side}

\* The daemon's JobFile objects hold their files open, in jobfiles and in jobs.
Open == jobfiles \cup new \cup {jobs[n] : n \in Side} \cup {pending[n] : n \in Side}

\* Mutant: the daemon closes the job files it has loaded.
FreeInodesClosed == Inodes \ (Linked \cup new)

FreeInodes == Inodes \ (Linked \cup Open)
Fault == faults < MaxFaults /\ faults' = faults + 1
-----------------------------------------------------------------------------
(* The agent: apply_sysloads(), apply_sideloads() and the drops after them. *)

\* Goners leave the maps first, whatever becomes of those to be started.
Begin(t) ==
    /\ active' = active \cap t
    /\ removed' = active \ t
    /\ todo' = t \ active
    /\ pc' = "start"

Cmd(t) ==
    /\ pc = "idle" /\ cmds < MaxCmds
    /\ cmds' = cmds + 1
    /\ target' = t
    /\ Begin(t)
    /\ UNCHANGED <<cur, leaked, warned, files, daemonVars, units, faults, crashes>>

\* SideRunner::stop(): becoming idle drops the sysloads.
BecomeIdle ==
    /\ pc = "idle" /\ cmds < MaxCmds /\ active \cap Sys # {}
    /\ cmds' = cmds + 1
    /\ active' = active \ Sys
    /\ removed' = active \cap Sys
    /\ pc' = "drop"
    /\ UNCHANGED <<target, todo, cur, leaked, warned, files, daemonVars, units, faults, crashes>>

\* An error returns early: the rest of the same kind is not started.
Refuse(n) ==
    /\ Fault
    /\ todo' = IF n \in Sys THEN todo \ Sys ELSE {}
    /\ UNCHANGED <<target, active, pc, cur, removed, leaked, warned, cmds, files, daemonVars, units, crashes>>

\* A sysload that does not start is kept all the same.
StartSysload(n) ==
    /\ pc = "start" /\ n \in todo \cap Sys
    /\ \/ Refuse(n)
       \/ /\ todo' = todo \ {n}
          /\ active' = active \cup {n}
          /\ scr' = scr \cup {n}
          /\ \/ unit' = [unit EXCEPT ![n] = "running"] /\ warned' = warned \ {n} /\ UNCHANGED faults
             \/ Fault /\ warned' = warned \cup {n} /\ UNCHANGED unit
          /\ UNCHANGED <<target, pc, cur, removed, leaked, cmds, files, daemonVars, frozen, crashes>>

\* The staging file is truncated if there is one, and otherwise created, which
\* takes a free inode.
OpenStaging(n) ==
    /\ pc = "start" /\ todo \cap Sys = {} /\ n \in todo
    /\ \/ Refuse(n)
       \/ /\ staging[n] # None \/ FreeInodes # {}
          /\ todo' = todo \ {n}
          /\ scr' = scr \cup {n}
          /\ cur' = n
          /\ LET i == IF staging[n] # None THEN staging[n]
                      ELSE CHOOSE j \in FreeInodes : \A k \in FreeInodes : j <= k
             IN staging' = [staging EXCEPT ![n] = i] /\ content' = [content EXCEPT ![i] = None]
          /\ pc' = "write"
          /\ UNCHANGED <<target, active, removed, leaked, warned, cmds, file, daemonVars, unit, frozen, faults, crashes>>

WriteStaging ==
    /\ pc = "write"
    /\ content' = [content EXCEPT ![staging[cur]] = cur]
    /\ pc' = "rename"
    /\ UNCHANGED <<target, active, todo, cur, removed, leaked, warned, cmds, file, staging, daemonVars, units, faults, crashes>>

RenameStaging ==
    /\ pc = "rename"
    /\ file' = [file EXCEPT ![cur] = staging[cur]]
    /\ staging' = [staging EXCEPT ![cur] = None]
    /\ pc' = "insert"
    /\ UNCHANGED <<target, active, todo, cur, removed, leaked, warned, cmds, content, daemonVars, units, faults, crashes>>

\* If the unit cannot be looked up, the job file stays behind.
Insert ==
    /\ pc = "insert"
    /\ \/ active' = active \cup {cur} /\ UNCHANGED <<todo, leaked, faults>>
       \/ Fault /\ todo' = {} /\ leaked' = leaked \cup {cur} /\ UNCHANGED active
    /\ warned' = warned \ {cur}
    /\ pc' = "start" /\ cur' = None
    /\ UNCHANGED <<target, removed, cmds, files, daemonVars, units, crashes>>

Started ==
    /\ pc = "start" /\ todo = {}
    /\ pc' = "drop"
    /\ UNCHANGED <<target, active, todo, cur, removed, leaked, warned, cmds, files, daemonVars, units, faults, crashes>>

\* Sideload::drop removes the job file, Sysload::drop the scratch directory ...
DropBegin ==
    /\ pc = "drop"
    /\ \E n \in removed :
        /\ cur' = n
        /\ removed' = removed \ {n}
        /\ scr' = IF n \in Sys THEN scr \ {n} ELSE scr
        /\ file' = IF n \in Side THEN [file EXCEPT ![n] = None] ELSE file
    /\ pc' = "dropStop"
    /\ UNCHANGED <<target, active, todo, leaked, warned, cmds, staging, content, daemonVars, unit, frozen, faults, crashes>>

\* ... and then stops the service; a sideload's scratch directory goes last.
DropStop ==
    /\ pc = "dropStop"
    /\ \/ /\ unit' = [unit EXCEPT ![cur] = "none"] /\ frozen' = frozen \ {cur}
          /\ warned' = warned \ {cur} /\ UNCHANGED faults
       \/ Fault /\ warned' = warned \cup {cur} /\ UNCHANGED <<unit, frozen>>
    /\ scr' = scr \ {cur}
    /\ cur' = None /\ pc' = "drop"
    /\ UNCHANGED <<target, active, todo, removed, leaked, cmds, files, daemonVars, crashes>>

Dropped ==
    /\ pc = "drop" /\ removed = {}
    /\ pc' = "idle"
    /\ UNCHANGED <<target, active, todo, cur, removed, leaked, warned, cmds, files, daemonVars, units, faults, crashes>>

\* The agent dies and comes back: Config::new() removes the job files it finds,
\* though not a staging file, and the command file is applied again.
AgentRestart ==
    /\ crashes < MaxCrashes /\ crashes' = crashes + 1
    /\ pc = "rename" => CrashMidSave
    /\ pc # "write"
    /\ file' = NoJobs
    /\ active' = {} /\ removed' = {} /\ todo' = target /\ pc' = "start" /\ cur' = None
    /\ leaked' = {} /\ warned' = warned \cup {n \in Sys : unit[n] # "none"}
    /\ UNCHANGED <<target, cmds, staging, content, daemonVars, units, faults>>

Agent ==
    \/ \E n \in Names : StartSysload(n) \/ OpenStaging(n)
    \/ WriteStaging \/ RenameStaging \/ Insert \/ Started \/ DropBegin \/ DropStop \/ Dropped
-----------------------------------------------------------------------------
(* The daemon: one pass over the job directory and the system's state.     *)

\* Every file of the directory is opened; staging files are among them.
\* Files that are gone take their jobs with them.
OpenJobFiles ==
    /\ dpc = "open"
    /\ jobfiles' = jobfiles \cap Linked
    /\ new' = (Linked \ {None}) \ jobfiles
    /\ killing' = {n \in Side : jobs[n] # None /\ jobs[n] \notin Linked}
    /\ dpc' = "load"
    /\ UNCHANGED <<agentVars, files, jobs, pending, killed, overload, overloads, units, faults, crashes>>

\* Of the new files, those that parse and whose job is not there already.
Loadable(i) == content[i] # None /\ ~ (jobs[content[i]] \in jobfiles)
Chosen(s) == {i \in s : Loadable(i) /\ \A j \in s : content[j] = content[i] => i <= j}

LoadJobFiles ==
    /\ dpc = "load"
    /\ jobfiles' = jobfiles \cup Chosen(new)
    /\ pending' = [n \in Side |-> IF \E i \in Chosen(new) : content[i] = n
                                  THEN CHOOSE i \in Chosen(new) : content[i] = n
                                  ELSE pending[n]]
    /\ new' = {}
    /\ dpc' = "kill"
    /\ UNCHANGED <<agentVars, files, jobs, killing, killed, overload, overloads, units, faults, crashes>>

\* systemctl stop and reset-failed.
StopJob(n) ==
    /\ dpc = "kill" /\ n \in killing
    /\ killing' = killing \ {n}
    /\ unit' = [unit EXCEPT ![n] = "none"]
    /\ frozen' = frozen \ {n}
    /\ jobs' = [jobs EXCEPT ![n] = None]
    /\ killed' = killed \ {n}
    /\ UNCHANGED <<agentVars, files, dpc, jobfiles, new, pending, overload, overloads, scr, faults, crashes>>

JobsStopped ==
    /\ dpc = "kill" /\ killing = {}
    /\ dpc' = IF overload THEN "assess" ELSE "start"
    /\ UNCHANGED <<agentVars, files, jobfiles, new, jobs, pending, killing, killed, overload, overloads, units, faults, crashes>>

\* systemd-run: refused while the unit is loaded, and the service fails without
\* its working directory.
StartJob(n) ==
    /\ dpc = "start" /\ pending[n] # None
    /\ jobs' = [jobs EXCEPT ![n] = pending[n]]
    /\ pending' = [pending EXCEPT ![n] = None]
    /\ killed' = killed \ {n}
    /\ unit' = IF unit[n] # "none" THEN unit
               ELSE [unit EXCEPT ![n] = IF n \in scr THEN "running" ELSE "failed"]
    /\ UNCHANGED <<agentVars, files, dpc, jobfiles, new, killing, overload, overloads, scr, frozen, faults, crashes>>

JobsStarted ==
    /\ dpc = "start" /\ pending = NoJobs
    /\ dpc' = "assess"
    /\ UNCHANGED <<agentVars, files, jobfiles, new, jobs, pending, killing, killed, overload, overloads, units, faults, crashes>>

Running == {n \in Side : jobs[n] # None}

\* Mutant: what was frozen stays so when the overload ends.
FreezeOnly(ov, kill) ==
    /\ overload' = ov
    /\ killed' = killed \cup kill
    /\ unit' = [n \in Names |-> IF n \in killed' /\ unit[n] = "running" THEN "failed" ELSE unit[n]]
    /\ frozen' = IF ov THEN frozen \cup {n \in Running : unit[n] # "none"} ELSE frozen

\* Jobs are frozen while overloaded and thawed otherwise, whoever froze them;
\* what is to be killed is.
Freeze(ov, kill) ==
    /\ overload' = ov
    /\ killed' = killed \cup kill
    /\ unit' = [n \in Names |-> IF n \in killed' /\ unit[n] = "running" THEN "failed" ELSE unit[n]]
    /\ frozen' = IF ov THEN frozen \cup {n \in Running : unit[n] # "none"} ELSE frozen \ Running

\* A critical system kills every job, but extends no hold: the overload it
\* starts may end in the same pass.  A frozen job is killed when its time is up.
Assess(cond, ends) ==
    /\ dpc = "assess"
    /\ cond # "ok" => overloads < MaxOverloads
    /\ overloads' = overloads + IF cond = "ok" THEN 0 ELSE 1
    /\ LET ov == cond = "overload" \/ (~ends /\ (overload \/ cond = "critical"))
       IN \E expired \in SUBSET (IF ov THEN Running \cap frozen ELSE {}) :
            Freeze(ov, expired \cup IF cond = "critical" THEN Running ELSE {})
    /\ dpc' = "open"
    /\ UNCHANGED <<agentVars, files, jobfiles, new, jobs, pending, killing, scr, faults, crashes>>

DaemonCrash ==
    /\ dpc # "down" /\ crashes < MaxCrashes
    /\ crashes' = crashes + 1
    /\ dpc' = "down"
    /\ jobfiles' = {} /\ new' = {} /\ jobs' = NoJobs /\ pending' = NoJobs
    /\ killing' = {} /\ killed' = {} /\ overload' = FALSE
    /\ UNCHANGED <<agentVars, files, overloads, units, faults>>

\* Services without a readable job file are stopped first.
DaemonStart ==
    /\ dpc = "down"
    /\ LET stray == {n \in Side : unit[n] # "none" /\ \A i \in Linked \ {None} : content[i] # n}
       IN unit' = [n \in Names |-> IF n \in stray THEN "none" ELSE unit[n]] /\ frozen' = frozen \ stray
    /\ dpc' = "open"
    /\ UNCHANGED <<agentVars, files, jobfiles, new, jobs, pending, killing, killed, overload, overloads, scr, faults, crashes>>

Daemon ==
    \/ OpenJobFiles \/ LoadJobFiles \/ JobsStopped \/ JobsStarted \/ DaemonStart
    \/ \E n \in Side : StopJob(n) \/ StartJob(n)
    \/ \E c \in {"ok", "overload", "critical"}, e \in BOOLEAN : Assess(c, e)

ServiceEnds(n) ==
    /\ unit[n] = "running" /\ n \notin frozen
    /\ unit' = [unit EXCEPT ![n] = "done"]
    /\ UNCHANGED <<agentVars, files, daemonVars, scr, frozen, faults, crashes>>

SideNext ==
    \/ \E t \in SUBSET Names : Cmd(t)
    \/ BecomeIdle \/ Agent \/ AgentRestart
    \/ Daemon \/ DaemonCrash
    \/ \E n \in Side : ServiceEnds(n)

\* Threads keep running, the daemon is restarted by systemd, and a hold is over
\* once its time has passed.
SideFairness == WF_sideVars(Agent) /\ WF_sideVars(Daemon) /\ SF_sideVars(Assess("ok", TRUE))
SideSpec == SideInit /\ [][SideNext]_sideVars /\ SideFairness
-----------------------------------------------------------------------------
(* What the two processes know of each other through files: a job the      *)
(* daemon knows is the one written in its file, also when the file is gone *)
(* and its inode number would be free again (process_job_dir); while the   *)
(* runner is idle every sideload has its job file, a job file without a    *)
(* sideload is one whose unit could not be looked up (apply_sideloads),    *)
(* and a sysload that is not active was stopped, unless that was warned of *)
(* (TransientService::drop).                                               *)
Leftovers ==
    /\ \A n \in Side : {jobs[n], pending[n]} \subseteq {None} \cup {i \in Inodes : content[i] = n}
    /\ pc = "idle" =>
        /\ active \subseteq target
        /\ \A n \in Side : file[n] # None <=> n \in active \/ (file[n] # None /\ n \in leaked)
        /\ \A n \in Sys \ active : unit[n] = "none" \/ n \in warned

(* In the end exactly the sideloads the agent has are there, running or    *)
(* over, and none stays frozen: after changes of mind between two passes,  *)
(* overloads, a failed stop, or a restart of either process.  Only a       *)
(* daemon that restarts just when the agent has failed to stop a service   *)
(* may leave it behind, and a sideload whose unit could not be looked up   *)
(* leaves a job file that no sideload owns.                                *)
SideConverges ==
    <>[](/\ frozen \subseteq warned
         /\ \A n \in Side : \/ unit[n] # "none" <=> n \in active
                            \/ n \in leaked
                            \/ n \in warned /\ crashes > 0)
=============================================================================
