----------------------------- MODULE AgentSlices -----------------------------
(***************************************************************************)
(* The agent's control of the top-level slices (rd-agent/src/slices.rs):   *)
(* what slices.json asks for is written to a configlet of each slice,      *)
(* which systemd loads; the health check compares the cgroups themselves   *)
(* and repairs what other programs, or systemd, changed.                   *)
(*                                                                         *)
(* A slice has a setting of each controller; a setting is one of Vals, or  *)
(* 0 where nothing is set.  The controllers a user disables are those      *)
(* whose disable_seqs is not less than the sequence number of the agent.   *)
(***************************************************************************)
EXTENDS Naturals, FiniteSets

CONSTANTS
    Vals,           \* the settings a user may ask for
    CpusetOn,       \* the cpuset controller is enabled too
    MaxChanges, MaxDrifts, MaxSliceFaults, MaxAgents    \* bounds

ASSUME SliceAssumption ==
    /\ Vals \subseteq Nat \ {0} /\ Vals # {} /\ CpusetOn \in BOOLEAN
    /\ {MaxChanges, MaxDrifts, MaxSliceFaults, MaxAgents} \subseteq Nat

VARIABLES
    want, disableSeqs, fileChanged,     \* slices.json, and that it was not read yet
    instanceSeq,
    configlet, loadedUnits, updated,    \* on disk; in systemd; to be loaded
    cgroup,         \* the setting in the cgroup of each slice
    subtree,        \* cgroup.subtree_control of the root
    iocost,         \* io.cost.qos enable
    applyPc,        \* "idle", "apply", "reload", "verify", "fix"
    todo,           \* the slices still to be done
    ioStale,        \* iocost_on_off() was not reached since the last change
    changes, drifts, sliceFaults

knobVars == <<want, disableSeqs, fileChanged>>
unitVars == <<configlet, loadedUnits, updated>>
sysVars == <<cgroup, subtree, iocost>>
stepVars == <<applyPc, todo, ioStale>>
boundVars == <<changes, drifts, sliceFaults>>
sliceVars == <<knobVars, instanceSeq, unitVars, sysVars, stepVars, boundVars>>

\* system.slice stands for the slices other than workload.slice.
Slices == {"system", "workload"}
Controllers == {"cpu", "io", "mem"}
Off(c) == disableSeqs[c] >= instanceSeq
Nothing == [c \in Controllers |-> 0]

SliceTypeOK ==
    /\ want \in [Slices -> Vals] /\ disableSeqs \in [Controllers -> 0..MaxAgents]
    /\ instanceSeq \in 1..MaxAgents /\ {fileChanged, updated, iocost, ioStale} \subseteq BOOLEAN
    /\ {configlet, loadedUnits, cgroup} \subseteq [Slices -> [Controllers -> Vals \cup {0}]]
    /\ subtree \subseteq {"cpu", "cpuset", "io", "memory"}
    /\ applyPc \in {"idle", "apply", "reload", "onoff", "verify", "fix"} /\ todo \subseteq Slices
    /\ changes \in 0..MaxChanges /\ drifts \in 0..MaxDrifts /\ sliceFaults \in 0..MaxSliceFaults

\* The agent has just read slices.json, and applies it.
SliceInit ==
    /\ want \in [Slices -> Vals] /\ want["system"] = want["workload"]
    /\ disableSeqs = [c \in Controllers |-> 0] /\ fileChanged = FALSE
    /\ instanceSeq = 1
    /\ configlet = [s \in Slices |-> Nothing] /\ loadedUnits = configlet /\ updated = FALSE
    /\ cgroup = configlet /\ subtree = (IF CpusetOn THEN {"cpuset"} ELSE {}) /\ iocost = FALSE
    /\ applyPc = "apply" /\ todo = Slices /\ ioStale = TRUE
    /\ changes = 0 /\ drifts = 0 /\ sliceFaults = 0

MayFail == sliceFaults < MaxSliceFaults /\ sliceFaults' = sliceFaults + 1
First == CHOOSE s \in todo : s = "system" \/ todo = {"workload"}
-----------------------------------------------------------------------------
(* The environment.                                                        *)

\* The user asks for another setting, or disables or enables a controller.
ChangeSlices ==
    /\ changes < MaxChanges /\ changes' = changes + 1
    /\ \/ \E v \in Vals : want' = [want EXCEPT !["workload"] = v] /\ UNCHANGED disableSeqs
       \/ \E c \in Controllers, q \in {0, instanceSeq} :
            disableSeqs' = [disableSeqs EXCEPT ![c] = q] /\ UNCHANGED want
    /\ fileChanged' = TRUE
    /\ UNCHANGED <<instanceSeq, unitVars, sysVars, stepVars, drifts, sliceFaults>>

\* Another program changes a setting or turns a controller off.
Drift ==
    /\ drifts < MaxDrifts /\ drifts' = drifts + 1
    /\ \/ \E s \in Slices, c \in Controllers, v \in Vals :
            cgroup' = [cgroup EXCEPT ![s][c] = v] /\ UNCHANGED subtree
       \/ \E c \in subtree \ {"cpuset"} : subtree' = subtree \ {c} /\ UNCHANGED cgroup
    /\ UNCHANGED <<knobVars, instanceSeq, unitVars, iocost, stepVars, changes, sliceFaults>>

\* The agent is killed; the next one has a higher sequence number.
NextAgent ==
    /\ instanceSeq < MaxAgents /\ instanceSeq' = instanceSeq + 1
    /\ applyPc' = "apply" /\ todo' = Slices /\ updated' = FALSE /\ fileChanged' = FALSE
    /\ ioStale' = TRUE
    /\ UNCHANGED <<want, disableSeqs, configlet, loadedUnits, sysVars, boundVars>>
-----------------------------------------------------------------------------
(* apply_slices.                                                            *)

\* maybe_reload(); a bench.json that changed too is applied first, and one
\* without io.cost parameters turns iocost on.
ReadSlices ==
    /\ applyPc = "idle" /\ fileChanged
    /\ applyPc' = "apply" /\ todo' = Slices /\ fileChanged' = FALSE /\ updated' = FALSE
    /\ ioStale' = TRUE
    /\ \E bench \in BOOLEAN : iocost' = (iocost \/ bench)
    /\ UNCHANGED <<want, disableSeqs, instanceSeq, configlet, loadedUnits, cgroup, subtree, boundVars>>

\* build_configlet(): only memory.low of the workload follows disable_seqs.
ConfigletOf(s) ==
    [c \in Controllers |-> IF c = "mem" /\ s = "workload" /\ Off("mem") THEN 0 ELSE want[s]]

\* apply_configlet(): a configlet that has not changed is left alone.  An error
\* ends apply_slices(), whatever is left to do.
ApplyConfiglet ==
    /\ applyPc = "apply" /\ todo # {}
    /\ \/ /\ configlet' = [configlet EXCEPT ![First] = ConfigletOf(First)]
          /\ updated' = (updated \/ configlet[First] # ConfigletOf(First))
          /\ todo' = todo \ {First}
          /\ UNCHANGED <<applyPc, sliceFaults>>
       \/ MayFail /\ applyPc' = "verify" /\ todo' = {} /\ UNCHANGED <<configlet, updated>>
    /\ UNCHANGED <<knobVars, instanceSeq, loadedUnits, sysVars, ioStale, changes, drifts>>

\* daemon_reload(): systemd sets what the configlets say.
DaemonReload ==
    /\ applyPc = "apply" /\ todo = {}
    /\ \/ /\ applyPc' = "onoff" /\ updated' = FALSE
          /\ loadedUnits' = IF updated THEN configlet ELSE loadedUnits
          /\ cgroup' = IF updated
                       THEN [s \in Slices |-> [c \in Controllers |->
                              IF c = "cpu" /\ "cpu" \notin subtree THEN cgroup[s][c] ELSE configlet[s][c]]]
                       ELSE cgroup
          /\ UNCHANGED sliceFaults
       \/ updated /\ MayFail /\ applyPc' = "verify" /\ UNCHANGED <<updated, loadedUnits, cgroup>>
    /\ UNCHANGED <<knobVars, instanceSeq, configlet, subtree, iocost, todo, ioStale, changes, drifts>>

IoCostOnOff ==
    /\ applyPc = "onoff" /\ applyPc' = "verify"
    /\ \/ iocost' = ~Off("io") /\ ioStale' = FALSE /\ UNCHANGED sliceFaults
       \/ MayFail /\ UNCHANGED <<iocost, ioStale>>
    /\ UNCHANGED <<knobVars, instanceSeq, unitVars, cgroup, subtree, todo, changes, drifts>>
-----------------------------------------------------------------------------
(* verify_and_fix_slices: the check right after a change, or every 10s.     *)

HealthCheckDue ==
    /\ applyPc = "idle" /\ ~fileChanged
    /\ applyPc' = "verify"
    /\ UNCHANGED <<knobVars, instanceSeq, unitVars, sysVars, todo, ioStale, boundVars>>

\* The file lists names, and "cpu" is also found in "cpuset".
Listed(c) == IF c = "cpu" THEN subtree \cap {"cpu", "cpuset"} # {} ELSE c \in subtree
Disagrees == (Listed("cpu") = Off("cpu")) \/ ~Listed("io") \/ ~Listed("memory")

\* fix_overrides(): the cpu controller is turned off everywhere, or on at the
\* root, where io and memory are turned on.
FixOverrides ==
    /\ applyPc = "verify"
    /\ \/ /\ IF ~Disagrees THEN UNCHANGED <<subtree, cgroup>>
             ELSE /\ subtree' = (IF Off("cpu") THEN subtree \ {"cpu"} ELSE subtree \cup {"cpu"})
                                \cup {"io", "memory"}
                  /\ cgroup' = IF Off("cpu") THEN [s \in Slices |-> [cgroup[s] EXCEPT !["cpu"] = 0]]
                                             ELSE cgroup
          /\ applyPc' = "fix" /\ todo' = Slices
          /\ UNCHANGED sliceFaults
       \/ MayFail /\ applyPc' = "idle" /\ UNCHANGED <<subtree, cgroup, todo>>
    /\ UNCHANGED <<knobVars, instanceSeq, unitVars, iocost, ioStale, changes, drifts>>

\* Mutant: memory is verified only where it is enabled.
FixedEnabled(s) ==
    [c \in Controllers |-> IF Off(c) /\ (c # "mem" \/ s = "workload") THEN cgroup[s][c] ELSE want[s]]

\* fix_slice_cpu() and fix_slice_io() leave a disabled controller alone;
\* fix_slice_mem() takes the protection of the workload away.
Fixed(s) ==
    [c \in Controllers |-> IF c = "mem" THEN (IF s = "workload" /\ Off("mem") THEN 0 ELSE want[s])
                           ELSE IF Off(c) THEN cgroup[s][c] ELSE want[s]]

\* A cgroup that cannot be read ends the check, also for the slices after it.
FixSlice ==
    /\ applyPc = "fix"
    /\ \/ todo = {} /\ applyPc' = "idle" /\ UNCHANGED <<cgroup, todo, sliceFaults>>
       \/ /\ todo # {}
          /\ cgroup' = [cgroup EXCEPT ![First] = Fixed(First)] /\ todo' = todo \ {First}
          /\ UNCHANGED <<applyPc, sliceFaults>>
       \/ /\ todo # {} /\ MayFail
          /\ applyPc' = "idle" /\ todo' = {} /\ UNCHANGED cgroup
    /\ UNCHANGED <<knobVars, instanceSeq, unitVars, subtree, iocost, ioStale, changes, drifts>>

SliceSteps ==
    ReadSlices \/ ApplyConfiglet \/ DaemonReload \/ IoCostOnOff \/ HealthCheckDue \/ FixOverrides \/ FixSlice
SliceNext == ChangeSlices \/ Drift \/ NextAgent \/ SliceSteps
SliceFairness == WF_sliceVars(SliceSteps)
SliceSpec == SliceInit /\ [][SliceNext]_sliceVars /\ SliceFairness
-----------------------------------------------------------------------------
(* Once nothing changes any more the controllers are as slices.json asks:   *)
(* on or off by the number of this agent, each setting of an enabled one as *)
(* asked, and the workload without protection when its memory control is    *)
(* disabled; whatever step failed or was cut short, in this agent or the    *)
(* one before it, except that a failed apply leaves iocost as it was        *)
(* (apply_slices, verify_and_fix_slices).                                   *)
Controlled ==
    /\ (("cpu" \in subtree) = ~Off("cpu")) /\ {"io", "memory"} \subseteq subtree
    /\ \A s \in Slices, c \in Controllers :
         ~Off(c) \/ (c = "mem" /\ s = "system") => cgroup[s][c] = want[s]
    /\ Off("mem") => cgroup["workload"]["mem"] = 0
    /\ ioStale \/ fileChanged \/ iocost = ~Off("io")
SlicesConverge == <>[]Controlled
=============================================================================
