------------------------- MODULE AgentRunnerProofs -------------------------
(***************************************************************************)
(* Proofs about the runner, for every set of commands, edits and faults:   *)
(* its types, that a benchmark has the machine to itself, that what it     *)
(* disturbs is restored, that only results still asked for are recorded,   *)
(* and that the runner implements BenchLifecycle.                          *)
(***************************************************************************)
EXTENDS AgentRunner, TLAPS

DiskType == [cmd : CmdType \cup {Garbage}, bench : BenchType \cup {Garbage},
             slice : SliceType \cup {Garbage}, oomd : OomdType \cup {Garbage}]

(* What is loaded from files that parse has the types of the loaded data.  *)
LEMMA LoadedTypes ==
    ASSUME disk \in DiskType, \A f \in Files : disk[f] # Garbage
    PROVE  disk \in MemType
BY DEF DiskType, MemType, Files

LEMMA ReloadedTypes ==
    ASSUME disk \in DiskType, mem \in MemType
    PROVE  Reloaded \in MemType
BY DEF DiskType, MemType, Files, Reloaded, Fresh, Parsed, Changed, Reloadable

(* A user may leave any file in a state that does not parse.               *)
LEMMA GarbageTypes ==
    ASSUME disk \in DiskType, NEW f \in Files
    PROVE  [disk EXCEPT ![f] = Garbage] \in DiskType
<1>1. CASE f = "cmd" BY <1>1 DEF DiskType
<1>2. CASE f = "bench" BY <1>2 DEF DiskType
<1>3. CASE f = "slice" BY <1>3 DEF DiskType
<1>4. CASE f = "oomd" BY <1>4 DEF DiskType
<1> QED BY <1>1, <1>2, <1>3, <1>4 DEF Files

(* A recorded result is a benchmark configuration, at any width.           *)
LEMMA RecordedTypes ==
    ASSUME mem \in MemType, NEW b \in Benches
    PROVE  Recorded(b) \in BenchType
BY SeqMaxAssumption DEF MemType, Recorded, RecordedSeq, BenchType, Seqs, Benches, CmdType

(* The calls into io.cost keep it well formed.                             *)
LEMMA IoCostTypes ==
    ASSUME NEW bench \in BenchType, NEW knobs \in SliceType, NEW on \in BOOLEAN,
           NEW io \in [on : BOOLEAN, params : Seqs]
    PROVE  /\ IoCostOnOff(on, io) \in [on : BOOLEAN, params : Seqs]
           /\ ApplyIoCost(bench, io) \in [on : BOOLEAN, params : Seqs]
           /\ ApplySlicesIo(knobs, io) \in [on : BOOLEAN, params : Seqs]
BY DEF IoCostOnOff, ApplyIoCost, ApplySlicesIo, Disabled, BenchType, Seqs

-----------------------------------------------------------------------------
(* Applied, for any target the command names, stays within names.          *)
LEMMA AppliedTypes ==
    ASSUME NEW cur \in SUBSET STRING, NEW target \in SUBSET STRING,
           NEW s \in Applied(cur, target)
    PROVE  s \in SUBSET STRING
BY DEF Applied

LEMMA OffTypes ==
    /\ Off \in OomdType
    /\ [on |-> FALSE, params |-> 0] \in [on : BOOLEAN, params : Seqs]
BY SeqMaxAssumption DEF Off, OomdType, Seqs

LEMMA InitTypes == Init => TypeOK
<1> SUFFICES ASSUME Init PROVE TypeOK
  OBVIOUS
<1>1. disk \in MemType
  BY InitDisksAssumption DEF Init
<1>2. disk \in DiskType /\ slices \in SliceType
  BY <1>1 DEF MemType, DiskType, Init
<1> QED BY <1>1, <1>2, OffTypes DEF Init, TypeOK, DiskType

LEMMA StartTypes == TypeOK /\ Start => TypeOK'
<1> SUFFICES ASSUME TypeOK, Start PROVE TypeOK'
  OBVIOUS
<1>1. disk \in MemType
  BY LoadedTypes DEF TypeOK, Start, DiskType
<1>2. iocost' \in [on : BOOLEAN, params : Seqs]
  <2>1. ApplyIoCost(disk.bench, iocost) \in [on : BOOLEAN, params : Seqs]
    BY <1>1, IoCostTypes DEF TypeOK, MemType
  <2> QED BY <1>1, <2>1, IoCostTypes DEF Start, MemType
<1>3. oomd' \in OomdType
  BY <1>1 DEF Start, OomdApply, Off, OomdType, MemType
<1> QED BY <1>1, <1>2, <1>3, BoundsAssumption, EnforceAssumption
        DEF Start, TypeOK, MemType, Files, work, control

LEMMA TeardownTypes == TypeOK /\ Teardown => TypeOK'
<1> SUFFICES ASSUME TypeOK, Teardown PROVE TypeOK'
  OBVIOUS
<1>1. oomd' \in OomdType /\ iocost' \in [on : BOOLEAN, params : Seqs]
  BY OffTypes DEF Teardown
<1>2. svc' \in [Benches -> {"None", "Running", "Exited", "Failed"}]
  BY DEF Teardown
<1> QED BY <1>1, <1>2 DEF TypeOK, Teardown, files

(* One conjunct of TypeOK' per thing an apply_cmd call may change.         *)
LEMMA ApplyTypes == TypeOK /\ Apply => TypeOK'
<1> SUFFICES ASSUME TypeOK, Apply PROVE TypeOK'
  OBVIOUS
<1> USE DEF TypeOK, work, control, files
<1>0. ASSUME ApplyCmd
      PROVE  /\ cmdPending' \in BOOLEAN
             /\ ack' \in Nat
             /\ UNCHANGED <<mem, disk, age, edits, starts>>
  BY <1>0 DEF ApplyCmd, MemType, CmdType
<1>1. CASE SkipApply BY <1>1 DEF SkipApply
<1>2. CASE KnobsFail BY <1>0, <1>2 DEF KnobsFail
<1>3. CASE StartIoCostBench
  BY <1>0, <1>3, IoCostTypes DEF StartIoCostBench, MemType, Benches, IoCostOnOff
<1>4. CASE StartIoCostBenchFail
  BY <1>0, <1>4 DEF StartIoCostBenchFail, IoCostOnOff
<1>5. ASSUME PrepareHashdBench
      PROVE  balloon' \in Nat /\ oomd' \in OomdType
  BY <1>5 DEF PrepareHashdBench, MemType, CmdType, Off, OomdType
<1>6. CASE StartHashdBench
  BY <1>0, <1>5, <1>6 DEF StartHashdBench, PrepareHashdBench, Benches
<1>7. CASE StartHashdBenchFail
  BY <1>0, <1>5, <1>7 DEF StartHashdBenchFail, PrepareHashdBench
<1>8. CASE StayIdle BY <1>0, <1>8 DEF StayIdle
<1>9. CASE BecomeRunning BY <1>0, <1>9 DEF BecomeRunning
<1>10. CASE YieldToBench BY <1>0, <1>10 DEF YieldToBench, BecomeIdle
<1>11. CASE ApplyWorkloads
  <2>1. mem.cmd \in CmdType
    BY DEF MemType
  <2>2. /\ sysloads' \in SUBSET STRING
        /\ sideloads' \in SUBSET STRING
    BY <1>11, <2>1, AppliedTypes DEF ApplyWorkloads, CmdType
  <2> QED BY <1>0, <1>11, <2>1, <2>2 DEF ApplyWorkloads, CmdType
<1>12. CASE CancelBench BY <1>0, <1>12 DEF CancelBench, BecomeIdle
<1>13. CASE KeepBench BY <1>0, <1>13 DEF KeepBench
<1> QED BY <1>1, <1>2, <1>3, <1>4, <1>6, <1>7, <1>8, <1>9, <1>10, <1>11, <1>12, <1>13
        DEF Apply

LEMMA CheckTypes == TypeOK /\ Check => TypeOK'
<1> SUFFICES ASSUME TypeOK, Check PROVE TypeOK'
  OBVIOUS
<1> USE DEF TypeOK, work, control, CheckCompletions
<1>0. ASSUME NEW b \in Benches
      PROVE  /\ Recorded(b) \in BenchType
             /\ [mem EXCEPT !.bench = Recorded(b)] \in MemType
             /\ SaveBench(Recorded(b)) => disk' \in DiskType /\ age' \in [Files -> {"loaded", "young", "settled"}]
  BY RecordedTypes DEF MemType, DiskType, SaveBench, Files
<1>1. CASE NothingCompleted BY <1>1 DEF NothingCompleted
<1>2. CASE ApplyResultFail
  BY <1>0, <1>2 DEF ApplyResultFail, Finished, Benches, DiskType
<1>3. ASSUME NEW b \in Benches, FinishBench(b) PROVE TypeOK'
  <2>1. iocost' \in [on : BOOLEAN, params : Seqs]
    BY <1>0, <1>3, IoCostTypes DEF FinishBench, SliceType, MemType
  <2> QED BY <1>0, <1>3, <2>1 DEF FinishBench, Finished, BecomeIdle, DiskType
<1>4. ASSUME NEW b \in Benches, LoadResultFail(b) PROVE TypeOK'
  BY <1>4 DEF LoadResultFail, Finished
<1>5. ASSUME NEW b \in Benches, SaveResultFail(b) PROVE TypeOK'
  BY <1>0, <1>5 DEF SaveResultFail, Finished
<1>6. ASSUME NEW b \in Benches, BenchLost(b) PROVE TypeOK'
  BY <1>6 DEF BenchLost, BecomeIdle
<1> QED BY <1>1, <1>2, <1>3, <1>4, <1>5, <1>6 DEF Check

LEMMA ReloadTypes == TypeOK /\ MaybeReload => TypeOK'
<1> SUFFICES ASSUME TypeOK, MaybeReload PROVE TypeOK'
  OBVIOUS
<1>1. Reloaded \in MemType
  BY ReloadedTypes DEF TypeOK, DiskType
<1>2. iocost' \in [on : BOOLEAN, params : Seqs] /\ slices' \in SliceType
  <2>1. ApplyIoCost(Reloaded.bench, iocost) \in [on : BOOLEAN, params : Seqs]
    BY <1>1, IoCostTypes DEF TypeOK, MemType
  <2> QED BY <1>1, <2>1, IoCostTypes DEF MaybeReload, MemType, TypeOK
<1>3. oomd' \in OomdType
  BY <1>1 DEF MaybeReload, OomdApply, Off, OomdType, MemType, TypeOK
<1>4. age' \in [Files -> {"loaded", "young", "settled"}]
  BY DEF MaybeReload, TypeOK
<1>5. sideloader' \in BOOLEAN /\ cmdPending' \in BOOLEAN /\ forceApply' \in BOOLEAN
  BY DEF MaybeReload, Pending
<1> QED BY <1>1, <1>2, <1>3, <1>4, <1>5 DEF MaybeReload, TypeOK, work

LEMMA EnvironmentTypes == TypeOK /\ Environment => TypeOK'
<1> SUFFICES ASSUME TypeOK, Environment PROVE TypeOK'
  OBVIOUS
<1> USE DEF TypeOK, work, control, files
<1>1. ASSUME NEW f \in Files, NEW c, Edit(f, c), [disk EXCEPT ![f] = c] \in DiskType
      PROVE  TypeOK'
  BY <1>1 DEF Edit, DiskType
<1>2. CASE UserEdits
  <2>1. ASSUME NEW c \in Cmds, Edit("cmd", c) PROVE TypeOK'
    BY <1>1, <2>1, CmdsAssumption DEF DiskType, Files
  <2>2. ASSUME NEW c \in BenchEdits, Edit("bench", c) PROVE TypeOK'
    BY <1>1, <2>2, EditsAssumption DEF DiskType, Files
  <2>3. ASSUME NEW c \in SliceEdits, Edit("slice", c) PROVE TypeOK'
    BY <1>1, <2>3, EditsAssumption DEF DiskType, Files
  <2>4. ASSUME NEW c \in OomdEdits, Edit("oomd", c) PROVE TypeOK'
    BY <1>1, <2>4, EditsAssumption DEF DiskType, Files
  <2>5. ASSUME NEW f \in Files, Edit(f, Garbage) PROVE TypeOK'
    BY <1>1, <2>5, GarbageTypes DEF DiskType
  <2> QED BY <1>2, <2>1, <2>2, <2>3, <2>4, <2>5 DEF UserEdits
<1>3. ASSUME NEW f \in Files, Settle(f) PROVE TypeOK'
  BY <1>3 DEF Settle
<1>4. ASSUME NEW b \in Benches, BenchExits(b) \/ BenchFails(b) PROVE TypeOK'
  BY <1>4 DEF BenchExits, BenchFails
<1> QED BY <1>2, <1>3, <1>4 DEF Environment

(* Every variable keeps its type: in particular no file that fails to      *)
(* parse is ever loaded, and sequence numbers keep their width.            *)
THEOREM TypeCorrect == Spec => []TypeOK
<1>1. TypeOK /\ [Next]_vars => TypeOK'
  <2> SUFFICES ASSUME TypeOK, [Next]_vars PROVE TypeOK'
    OBVIOUS
  <2>1. CASE Start BY <2>1, StartTypes
  <2>2. CASE Exit \/ Panic BY <2>2, TeardownTypes DEF Exit, Panic
  <2>3. CASE Apply BY <2>3, ApplyTypes
  <2>4. CASE Check BY <2>4, CheckTypes
  <2>5. CASE DropRemoved BY <2>5 DEF DropRemoved, TypeOK, control, files
  <2>6. CASE MaybeReload BY <2>6, ReloadTypes
  <2>7. CASE Environment BY <2>7, EnvironmentTypes
  <2>8. CASE UNCHANGED vars BY <2>8 DEF vars, work, control, files, TypeOK
  <2> QED BY <2>1, <2>2, <2>3, <2>4, <2>5, <2>6, <2>7, <2>8 DEF Next, Runner
<1> QED BY <1>1, InitTypes, PTL DEF Spec
-----------------------------------------------------------------------------
(* A benchmark has the machine to itself.                                  *)

LEMMA ExclusiveApply == TypeOK /\ ExclusiveInv /\ Apply => ExclusiveInv'
<1> SUFFICES ASSUME TypeOK, ExclusiveInv, Apply PROVE ExclusiveInv'
  OBVIOUS
<1> USE DEF TypeOK, ExclusiveInv, work, control, files, ApplyCmd, BenchState, Benches
<1>1. CASE SkipApply BY <1>1 DEF SkipApply
<1>2. CASE KnobsFail BY <1>2 DEF KnobsFail
<1>3. CASE StartIoCostBench BY <1>3 DEF StartIoCostBench
<1>4. CASE StartIoCostBenchFail BY <1>4 DEF StartIoCostBenchFail
<1>5. CASE StartHashdBench BY <1>5 DEF StartHashdBench, PrepareHashdBench
<1>6. CASE StartHashdBenchFail BY <1>6 DEF StartHashdBenchFail, PrepareHashdBench
<1>7. CASE StayIdle BY <1>7 DEF StayIdle
<1>8. CASE BecomeRunning BY <1>8 DEF BecomeRunning
<1>9. CASE YieldToBench BY <1>9 DEF YieldToBench, BecomeIdle
<1>10. CASE ApplyWorkloads BY <1>10 DEF ApplyWorkloads
<1>11. CASE CancelBench BY <1>11 DEF CancelBench, BecomeIdle
<1>12. CASE KeepBench BY <1>12 DEF KeepBench
<1> QED BY <1>1, <1>2, <1>3, <1>4, <1>5, <1>6, <1>7, <1>8, <1>9, <1>10, <1>11, <1>12
        DEF Apply

LEMMA ExclusiveCheck == TypeOK /\ ExclusiveInv /\ Check => ExclusiveInv'
<1> SUFFICES ASSUME TypeOK, ExclusiveInv, Check PROVE ExclusiveInv'
  OBVIOUS
<1> USE DEF TypeOK, ExclusiveInv, work, control, CheckCompletions, BenchState, Benches
<1>1. CASE NothingCompleted BY <1>1 DEF NothingCompleted
<1>2. CASE ApplyResultFail BY <1>2 DEF ApplyResultFail, Finished
<1>3. ASSUME NEW b \in Benches, FinishBench(b) \/ BenchLost(b)
      PROVE  ExclusiveInv'
  BY <1>3 DEF FinishBench, BenchLost, Finished, BecomeIdle
<1>4. ASSUME NEW b \in Benches, LoadResultFail(b) \/ SaveResultFail(b)
      PROVE  ExclusiveInv'
  BY <1>4 DEF LoadResultFail, SaveResultFail, Finished
<1> QED BY <1>1, <1>2, <1>3, <1>4 DEF Check

LEMMA ExclusiveEnvironment == TypeOK /\ ExclusiveInv /\ Environment => ExclusiveInv'
<1> SUFFICES ASSUME TypeOK, ExclusiveInv, Environment PROVE ExclusiveInv'
  OBVIOUS
<1> USE DEF TypeOK, ExclusiveInv, work, control, files, Benches
<1>1. ASSUME NEW f, NEW c, Edit(f, c) PROVE ExclusiveInv'
  BY <1>1 DEF Edit
<1>2. ASSUME NEW f \in Files, Settle(f) PROVE ExclusiveInv'
  BY <1>2 DEF Settle
<1>3. ASSUME NEW b \in Benches, BenchExits(b) \/ BenchFails(b) PROVE ExclusiveInv'
  BY <1>3 DEF BenchExits, BenchFails
<1> QED BY <1>1, <1>2, <1>3 DEF Environment, UserEdits

LEMMA ExclusiveInductive == Spec => []ExclusiveInv
<1>1. Init => ExclusiveInv
  BY DEF Init, ExclusiveInv, BenchState, Benches
<1>2. TypeOK /\ ExclusiveInv /\ [Next]_vars => ExclusiveInv'
  <2> SUFFICES ASSUME TypeOK, ExclusiveInv, [Next]_vars PROVE ExclusiveInv'
    OBVIOUS
  <2>1. CASE Start BY <2>1 DEF Start, ExclusiveInv, work
  <2>2. CASE Exit \/ Panic
    BY <2>2 DEF Exit, Panic, Teardown, ExclusiveInv, Benches, BenchState
  <2>3. CASE Apply BY <2>3, ExclusiveApply
  <2>4. CASE Check BY <2>4, ExclusiveCheck
  <2>5. CASE DropRemoved BY <2>5 DEF DropRemoved, ExclusiveInv
  <2>6. CASE MaybeReload BY <2>6 DEF MaybeReload, ExclusiveInv, work
  <2>7. CASE Environment BY <2>7, ExclusiveEnvironment
  <2>8. CASE UNCHANGED vars BY <2>8 DEF vars, work, ExclusiveInv
  <2> QED BY <2>1, <2>2, <2>3, <2>4, <2>5, <2>6, <2>7, <2>8 DEF Next, Runner
<1> QED BY <1>1, <1>2, TypeCorrect, PTL DEF Spec

(* Outside Running no rd-hashd and no sysload runs, and a benchmark's      *)
(* service exists exactly in its state, whatever fails: become_idle and    *)
(* the order of Runner::run's loop.                                        *)
THEOREM BenchAlone == Spec => []BenchExclusive
<1>1. ExclusiveInv => BenchExclusive
  BY DEF ExclusiveInv, BenchExclusive, InBench, BenchState, Benches
<1> QED BY <1>1, ExclusiveInductive, PTL
-----------------------------------------------------------------------------
(* What a benchmark disturbs is restored.  The theorems exclude exactly    *)
(* the failures after which it is not: a benchmark that does not start,    *)
(* and a slice configuration that could not be applied.                    *)

NoLostSettings ==
    Faults \cap {"iocost_new", "iocost_start", "hashd_start", "slices"} = {}

SettingsInv == ForceInv /\ IoCostInv /\ OomdInv

LEMMA SettingsApply ==
    NoLostSettings /\ TypeOK /\ SettingsInv /\ Apply => SettingsInv'
<1> SUFFICES ASSUME NoLostSettings, TypeOK, SettingsInv, Apply PROVE SettingsInv'
  OBVIOUS
<1> USE DEF SettingsInv, ForceInv, IoCostInv, OomdInv, ToBeApplied, InBench, BenchState,
        Benches, control, files, ApplyCmd
<1>1. CASE SkipApply BY <1>1 DEF SkipApply
<1>2. CASE KnobsFail BY <1>2 DEF KnobsFail
<1>3. CASE StartIoCostBench
  <2>1. EnforceIo => iocost'.on = FALSE
    BY <1>3 DEF StartIoCostBench, IoCostOnOff, TypeOK
  <2> QED BY <1>3, <2>1 DEF StartIoCostBench
<1>4. CASE StartIoCostBenchFail
  BY <1>4 DEF StartIoCostBenchFail, NoLostSettings, Fault
<1>5. CASE StartHashdBench BY <1>5 DEF StartHashdBench, PrepareHashdBench
<1>6. CASE StartHashdBenchFail
  BY <1>6 DEF StartHashdBenchFail, NoLostSettings, Fault
<1>7. CASE StayIdle BY <1>7 DEF StayIdle
<1>8. CASE BecomeRunning BY <1>8 DEF BecomeRunning
<1>9. CASE YieldToBench BY <1>9 DEF YieldToBench, BecomeIdle
<1>10. CASE ApplyWorkloads BY <1>10 DEF ApplyWorkloads
<1>11. CASE CancelBench BY <1>11 DEF CancelBench, BecomeIdle
<1>12. CASE KeepBench BY <1>12 DEF KeepBench
<1> QED BY <1>1, <1>2, <1>3, <1>4, <1>5, <1>6, <1>7, <1>8, <1>9, <1>10, <1>11, <1>12
        DEF Apply

LEMMA SettingsCheck == TypeOK /\ SettingsInv /\ Check => SettingsInv'
<1> SUFFICES ASSUME TypeOK, SettingsInv, Check PROVE SettingsInv'
  OBVIOUS
<1> USE DEF SettingsInv, ForceInv, IoCostInv, OomdInv, ToBeApplied, InBench, BenchState,
        Benches, control, CheckCompletions
<1>1. CASE NothingCompleted BY <1>1 DEF NothingCompleted
<1>2. CASE ApplyResultFail
  BY <1>2 DEF ApplyResultFail, Finished, TypeOK, MemType
<1>3. ASSUME NEW b \in Benches, FinishBench(b) PROVE SettingsInv'
  BY <1>3 DEF FinishBench, Finished, BecomeIdle
<1>4. ASSUME NEW b \in Benches, BenchLost(b) PROVE SettingsInv'
  BY <1>4 DEF BenchLost, BecomeIdle
<1>5. ASSUME NEW b \in Benches, LoadResultFail(b) PROVE SettingsInv'
  BY <1>5 DEF LoadResultFail, Finished
<1>6. ASSUME NEW b \in Benches, SaveResultFail(b) PROVE SettingsInv'
  BY <1>6 DEF SaveResultFail, Finished, TypeOK, MemType
<1> QED BY <1>1, <1>2, <1>3, <1>4, <1>5, <1>6 DEF Check

(* The reload is where force_apply turns into applied configuration.       *)
LEMMA SettingsReload ==
    NoLostSettings /\ TypeOK /\ SettingsInv /\ MaybeReload => SettingsInv'
<1> SUFFICES ASSUME NoLostSettings, TypeOK, SettingsInv, MaybeReload PROVE SettingsInv'
  OBVIOUS
<1>1. ForceInv'
  BY DEF SettingsInv, ForceInv, MaybeReload, InBench, BenchState, Benches
<1>2. CASE InBench
  <2>1. ~Re("bench") /\ ~Re("slice") /\ ~Re("oomd")
    BY <1>2 DEF Re, Parsed, Changed, Reloadable
  <2>2. UNCHANGED <<state, oomd, iocost>> /\ pc' = "apply"
    BY <2>1 DEF MaybeReload, SlicesApplied
  <2>3. mem'.slice = mem.slice /\ mem'.oomd = mem.oomd
    BY <1>2 DEF MaybeReload, Reloaded, Fresh, Parsed, Changed, Reloadable
  <2>4. pc = "reload"
    BY DEF MaybeReload
  <2> QED BY <1>1, <1>2, <2>2, <2>3, <2>4
          DEF SettingsInv, IoCostInv, OomdInv, ToBeApplied, InBench, BenchState, Benches
<1>3. CASE ~InBench
  <2>1. /\ Re("bench") \/ Re("slice") => SlicesApplied = {TRUE}
        /\ ~(Re("bench") \/ Re("slice")) => SlicesApplied = {FALSE}
    BY DEF SlicesApplied, NoLostSettings, Fault
  <2>2. forceApply => Re("bench") /\ Re("slice") /\ Re("oomd")
    BY <1>3 DEF Re
  <2>3. EnforceIo => (iocost'.on <=> ~Disabled("io", mem'.slice))
    <3> SUFFICES ASSUME EnforceIo PROVE iocost'.on <=> ~Disabled("io", mem'.slice)
      OBVIOUS
    <3>1. CASE Re("bench") \/ Re("slice")
      <4> DEFINE io == IF Re("bench") THEN ApplyIoCost(Reloaded.bench, iocost) ELSE iocost
      <4>1. iocost' = ApplySlicesIo(Reloaded.slice, io) /\ mem' = Reloaded
        <5>1. SlicesApplied = {TRUE}
          BY <3>1, <2>1
        <5> QED BY <5>1 DEF MaybeReload
      <4>2. io \in [on : BOOLEAN, params : Seqs]
        <5>1. Reloaded \in MemType
          BY ReloadedTypes DEF TypeOK, DiskType
        <5> QED BY <5>1, IoCostTypes DEF TypeOK, MemType
      <4> HIDE DEF io
      <4> QED BY <4>1, <4>2 DEF ApplySlicesIo, IoCostOnOff, Disabled
    <3>2. CASE ~(Re("bench") \/ Re("slice"))
      <4>1. iocost' = iocost /\ ~forceApply
        BY <3>2, <2>1, <2>2 DEF MaybeReload
      <4>2. mem'.slice = mem.slice
        BY <3>2 DEF MaybeReload, Reloaded, Fresh, Re
      <4>3. pc = "reload" /\ state # "BenchIoCost"
        BY <1>3 DEF MaybeReload, InBench, BenchState, Benches
      <4> QED BY <4>1, <4>2, <4>3 DEF SettingsInv, IoCostInv, ToBeApplied
    <3> QED BY <3>1, <3>2
  <2>4. EnforceOomd => oomd' = OomdApply(mem'.oomd)
    <3> SUFFICES ASSUME EnforceOomd PROVE oomd' = OomdApply(mem'.oomd)
      OBVIOUS
    <3>1. CASE Re("bench") \/ Re("oomd")
      BY <3>1 DEF MaybeReload, OomdApply
    <3>2. CASE ~(Re("bench") \/ Re("oomd"))
      <4>1. oomd' = oomd /\ ~forceApply
        BY <3>2, <2>2 DEF MaybeReload
      <4>2. mem'.oomd = mem.oomd
        BY <3>2 DEF MaybeReload, Reloaded, Fresh, Re
      <4>3. pc = "reload" /\ state # "BenchHashd"
        BY <1>3 DEF MaybeReload, InBench, BenchState, Benches
      <4> QED BY <4>1, <4>2, <4>3 DEF SettingsInv, OomdInv, ToBeApplied, OomdApply
    <3> QED BY <3>1, <3>2
  <2>5. state' # "BenchHashd" /\ state' # "BenchIoCost"
    BY <1>3 DEF MaybeReload, InBench, BenchState, Benches
  <2> QED BY <1>1, <2>3, <2>4, <2>5 DEF SettingsInv, IoCostInv, OomdInv
<1> QED BY <1>2, <1>3

LEMMA SettingsEnvironment == SettingsInv /\ Environment => SettingsInv'
<1> SUFFICES ASSUME SettingsInv, Environment PROVE SettingsInv'
  OBVIOUS
<1> USE DEF SettingsInv, ForceInv, IoCostInv, OomdInv, ToBeApplied, InBench, control
<1>1. ASSUME NEW f, NEW c, Edit(f, c) PROVE SettingsInv'
  BY <1>1 DEF Edit
<1>2. ASSUME NEW f \in Files, Settle(f) PROVE SettingsInv'
  BY <1>2 DEF Settle
<1>3. ASSUME NEW b \in Benches, BenchExits(b) \/ BenchFails(b) PROVE SettingsInv'
  BY <1>3 DEF BenchExits, BenchFails
<1> QED BY <1>1, <1>2, <1>3 DEF Environment, UserEdits

LEMMA SettingsStart == TypeOK /\ SettingsInv /\ Start => SettingsInv'
<1> SUFFICES ASSUME TypeOK, SettingsInv, Start PROVE SettingsInv'
  OBVIOUS
<1>1. disk \in MemType
  BY LoadedTypes DEF TypeOK, Start, DiskType
<1>2. ApplyIoCost(disk.bench, iocost) \in [on : BOOLEAN, params : Seqs]
  BY <1>1, IoCostTypes DEF TypeOK, MemType
<1>3. EnforceIo => (iocost'.on <=> ~Disabled("io", mem'.slice))
  BY <1>2 DEF Start, ApplySlicesIo, IoCostOnOff, Disabled
<1>4. EnforceOomd => oomd' = OomdApply(mem'.oomd)
  BY DEF Start, OomdApply
<1>5. state' = "Idle" /\ pc' = "apply" /\ forceApply' = FALSE
  BY DEF Start, SettingsInv, ForceInv, TypeOK
<1> QED BY <1>3, <1>4, <1>5
        DEF SettingsInv, ForceInv, IoCostInv, OomdInv, InBench, BenchState, Benches

LEMMA SettingsInductive == NoLostSettings => (Spec => []SettingsInv)
<1> SUFFICES ASSUME NoLostSettings PROVE Spec => []SettingsInv
  OBVIOUS
<1>1. Init => SettingsInv
  BY DEF Init, SettingsInv, ForceInv, IoCostInv, OomdInv, ToBeApplied, InBench,
         BenchState, Benches
<1>2. TypeOK /\ SettingsInv /\ [Next]_vars => SettingsInv'
  <2> SUFFICES ASSUME TypeOK, SettingsInv, [Next]_vars PROVE SettingsInv'
    OBVIOUS
  <2> USE DEF ForceInv, IoCostInv, OomdInv, ToBeApplied, InBench, BenchState, Benches
  <2>1. CASE Start BY <2>1, SettingsStart
  <2>2. CASE Exit \/ Panic BY <2>2 DEF Exit, Panic, Teardown, SettingsInv
  <2>3. CASE Apply BY <2>3, SettingsApply
  <2>4. CASE Check BY <2>4, SettingsCheck
  <2>5. CASE DropRemoved BY <2>5 DEF DropRemoved, control, SettingsInv
  <2>6. CASE MaybeReload BY <2>6, SettingsReload
  <2>7. CASE Environment BY <2>7, SettingsEnvironment
  <2>8. CASE UNCHANGED vars BY <2>8 DEF vars, control, SettingsInv
  <2> QED BY <2>1, <2>2, <2>3, <2>4, <2>5, <2>6, <2>7, <2>8 DEF Next, Runner
<1> QED BY <1>1, <1>2, TypeCorrect, PTL DEF Spec

(* The iocost benchmark runs with io.cost off, and workloads and the hashd *)
(* benchmark with io.cost as disable_seqs.io says.                         *)
THEOREM IoCostRestored == NoLostSettings => (Spec => []IoCostFollowsKnobs)
<1> SUFFICES ASSUME NoLostSettings PROVE Spec => []IoCostFollowsKnobs
  OBVIOUS
<1>1. SettingsInv => IoCostFollowsKnobs
  BY DEF SettingsInv, ForceInv, IoCostInv, ToBeApplied, IoCostFollowsKnobs
<1> QED BY <1>1, SettingsInductive, PTL

(* Oomd is off during the hashd benchmark and back, with the loaded        *)
(* configuration, whenever workloads run.                                  *)
THEOREM OomdRestored == NoLostSettings => (Spec => []OomdGuards)
<1> SUFFICES ASSUME NoLostSettings PROVE Spec => []OomdGuards
  OBVIOUS
<1>1. SettingsInv => OomdGuards
  BY DEF SettingsInv, ForceInv, OomdInv, ToBeApplied, OomdGuards
<1> QED BY <1>1, SettingsInductive, PTL
-----------------------------------------------------------------------------
(* A result is recorded only for a request that still stands.  The theorem *)
(* excludes the failures after which it is not: setting swappiness or      *)
(* zswap, which forgets the command before the benchmark is looked at; and *)
(* a save that fails while hashd_seq is u64::MAX, which then records the   *)
(* same benchmark once more.                                               *)

AsksOnce(cmd) == cmd # Garbage => cmd.hashdSeq # SeqMax
RequestsHold ==
    /\ "knobs" \notin Faults
    /\ "save" \in Faults => /\ \A c \in Cmds : AsksOnce(c)
                            /\ \A d \in InitDisks : AsksOnce(d.cmd)

\* The result of b is wanted, or is on record and would be recorded unchanged.
Stands(b) ==
    \/ IF b = "hashd" THEN HashdWanted ELSE IoCostWanted
    \/ Recorded(b) = mem.bench

\* Whatever is benchmarked stands, unless a command is yet to be looked at; and
\* none is when completions are.
RequestInv ==
    /\ pc = "repeat" => state = "Running"
    /\ cmdPending => pc = "apply"
    /\ \A b \in Benches : state = BenchState(b) => cmdPending \/ Stands(b)
    /\ "save" \in Faults => AsksOnce(mem.cmd) /\ AsksOnce(disk.cmd)

(* A step that keeps the loaded data keeps what stands.                    *)
LEMMA StandsKept ==
    ASSUME NEW b \in Benches, mem'.cmd = mem.cmd, mem'.bench = mem.bench
    PROVE  Stands(b)' <=> Stands(b)
BY DEF Stands, HashdWanted, IoCostWanted, Recorded, RecordedSeq

(* What has been recorded would be recorded unchanged.                     *)
LEMMA RecordedStands ==
    ASSUME TypeOK, NEW b \in Benches, mem' = [mem EXCEPT !.bench = Recorded(b)],
           b = "hashd" => mem.cmd.hashdSeq # SeqMax
    PROVE  Stands(b)'
<1>1. /\ mem.bench \in BenchType
      /\ mem'.cmd = mem.cmd /\ mem'.bench = Recorded(b)
  BY DEF TypeOK, MemType
<1>2. CASE b = "hashd"
  <2>1. Recorded(b) = [hashdSeq |-> mem.cmd.hashdSeq, iocostSeq |-> mem.bench.iocostSeq]
    BY <1>1, <1>2 DEF Recorded, RecordedSeq, BenchType
  <2>2. [mem'.bench EXCEPT !.hashdSeq = mem.cmd.hashdSeq] = mem'.bench
    BY <1>1, <2>1
  <2>3. Recorded(b)' = mem'.bench
    BY <1>1, <1>2, <2>2 DEF Recorded, RecordedSeq
  <2> QED BY <2>3 DEF Stands
<1>3. CASE b = "iocost"
  <2>1. Recorded(b) = [hashdSeq |-> mem.bench.hashdSeq, iocostSeq |-> mem.cmd.iocostSeq]
    BY <1>1, <1>3 DEF Recorded, RecordedSeq, BenchType
  <2>2. Recorded(b)' = mem'.bench
    BY <1>1, <1>3, <2>1 DEF Recorded, RecordedSeq
  <2> QED BY <2>2 DEF Stands
<1> QED BY <1>2, <1>3 DEF Benches

LEMMA RequestApply == RequestsHold /\ TypeOK /\ RequestInv /\ Apply => RequestInv'
<1> SUFFICES ASSUME RequestsHold, TypeOK, RequestInv, Apply PROVE RequestInv'
  OBVIOUS
<1>1. mem' = mem /\ disk' = disk
  BY DEF Apply, SkipApply, KnobsFail, StartIoCostBench, StartIoCostBenchFail,
         StartHashdBench, StartHashdBenchFail, PrepareHashdBench, StayIdle, BecomeRunning,
         YieldToBench, ApplyWorkloads, CancelBench, KeepBench, ApplyCmd, files
<1>2. \A b \in Benches : Stands(b)' <=> Stands(b)
  BY <1>1, StandsKept
<1>3. "save" \in Faults => AsksOnce(mem.cmd)' /\ AsksOnce(disk.cmd)'
  BY <1>1 DEF RequestInv, AsksOnce
<1> USE DEF RequestInv, BenchState, Benches, ApplyCmd, Stands
<1>4. CASE SkipApply BY <1>2, <1>3, <1>4 DEF SkipApply
<1>5. CASE KnobsFail BY <1>5 DEF KnobsFail, RequestsHold, Fault
<1>6. CASE StartIoCostBench BY <1>2, <1>3, <1>6 DEF StartIoCostBench
<1>7. CASE StartIoCostBenchFail BY <1>3, <1>7 DEF StartIoCostBenchFail
<1>8. CASE StartHashdBench BY <1>2, <1>3, <1>8 DEF StartHashdBench, PrepareHashdBench
<1>9. CASE StartHashdBenchFail BY <1>3, <1>9 DEF StartHashdBenchFail, PrepareHashdBench
<1>10. CASE StayIdle BY <1>3, <1>10 DEF StayIdle
<1>11. CASE BecomeRunning BY <1>3, <1>11 DEF BecomeRunning
<1>12. CASE YieldToBench BY <1>3, <1>12 DEF YieldToBench, BecomeIdle
<1>13. CASE ApplyWorkloads BY <1>3, <1>13 DEF ApplyWorkloads
<1>14. CASE CancelBench BY <1>3, <1>14 DEF CancelBench, BecomeIdle
<1>15. CASE KeepBench BY <1>2, <1>3, <1>15 DEF KeepBench
<1> QED BY <1>4, <1>5, <1>6, <1>7, <1>8, <1>9, <1>10, <1>11, <1>12, <1>13, <1>14, <1>15
        DEF Apply

LEMMA RequestCheck == TypeOK /\ RequestInv /\ Check => RequestInv'
<1> SUFFICES ASSUME TypeOK, RequestInv, Check PROVE RequestInv'
  OBVIOUS
<1> USE DEF CheckCompletions, RequestInv, BenchState, Benches
<1>1. ASSUME UNCHANGED <<mem, disk>>
      PROVE  /\ \A b \in Benches : Stands(b)' <=> Stands(b)
             /\ "save" \in Faults => AsksOnce(mem.cmd)' /\ AsksOnce(disk.cmd)'
  BY <1>1, StandsKept DEF AsksOnce
<1>2. CASE NothingCompleted BY <1>1, <1>2 DEF NothingCompleted
<1>3. ASSUME NEW b \in Benches, mem' = [mem EXCEPT !.bench = Recorded(b)],
             disk'.cmd = disk.cmd
      PROVE  "save" \in Faults => AsksOnce(mem.cmd)' /\ AsksOnce(disk.cmd)'
  BY <1>3 DEF AsksOnce, TypeOK, MemType
<1>4. CASE ApplyResultFail
  <2>1. Stands("iocost")'
    BY <1>4, RecordedStands DEF ApplyResultFail
  <2>2. disk'.cmd = disk.cmd
    BY <1>4 DEF ApplyResultFail, SaveBench, TypeOK
  <2> QED BY <1>3, <1>4, <2>1, <2>2 DEF ApplyResultFail, Finished
<1>5. ASSUME NEW b \in Benches, FinishBench(b) PROVE RequestInv'
  <2>1. disk'.cmd = disk.cmd
    BY <1>5 DEF FinishBench, SaveBench, TypeOK
  <2> QED BY <1>3, <1>5, <2>1 DEF FinishBench, Finished, BecomeIdle
<1>6. ASSUME NEW b \in Benches, LoadResultFail(b) PROVE RequestInv'
  BY <1>1, <1>6 DEF LoadResultFail, Finished
<1>7. ASSUME NEW b \in Benches, SaveResultFail(b) PROVE RequestInv'
  <2>1. mem.cmd # Garbage
    BY GarbageAssumption DEF TypeOK, MemType
  <2>2. mem.cmd.hashdSeq # SeqMax
    BY <1>7, <2>1 DEF SaveResultFail, Fault, AsksOnce
  <2>3. Stands(b)'
    BY <1>7, <2>2, RecordedStands DEF SaveResultFail
  <2> QED BY <1>3, <1>7, <2>3 DEF SaveResultFail, Finished
<1>8. ASSUME NEW b \in Benches, BenchLost(b) PROVE RequestInv'
  BY <1>1, <1>8 DEF BenchLost, BecomeIdle
<1> QED BY <1>2, <1>4, <1>5, <1>6, <1>7, <1>8 DEF Check

(* During a benchmark only cmd.json is reloaded, and a change is pending.  *)
LEMMA RequestReload == TypeOK /\ RequestInv /\ MaybeReload => RequestInv'
<1> SUFFICES ASSUME TypeOK, RequestInv, MaybeReload PROVE RequestInv'
  OBVIOUS
<1>1. /\ pc' = "apply" /\ state' = state /\ disk' = disk
      /\ mem' = Reloaded /\ cmdPending' = Pending
  BY DEF MaybeReload
<1>2. ~cmdPending
  BY DEF MaybeReload, RequestInv
<1>3. ASSUME NEW b \in Benches, state = BenchState(b), ~cmdPending' PROVE Stands(b)'
  <2>1. InBench
    BY <1>3 DEF InBench
  <2>2. "cmd" \notin Parsed
    BY <1>1, <1>3 DEF Pending, Re
  <2>3. "bench" \notin Parsed
    BY <2>1 DEF Parsed, Changed, Reloadable
  <2>4. mem'.cmd = mem.cmd /\ mem'.bench = mem.bench
    BY <1>1, <2>2, <2>3 DEF Reloaded, Fresh
  <2> QED BY <1>2, <1>3, <2>4, StandsKept DEF RequestInv
<1>4. "save" \in Faults => AsksOnce(mem.cmd)' /\ AsksOnce(disk.cmd)'
  BY <1>1 DEF RequestInv, AsksOnce, Reloaded, Fresh
<1> QED BY <1>1, <1>3, <1>4 DEF RequestInv

LEMMA RequestEnvironment ==
    RequestsHold /\ TypeOK /\ RequestInv /\ Environment => RequestInv'
<1> SUFFICES ASSUME RequestsHold, TypeOK, RequestInv, Environment PROVE RequestInv'
  OBVIOUS
<1>1. mem' = mem /\ UNCHANGED <<pc, state, cmdPending>>
  BY DEF Environment, UserEdits, Edit, Settle, BenchExits, BenchFails
<1>2. \A b \in Benches : Stands(b)' <=> Stands(b)
  BY <1>1, StandsKept
<1>3. "save" \in Faults => AsksOnce(disk.cmd)'
  <2> SUFFICES ASSUME "save" \in Faults PROVE AsksOnce(disk.cmd)'
    OBVIOUS
  <2>1. ASSUME NEW c \in Cmds, Edit("cmd", c) PROVE AsksOnce(disk.cmd)'
    <3>1. disk'.cmd = c
      BY <2>1 DEF Edit, TypeOK
    <3> QED BY <3>1 DEF RequestsHold, AsksOnce
  <2>2. ASSUME NEW f \in Files \ {"cmd"}, NEW c, Edit(f, c) PROVE AsksOnce(disk.cmd)'
    <3>1. disk'.cmd = disk.cmd
      BY <2>2 DEF Edit, TypeOK
    <3> QED BY <3>1 DEF RequestInv, AsksOnce
  <2>3. ASSUME Edit("cmd", Garbage) PROVE AsksOnce(disk.cmd)'
    <3>1. disk'.cmd = Garbage
      BY <2>3 DEF Edit, TypeOK
    <3> QED BY <3>1 DEF AsksOnce
  <2>4. CASE UserEdits BY <2>1, <2>2, <2>3, <2>4 DEF UserEdits, Files
  <2>5. CASE ~UserEdits
    <3>1. disk' = disk
      BY <2>5 DEF Environment, Settle, BenchExits, BenchFails, files
    <3> QED BY <3>1 DEF RequestInv, AsksOnce
  <2> QED BY <2>4, <2>5
<1> QED BY <1>1, <1>2, <1>3 DEF RequestInv, AsksOnce

LEMMA RequestInductive == RequestsHold => (Spec => [](TypeOK /\ RequestInv))
<1> SUFFICES ASSUME RequestsHold PROVE Spec => [](TypeOK /\ RequestInv)
  OBVIOUS
<1>1. Init => RequestInv
  BY DEF Init, RequestInv, BenchState, Benches, RequestsHold
<1>2. TypeOK /\ RequestInv /\ [Next]_vars => RequestInv'
  <2> SUFFICES ASSUME TypeOK, RequestInv, [Next]_vars PROVE RequestInv'
    OBVIOUS
  <2>1. CASE Start
    <3>1. pc' = "apply" /\ cmdPending' /\ mem' = disk /\ disk' = disk
      BY <2>1 DEF Start
    <3> QED BY <3>1 DEF RequestInv, AsksOnce
  <2>2. CASE Exit \/ Panic
    <3>1. /\ pc' = "down" /\ state' = "Idle" /\ ~cmdPending'
          /\ UNCHANGED <<mem, disk>>
      BY <2>2 DEF Exit, Panic, Teardown, files
    <3> QED BY <3>1 DEF RequestInv, AsksOnce, BenchState, Benches
  <2>3. CASE Apply BY <2>3, RequestApply
  <2>4. CASE Check BY <2>4, RequestCheck
  <2>5. CASE DropRemoved \/ UNCHANGED vars
    <3>1. UNCHANGED <<state, cmdPending, mem, disk>> /\ (pc' = pc \/ (pc' = "reload" /\ pc = "unlocked"))
      BY <2>5 DEF DropRemoved, vars, files
    <3>2. \A b \in Benches : Stands(b)' <=> Stands(b)
      BY <3>1, StandsKept
    <3> QED BY <3>1, <3>2 DEF RequestInv, AsksOnce
  <2>6. CASE MaybeReload BY <2>6, RequestReload
  <2>7. CASE Environment BY <2>7, RequestEnvironment
  <2> QED BY <2>1, <2>2, <2>3, <2>4, <2>5, <2>6, <2>7 DEF Next, Runner
<1> QED BY <1>1, <1>2, TypeCorrect, PTL DEF Spec

(* check_completions changes a sequence of bench.json only for a benchmark *)
(* that the loaded command still asks for, whatever was withdrawn when.    *)
THEOREM OnlyWantedRecorded == RequestsHold => (Spec => RecordsOnlyWanted)
<1> SUFFICES ASSUME RequestsHold PROVE Spec => RecordsOnlyWanted
  OBVIOUS
<1> DEFINE A == pc = "check" =>
                  /\ mem'.bench.hashdSeq # mem.bench.hashdSeq => HashdWanted
                  /\ mem'.bench.iocostSeq # mem.bench.iocostSeq => IoCostWanted
<1>1. TypeOK /\ RequestInv /\ [Next]_vars => [A]_vars
  <2> SUFFICES ASSUME TypeOK, RequestInv, Next, pc = "check", mem'.bench # mem.bench PROVE A
    OBVIOUS
  <2>1. PICK b \in Benches : /\ state = BenchState(b)
                             /\ mem' = [mem EXCEPT !.bench = Recorded(b)]
    <3>1. CASE Check
      BY <3>1 DEF Check, NothingCompleted, ApplyResultFail, FinishBench, LoadResultFail,
                  SaveResultFail, BenchLost, Finished, Benches
    <3>2. CASE ~Check
      <4>1. mem' = mem
        BY <3>2 DEF Next, Start, Exit, Panic, Teardown, Runner, Apply, SkipApply,
                    KnobsFail, StartIoCostBench, StartIoCostBenchFail, StartHashdBench,
                    StartHashdBenchFail, PrepareHashdBench, StayIdle, BecomeRunning,
                    YieldToBench, ApplyWorkloads, CancelBench, KeepBench, ApplyCmd,
                    DropRemoved, MaybeReload, Environment, UserEdits, Edit, Settle,
                    BenchExits, BenchFails
      <4> QED BY <4>1
    <3> QED BY <3>1, <3>2
  <2>2. mem'.bench = Recorded(b) /\ mem.bench \in BenchType
    BY <2>1 DEF TypeOK, MemType
  <2>3. Stands(b)
    BY <2>1 DEF RequestInv
  <2>4. IF b = "hashd" THEN HashdWanted ELSE IoCostWanted
    BY <2>2, <2>3 DEF Stands
  <2>5. IF b = "hashd" THEN mem'.bench.iocostSeq = mem.bench.iocostSeq
                       ELSE mem'.bench.hashdSeq = mem.bench.hashdSeq
    BY <2>2 DEF Recorded, BenchType
  <2> QED BY <2>4, <2>5
<1> QED BY <1>1, RequestInductive, PTL DEF Spec, RecordsOnlyWanted
-----------------------------------------------------------------------------
(* The runner implements BenchLifecycle, with every fault.                 *)

\* The mapped variables, spelled out.
Done == InBench /\ \E b \in Benches : svc[b] = "Exited"
Results == PerBench(mem.bench.hashdSeq, mem.bench.iocostSeq)
SameLifecycle ==
    UNCHANGED <<state, hashds, sysloads, svc, mem>>

LEMMA Stutter == SameLifecycle /\ UNCHANGED ack => UNCHANGED Lifecycle!vars
BY DEF SameLifecycle, Lifecycle!vars, InBench, BenchState, Benches, PerBench

LEMMA Acks ==
    ApplyCmd => Lifecycle!Acknowledged
BY DEF ApplyCmd, Lifecycle!Acknowledged

LEMMA AckOnly == SameLifecycle /\ ApplyCmd => [Lifecycle!Next]_(Lifecycle!vars)
<1> SUFFICES ASSUME SameLifecycle, ApplyCmd PROVE [Lifecycle!Next]_(Lifecycle!vars)
  OBVIOUS
<1>1. Lifecycle!Acknowledge
  BY Acks DEF SameLifecycle, Lifecycle!Acknowledge, InBench, BenchState, Benches, PerBench
<1> QED BY <1>1 DEF Lifecycle!Next

\* The command and the results of the runner and of the life cycle.
LEMMA SameRequests ==
    /\ mem' = mem => UNCHANGED <<Results, PerBench(mem.cmd.hashdSeq, mem.cmd.iocostSeq)>>
    /\ Lifecycle!Wanted("BenchHashd") <=> HashdWanted
    /\ Lifecycle!Wanted("BenchIoCost") <=> IoCostWanted
BY DEF Results, PerBench, Lifecycle!Wanted, HashdWanted, IoCostWanted, BenchState, Benches

LEMMA LifecycleApply ==
    TypeOK /\ ExclusiveInv /\ Apply => [Lifecycle!Next]_(Lifecycle!vars)
<1> SUFFICES ASSUME TypeOK, ExclusiveInv, Apply PROVE [Lifecycle!Next]_(Lifecycle!vars)
  OBVIOUS
<1> USE DEF TypeOK, ExclusiveInv, work, BenchState, Benches, InBench
<1>0. ApplyCmd => UNCHANGED mem
  BY DEF ApplyCmd
<1>1. CASE SkipApply BY <1>1, Stutter DEF SkipApply, SameLifecycle
<1>2. CASE KnobsFail BY <1>0, <1>2, AckOnly DEF KnobsFail, SameLifecycle
<1>3. CASE StartIoCostBench
  <2>1. ApplyCmd /\ Lifecycle!Acknowledged /\ UNCHANGED mem
    BY <1>0, <1>3, Acks DEF StartIoCostBench
  <2>2. Lifecycle!Wanted("BenchIoCost")
    BY <1>3, SameRequests DEF StartIoCostBench
  <2>3. Lifecycle!StartBenchmark
    BY <1>3, <2>1, <2>2 DEF StartIoCostBench, Lifecycle!StartBenchmark
  <2> QED BY <2>3 DEF Lifecycle!Next
<1>4. CASE StartIoCostBenchFail
  BY <1>0, <1>4, AckOnly DEF StartIoCostBenchFail, SameLifecycle
<1>5. CASE StartHashdBench
  <2>1. ApplyCmd /\ Lifecycle!Acknowledged /\ UNCHANGED mem
    BY <1>0, <1>5, Acks DEF StartHashdBench, PrepareHashdBench
  <2>2. Lifecycle!Wanted("BenchHashd")
    BY <1>5, SameRequests DEF StartHashdBench, PrepareHashdBench
  <2>3. Lifecycle!StartBenchmark
    BY <1>5, <2>1, <2>2 DEF StartHashdBench, PrepareHashdBench, Lifecycle!StartBenchmark
  <2> QED BY <2>3 DEF Lifecycle!Next
<1>6. CASE StartHashdBenchFail
  BY <1>0, <1>6, AckOnly DEF StartHashdBenchFail, PrepareHashdBench, SameLifecycle
<1>7. CASE StayIdle BY <1>0, <1>7, AckOnly DEF StayIdle, SameLifecycle
<1>a. ASSUME ApplyCmd, ~IoCostWanted, ~HashdWanted, state \in {"Idle", "Running"}, state' = "Running",
             UNCHANGED svc, hashds' \cup sysloads' \subseteq mem.cmd.hashd \cup mem.cmd.sysloads
      PROVE  [Lifecycle!Next]_(Lifecycle!vars)
  <2>1. Lifecycle!Acknowledged /\ UNCHANGED mem
    BY <1>0, <1>a, Acks
  <2>2. \A b \in {BenchState(x) : x \in Benches} : ~Lifecycle!Wanted(b)
    BY <1>a, SameRequests
  <2>3. Lifecycle!Serve
    BY <1>a, <2>1, <2>2 DEF Lifecycle!Serve
  <2> QED BY <2>3 DEF Lifecycle!Next
<1>8. CASE BecomeRunning
  <2>1. hashds' = {} /\ sysloads' = {}
    BY <1>8 DEF BecomeRunning
  <2> QED BY <1>8, <1>a, <2>1 DEF BecomeRunning
<1>9. CASE YieldToBench \/ CancelBench
  <2>1. ApplyCmd /\ Lifecycle!Acknowledged /\ UNCHANGED mem
    BY <1>0, <1>9, Acks DEF YieldToBench, CancelBench
  <2>2. Lifecycle!GoIdle
    BY <1>9, <2>1 DEF YieldToBench, CancelBench, BecomeIdle, Lifecycle!GoIdle
  <2> QED BY <2>2 DEF Lifecycle!Next
<1>10. CASE ApplyWorkloads
  <2>1. hashds' = mem.cmd.hashd /\ sysloads' \subseteq mem.cmd.sysloads
    BY <1>10 DEF ApplyWorkloads, Applied
  <2> QED BY <1>10, <1>a, <2>1 DEF ApplyWorkloads
<1>11. CASE KeepBench BY <1>0, <1>11, AckOnly DEF KeepBench, SameLifecycle
<1> QED BY <1>1, <1>2, <1>3, <1>4, <1>5, <1>6, <1>7, <1>8, <1>9, <1>10, <1>11 DEF Apply

LEMMA LifecycleCheck ==
    TypeOK /\ ExclusiveInv /\ Check => [Lifecycle!Next]_(Lifecycle!vars)
<1> SUFFICES ASSUME TypeOK, ExclusiveInv, Check PROVE [Lifecycle!Next]_(Lifecycle!vars)
  OBVIOUS
<1> USE DEF TypeOK, ExclusiveInv, work, CheckCompletions, BenchState, Benches, InBench
<1>0. ASSUME NEW b \in Benches
      PROVE  /\ Recorded(b) \in BenchType
             /\ b = "hashd" => Recorded(b).iocostSeq = mem.bench.iocostSeq
             /\ b = "iocost" => Recorded(b).hashdSeq = mem.bench.hashdSeq
  BY <1>0, RecordedTypes DEF Recorded, MemType, BenchType
<1>1. CASE NothingCompleted BY <1>1, Stutter DEF NothingCompleted, SameLifecycle
<1>2. ASSUME NEW b \in Benches, state = BenchState(b), svc[b] = "Exited",
             mem' = [mem EXCEPT !.bench = Recorded(b)],
             UNCHANGED <<ack, hashds, sysloads>>,
             UNCHANGED <<state, svc>> \/ (state' = "Idle" /\ svc' = [x \in Benches |-> "None"])
      PROVE  [Lifecycle!Next]_(Lifecycle!vars)
  <2>1. mem'.bench = Recorded(b) /\ mem'.cmd = mem.cmd
    BY <1>2 DEF MemType
  <2>2. \E n \in {IF b = "hashd" THEN mem.cmd.hashdSeq ELSE mem.cmd.iocostSeq, Results[state] + 1, 0} :
            Results' = [Results EXCEPT ![state] = n]
    <3> DEFINE n == RecordedSeq(b)
    <3>1. mem.bench \in BenchType /\ BenchState("hashd") # BenchState("iocost")
      BY DEF MemType
    <3>2. Results' = [Results EXCEPT ![state] = n]
      <4>1. /\ mem'.bench.hashdSeq = IF b = "hashd" THEN n ELSE mem.bench.hashdSeq
            /\ mem'.bench.iocostSeq = IF b = "hashd" THEN mem.bench.iocostSeq ELSE n
        BY <2>1, <3>1 DEF Recorded, BenchType
      <4> HIDE DEF n
      <4>2. \A s \in {BenchState(x) : x \in Benches} :
               (IF s = BenchState("hashd") THEN mem'.bench.hashdSeq ELSE mem'.bench.iocostSeq)
                  = IF s = state THEN n
                    ELSE IF s = BenchState("hashd") THEN mem.bench.hashdSeq ELSE mem.bench.iocostSeq
        BY <1>2, <4>1
      <4> QED BY <4>2 DEF Results, PerBench
    <3>3. n \in {IF b = "hashd" THEN mem.cmd.hashdSeq ELSE mem.cmd.iocostSeq, Results[state] + 1, 0}
      <4>1. CASE b = "iocost"
        BY <4>1 DEF RecordedSeq
      <4>2. CASE b = "hashd" /\ mem.cmd.hashdSeq # SeqMax
        BY <4>2 DEF RecordedSeq
      <4>3. CASE b = "hashd" /\ mem.cmd.hashdSeq = SeqMax
        <5>1. n = (mem.bench.hashdSeq + 1) % (SeqMax + 1) /\ Results[state] = mem.bench.hashdSeq
          BY <1>2, <4>3 DEF RecordedSeq, Results, PerBench
        <5>2. mem.bench.hashdSeq \in 0..SeqMax /\ SeqMax \in Nat
          BY <3>1, SeqMaxAssumption DEF BenchType, Seqs
        <5>3. ASSUME NEW x \in 0..SeqMax PROVE (x + 1) % (SeqMax + 1) \in {x + 1, 0}
          <6>1. CASE x = SeqMax
            BY <5>2, <6>1
          <6>2. CASE x < SeqMax
            BY <5>2, <6>2
          <6> QED BY <5>2, <6>1, <6>2
        <5> QED BY <5>1, <5>2, <5>3
      <4> QED BY <4>1, <4>2, <4>3
    <3> QED BY <3>2, <3>3
  <2>3. PerBench(mem.cmd.hashdSeq, mem.cmd.iocostSeq)[state]
           = IF b = "hashd" THEN mem.cmd.hashdSeq ELSE mem.cmd.iocostSeq
    BY <1>2 DEF PerBench
  <2>4. UNCHANGED PerBench(mem.cmd.hashdSeq, mem.cmd.iocostSeq)
    BY <2>1 DEF PerBench
  <2>5. Lifecycle!Record
    BY <1>2, <2>1, <2>2, <2>3, <2>4 DEF Lifecycle!Record, Results
  <2> QED BY <2>5 DEF Lifecycle!Next
<1>3. CASE ApplyResultFail
  BY <1>2, <1>3 DEF ApplyResultFail, Finished
<1>4. ASSUME NEW b \in Benches, SaveResultFail(b) PROVE [Lifecycle!Next]_(Lifecycle!vars)
  BY <1>2, <1>4 DEF SaveResultFail, Finished
<1>5. ASSUME NEW b \in Benches, FinishBench(b) PROVE [Lifecycle!Next]_(Lifecycle!vars)
  <2>1. hashds = {} /\ sysloads = {}
    BY <1>5 DEF FinishBench, Finished
  <2> QED BY <1>2, <1>5, <2>1 DEF FinishBench, Finished, BecomeIdle
<1>6. ASSUME NEW b \in Benches, LoadResultFail(b) PROVE [Lifecycle!Next]_(Lifecycle!vars)
  BY <1>6, Stutter DEF LoadResultFail, Finished, SameLifecycle
<1>7. ASSUME NEW b \in Benches, BenchLost(b) PROVE [Lifecycle!Next]_(Lifecycle!vars)
  <2>1. UNCHANGED <<mem, ack>>
    BY <1>7 DEF BenchLost
  <2>2. UNCHANGED <<Results, PerBench(mem.cmd.hashdSeq, mem.cmd.iocostSeq)>> /\ Lifecycle!Acknowledged
    BY <2>1, SameRequests DEF Lifecycle!Acknowledged
  <2>3. Lifecycle!GoIdle
    BY <1>7, <2>1, <2>2 DEF BenchLost, BecomeIdle, Lifecycle!GoIdle, Results
  <2> QED BY <2>3 DEF Lifecycle!Next
<1> QED BY <1>1, <1>3, <1>4, <1>5, <1>6, <1>7 DEF Check

LEMMA LifecycleEnvironment ==
    TypeOK /\ ExclusiveInv /\ Environment => [Lifecycle!Next]_(Lifecycle!vars)
<1> SUFFICES ASSUME TypeOK, ExclusiveInv, Environment PROVE [Lifecycle!Next]_(Lifecycle!vars)
  OBVIOUS
<1> USE DEF TypeOK, ExclusiveInv, work, BenchState, Benches, InBench
<1>1. ASSUME NEW f, NEW c, Edit(f, c) PROVE [Lifecycle!Next]_(Lifecycle!vars)
  BY <1>1, Stutter DEF Edit, SameLifecycle
<1>2. ASSUME NEW f \in Files, Settle(f) PROVE [Lifecycle!Next]_(Lifecycle!vars)
  BY <1>2, Stutter DEF Settle, SameLifecycle
<1>3. ASSUME NEW b \in Benches, BenchExits(b) PROVE [Lifecycle!Next]_(Lifecycle!vars)
  <2>1. Lifecycle!Complete
    BY <1>3, SameRequests DEF BenchExits, Lifecycle!Complete, Results
  <2> QED BY <2>1 DEF Lifecycle!Next
<1>4. ASSUME NEW b \in Benches, BenchFails(b) PROVE [Lifecycle!Next]_(Lifecycle!vars)
  <2>1. ~Done /\ ~Done'
    BY <1>4 DEF BenchFails, Done
  <2> QED BY <1>4, <2>1, SameRequests DEF BenchFails, Done, Lifecycle!vars, Results
<1> QED BY <1>1, <1>2, <1>3, <1>4 DEF Environment, UserEdits

(* Every behaviour of the runner, faults, exits and restarts included, is  *)
(* one of the benchmark life cycle under the mapping of Lifecycle.         *)
THEOREM RunnerImplementsLifecycle == Spec => ImplementsLifecycle
<1>1. Init => Lifecycle!Init
  BY DEF Init, Lifecycle!Init, InBench, BenchState, Benches
<1>2. TypeOK /\ ExclusiveInv /\ [Next]_vars => [Lifecycle!Next]_(Lifecycle!vars)
  <2> SUFFICES ASSUME TypeOK, ExclusiveInv, [Next]_vars
               PROVE  [Lifecycle!Next]_(Lifecycle!vars)
    OBVIOUS
  <2> USE DEF ExclusiveInv, BenchState, Benches, InBench
  <2>1. CASE Start
    <3>1. Lifecycle!Boot
      BY <2>1 DEF Start, work, Lifecycle!Boot
    <3> QED BY <3>1 DEF Lifecycle!Next
  <2>2. CASE Exit \/ Panic
    <3>1. UNCHANGED <<mem, ack>>
      BY <2>2 DEF Exit, Panic, Teardown
    <3>2. Lifecycle!End
      BY <2>2, <3>1, SameRequests DEF Exit, Panic, Teardown, Lifecycle!End, Results
    <3> QED BY <3>2 DEF Lifecycle!Next
  <2>3. CASE Apply BY <2>3, LifecycleApply
  <2>4. CASE Check BY <2>4, LifecycleCheck
  <2>5. CASE DropRemoved BY <2>5, Stutter DEF DropRemoved, SameLifecycle
  <2>6. CASE MaybeReload
    <3>1. UNCHANGED <<state, svc, hashds, sysloads, ack>>
      BY <2>6 DEF MaybeReload, work
    <3>2. InBench => UNCHANGED Results
      <4>1. InBench => mem'.bench = mem.bench
        BY <2>6 DEF MaybeReload, Reloaded, Fresh, Parsed, Changed, Reloadable
      <4> QED BY <4>1 DEF Results, PerBench
    <3>3. Lifecycle!Load
      BY <3>1, <3>2 DEF Lifecycle!Load, Results
    <3> QED BY <3>3 DEF Lifecycle!Next
  <2>7. CASE Environment BY <2>7, LifecycleEnvironment
  <2>8. CASE UNCHANGED vars BY <2>8, Stutter DEF vars, work, SameLifecycle
  <2> QED BY <2>1, <2>2, <2>3, <2>4, <2>5, <2>6, <2>7, <2>8 DEF Next, Runner
<1> QED BY <1>1, <1>2, TypeCorrect, ExclusiveInductive, PTL
        DEF Spec, ImplementsLifecycle, Lifecycle!Spec
=============================================================================
