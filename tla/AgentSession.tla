---------------------------- MODULE AgentSession ----------------------------
(***************************************************************************)
(* A life of the agent (rd-agent/src/main.rs): the system settings it      *)
(* takes over at startup and gives back at exit, the checks that may end   *)
(* it in between, --force, --prepare, --reset and --passive (with --bypass *)
(* nothing is taken over), and the sequence number that makes a setting of *)
(* a user a temporary one.                                                 *)
(*                                                                         *)
(* sys is the system itself: it outlives the agent, which may be killed at *)
(* any point and started again.  io.cost is "off", "on" with the kernel's  *)
(* parameters, or "user" with benchmarked ones; the swappiness is "low"    *)
(* (less than 60), "ok", or "asked" by cmd.json.                           *)
(*                                                                         *)
(* A check that fails because of what it reads, or because of a repair     *)
(* that is nobody's setting (a remount, a service moved to another slice), *)
(* is a choice of the environment (MayFail).  writeFaults counts only the  *)
(* writes of a setting that failed and the settings that could not be read *)
(* before they were written.                                               *)
(***************************************************************************)
EXTENDS Naturals

CONSTANTS
    Passives,       \* what --passive may name: sets of "io", "mem" and "oomd"
    MaxSessions, MaxWriteFaults, MaxAsked   \* bounds

ASSUME SessionAssumption ==
    /\ \A p \in Passives : p \subseteq {"io", "mem", "oomd"}
    /\ {} \in Passives
    /\ {MaxSessions, MaxWriteFaults, MaxAsked} \subseteq Nat

VARIABLES
    sys,            \* the settings of the system
    found,          \* the settings this session found (ghost)
    saved,          \* what the agent would restore, by setting
    mainPc,         \* where main() is
    opts,           \* of the command line
    srFailed,       \* a startup check failed
    cmdSwap,        \* cmd.swappiness
    sysreqsOf,      \* the session sysreqs.json describes
    session, seqNow,
    report,         \* report.json: the session and the seq, and whether it is old
    disabled,       \* a disable_seq, and the session it was meant for (ghost)
    writeFaults,    \* settings that could not be written, or saved before
    asked

envVars == <<cmdSwap, report, disabled>>
sessionVars == <<sys, found, saved, mainPc, opts, srFailed, cmdSwap, sysreqsOf,
                 session, seqNow, report, disabled, writeFaults, asked>>

Settings == {"iocost", "iosched", "wbt", "swap", "zswap", "oomd"}
Values ==
    [iocost: {"off", "on", "user"}, iosched: {"none", "mq"}, wbt: {"off", "on"},
     swap: {"low", "ok", "asked"}, zswap: {"Y", "N"}, oomd: {"running", "stopped"}]
NoOne == "none saved"
NoReport == [session |-> 0, seq |-> 0, old |-> FALSE]
Options == [force: BOOLEAN, prepare: BOOLEAN, reset: BOOLEAN, passive: Passives]
Enforce(what) == what \notin opts.passive
Startup == {"init", "controllers", "iocost", "fs", "iosched", "wbt", "swapdev", "swap",
            "zswap", "oomd", "critical", "device", "failed"}
Ending == {"refused", "lastconfig", "config", "iocostsave"}

SessionTypeOK ==
    /\ sys \in Values /\ found \in Values
    /\ DOMAIN saved = Settings
    /\ \A s \in Settings : saved[s] = NoOne \/ [sys EXCEPT ![s] = saved[s]] \in Values
    /\ mainPc \in {"down", "prepared", "objs", "apply", "run"} \cup Startup \cup Ending
    /\ opts \in Options
    /\ srFailed \in BOOLEAN /\ cmdSwap \in {NoOne, "low", "asked"}
    /\ session \in 0..MaxSessions /\ sysreqsOf \in 0..session /\ seqNow \in 0..(MaxSessions + 1)
    /\ report \in [session: 0..MaxSessions, seq: 0..(MaxSessions + 1), old: BOOLEAN]
    /\ disabled \in [seq: 0..(MaxSessions + 1), for: 0..MaxSessions]
    /\ writeFaults \in 0..MaxWriteFaults /\ asked \in 0..MaxAsked

NothingSaved == [s \in Settings |-> NoOne]

\* As booted, or as an agent that was killed has left it, with its report.
SessionInit ==
    /\ \/ sys \in [iocost: {"off", "user"}, iosched: {"mq"}, wbt: {"on"}, swap: {"low", "ok"},
                   zswap: {"Y"}, oomd: {"running"}] /\ report = NoReport
       \/ /\ sys = [iocost |-> "user", iosched |-> "none", wbt |-> "off", swap |-> "ok",
                    zswap |-> "Y", oomd |-> "stopped"]
          /\ report \in [session: {0}, seq: {1}, old: BOOLEAN]
    /\ found = sys /\ saved = NothingSaved /\ mainPc = "down"
    /\ opts = [force |-> FALSE, prepare |-> FALSE, reset |-> FALSE, passive |-> {}]
    /\ srFailed = FALSE
    /\ cmdSwap = NoOne /\ sysreqsOf = 0 /\ session = 0 /\ seqNow = 0
    /\ disabled = [seq |-> 0, for |-> 0]
    /\ writeFaults = 0 /\ asked = 0

\* reset_agent_states() removes the configuration and the reports.
Removed(o) ==
    IF o.reset THEN /\ cmdSwap' = NoOne /\ report' = NoReport
                    /\ disabled' = [seq |-> 0, for |-> 0]
               ELSE UNCHANGED envVars

\* main(): the paths are set up, the index and the helpers written.
Start ==
    /\ mainPc = "down" /\ session < MaxSessions
    /\ \E o \in Options :
          opts' = o /\ Removed(o) /\ sysreqsOf' = IF o.reset THEN 0 ELSE sysreqsOf
    /\ session' = session + 1 /\ found' = sys /\ saved' = NothingSaved
    /\ srFailed' = FALSE /\ seqNow' = 0 /\ mainPc' = "init"
    /\ UNCHANGED <<sys, writeFaults, asked>>

\* A setting is written: to /sys or /proc, or by a request to systemd.
WriteFault == writeFaults < MaxWriteFaults /\ writeFaults' = writeFaults + 1
Write(s, v) ==
    \/ sys' = [sys EXCEPT ![s] = v] /\ UNCHANGED writeFaults
    \/ WriteFault /\ UNCHANGED sys
Save(s) == saved' = [saved EXCEPT ![s] = sys[s]]

\* sr_failed: a check adds what it misses; a write that fails is missed too.
Fails(missed) == srFailed' = (srFailed \/ missed \/ writeFaults' > writeFaults)
MayFail == \E missed \in BOOLEAN : Fails(missed)

StartupStep(from, to) ==
    /\ mainPc = from /\ mainPc' = to
    /\ UNCHANGED <<found, opts, cmdSwap, sysreqsOf, session, seqNow, report, disabled, asked>>
Unwritten == UNCHANGED <<sys, writeFaults>>
OnlyRead == Unwritten /\ UNCHANGED saved

(***************************************************************************)
(* IoCostSysSave::read_from_sys(), then the checks of startup_checks() in  *)
(* their order.  A `?` among them leaves startup_checks() at once, with    *)
(* the later settings neither saved nor written.                           *)
(***************************************************************************)
ReadIoCost ==
    /\ StartupStep("init", "controllers") /\ UNCHANGED <<sys, srFailed>>
    /\ \/ Save("iocost") /\ UNCHANGED writeFaults
       \/ WriteFault /\ UNCHANGED saved

\* cgroup2, its controllers and options, the freezer; rd-hashd that cannot
\* tell its version is a panic, whatever the options.
CheckControllers ==
    /\ OnlyRead
    /\ \/ StartupStep("controllers", "iocost") /\ MayFail
       \/ StartupStep("controllers", "failed") /\ MayFail
       \/ StartupStep("controllers", "refused") /\ MayFail

\* Without its files io.cost is missed and not written.
CheckIoCost ==
    /\ StartupStep("iocost", "fs") /\ UNCHANGED saved
    /\ \/ Enforce("io") /\ Write("iocost", IF sys.iocost = "user" THEN "user" ELSE "on") /\ MayFail
       \/ Unwritten /\ \E missed \in {Enforce("io"), TRUE} : Fails(missed)

\* Other IO controllers, vmstat, the file systems, which are remounted for
\* good, and a scratch on a composite device.
CheckFs == StartupStep("fs", "iosched") /\ OnlyRead /\ MayFail

\* A scheduler that could not be read is set all the same.
CheckIosched ==
    /\ StartupStep("iosched", "wbt")
    /\ \/ Enforce("io") /\ Save("iosched") /\ Write("iosched", "none") /\ MayFail
       \/ Enforce("io") /\ UNCHANGED saved /\ WriteFault /\ MayFail
              /\ sys' \in {sys, [sys EXCEPT !.iosched = "none"]}
       \/ ~Enforce("io") /\ OnlyRead /\ \E missed \in {sys.iosched # "none", TRUE} : Fails(missed)

\* wbt_lat_usec that is not a number leaves at once; a device without the
\* file has nothing to turn off.
CheckWbt ==
    \/ /\ StartupStep("wbt", "swapdev")
       /\ \/ Enforce("io") /\ sys.wbt = "on" /\ Save("wbt") /\ Write("wbt", "off") /\ Fails(FALSE)
          \/ OnlyRead /\ \E missed \in {FALSE, ~Enforce("io") /\ sys.wbt = "on"} : Fails(missed)
    \/ StartupStep("wbt", "failed") /\ OnlyRead /\ Fails(FALSE)

\* The swap is on the scratch device, is large enough, and enough is free.
CheckSwapDevs ==
    /\ OnlyRead
    /\ \/ StartupStep("swapdev", "swap") /\ MayFail
       \/ StartupStep("swapdev", "failed") /\ MayFail

\* A swappiness or a zswap switch that cannot be read is left alone.
CheckSwap ==
    /\ StartupStep("swap", "zswap")
    /\ \/ /\ Enforce("mem") /\ Save("swap")
          /\ IF sys.swap = "low" THEN Write("swap", "ok") ELSE Unwritten
          /\ Fails(FALSE)
       \/ OnlyRead /\ \E missed \in {FALSE, ~Enforce("mem") /\ sys.swap = "low"} : Fails(missed)

SaveZswap ==
    /\ StartupStep("zswap", "oomd") /\ Unwritten /\ Fails(FALSE)
    /\ UNCHANGED saved \/ (Enforce("mem") /\ Save("zswap"))

\* Whatever is still running is found by the scan of the processes.
CheckOomd ==
    /\ StartupStep("oomd", "critical")
    /\ \/ /\ Enforce("oomd") /\ sys.oomd = "running" /\ Save("oomd") /\ Write("oomd", "stopped")
          /\ MayFail
       \/ OnlyRead /\ \E missed \in {sys.oomd = "running", TRUE} : Fails(missed)

\* Programs the agent depends on, and services of hostcritical.slice.
CheckHostCritical == StartupStep("critical", "device") /\ OnlyRead /\ MayFail

AfterChecks == IF opts.prepare THEN "prepared" ELSE "objs"
\* The verdict: main() goes on, or panics and drops what it has.  A device
\* without a model, or sysreqs.json that cannot be saved, is the last `?`.
Verdict ==
    /\ UNCHANGED <<sys, found, saved, opts, srFailed, cmdSwap, session, seqNow, report,
                   disabled, writeFaults, asked>>
    /\ \/ /\ mainPc = "device" /\ sysreqsOf' = session
          /\ mainPc' = IF srFailed /\ ~opts.force THEN "refused" ELSE AfterChecks
       \/ /\ mainPc \in {"device", "failed"} /\ UNCHANGED sysreqsOf
          /\ mainPc' = IF opts.force THEN AfterChecks ELSE "refused"

Live == mainPc \notin {"down"}
Rest(vs) == UNCHANGED <<found, opts, sysreqsOf, session>> /\ UNCHANGED vs

\* --prepare: the old reports are removed, and that is all.
Prepared ==
    /\ mainPc = "prepared" /\ mainPc' = "refused"
    /\ report' = IF report.old THEN NoReport ELSE report
    /\ Rest(<<sys, saved, srFailed, cmdSwap, seqNow, disabled, writeFaults, asked>>)

\* SysObjs::new(): one more than that of the last report.
NextSeq == IF report = NoReport THEN 1 ELSE report.seq + 1

\* A file that cannot be loaded is a panic.
NewObjs ==
    /\ mainPc = "objs"
    /\ \/ mainPc' = "apply" /\ seqNow' = NextSeq
       \/ mainPc' = "refused" /\ UNCHANGED seqNow
    /\ Rest(<<sys, saved, srFailed, cmdSwap, report, disabled, writeFaults, asked>>)

\* apply_iocost(), then the slices, oomd and the sideloader; an error, of
\* the first or of a later one, panics.
ApplyAll ==
    /\ mainPc = "apply"
    /\ Rest(<<saved, cmdSwap, seqNow, report, disabled, writeFaults, asked, srFailed>>)
    /\ \/ /\ mainPc' \in {"run", "refused"}
          /\ \E v \in {"on", "user"} :
                sys' = IF Enforce("io") THEN [sys EXCEPT !.iocost = v] ELSE sys
       \/ mainPc' = "refused" /\ UNCHANGED sys

(***************************************************************************)
(* The runner: a reporter, the commands of the user, and the iosched fixed *)
(* by the health check.                                                    *)
(***************************************************************************)
WriteReport ==
    /\ mainPc = "run" /\ mainPc' = mainPc
    /\ report' = [session |-> session, seq |-> seqNow, old |-> FALSE]
    /\ Rest(<<sys, saved, srFailed, cmdSwap, seqNow, disabled, writeFaults, asked>>)

\* ReportFile::new() removes the old reports before there is a new one.
ClearOldReports ==
    /\ mainPc = "run" /\ mainPc' = mainPc /\ report.old /\ report' = NoReport
    /\ Rest(<<sys, saved, srFailed, cmdSwap, seqNow, disabled, writeFaults, asked>>)

\* apply_swappiness() and apply_zswap_enabled(); cmd.json may turn zswap
\* off.  A setting that can be read now and was not saved is a panic.
Unsaved == mainPc' \in {"run", "config"}
ApplySwap ==
    /\ mainPc = "run" /\ Enforce("mem")
    /\ LET swap == IF cmdSwap = NoOne THEN saved.swap ELSE cmdSwap IN
       \/ saved.swap = NoOne /\ Unsaved /\ UNCHANGED sys
       \/ saved.swap # NoOne /\ saved.zswap = NoOne /\ Unsaved /\ sys' = [sys EXCEPT !.swap = swap]
       \/ /\ NoOne \notin {saved.swap, saved.zswap} /\ mainPc' = mainPc
          /\ \E z \in {saved.zswap, "N"} : sys' = [sys EXCEPT !.swap = swap, !.zswap = z]
    /\ Rest(<<saved, srFailed, cmdSwap, seqNow, report, disabled, writeFaults, asked>>)

\* The user: a new swappiness, or a controller disabled for as long as the
\* agent that wrote the report runs.
Ask ==
    /\ asked < MaxAsked /\ asked' = asked + 1 /\ mainPc = "run" /\ mainPc' = mainPc
    /\ \/ cmdSwap' \in {NoOne, "asked", "low"} \ {cmdSwap} /\ UNCHANGED disabled
       \/ /\ report # NoReport /\ UNCHANGED cmdSwap
          /\ disabled' = [seq |-> report.seq, for |-> report.session]
    /\ Rest(<<sys, saved, srFailed, seqNow, report, writeFaults>>)

\* Somebody else's iosched, put right by the health check.
Drifted ==
    /\ mainPc = "run" /\ mainPc' = mainPc /\ Enforce("io")
    /\ sys' = [sys EXCEPT !.iosched = IF sys.iosched = "none" THEN "mq" ELSE "none"]
    /\ Rest(<<saved, srFailed, cmdSwap, seqNow, report, disabled, writeFaults, asked>>)

\* Told to stop, or a panic of the runner.
Finish ==
    /\ mainPc = "run" /\ mainPc' = "config"
    /\ Rest(<<sys, saved, srFailed, cmdSwap, seqNow, report, disabled, writeFaults, asked>>)

(***************************************************************************)
(* The drops.  main() drops IoCostSysSave and then Config, which restores  *)
(* what startup saved; the runner has taken Config over and drops it       *)
(* first.                                                                  *)
(***************************************************************************)
\* Mutant: zswap is not put back.
RestoredButZswap(s) == IF saved[s] = NoOne \/ s \in {"iocost", "zswap"} THEN sys[s] ELSE saved[s]
Restored(s) == IF saved[s] = NoOne \/ s = "iocost" THEN sys[s] ELSE saved[s]

DropConfig ==
    /\ \/ mainPc = "config" /\ mainPc' = "iocostsave"
       \/ mainPc = "lastconfig" /\ mainPc' = "down"
    /\ \/ sys' = [s \in Settings |-> Restored(s)] /\ UNCHANGED writeFaults
       \/ /\ WriteFault
          /\ \E t \in Settings : sys' = [s \in Settings |-> IF s = t THEN sys[s] ELSE Restored(s)]
    /\ Rest(<<saved, srFailed, cmdSwap, seqNow, report, disabled, asked>>)

DropIoCost ==
    /\ \/ mainPc = "refused" /\ mainPc' = "lastconfig"
       \/ mainPc = "iocostsave" /\ mainPc' = "down"
    /\ IF saved.iocost = NoOne THEN Unwritten ELSE Write("iocost", saved.iocost)
    /\ Rest(<<saved, srFailed, cmdSwap, seqNow, report, disabled, asked>>)

\* kill -9, or a power failure after which the settings are the same.
Killed ==
    /\ Live /\ mainPc' = "down" /\ saved' = NothingSaved
    /\ Rest(<<sys, srFailed, cmdSwap, seqNow, report, disabled, writeFaults, asked>>)

\* An hour without an agent.
Age ==
    /\ mainPc = "down" /\ report # NoReport /\ ~report.old /\ report' = [report EXCEPT !.old = TRUE]
    /\ UNCHANGED mainPc
    /\ Rest(<<sys, saved, srFailed, cmdSwap, seqNow, disabled, writeFaults, asked>>)

SessionNext ==
    \/ Start \/ ReadIoCost \/ CheckControllers \/ CheckIoCost \/ CheckFs \/ CheckIosched
    \/ CheckWbt \/ CheckSwapDevs \/ CheckSwap \/ SaveZswap \/ CheckOomd
    \/ CheckHostCritical \/ Verdict \/ Prepared \/ NewObjs \/ ApplyAll
    \/ WriteReport \/ ClearOldReports \/ ApplySwap \/ Ask \/ Drifted \/ Finish
    \/ DropConfig \/ DropIoCost \/ Killed \/ Age

SessionSpec == SessionInit /\ [][SessionNext]_sessionVars

(***************************************************************************)
(* A session that ends on its own, refused by a check, returned from in    *)
(* the middle of the checks, prepared, panicked while it applied its       *)
(* configuration, or told to stop, leaves every setting as it found it,    *)
(* unless a setting could not be read or written.                          *)
(*                                                                         *)
(* One case is left out, in which the code does not: --force goes on past  *)
(* checks that returned before they came to the io scheduler, and then the *)
(* health check of the runner sets a scheduler nobody has saved.           *)
(***************************************************************************)
Unguarded == IF opts.force /\ Enforce("io") /\ saved.iosched = NoOne THEN {"iosched"} ELSE {}
LeftAsFound ==
    mainPc = "down" /\ saved # NothingSaved /\ writeFaults = 0
        => \A s \in Settings \ Unguarded : sys[s] = found[s]
=============================================================================
