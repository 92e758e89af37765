# Verification of resctl-demo

TLA+ models of the programs in this repository, the TLC configurations that
check them on small instances, and theorems about them that TLAPS checks for
every value of the constants. The source is the reference: `PROJECT.json` maps
every definition to the lines it stands for, and lists the runs, the mutants
(plausible bugs, at least one per property, that a run must catch), the hazards and the
theorems.

To check a run: `tlc -config <cfg> <module>`; a proof module: `tlapm <module>`.

## The system

Five programs share one machine and talk mostly through JSON files and systemd
units.

    resctl-demo / resctl-bench --cmd.json, slices.json, oomd.json, ...--> rd-agent
    resctl-demo / resctl-bench <--cmd-ack.json, report.json, bench.json-- rd-agent
    rd-agent --transient units--> rd-hashd, benchmarks, sysloads, oomd, sideloader
    rd-agent --args, params--> rd-hashd --report--> rd-agent
    rd-agent --job files--> sideloader daemon (python)

| component | state | operations | interacts with |
| --- | --- | --- | --- |
| rd-agent runner: `cmd.rs`, `bench.rs` | runner state (Idle, Running, BenchHashd, BenchIoCost), loaded files, benchmark services, `force_apply`, `cmd_pending` | `apply_cmd`, `check_completions`, `maybe_reload`, `become_idle` | users' files, everything rd-agent manages; the reporter takes its lock |
| rd-agent startup and shutdown: `main.rs` | loaded files, saved system settings | `reset_agent_states`, `update_index`, `SysObjs::new`, drops | kernel files, the runner |
| hashd management: `hashd.rs` | two instances, args and params files | `apply`, `stop`, `mark_bench_start`, `report` | rd-hashd |
| side workloads, balloon: `side.rs` | sysloads, sideloads, job files, scratch directories, balloon child | `apply_sysloads`, `apply_sideloads`, `stop`, `set_size`, drops | systemd, the sideloader |
| oomd, sideloader, slices: `oomd.rs`, `sideloader.rs`, `slices.rs` | knobs, daemon units, cgroup files | `apply`, `stop`, `verify_and_fix_slices` | systemd, kernel |
| reporter: `report.rs` | usage trackers, two rings of report files | `tick`, expiry, shutdown | the runner's lock, helper processes |
| sideloader daemon: `misc/sideloader.py` | jobs, overload and critical state | periodic loop | job files, cgroups |
| rd-util: `json_file.rs`, `systemd.rs`, `journal_tailer.rs` | modification times, unit states, message window | reload, save; start, stop, reset; notify | the file system, systemd, journald |
| rd-hashd work queue: `workqueue.rs` | worker map, idle list, ack and error channels | `queue`, `keep_books`, drop | worker threads |
| rd-hashd dispatcher: `hasher.rs` | parameters, concurrency, requests in flight, latencies | `launch_hashers`, `update_params`, `update_control`, `get_stat`, drop | the work queue, the main loop |
| rd-hashd logger, test files: `logger.rs`, `testfiles.rs` | bounded channel, archived logs | write, rotate, expire | file system |
| resctl-bench client: `run.rs`, `base.rs` | loaded agent files, minder state, units asked for | `start_agent`, `cmd_barrier`, `wait_cond`, start/stop of benchmarks and workloads, `stop_agent` | rd-agent |
| resctl-bench storage and protection jobs: `storage.rs`, `protection/*.rs` | memory profile and estimate, retries; the current run, what was recorded | `process_retry`, `update_mem_avail`; `run_one`, `start_sysload`, `restart_agent` | client calls, the hog's report file |
| resctl-bench job store: `job.rs` | jobs, incremental records and their order | load, merge, save | result files |
| resctl-demo | agent supervision, report ring, journal views, TUI | start, stop, refresh | the agent's files |

What makes this hard: the runner's thread, users who edit files, services that
exit and a reporter all move at once; a start, a save or an application may fail
half way; commands and acknowledgements are files with numbers in them that
outlive the processes; rd-hashd's threads talk through channels that are
drained while they fill.

What makes each component correct:

- runner: a benchmark has the machine to itself; what it disturbs (io.cost,
  oomd) is put back before workloads run; requests are served or withdrawn,
  commands acknowledged, results recorded once, for a standing request, and saved
  before they are used; configuration written during a benchmark takes effect
  after it.
- work queue: every worker is known exactly once, work starts at once, is always
  executed, idle workers go, and nothing joins a thread that does not end.
- dispatcher: the count of requests in flight never wraps or drifts, latency
  queries have samples, commands are answered, a lowered limit takes effect.
- client: it decides on files of the agent it started, takes its own results,
  leaves nothing running, and its calls end.
- side workloads: what runs, owns a job file or a scratch directory is what was
  asked for; no job stays frozen. Units: start and stop end in the state they
  return. Reporter: reports are written every second and expire. Slices: what is
  asked for is what the cgroups have in the end. Session: the system is given back
  as it was found. Configuration files: every settled edit is loaded.
- job store: jobs do not share entries, results are never lost, every command line
  completes. rd-hashd's benchmark: the size it saves is the one that can be kept
  up. Logger and test files: bounded logs, whole files.
- storage and protection jobs: what a record holds was measured for that record, with
  the estimate and by the hog it names, whatever failed and was retried.
- resctl-demo: no agent is left behind, graphs and journals show what there is, the
  commands of documents reach the agent.

## Modules

| module | models | composed with |
| --- | --- | --- |
| `BenchLifecycle` | what an agent promises about commands and benchmarks (abstract) | implemented by `AgentRunner` and by the agent of `BenchClient` |
| `AgentRunner` | the runner's loop with what it calls | `MCAgentRunner`: instances; `AgentRunnerProofs` |
| `WorkQueue` | the worker pool | `WorkQueueProofs` |
| `HashDispatch` | dispatch thread, hashers, main thread | `WorkQueue`, whose actions it takes; `MCHashDispatch`; `HashDispatchProofs` lifts the queue's theorems |
| `BenchClient` | resctl-bench's calls, its minder thread, and the agent as they see it | restates the agent's protocol; `AgentRunner` has the rest; `BenchClientProofs` |
| `SideRunner` | side workloads, their job files, and the sideloader daemon | agent and daemon are composed in the module |
| `TransientUnit` | one transient service, call by call, under the balloon | |
| `HashdSet` | the two rd-hashds the agent runs, with the daemons' side of the files | |
| `ServiceConfig` | oomd's and the sideloader's files and daemons | |
| `AgentSession` | startup checks, system settings taken over and given back | |
| `MCAgentServices` | instances of these five | `AgentServicesProofs` |
| `Reporter` | the report thread, its files, and the runner's exit | |
| `ReportRing` | rings of reports and graph data in resctl-demo | extends `Reporter`, whose files it reads |
| `JournalTailer` | journal tailer and the views of it | |
| `ConfigFile` | a configuration file with its writers and a follower | |
| `AgentSlices` | slice configuration and its repair | |
| `MCAgentReports` | instances of these five | `AgentReportsProofs` |
| `BenchJobs` | resctl-bench's jobs and its result file | `MCBenchJobs`: command lines |
| `StorageBench` | the storage job, its estimate of memory and the memory profile | |
| `MemHogBench` | the protection job with its two scenarios, the agent and the hog | job, agent and hog are composed in the module |
| `DemoAgent` | resctl-demo as the minder of the agent | |
| `DemoDocs` | documents and commands of resctl-demo, and an agent that reads them | |
| `HashdBench` | rd-hashd's benchmark | |
| `HashdFiles` | rd-hashd's test files and log | |
| `MCBenchAndDemo` | instances of these seven | `BenchAndDemoProofs`; `HashdProofs` for the two of rd-hashd |

An `MC` module over several components holds their variables side by side and a
variable `part`, chosen at the start, which says which of them moves in a
behaviour. The components are checked as if each had a run of its own: nothing
about how they interact follows from such a run. Where components do interact, the
module itself composes them: agent and daemon in `SideRunner`, reporter and reader in
`ReportRing`, runner and reporter in `Reporter`, client and agent in `BenchClient`
and `DemoDocs`, dispatcher and queue in `HashDispatch`.

### AgentRunner

The runner thread repeats: `apply_cmd`, once more if it became Running -
`check_completions` - unlock and drop removed side workloads - sleep -
`maybe_reload`. `pc` is the position in that loop; each call is one action,
because the runner holds its lock and only users, systemd and the clock move
meanwhile. `mem` is what is loaded from `cmd.json`, `bench.json`, `slices.json`
and `oomd.json`; `disk` what these files contain; `age` whether a file is loaded,
changed less than 10ms ago, or ready to be loaded. Effects outside the process
are variables of their own: the benchmark services, the workloads, the
balloon, the oomd configuration in effect, the sideloader, `io.cost`, and the
applied slice configuration. A content is a record of the fields the control
depends on and a revision for the rest. `Faults` names the failures a run
admits: exit and panic of the agent, unwritable acknowledgements and knobs,
services that cannot be created or started, partly applied loads, unreadable
results, failing saves, files that do not parse.

### WorkQueue and HashDispatch

`WorkQueue` follows `keep_books()` message by message while the workers go on
sending. A worker is the address of its handle, which is used again after the
handle is freed: `Ids` is the set of addresses. `idle` is the list as the code
keeps it, most recent first; `joining` are the join handles taken; panics put
an entry in `errs` and, at the owner, unwind into the queue's drop.

`HashDispatch` instantiates it and adds the dispatch thread (`at`), its control
state, its counters, the completions, and the main thread. A hasher sends its
completion, then its worker sends the ack: two messages. The PID controllers
choose any concurrency between 1 and their clamp, so that nothing checked or
proved depends on their gains.

### BenchClient

`disk`, `young` and `unread` are the agent's files, which of them changed less
than 10ms ago, and which the client has yet to load; `cl` and `have` are the
client's `agent_files`. A file names the agent instance it belongs to.
`main` is the job's thread with the call it is in (`pc`), the minder is a second
thread that holds the lock during a refresh; a refresh reads the commands, the
report and the results in that order, with steps of other processes in
between. The agent resets and loads its files, accepts commands, acknowledges,
applies, records results and reports. Starting it finds nothing, an earlier
program's files, or those of the job's own last agent.

Two facts about time are assumed and named where they are used: the first report
is at least half a second later than the agent's first files
(`report.rs:918`), and a benchmark runs long enough to be reported before
it ends. Also assumed is that a benchmark that ends by itself has succeeded. The
program being asked to exit and the `panic!` of `stop_svc()` are left out, as are
sysloads, which `MemHogBench` has.

### SideRunner

`target` is what `cmd.json` asks for and `active` the two maps of `SideRunner`; `pc`
walks through `apply_sysloads()`, `apply_sideloads()` and the drops, one unit or job
file at a time, and the agent may die at any of them. The daemon (`dpc`)
goes through its loop: load job files it has not seen, drop those that are gone, assess
the machine, freeze or thaw, kill, stop, start what is pending. It knows job files by
inode number and keeps them open; `Inodes` are used again, lowest first. How load
and pressure make an overload is a choice of `Assess`. The agent's side of `pending`
and the daemon's pinning of inodes by an open file are in the model because `Leftovers`
rests on them.

Not checked, because the code does not have it: with `CrashMidSave = TRUE` an agent
that dies between writing a staging file and renaming it leaves a file the
daemon runs as a job. A sideload whose unit cannot be looked up leaves its job
file (`leaked`). The daemon sets `crtical_at` where it means `critical_at`
(`sideloader.py:1226`), so that a critical state does not extend the hold.

### TransientUnit

systemd's side of a unit (`loaded`) moves on between any two D-Bus calls; `upc` is
where `set_size()`, `stop_and_reset()`, `try_start()` or the drop is. Calls may
fail and waits time out. `TransientService::drop` stops five times without leaving
the loop on success; the model does too.

### HashdSet

`apply()` of the two instances in its order: stop what is not asked for, parameters,
start, resource control; `daemon`, `paramsFile` and `repFile` are what the two
processes share. The clock counts the milliseconds of a report's timestamp. Of a report
that is too old the code keeps the size and time of the last memory probe "which don't need
explicit expiration" (`hashd.rs:201`): an instance that was just started, and has not
reported yet, is shown with the probe of the one before it. `ReportsOfThisLife` is about the
load and the latency, and about the probe wherever they are shown.

### ServiceConfig

The rules of oomd's file with the separators between them, and which change of
which file restarts which daemon. The file of oomd ends in a comma, which is not JSON,
if the swap rule and the senpai of `system` are both off: `OomdAsAsked` excludes that
combination of knobs.
Also as in the code: weights changed while the sideloader runs never reach its
file, the unit's state is only refreshed by reports, and `memory.high` set by senpai
stays when the agent exits.

### AgentSession

A life of the agent, startup check by startup check: `saved` is what it would restore,
`sys` the system, which outlives it. A session that was killed leaves its
settings as the next one's originals. A check may fail because of what it reads
(controllers, the freezer, file systems, swap, dependencies: `MayFail`), by which
nothing is written and nothing spent, or because a setting is not as it should be and may
not be enforced (`Passives` is what `--passive` may name); `mainPc = "failed"` is after a
`?`, which leaves `startup_checks()` in the middle, `"refused"` after the panic of `main()`.
The destructors run in two orders: `main()` drops `IoCostSysSave` before `Config`,
while a runner has taken `Config` over and drops it first.

`LeftAsFound` covers all these ends. It excludes sessions in which a setting could not be read
or written (`writeFaults`), and one case in which the code does otherwise: with
`--force`, startup goes on after a `?` that came before the io scheduler was saved, and the
health check (`cmd.rs:474`) then sets a scheduler nobody restores (`Unguarded`). A
swappiness or zswap switch that was not saved for such a reason, and can be read later, is a
panic of the runner (`cmd.rs:195`). Not modelled: `--bypass`, with which nothing is taken
over; and what the code does not restore at all: the remounts of cgroup2 and
the file systems, and the configlets of host-critical services.

### Reporter and ReportRing

The clock counts seconds, and a turn of the report thread may take any number of them;
`now`, `nextAt`, `due` are the thread's, `files`, `latest` the disk's. A report is
its stamp. When usages cannot be read (`report.rs:548`) `tick()` returns before it
expires anything: the files that were due stay until the next agent (`leaked`).
`AgentExits` is about the lock: the runner joins the report thread after it has
let go of it.

`ReportRing` adds the rings that all graphs share and the bins of one graph, with other
graphs filling in between. `GraphExact` says that each bin has the reports of its
span, each once. It is checked for timescales whose bins are within the rings'
retention, and proved for any.

### JournalTailer

The reader thread, the worker, the callbacks queued for the thread of the user interface,
and two ways of showing messages. A line may fail to parse or be left out of the view.

### ConfigFile

Modification times have steps of `Granule`; a save takes up to `SaveTime`; an editor
writes in place. `FollowsFile` needs `SaveTime + Granule <= Settle`, which is what
the 10ms of `maybe_reload()` are for; `load()` has no such rule (`early`). A crash
between `create_new` and the write of a default leaves an empty file that never loads.

### AgentSlices

What `slices.json` asks for, on its way through configlets, `daemon-reload` and cgroup
files, with `verify_and_fix_slices()` of the health check and other programs that change
cgroups. Checked with the cpuset controller off: with `CpusetOn = TRUE`,
`SlicesConverge` fails, because `line.contains("cpu")` (`slices.rs:589`) is true of
`cpuset` as well, and a disabled cpu controller is never found to be on.

### BenchJobs

The command line is linked to entries of the result file (`entries`), jobs are run,
recalled or continued from a checkpoint, and jobs they need are run nested (`frames`).
`knobs`, `saved` and `demo` are the bench knobs of `Base`. The user runs a command line
again until it completes (`goal`), with other command lines in between, crashes
and failing benchmarks. A measurement is a number, and `Models` says what follows from it:
which QoS configurations are too slow to run with the io.cost parameters measured, and of
which the minimum is raised (`skip_or_adj()`), unless the job ignores it. Two jobs, or two
invocations, may go by different parameters. A raised configuration is compared by a field
that is not stored, so that its run is found again in the same invocation only, and
is measured anew at every start; the model writes it as a negative number.

`save_results()` truncates the result file and then writes it. A crash in between
(`CrashInSave`) leaves a file that does not parse (`torn`); resctl-bench then panics at
every start until the user removes it (`RemoveFile`). `NothingForgotten` says what every
other write keeps: the entries, their measurements, the results (those of `iocost-qos` are
recomputed when it is run again, and gone until then) and every run of a configuration that
is still asked for and not too slow now. A run whose configuration has become too slow
is dropped when the job completes, as the code does (`iocost_qos.rs:561`).

`JobsCompleted` holds for the command lines of `MCBenchJobs`, up to one case in which the
code gives up and says so (`OtherParams`): a line whose own parameters are not committed
leaves runs of `iocost-qos` that block a later one, "consider removing the result file"
(`iocost_qos.rs:542`). And a line with `iocost-tune` before `iocost-qos` is not run
beside lines with `iocost-tune`: it leaves entries that block every later one
(`find_done_job_data()` returns None at the first entry of the kind that is not done).
"`resctl-bench` ensures
forward-progress by incrementally updating benchmark results" (`doc/common.md:109`)
and "If the specified bench series doesn't include a preceding `iocost-qos` instance,
`iocost-tune` runs `iocost-qos`" (`doc/iocost-tune.md:6`) say otherwise. Further: after a
second `iocost-qos` of one line crashed, it finds the parameters reverted
(`base.rs:269`); `record_rep()` (`run.rs:252`) compares the wrong way round. The memory
profile, which `prev_matches()` also compares, is part of the parameters' number.

### StorageBench and MemHogBench

`StorageBench` counts memory in units of 512MB. `real` is what other programs leave, and
moves; `memory` is `Base::mem` with the estimate the balloon follows from; `measured`
remembers with which estimate each usage was found, which the code does not. The search of
rd-hashd itself is `HashdBench`; here it fills what the balloon leaves. With the profile
disabled, the estimate is the whole machine and cannot be changed, so that a disagreement
never ends: `FluctuatedIndeed` excludes it. A new estimate below the share fails the
job, and as `Base` keeps it (nothing calls `reset_mem_avail()`), the jobs after it.

`MemHogBench` follows `run_one_int()` call by call, and what `run_one()`, `MemHog::run()` and
`MemHogTune::run()` do with its failures. Hogs are numbered as they are started; `scratch`
tells whose `report.json` is in the directory they share. `asked` is the command file,
`seen` the report, `keeper` the agent, which acknowledges a command before it applies it,
drops what was removed later still, and may die. That rd-hashd is stable, that the hog has
swapped and that its isolation was sufficient are choices.

### DemoAgent and DemoDocs

`DemoAgent` has three threads: status (`mind()`), user interface with its queue of
callbacks, and main with the exit. The views on top of each other are `zoomed`, `zvReq` is
whether that of the agent is asked for, and `wishOf` remembers who said so last, the minder
or the user. `ViewSettled` relates the view to the agent: the minder knows whether
it reports, and unless the user has said otherwise since, its view is shown exactly when it
does not.
As in the code, an agent that was running before resctl-demo and is stopped from its
menu is started again by the next `mind()`.

`DemoDocs` runs the lines of documents: entry and exit commands, prompts, groups,
conditions and jumps. A click is unfolded to commands, with the agent moving between
them. `cs` is `CMD_STATE`, `cmd` the file; `unheard` remembers what was turned off
since the agent looked last. `ArrivesPrepared` compares what is in effect when a document
is entered (workloads, knobs, controls, requests for benchmarks) with the last of its entry
commands about each, be it an on, an off, a knob or a reset; what no entry command
is about, or only the exit of the document before, may be anything. Requests for benchmarks
are compared where the last command about them is a reset; no document turns one on by
itself at its entry. Not modelled: a jump in a group (which panics), failing
saves, and graph views. The button labelled "Toggle iocost benchmark"
in `intro.iocost.rd:111` toggles the one of hashd.

### HashdBench and HashdFiles

`HashdBench` follows the phases up, bisect, verify, refine with the lists `left` and
`right` of bounds. The rps falls as the size grows; `sat` has the first size at which it
falls short by each of the three thresholds of the search, .25 on the way up, .1 in the
bisection and .075 on the way down, unknown to the search and in that order.
So the bisection may end well above the size that is full performance, or never
start. `MemoryFound` is about the last threshold: the walk down goes on until it is met.
That it gets there follows from `set_mem_pos()` writing the size tried where
`next_refine_pos()` takes both its step and its lowest size from (`bench.rs:113`): the steps
shrink with the size and end at a thousandth of the memory, not at half of what the
bisection found. A try
may be `late`, judged by the samples of the size before; the code verifies the opposite
bound for that. Two late tries are more than it copes with: `MaxLate = 2` violates
`MemoryFound`. `--bench-test` takes no try upwards and one of each other phase, and is left
out of `MemoryFound`.

`HashdFiles` has the setup of test files and the log thread, operation by
operation, with kills and failures. Logs are in the order of their file names; times that
go back are left out.

## Runs

| run | shows |
| --- | --- |
| `runner_safety` | io.cost and oomd are as configured whenever workloads run, no result is recorded for a withdrawn request |
| `runner_faults` | with all failures: benchmarks are exclusive; the runner implements `BenchLifecycle` |
| `runner_liveness` | requests are served or withdrawn, edits applied |
| `workqueue` | accounting, order and progress of the pool, panics included |
| `dispatch` | the count of requests in flight, drop and a lowered limit |
| `bench_client` | own results, nothing left, barriers mean what they say |
| `bench_client_liveness` | every call ends, whatever becomes of the agent, without a timeout |
| `agent_services` | side workloads, balloon, hashds, daemons and settings end up as asked, or as found |
| `agent_reports` | retention, graphs, journal views, followed files, slices, and the agent's exit |
| `bench_and_demo` | jobs and their results, what storage and protection record, resctl-demo and its documents, rd-hashd's benchmark and files |

Two runs each find a disagreement between the code and what the repository says
of it (`PROJECT.json`, "findings", quotes both):

- `runner_sideloads`: sideloads keep running during benchmarks; "all other
  workloads are stopped" (`rd-agent-intf/src/cmd.rs:17`).
- `jobs_allow_fail`: with `allow-fail` a QoS configuration that fails is run again
  after an empty entry was pushed for it; the entries are one too many, and the last
  configuration's result is cut off (`iocost_qos.rs:571`).

Others were met while modelling; they have no run of their own:

- A hashd benchmark that does not start and is withdrawn leaves oomd stopped while
  workloads run (`cmd.rs:270`): `OomdGuards` fails with the fault `hashd_start`. The same
  happens to io.cost when the unit of an iocost benchmark cannot be created
  (`bench.rs:62`).
- A command with a cancellation is forgotten when swappiness or zswap cannot be set
  (`cmd.rs:250`); the benchmark's result is recorded under the lowered number.
- A change of the CPU headroom starts the sideloader while a controller is disabled
  (`cmd.rs:170`); `SideloaderOff` excludes it.
- A completion arrives before its worker's ack, and the dispatcher spawns a worker beyond
  `concurrency_max` (`hasher.rs:327`).
- A panicking dispatcher never answers `get_stat()` (`hasher.rs:892`), as `Dispatch` itself
  holds a sender of the channel; a worker's panic is only noticed by the next
  `queue()` or `keep_books()` (`workqueue.rs:138`).
- `reset_agent_states()` removes files from the directory of sysloads' scratch directories,
  not the directories in it (`main.rs:1112`). After an agent that died with a mem-hog, the
  next hog finds its predecessor's `report.json`, and until it has written its own, that is
  what `read_hog_rep()` returns as the first report, "used as the baseline"
  (`protection/mem_hog.rs:208`): without `hogDeaths = 0`, `HogsOwnReports` fails.
- The protection job raises oomd's thresholds once "so that the benchmarks don't get
  terminated prematurely" (`protection.rs:373`). A failed run restarts the agent with
  `--reset`, which removes `oomd.json`: the runs after it have the default thresholds
  (`mem_hog.rs:313`).
- `io_util` is the difference of two unsigned counters that a cgroup created again sets
  back (`report.rs:335`).

### Bounds

- Runner: two edits by users, two agent
  instances, sequence numbers 0..3 with 3 for `u64::MAX`, starting on a machine
  without results or one with both, serving workloads. The commands request
  nothing, either or both benchmarks, and hashd "once more" (`u64::MAX`). Two
  edits are a request and its withdrawal, a request and a configuration change
  during the benchmark, or two requests; a restart may fall between any two
  steps. What the runner remembers of earlier edits is `force_apply` and
  `cmd_pending`, so that a third edit mostly meets a state two have reached.
- Work queue: three addresses, a timeout of 1 and a clock up to 2, so that one
  worker times out while another is active and a third waits for its ack, and an
  address is used again. The work itself is unbounded.
- Dispatcher: two addresses, one parameter change, which lowers the maximum from
  2 to 1 and resizes the area, one counted completion, clock up to 1. The races
  are between the one change, at most two hashers, and one command.
- Client: two agents (the one started and the one whose files are found; a third
  adds no new kind of file), two benchmark or workload calls, which is what
  it takes for one's result to be mistaken for another's; one in the liveness
  run.

- Side workloads: one sysload and one sideload, four inodes, two commands, and one each of
  faults, crashes and overloads: an inode is used again, and a sideload is removed and
  added back between two passes of the daemon. Both kinds of load are dropped and
  started by the same loops, one name each.
- Unit: two sizes and two failing calls; the five stops of a drop are as in the code.
  Hashds: two commands, four milliseconds, which is more than the expiry.
  Services: three changes, so that any two rules are on or off around a third. Session: one
  life, on a system as booted or as a killed agent has left it, one failing write,
  everything enforced or passive io, memory and oomd; checks that fail without a write are
  not bounded.
- Reporter: a long interval of 2 instead of 60 seconds, retentions of 2 and 4, any number of
  seconds skipped within 5, one failure, one restart: every alignment of the two
  intervals happens. Graphs: strides 1 and 2, three slots, three fills: before,
  after and across a change of timescale.
- Journal: retention 2 of five lines, one that does not parse, one that is not shown.
  File: three writes in eight steps of a clock with granules of two.
  Slices: two slices, two settings, a change, a drift and a failure.
- Jobs: four command lines of up to three jobs, three QoS configurations; two outcomes of
  iocost-params, on one of which a configuration is too slow and on the other one raised;
  one other command line, one crash (within a save or not), one failure. Demo: two keys, one failure;
  two keys open and close a view while a request is queued. Documents: three clicks in
  three documents, which have a redirection, groups, conditions and every class of
  command.
- Storage: four movements of memory among four sizes, around the share and within and
  beyond the accepted error; two records, which is what it takes to mix estimates; one
  inner and two outer retries. The profile is 16 or disabled; the others differ
  in the numbers only. Protection: three runs, two failures and a death of the agent, so
  that a failed run lies between two recorded ones.
- rd-hashd's benchmark: twelve sizes at which the machine gives way at once, among them both
  ends and both sides of what is tried first, and ten on which it degrades slowly, with
  the three thresholds up to the whole memory apart. Files: five lines, three lives, three logs.

`CHECK_DEADLOCK FALSE` in all: each system stops when its bounded users have
nothing more to do, and rd-agent, the pool and a job may end.

### Fairness

- Runner: its loop goes on while the agent is up, an agent that is down is started
  again, 10ms pass, and a benchmark ends; benchmarks have bounded run times.
- Work queue: a call that was begun goes on, threads run, work ends, an
  unwinding owner drops its queue (it is its destructor). The clock and the
  owner's calls are not fair.
- Dispatcher: it takes turns; `select!` picks at random among what is ready, so
  that a command is not passed over forever, and a control period ends between
  some two turns (strong fairness for both); hashers end; the main loop asks for
  statistics every second and takes the reply.
- Client: threads and the agent go on and 10ms pass. The minder sleeps a second
  between its turns, so that whoever waits for the lock gets it, and the first
  report and the end of a benchmark fall between refreshes: strong fairness.
  Timeouts and deaths are never relied on.
- Side workloads: both threads go on, systemd restarts the daemon, and the machine
  is again and again found well at a time the hold is over (strong fairness of
  that assessment). Reporter: both threads go on; the report thread gets the lock, which the
  runner leaves for 100ms in every turn (strong fairness). Journal and slices: threads go on.
- Jobs: the user starts the command line again and the program goes on. Demo: callbacks
  are run, the status thread wakes every second, the exit goes on.

## Proofs

The assumptions are the named `ASSUME`s on the constants, which every run
evaluates; there are no bounds on edits, instances, threads or values in them. What a
theorem assumes beyond them is in its statement, and the runs satisfy it.

**Runner** (`AgentRunnerProofs`).
- `TypeCorrect`. The only arithmetic is the sequence number that wraps.
- `BenchAlone`: `Spec => []BenchExclusive`. The invariant alone is not inductive:
  removed sysloads are stopped after the lock is released. `ExclusiveInv` adds
  where in the loop they may still exist, and that the agent is Idle when down.
- `IoCostRestored`, `OomdRestored`: under `NoLostSettings`, which excludes the
  failures of the findings above (a benchmark that does not start, a slice
  configuration that cannot be applied), whatever a benchmark disturbs is
  restored. `ForceInv` follows `force_apply` from the start of a benchmark to the
  reload before the next `apply_cmd`; `IoCostInv` and `OomdInv` say that settings
  are as configured or that flag will make them so.
- `OnlyWantedRecorded`: `RequestInv`, a benchmark that runs is still asked for, or would
  record what is on record already, unless a command is yet to be looked at, and none is
  when completions are checked. `RequestsHold` excludes what breaks it: knobs that fail to
  be set, upon which the command is forgotten and the benchmark goes on, and a save that
  fails while hashd is benchmarked in a loop, which records once more when the loop was ended.
- `RunnerImplementsLifecycle`: every step, with every fault, is one of
  `BenchLifecycle` or changes nothing it sees: a command is acknowledged only when it is
  loaded, a benchmark starts only when it is wanted and no workload runs, rd-hashds and sysloads are
  those of the loaded command, and during a benchmark only its own result is recorded, after
  it finished, under the number that was asked for.

**Work queue** (`WorkQueueProofs`).
- `AllAccounted`, `WorkStartsAtOnce`: `PoolInv` (channels and idle list
  are duplicate-free and disjoint, a busy worker is in none) with `OwnedInv`
  (while there is an owner, whoever is not in the map is being joined or does not
  exist, so an address is free when it is used again).
- `IdleLetGo`: `OrderInv` (the idle list is ordered by last activity and nothing in
  it is newer than `now`), which is what looking from the back relies on.
- The lemmas on `Elements` say what the sequence operations do to the elements.

**Dispatcher** (`HashDispatchProofs`).
- `UsesQueue`: `Spec => WQ!WQSpec`. The dispatcher's pool is a work queue, so all
  its theorems hold here; the `Pool` lemmas lift them.
- `InFlightIsExact`: `CountInv` adds to the count itself where hashers are
  (`JobInv`) and what is left once the dispatcher has ended (`EndInv`). Each
  step adds or removes one element of a finite set, whose cardinality follows.
- `SamplesExact` (`SamplesMatch`: a latency query always has a sample),
  `ReceiverIsLast` (the order in which the fields are dropped).

`TypeCorrect`, `WorkStartsAtOnce`, `SamplesExact` and `ReceiverIsLast` state invariants
that no run lists: what they say is proved, so the runs are kept for what is not.

**Client** (`BenchClientProofs`). One invariant, `IInv`, for all five theorems, kept by
every step of the job's thread, the minder, the agent and its services, over any
number of deaths and timeouts.
- Its first parts are about the files: types; that the agent never runs what was not
  asked for (`OnlyAsked`, `KindKept`); `Lives`: who can be alive at which point of the
  job, and that a service of a dead agent is in the client's list; `Coherent`: who has
  read which version of the command, benchmark and report files; `Numbered`: a command
  number is written once, so that the one an agent acknowledges says which commands it
  has loaded; `ComingUp` and `InTouch`: what is known of the agent while it starts and
  after its first report; `AtBarrier`.
- `LeavesNothing` is `Lives` at the end of the job. `BarriersAreSeen` is `AtBarrier` with
  `Numbered`: an acknowledgement of an earlier agent has an earlier number.
- `BenchmarksStayStopped` and `ResultsAreOwn` need `BenchInv`: the sequence numbers of the
  request, of the result and of the running benchmark, for each place the job can be
  between asking for a benchmark and having stopped it.
- `ClientsAgentImplementsLifecycle`: the agent of this module implements `BenchLifecycle`,
  too (`AgentKeepsPromises`, which TLC also finds to hold of the instance of
  `bench_client` with two agents; no run lists it). So the client's theorems and the runner's
  speak of agents that make the same promises. They do not say that whatever a runner may do
  is done by this agent: `BenchClient` leaves out workloads other than rd-hashd, and failures
  other than death.

**Services of the agent** (`AgentServicesProofs`).
- `SettingsLeftAsFound`: `KeptInv` follows each setting: until it is put back, what was
  saved of it is what was found, or nothing was saved and it is untouched, through each
  check, failing or not, and each early end; with the exception of the io scheduler above.
- `BalloonIsSafe`: `UnitInv` says at each call to systemd what is loaded and what the
  balloon believes.
- `ReportsAreOfThisLife`: an action property; `LifeInv` bounds the times in the report
  file by the start of the unit, or by its stop. It makes no claim on a memory probe
  that is shown without a load.
- `DaemonsRunAsAsked`: `DaemonInv`, what was read of each file holds until it changes.
- `NothingIsLeftOver`: assumes `~CrashMidSave`, as the run does: see `SideRunner` above. `KnownInv` says which inode numbers may be
  reused while the daemon remembers them, `OwnedInv` whose every job file is, `StoppedInv`
  why a unit may be there without being wanted.

**Reports, journal and configuration files** (`AgentReportsProofs`).
- `UnchangedMeansKnown`: assumes `SaveTime < Settle`: a rename that comes later than a
  file takes to settle has an old modification time, and is missed by design.
  `FollowerKept` relates the loaded time to the versions written since.
- `ReportsAreRetained`: `Linked` (each report knows the interval of the one before) and
  `Unexpired` are what makes it inductive: the reporter only removes what it last
  skipped over.
- `GraphsAreExact`, here with the restarts and failures of the reporter that the run
  leaves out: `GraphInv` is `RingInv`, which is what holds of the ring without the graphs
  (stamps are multiples of their interval, and there are no holes), and `BinInv`. The
  bins of a graph follow each other up to its tip, each with what the ring has of its
  span among the reports that were dealt with, unless it begins before the oldest bin
  that was kept (`Binned`, `Ahead`); and a graph has not gone past what the ring has
  reached (`Reached`), so that no later load can bring a report it would have to go back
  for. `StartAssumption`, that the clock is far from zero, is needed because a tip at zero
  means that there is none.
- `JournalIsShown`: `BarFresh` for the bars. `ViewInv` for the views is about a history of the
  messages, how many lines each takes, and what of them is shown: the messages and the
  lines that are kept, and the view, are each a last part of it, and sequence numbers
  say which one; a refresh that is outstanding will make up the difference.

**rd-hashd** (`HashdProofs`).
- `SizeFoundIsNear`: one invariant per phase of the benchmark (`UpInv`, `BoundsInv`,
  `BisectInv`, `VerifyInv`, `WalkInv`, `FracInv`), each with the case that one try was
  judged late. The bounds of the bisection are about its own threshold; of them the walk down
  only needs that it starts no lower than just below the size its own is about. It
  assumes `BenchScale`: the steps of bench.rs relative to each other, and
  at most one late try; with two the statement is false.
- `FilesAreSound`: `ReadyInv` for the test files; `LogInv` for the log: which lines are
  queued, in hand, in the current log, archived and expired (`QueueInv`, `OrderInv`,
  `WholeInv`), and that the worker knows every archive, oldest first (`KnownInv`).

**Jobs, storage, protection, demo** (`BenchAndDemoProofs`).
- `JobsKeepTheirEntries` and `ResultsAreKept`: `JobsInv`. Uids are unique and below the
  next one (`Numbered`); each pending or running job has a linked entry of its kind
  and id (`Owned`, `Apart`); every entry of the file has its copy among the
  entries while the program is up (`Covered`); a job under a nested one has not begun
  its runs (`Outermost`); the running job knows each run, measurement and result its
  entry has, by then or in the record it is about to save, but for those that are too slow
  by the parameters it runs with (`Progress`, with `InRuns` and `InStudy`). That the sort by update sequence only moves entries is lemma
  `SortMoves`: the number of entries ahead of one is injective. They hold for
  any command lines, also those no run can hold.
- `ResultsBelongTogether`, `RecordsAreSound`: `TogetherInv` and, under `BalloonsFit`,
  `MovesInv` for storage; `KeeperInv`, `QuietInv` and `ReportInv` for the hog, the agent
  and the hog's report file between two runs. `BalloonsFit`: the memory there is never
  changes by more than the target of the profile. Otherwise an estimate can be so high
  that the balloon it asks for leaves nothing to measure it by, and it takes more than
  one retry to follow one change.
- `DemoLeavesNoAgent`: `HeldInv`, whoever starts a service still holds it when the exit
  drops it.
- `OffsAreHeeded` and `EntriesArePrepared`: `DocsInv`, for any documents. `HeardInv`: an
  agent that has, or has acknowledged, the last command has heard of everything turned
  off. `SwitchInv`: the switches are as the file has them, and know a benchmark's sequence
  number that is at most the current one. `TodoInv` and `EntryInv`: what is left to do ends
  in the entry to a document or a jump, and of its entry commands those no longer
  to be done are in effect, or undone where they were an off or a reset, but where a later
  one is about the same thing.
  `WrittenAssumption` is how `doc/*.rd` are written: `bench-needed`, which asks for
  benchmarks also when it is turned off, is only turned on (`intro.pre-bench.rd:80`), and
  what is turned on at an entry are workloads. That what is parsed are commands of the
  lines (`ParsedWritten`) is by induction over the lines.

Three of these follow a loop of the code over data of any length: the parser over the
lines of a document, a fill over the reports of a ring, a view over its messages. The models
have such loops as recursive functions or as formulas about positions, and the proofs go by
lemma `UpTo`: a set of numbers with 0 in it and, with each, the next one up to n, has
all of them. Its own proof is by a least counterexample.

Only model-checked:
- all liveness, which is beyond the prover: `HashdServed`, `ConfigEffective`,
  `WorkExecuted`, `DropReturns`, `LimitEffective`, `CallsEnd`, `SideConverges`,
  `SlicesServed`, `AgentExits`, `JobsCompleted`, `DemoViewFollows` and their like;
- the type invariants of modules that no theorem needs, `BenchClient`'s bounds among them.

## Not modelled

- The text user interface, document text, formatting and argument parsing: no control
  state. Studies and `merge.rs`: statistics over reports; what they compute is a number in
  `BenchJobs`. The `--test` modes of the storage and protection jobs.
- What reports contain: usage deltas, io latencies, pressure.
- `bandit`, the helper scripts, `rd-util`'s helpers: one loop each, or plain I/O.
- The PID controllers, access distributions and hashing of rd-hashd: any value within
  their clamps.
- The program being asked to exit while resctl-bench waits.
- Torn writes: a save is one step except in `ConfigFile`, `SideRunner` and `BenchJobs`.
- What a benchmark leaves that fails to start (findings above): `runner_safety` has no such
  failure, `runner_faults` has, for what it checks. A hashd benchmark that dies every time
  is started again for ever, and one asked for in a loop never ends: `runner_liveness` has
  neither.

## Plan

1. That whatever the runner does towards its client is also done by the agent of
   `BenchClient`; both are shown to implement `BenchLifecycle`.
