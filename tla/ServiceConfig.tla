---------------------------- MODULE ServiceConfig ----------------------------
(***************************************************************************)
(* The configuration files of the two daemons the agent runs, and the      *)
(* services themselves: oomd (rd-agent/src/oomd.rs) and the sideloader     *)
(* (rd-agent/src/sideloader.rs), with the part of Runner::maybe_reload()   *)
(* (rd-agent/src/cmd.rs) that decides what a change of oomd.json, of       *)
(* slices.json or of cmd.json calls for.                                   *)
(*                                                                         *)
(* A ruleset of oomd is a name, a separator the string ",": the file is    *)
(* well-formed if the separators stand between rulesets.  What            *)
(* slices.json asks for is abstracted to a number, its version, and so is  *)
(* the headroom of cmd.json.                                               *)
(***************************************************************************)
EXTENDS Naturals, Sequences, FiniteSets

CONSTANTS MaxKnobChanges, MaxServiceFaults     \* bounds

ASSUME ServiceAssumption == {MaxKnobChanges, MaxServiceFaults} \subseteq Nat

VARIABLES
    knobs,          \* oomd.json
    slicesVer,      \* slices.json: the weights
    controlsOff,    \* a controller is disabled for this agent
    headroom,       \* cmd.json
    reread,         \* the files that changed and were not read yet
    readHeadroom,   \* the headroom read last
    oomdCfg,        \* oomd's file: rulesets and separators
    oomdSvc,        \* "none", "running", with the rules it was started with
    memHigh,        \* the slices whose memory.high senpai has set
    sideCfg,        \* the sideloader's file: [slices, headroom]
    sideState,      \* the state of the unit as the agent saw it last
    sideRuns,       \* the daemon runs
    agentUp,
    knobChanges, serviceFaults

serviceVars == <<knobs, slicesVer, controlsOff, headroom, reread, readHeadroom, oomdCfg, oomdSvc,
                 memHigh, sideCfg, sideState, sideRuns, agentUp, knobChanges, serviceFaults>>

OomdFeatures == {"workload pressure", "system pressure", "workload senpai", "system senpai",
                 "swap", "oomd"}
Senpais == {"workload senpai", "system senpai"}
RuleOrder == <<"workload pressure", "system pressure", "workload senpai", "system senpai", "swap">>
NoCfg == [slices |-> 0, headroom |-> 0]

ServiceTypeOK ==
    /\ knobs \subseteq OomdFeatures /\ slicesVer \in 1..(MaxKnobChanges + 1)
    /\ {controlsOff, sideRuns, agentUp} \subseteq BOOLEAN
    /\ {headroom, readHeadroom} \subseteq 1..(MaxKnobChanges + 1)
    /\ reread \subseteq {"oomd", "slices", "cmd"} /\ oomdCfg \in Seq(OomdFeatures \cup {","})
    /\ oomdSvc \in [up: BOOLEAN, rules: SUBSET OomdFeatures] /\ memHigh \subseteq Senpais
    /\ sideCfg \in [slices: 0..(MaxKnobChanges + 1), headroom: 0..(MaxKnobChanges + 1)]
    /\ sideState \in {"Running", "Other"}
    /\ knobChanges \in 0..MaxKnobChanges /\ serviceFaults \in 0..MaxServiceFaults

ServiceInit ==
    /\ knobs = OomdFeatures \ {"system senpai"} /\ slicesVer = 1 /\ controlsOff = FALSE
    /\ headroom = 1 /\ readHeadroom = 1 /\ reread = {} /\ oomdCfg = <<>>
    /\ oomdSvc = [up |-> FALSE, rules |-> {}] /\ memHigh = {} /\ sideCfg = NoCfg
    /\ sideState = "Other" /\ sideRuns = FALSE /\ agentUp = FALSE
    /\ knobChanges = 0 /\ serviceFaults = 0

(***************************************************************************)
(* Oomd::apply(): each ruleset that is on is appended, after a comma if    *)
(* the text so far ends a ruleset.  An empty text is appended too.         *)
(***************************************************************************)
EndsRuleset(s) == s # <<>> /\ s[Len(s)] # ","
\* Mutant: a ruleset is only followed by a comma if it is the first one.
AppendFirst(s, r, on) ==
    (IF Len(s) = 1 THEN Append(s, ",") ELSE s) \o (IF on THEN <<r>> ELSE <<>>)
AppendRule(s, r, on) ==
    (IF EndsRuleset(s) THEN Append(s, ",") ELSE s) \o (IF on THEN <<r>> ELSE <<>>)
RulesUpTo[n \in 0..Len(RuleOrder)] ==
    IF n = 0 THEN <<>>
    ELSE IF RuleOrder[n] = "swap" /\ "swap" \notin knobs THEN RulesUpTo[n - 1]
    ELSE AppendRule(RulesUpTo[n - 1], RuleOrder[n], RuleOrder[n] \in knobs)
WellFormed(s) ==
    /\ \A i \in 1..Len(s) : (s[i] = ",") <=> (i % 2 = 0)
    /\ s # <<>> => s[Len(s)] # ","

\* stop() drops the service and clears what senpai set.
OomdApply ==
    /\ oomdCfg' = RulesUpTo[Len(RuleOrder)]
    /\ memHigh' = IF oomdSvc.up THEN {} ELSE memHigh
    /\ oomdSvc' = IF "oomd" \in knobs THEN [up |-> TRUE, rules |-> knobs \cap OomdFeatures]
                                      ELSE [up |-> FALSE, rules |-> {}]

\* Sideloader::apply(): the file is written if it differs; a unit that was
\* running when last looked at is left alone.
SideApply(hr) ==
    /\ sideCfg' = [slices |-> slicesVer, headroom |-> hr]
    /\ sideState' = "Running" /\ sideRuns' = IF sideState = "Running" THEN sideRuns ELSE TRUE
SideUntouched == UNCHANGED <<sideCfg, sideState, sideRuns>>

AgentStart ==
    /\ ~agentUp /\ agentUp' = TRUE /\ reread' = {} /\ readHeadroom' = headroom
    /\ OomdApply
    /\ IF controlsOff THEN SideUntouched ELSE SideApply(headroom)
    /\ UNCHANGED <<knobs, slicesVer, controlsOff, headroom, knobChanges, serviceFaults>>

(***************************************************************************)
(* maybe_reload(): oomd is restarted for oomd.json; controllers turned off *)
(* stop the sideloader, turned on they start it, and a new headroom        *)
(* updates its file.                                                       *)
(***************************************************************************)
StopSideloader == "slices" \in reread /\ controlsOff /\ sideState = "Running"
ApplySideloader ==
    \/ "slices" \in reread /\ ~controlsOff /\ sideState # "Running"
    \/ headroom # readHeadroom

MaybeReload ==
    /\ agentUp /\ reread # {} /\ reread' = {} /\ readHeadroom' = headroom
    /\ IF "oomd" \in reread THEN OomdApply ELSE UNCHANGED <<oomdCfg, oomdSvc, memHigh>>
    /\ IF ApplySideloader THEN SideApply(headroom)
       ELSE IF StopSideloader THEN sideState' = "Other" /\ sideRuns' = FALSE /\ UNCHANGED sideCfg
       ELSE SideUntouched
    /\ UNCHANGED <<knobs, slicesVer, controlsOff, headroom, agentUp, knobChanges, serviceFaults>>

\* Both units are dropped; only Oomd::stop() clears memory.high.
AgentStop ==
    /\ agentUp /\ agentUp' = FALSE /\ oomdSvc' = [up |-> FALSE, rules |-> {}]
    /\ memHigh' = memHigh \ {"workload senpai"}     \* workload.slice is stopped
    /\ sideState' = "Other" /\ sideRuns' = FALSE
    /\ UNCHANGED <<knobs, slicesVer, controlsOff, headroom, reread, readHeadroom, oomdCfg, sideCfg,
                   knobChanges, serviceFaults>>

\* The user.
Change ==
    /\ knobChanges < MaxKnobChanges /\ knobChanges' = knobChanges + 1
    /\ \/ /\ \E f \in OomdFeatures : knobs' = (knobs \ {f}) \cup ({f} \ knobs)
          /\ reread' = reread \cup {"oomd"} /\ UNCHANGED <<slicesVer, controlsOff, headroom>>
       \/ /\ slicesVer' = slicesVer + 1 /\ reread' = reread \cup {"slices"}
          /\ UNCHANGED <<knobs, controlsOff, headroom>>
       \/ /\ controlsOff' = ~controlsOff /\ reread' = reread \cup {"slices"}
          /\ UNCHANGED <<knobs, slicesVer, headroom>>
       \/ /\ headroom' = headroom + 1 /\ reread' = reread \cup {"cmd"}
          /\ UNCHANGED <<knobs, slicesVer, controlsOff>>
    /\ UNCHANGED <<readHeadroom, oomdCfg, oomdSvc, memHigh, sideCfg, sideState, sideRuns, agentUp,
                   serviceFaults>>

\* oomd's senpai sets memory.high of the slices it is to control.
Senpai ==
    /\ oomdSvc.up /\ memHigh' = oomdSvc.rules \cap Senpais /\ memHigh' # memHigh
    /\ UNCHANGED <<knobs, slicesVer, controlsOff, headroom, reread, readHeadroom, oomdCfg, oomdSvc,
                   sideCfg, sideState, sideRuns, agentUp, knobChanges, serviceFaults>>

\* Sideloader::report() refreshes the state of the unit, which is restarted
\* by systemd, or given up on.
SideReport ==
    /\ agentUp /\ sideState' = (IF sideRuns THEN "Running" ELSE "Other") /\ sideState' # sideState
    /\ UNCHANGED <<knobs, slicesVer, controlsOff, headroom, reread, readHeadroom, oomdCfg, oomdSvc,
                   memHigh, sideCfg, sideRuns, agentUp, knobChanges, serviceFaults>>
SideDies ==
    /\ sideRuns /\ serviceFaults < MaxServiceFaults /\ serviceFaults' = serviceFaults + 1
    /\ sideRuns' = FALSE
    /\ UNCHANGED <<knobs, slicesVer, controlsOff, headroom, reread, readHeadroom, oomdCfg, oomdSvc,
                   memHigh, sideCfg, sideState, agentUp, knobChanges>>

ServiceNext ==
    AgentStart \/ MaybeReload \/ AgentStop \/ Change \/ Senpai \/ SideReport \/ SideDies
ServiceSpec == ServiceInit /\ [][ServiceNext]_serviceVars

Current == agentUp /\ reread = {}
(***************************************************************************)
(* Once what the user changed is read, oomd runs with a well-formed file   *)
(* of exactly the rules asked for.  The exception is in the code: the file *)
(* ends in a comma if the protection of swap is off and so is senpai of    *)
(* system.slice.                                                           *)
(***************************************************************************)
OomdAsAsked ==
    Current => /\ oomdSvc.up <=> "oomd" \in knobs
               /\ oomdSvc.up => oomdSvc.rules = knobs
               /\ "swap" \in knobs => WellFormed(oomdCfg)
               /\ {r \in OomdFeatures : \E i \in 1..Len(oomdCfg) : oomdCfg[i] = r} = knobs \ {"oomd"}

(***************************************************************************)
(* The sideloader of an agent whose controllers are off does not run, once *)
(* the agent has read it, unless the headroom was changed since (then it   *)
(* is started: see the headroom finding) or the unit died unnoticed.       *)
(***************************************************************************)
SideloaderOff ==
    Current /\ controlsOff /\ headroom = 1 /\ serviceFaults = 0 => ~sideRuns

\* Both daemons run as the user asked.
DaemonsAsAsked == OomdAsAsked /\ SideloaderOff
=============================================================================
