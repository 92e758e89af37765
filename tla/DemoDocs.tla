------------------------------ MODULE DemoDocs ------------------------------
(***************************************************************************)
(* The documents of resctl-demo (resctl-demo/src/doc.rs, doc/markup_rd.rs) *)
(* and the commands they run (resctl-demo/src/command.rs), against an      *)
(* agent that loads cmd.json, acknowledges it and runs the benchmarks      *)
(* asked for.  A click may stand for several commands, todo holds those    *)
(* still to be run: the agent moves between any two of them, and may die   *)
(* and be started again.  Switches without a state of their own in the     *)
(* files are left out; weights, ratios and sizes are knobs that are at     *)
(* their default or set.                                                   *)
(***************************************************************************)
EXTENDS Naturals, Sequences, SequencesExt

CONSTANTS
    Lines,          \* the command lines of each document, by its id
    Index,          \* the document shown first
    MaxClicks, MaxTimeouts, MaxAgents, MaxSeq   \* bounds

VARIABLES
    cs,             \* CMD_STATE
    cmd,            \* cmd.json
    disable,        \* the disable_seqs of slices.json and oomd.json
    benchSeq,       \* bench.json: the seqs of the completed benchmarks
    ack,            \* cmd-ack.json
    seenUp,         \* AGENT_RUNNING
    agent,          \* whether it runs, its report seq, cmd.json as it loaded it
    doc,            \* CUR_DOC
    hist,           \* DOC_HIST
    todo,           \* what the last click, or key, has yet to do
    waited,         \* how the sync() of the first of todo ended
    unheard,        \* what was turned off since the agent loaded cmd.json (ghost)
    spent           \* clicks and timeouts, bounded

docVars == <<cs, cmd, disable, benchSeq, ack, seenUp, agent, doc, hist, todo, waited,
             unheard, spent>>

Benches == {"iocost", "hashd"}
Hashds == {"hashdA", "hashdB"}
Senpais == {"senpai"}
Workloads == Hashds \cup Senpais \cup {"sideload", "sysload"}
Ctls == {"resctl", "oomd"}
Tunables == {"hashd-params", "resctl-params"}     \* the knobs, by what resets them
Loop == MaxSeq + 1                  \* std::u64::MAX, asking for one after another

(***************************************************************************)
(* RdDoc::parse(): lines outside of groups are prompts, or run at the      *)
(* entry to or the exit from the document; a line whose condition does not *)
(* hold is skipped, a group is with all of its commands.                   *)
(***************************************************************************)
\* format_markup_tags()
Holds(cond, seqs) ==
    CASE cond = "HaveBench" -> \A b \in Benches : seqs[b] > 0
      [] cond = "NeedBench" -> \E b \in Benches : seqs[b] = 0
      [] OTHER -> TRUE

Blank(id) == [id |-> id, pre |-> <<>>, body |-> <<>>, post |-> <<>>]
EmptyDoc == Blank("")
NoGroup == [open |-> FALSE, shown |-> FALSE, of |-> <<>>]

ParseLine(acc, line, seqs) ==
    IF ~acc.group.open
    THEN IF line.cmd.do = "("
         THEN [acc EXCEPT !.group = [open |-> TRUE, shown |-> Holds(line.cond, seqs), of |-> <<>>]]
         ELSE IF ~Holds(line.cond, seqs) THEN acc
         ELSE IF line.at = "body" THEN [acc EXCEPT !.doc.body = Append(@, <<line.cmd>>)]
         ELSE [acc EXCEPT !.doc[line.at] = Append(@, line.cmd)]
    ELSE IF line.cmd.do = ")"
         THEN [doc |-> IF acc.group.shown
                       THEN [acc.doc EXCEPT !.body = Append(@, acc.group.of)] ELSE acc.doc,
               group |-> NoGroup]
         ELSE [acc EXCEPT !.group.of = Append(@, line.cmd)]

Parsed(id, seqs) ==
    LET after[n \in 0..Len(Lines[id])] ==
            IF n = 0 THEN [doc |-> Blank(id), group |-> NoGroup]
            ELSE ParseLine(after[n - 1], Lines[id][n], seqs)
    IN after[Len(Lines[id])].doc

\* load_docs(): every jump there is leads to a document.
Places == {"pre", "body", "post"}
\* What load_docs() checks before anything is shown.
DocsLoad ==
    \A id \in DOMAIN Lines : \A l \in ToSet(Lines[id]) :
        l.at \in Places /\ (l.cmd.do = "jump" => l.cmd.arg \in DOMAIN Lines)

CmdKinds == {"on", "off", "toggle", "reset", "knob", "graph", "jump", "(", ")"}
DocCmds(id) == {l.cmd : l \in ToSet(Lines[id])}
EntryCmds(id) == {l.cmd : l \in {k \in ToSet(Lines[id]) : k.at = "pre"}}

ASSUME DocsAssumption ==
    /\ Index \in DOMAIN Lines /\ DocsLoad
    /\ {MaxClicks, MaxTimeouts, MaxAgents} \subseteq Nat /\ MaxSeq \in Nat \ {0}

\* How the documents in doc/*.rd are written: bench-needed is turned on and never
\* off, which would ask for benchmarks just as well, and what is turned on or off
\* at the entry to a document, other than by a reset, are workloads.
ASSUME WrittenAssumption ==
    \A id \in DOMAIN Lines :
        /\ Lines[id] \in Seq([at : Places, cond : STRING, cmd : [do : CmdKinds, arg : STRING]])
        /\ \A c \in DocCmds(id) : c.arg = "needed" => c.do \notin {"off", "toggle"}
        /\ \A c \in EntryCmds(id) : c.do \in {"on", "off"} => c.arg \in Workloads

(***************************************************************************)
(* CmdState::refresh(): the state of the switches from the agent's files.  *)
(* What is controlled by a disable_seq is on for a report that is newer.   *)
(***************************************************************************)
Refreshed(c, dis, seqs, rep) ==
    [next |-> c.next, cur |-> seqs, on |-> c.on, knobs |-> c.knobs,
     ctl |-> {k \in Ctls : rep > dis[k]}]

(***************************************************************************)
(* exec_one_cmd(): the change each command makes to the state.             *)
(***************************************************************************)
\* The benchmarks asked for by a switch of theirs.
Asked(c, sw, on) ==
    CASE sw = "loop" -> [c.next EXCEPT !["hashd"] = IF on THEN Loop ELSE c.cur["hashd"]]
      [] sw = "needed" -> [b \in Benches |-> IF c.cur[b] = 0 THEN 1 ELSE c.next[b]]
      [] OTHER -> [c.next EXCEPT ![sw] = c.cur[sw] + IF on THEN 1 ELSE 0]

Flipped(set, sw, on) == IF on THEN set \cup {sw} ELSE set \ {sw}

Switched(c, sw, on) ==
    CASE sw \in Benches \cup {"loop", "needed"} -> [c EXCEPT !.next = Asked(c, sw, on)]
      [] sw \in Ctls -> [c EXCEPT !.ctl = Flipped(@, sw, on)]
      [] OTHER -> [c EXCEPT !.on = Flipped(@, sw, on)]

ResetsOf(kind) ==
    LET secondaries == {"sideload", "sysload"}
        all == secondaries \cup {"benches", "hashds", "resctl", "oomd"}
    IN CASE kind = "secondaries" -> secondaries
         [] kind = "all-workloads" -> secondaries \cup {"hashds"}
         [] kind = "protections" -> {"resctl", "oomd"}
         [] kind = "all" -> all
         [] kind = "params" -> Tunables
         [] kind = "all-with-params" -> all \cup Tunables
         [] kind = "prep" -> secondaries \cup {"resctl", "oomd"} \cup Tunables
         [] OTHER -> {kind}

Reset(c, what) ==
    [c EXCEPT !.next = IF "benches" \in what THEN c.cur ELSE @,
              !.on = @ \ ((IF "hashds" \in what THEN Hashds ELSE {})
                          \cup ({"sideload", "sysload"} \cap what)
                          \cup (IF "oomd" \in what THEN Senpais ELSE {})),
              !.ctl = @ \cup (Ctls \cap what),
              !.knobs = @ \ what]

Knob(c, k, val) == [c EXCEPT !.knobs = IF val THEN @ \cup {k} ELSE @ \ {k}]

Executed(c, e) ==
    CASE e.do \in {"on", "off"} -> Switched(c, e.arg, e.do = "on")
      [] e.do = "reset" -> Reset(c, ResetsOf(e.arg))
      [] e.do = "knob" -> Knob(c, e.arg, TRUE)
      [] OTHER -> c                         \* graph

(***************************************************************************)
(* CmdState::apply(): the files are overwritten with the state.            *)
(***************************************************************************)
CmdOf(c) == [seq |-> cmd.seq + 1, next |-> c.next, on |-> c.on, knobs |-> c.knobs]
Disabled(c, rep) == [k \in Ctls |-> IF k \in c.ctl THEN 0 ELSE rep]

TurnedOff(old, new) ==
    (old.on \ new.on)
    \cup {b \in Benches : old.next[b] > benchSeq[b] /\ new.next[b] <= benchSeq[b]}
TurnedOn(old, new) ==
    (new.on \ old.on)
    \cup {b \in Benches : old.next[b] <= benchSeq[b] /\ new.next[b] > benchSeq[b]}

(***************************************************************************)
(* show_doc() after a jump: what the document left wants done, what the    *)
(* one entered does, up to where it redirects.                             *)
(***************************************************************************)
Enter(d, back) == [do |-> "enter", arg |-> d, back |-> back]

\* Mutant: the new document is prepared before the old one is left.
PrepareFirst(target, back) ==
    LET d == Parsed(target, benchSeq) IN
    d.pre \o doc.post \o <<Enter(d, back)>>
ShowDoc(target, back) ==
    LET d == Parsed(target, benchSeq)
        redirect == SelectInSeq(d.pre, LAMBDA e : e.do = "jump")
    IN doc.post
       \o IF redirect > 0 THEN SubSeq(d.pre, 1, redirect) ELSE Append(d.pre, Enter(d, back))

NoCmd == [seq |-> 0, next |-> [b \in Benches |-> 0], on |-> {}, knobs |-> {}]
NoSpent == [clicks |-> 0, timeouts |-> 0, agents |-> 0]

DocsInit ==
    /\ cmd = NoCmd /\ disable = [k \in Ctls |-> 0] /\ ack = 0 /\ seenUp = TRUE
    /\ benchSeq \in [Benches -> {0, 1}] /\ benchSeq["iocost"] >= benchSeq["hashd"]
    /\ agent = [up |-> TRUE, rep |-> 1, got |-> NoCmd]
    /\ cs = Refreshed(NoCmd, disable, benchSeq, 1)
    /\ doc = EmptyDoc /\ hist = <<>> /\ waited = "no" /\ unheard = {} /\ spent = NoSpent
    /\ todo = ShowDoc(Index, FALSE)

DocsTypeOK ==
    /\ cs.on \cup cmd.on \subseteq Workloads
    /\ {cs.next, cmd.next} \subseteq [Benches -> 0..Loop]
    /\ {cs.cur, benchSeq} \subseteq [Benches -> 0..MaxSeq]
    /\ cs.ctl \subseteq Ctls /\ disable \in [Ctls -> 0..agent.rep]
    /\ ack <= cmd.seq /\ seenUp \in BOOLEAN /\ agent.up \in BOOLEAN
    /\ doc.id \in DOMAIN Lines \cup {""} /\ hist \in Seq(DOMAIN Lines)
    /\ waited \in {"no", "acked", "given up"}
    /\ unheard \subseteq Workloads \cup Benches

(***************************************************************************)
(* The thread of the user interface.                                       *)
(***************************************************************************)
HeadDo(kinds) == todo # <<>> /\ Head(todo).do \in kinds
Ready == HeadDo({"off", "reset", "knob", "graph"}) \/ (HeadDo({"on"}) /\ waited # "no")

\* CmdState::sync(), before a command that turns something on.
\* Mutant: without the wait.
InSyncAlways == TRUE

Synced == seenUp /\ cmd.seq = ack
Sync ==
    /\ HeadDo({"on"}) /\ waited = "no"
    /\ \/ Synced /\ waited' = "acked" /\ UNCHANGED spent
       \/ ~seenUp /\ waited' = "given up" /\ UNCHANGED spent
       \/ /\ ~Synced /\ seenUp /\ spent.timeouts < MaxTimeouts
          /\ spent' = [spent EXCEPT !.timeouts = @ + 1] /\ waited' = "given up"
    /\ UNCHANGED <<cs, cmd, disable, benchSeq, ack, seenUp, agent, doc, hist, todo, unheard>>

\* exec_one_cmd(), with the refresh_cur_doc() at its end.
Exec ==
    /\ Ready
    /\ LET c == Executed(cs, Head(todo)) IN
          /\ cmd' = CmdOf(c)
          /\ disable' = Disabled(c, agent.rep)
    /\ unheard' = (unheard \ TurnedOn(cmd, cmd')) \cup TurnedOff(cmd, cmd')
    /\ cs' = Refreshed(cmd', disable', benchSeq, agent.rep)
    /\ todo' = Tail(todo) /\ waited' = "no"
    /\ UNCHANGED <<benchSeq, ack, seenUp, agent, doc, hist, spent>>

\* The end of show_doc(): the document left is remembered unless going back.
EnterDoc ==
    /\ HeadDo({"enter"})
    /\ hist' = IF ~Head(todo).back /\ doc.id # "" THEN Append(hist, doc.id) ELSE hist
    /\ doc' = Head(todo).arg
    /\ cs' = Refreshed(cmd, disable, benchSeq, agent.rep)
    /\ todo' = Tail(todo)
    /\ UNCHANGED <<cmd, disable, benchSeq, ack, seenUp, agent, waited, unheard, spent>>

Redirect ==
    /\ HeadDo({"jump"}) /\ todo' = ShowDoc(Head(todo).arg, FALSE)
    /\ UNCHANGED <<cs, cmd, disable, benchSeq, ack, seenUp, agent, doc, hist, waited, unheard,
                   spent>>

(***************************************************************************)
(* refresh_toggles(): what a checkbox shows, which a click on it inverts.  *)
(***************************************************************************)
Shown(sw) ==
    CASE sw \in Benches -> cs.next[sw] > cs.cur[sw]
      [] sw = "loop" -> cs.next["hashd"] = Loop
      [] sw = "needed" -> \E b \in Benches : cs.cur[b] = 0
      [] OTHER -> sw \in cs.on \cup cs.ctl

Click(prompt) ==
    IF Len(prompt) = 1 /\ prompt[1].do = "jump" THEN ShowDoc(prompt[1].arg, FALSE)
    ELSE IF Len(prompt) = 1 /\ prompt[1].do = "toggle"
    THEN <<[prompt[1] EXCEPT !.do = IF Shown(prompt[1].arg) THEN "off" ELSE "on"]>>
    ELSE prompt

Spend == spent.clicks < MaxClicks /\ spent' = [spent EXCEPT !.clicks = @ + 1]
UserIdle == UNCHANGED <<cs, cmd, disable, benchSeq, ack, seenUp, agent, doc, waited, unheard>>

ClickPrompt ==
    /\ todo = <<>> /\ Spend
    /\ \E i \in DOMAIN doc.body : todo' = Click(doc.body[i])
    /\ UNCHANGED hist /\ UserIdle
KeyIndex == todo = <<>> /\ Spend /\ todo' = ShowDoc(Index, FALSE) /\ UNCHANGED hist /\ UserIdle
KeyReload == todo = <<>> /\ Spend /\ todo' = ShowDoc(doc.id, FALSE) /\ UNCHANGED hist /\ UserIdle
KeyBack ==
    /\ todo = <<>> /\ Spend /\ hist # <<>>
    /\ todo' = ShowDoc(Last(hist), TRUE) /\ hist' = Front(hist) /\ UserIdle

(***************************************************************************)
(* The agent, as far as its files show, and the status thread that looks   *)
(* whether it runs.                                                        *)
(***************************************************************************)
AgentStep == UNCHANGED <<cs, cmd, disable, seenUp, doc, hist, todo, waited>>

AgentLoad ==
    /\ agent.up /\ agent.got # cmd
    /\ agent' = [agent EXCEPT !.got = cmd] /\ unheard' = {}
    /\ AgentStep /\ UNCHANGED <<benchSeq, ack, spent>>

AgentAck ==
    /\ agent.up /\ ack # agent.got.seq
    /\ ack' = agent.got.seq /\ AgentStep /\ UNCHANGED <<benchSeq, agent, unheard, spent>>

\* update_hashd(), update_iocost(): a benchmark asked for is through.
BenchDone ==
    /\ agent.up
    /\ \E b \in Benches :
          /\ agent.got.next[b] > benchSeq[b] /\ benchSeq[b] < MaxSeq
          /\ b = "hashd" => benchSeq["iocost"] > 0
          /\ benchSeq' = [benchSeq EXCEPT ![b] =
                             IF agent.got.next[b] = Loop THEN @ + 1 ELSE agent.got.next[b]]
    /\ AgentStep /\ UNCHANGED <<ack, agent, unheard, spent>>

AgentDies ==
    /\ agent.up /\ spent.agents < MaxAgents /\ agent' = [agent EXCEPT !.up = FALSE]
    /\ spent' = [spent EXCEPT !.agents = @ + 1]
    /\ AgentStep /\ UNCHANGED <<benchSeq, ack, unheard>>

AgentStarts ==
    /\ ~agent.up /\ agent' = [up |-> TRUE, rep |-> agent.rep + 1, got |-> cmd]
    /\ ack' = 0 /\ unheard' = {} /\ AgentStep /\ UNCHANGED <<benchSeq, spent>>

StatusLooks ==
    /\ seenUp # agent.up /\ seenUp' = agent.up
    /\ UNCHANGED <<cs, cmd, disable, benchSeq, ack, agent, doc, hist, todo, waited, unheard, spent>>

DocsNext ==
    \/ Sync \/ Exec \/ EnterDoc \/ Redirect
    \/ ClickPrompt \/ KeyIndex \/ KeyReload \/ KeyBack
    \/ AgentLoad \/ AgentAck \/ BenchDone \/ AgentDies \/ AgentStarts \/ StatusLooks

DocsSpec == DocsInit /\ [][DocsNext]_docVars

(***************************************************************************)
(* What resctl-demo relies on.                                             *)
(***************************************************************************)

\* A command that turns something on waits until the agent has accepted what
\* turned it off ("sync so that we don't clobber a preceding off command",
\* doc.rs): the agent misses an off only where the wait was given up.
OffHeeded ==
    [][\A s \in TurnedOn(cmd, cmd') : s \in unheard => waited = "given up"]_docVars

\* What a command turns on or sets, what it turns off or back to its default, and
\* what is on, set or asked for.
TurnsOn(e) ==
    CASE e.do = "on" -> {e.arg} \cap Workloads
      [] e.do = "knob" -> {e.arg} \cap Tunables
      [] e.do = "reset" -> ResetsOf(e.arg) \cap Ctls
      [] OTHER -> {}
TurnsOff(e) ==
    CASE e.do = "off" -> {e.arg} \cap Workloads
      [] e.do = "reset" ->
            {x \in {"sideload", "sysload"} \cup Tunables : x \in ResetsOf(e.arg)}
            \cup {x \in Hashds : "hashds" \in ResetsOf(e.arg)}
            \cup {x \in Senpais : "oomd" \in ResetsOf(e.arg)}
            \cup {x \in Benches : "benches" \in ResetsOf(e.arg)}
      [] OTHER -> {}
Turns(e) == TurnsOn(e) \cup TurnsOff(e)

InEffect ==
    (cmd.on \cap Workloads) \cup (cmd.knobs \cap Tunables)
    \cup {k \in Ctls : agent.rep > disable[k]}
    \cup {b \in Benches : cmd.next[b] > benchSeq[b]}

\* A document is entered with every switch, knob and control as the last of its
\* entry commands that is about it leaves it, be it an on, an off, a knob or a
\* reset ("reset prep", "knob hashd-load 1.0", "on hashd" in
\* doc/comp.cgroup.mem.rd): what the exit commands of the one before do comes
\* first, even where the entry is redirected, and neither the waits in between
\* nor an agent that dies, is started again or ends a benchmark undoes it.
AsEntered(d) ==
    \A i \in DOMAIN d.pre : \A x \in Turns(d.pre[i]) :
        (\A j \in (i + 1)..Len(d.pre) : x \notin Turns(d.pre[j]))
            => (x \in InEffect' <=> x \in TurnsOn(d.pre[i]))
ArrivesPrepared == [][EnterDoc => AsEntered(doc')]_docVars
=============================================================================
