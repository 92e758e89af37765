---------------------------- MODULE JournalTailer ----------------------------
(***************************************************************************)
(* Following the journal (rd-util/src/journal_tailer.rs) and showing it    *)
(* (resctl-demo/src/journal.rs, resctl-bench/src/progress.rs).  A thread   *)
(* passes on the lines of journalctl, a worker keeps the newest of them    *)
(* and notifies, and callbacks on the UI thread append to a view what it   *)
(* does not show yet.                                                      *)
(*                                                                         *)
(* A line is its position in the journal.  Formatting a message is one     *)
(* entry of the view, or none for the messages that are left out.          *)
(***************************************************************************)
EXTENDS Naturals, SequencesExt

CONSTANTS
    Keep,           \* retention
    BadLines,       \* lines that do not parse
    QuietLines,     \* messages format_journal_msg() leaves out
    MaxLines,       \* bound: lines of the journal
    MaxScrolls      \* bound: how often the user scrolls away or back

ASSUME JournalAssumption ==
    /\ Keep \in Nat \ {0} /\ {MaxLines, MaxScrolls} \subseteq Nat
    /\ BadLines \subseteq 1..MaxLines /\ QuietLines \subseteq 1..MaxLines

VARIABLES
    logged,     \* lines in the journal
    taken,      \* lines the reader has read from journalctl
    jctl,       \* "up", "dead"
    reader,     \* the reader thread: "read", "gone"
    lines,      \* the channel from the reader to the worker
    worker,     \* "loop", "reap" (killed journalctl, waits for the reader), "gone"
    closed,     \* the term channel is closed: the tailer is being dropped
    msgs,       \* the newest first
    seqCursor,
    bar,        \* the message of resctl-bench's progress bar
    calls,      \* refreshes queued for the UI thread
    lastSeq, view, nrLineSpans, \* UpdaterInner
    atBottom, scrolls,
    skipped     \* a refresh was skipped and none has been done since

tailerVars == <<jctl, reader, lines, worker, closed, msgs, seqCursor, bar>>
viewVars == <<lastSeq, view, nrLineSpans, atBottom, scrolls, skipped>>
journalVars == <<logged, taken, tailerVars, calls, viewVars>>

Messages == [seq : 1..MaxLines, line : 1..MaxLines]
JournalTypeOK ==
    /\ logged \in 0..MaxLines /\ taken \in 0..logged /\ lines \in Seq(1..MaxLines)
    /\ jctl \in {"up", "dead"} /\ reader \in {"read", "gone"}
    /\ worker \in {"loop", "reap", "gone"} /\ closed \in BOOLEAN
    /\ msgs \in Seq(Messages) /\ Len(msgs) <= Keep /\ seqCursor \in 1..MaxLines + 1
    /\ bar \in 0..MaxLines /\ calls \in 0..MaxLines /\ lastSeq \in 0..MaxLines
    /\ view \in Seq(1..MaxLines) /\ nrLineSpans \in Seq({0, 1}) /\ Len(nrLineSpans) <= Keep
    /\ atBottom \in BOOLEAN /\ scrolls \in 0..MaxScrolls /\ skipped \in BOOLEAN

JournalInit ==
    /\ logged = 0 /\ taken = 0 /\ lines = <<>> /\ jctl = "up" /\ reader = "read"
    /\ worker = "loop" /\ closed = FALSE
    /\ msgs = <<>> /\ seqCursor = 1 /\ bar = 0 /\ calls = 0
    /\ lastSeq = 0 /\ view = <<>> /\ nrLineSpans = <<>>
    /\ atBottom = TRUE /\ scrolls = 0 /\ skipped = FALSE
-----------------------------------------------------------------------------
(* journalctl and the thread that reads from it (child_reader_thread).     *)

Log ==
    /\ logged < MaxLines /\ logged' = logged + 1
    /\ UNCHANGED <<taken, tailerVars, calls, viewVars>>

JournalctlDies ==
    /\ jctl = "up" /\ jctl' = "dead"
    /\ UNCHANGED <<logged, taken, reader, lines, worker, closed, msgs, seqCursor, bar, calls, viewVars>>

\* A line is sent, unless the worker has dropped the channel; that, or the end
\* of journalctl, ends the thread.
ReadLine ==
    /\ reader = "read" /\ jctl = "up" /\ taken < logged
    /\ taken' = taken + 1
    /\ IF worker = "loop" THEN lines' = Append(lines, taken + 1) /\ UNCHANGED reader
                          ELSE reader' = "gone" /\ UNCHANGED lines
    /\ UNCHANGED <<logged, jctl, worker, closed, msgs, seqCursor, bar, calls, viewVars>>

ReadEnd ==
    /\ reader = "read" /\ jctl = "dead"
    /\ reader' = "gone"
    /\ UNCHANGED <<logged, taken, jctl, lines, worker, closed, msgs, seqCursor, bar, calls, viewVars>>
-----------------------------------------------------------------------------
(* JournalTailWorker.                                                       *)

\* process(): the line becomes the newest message, the owner is notified, and
\* what exceeds the retention is dropped.  A progress bar takes the message if
\* no other is queued behind it.
Process ==
    /\ worker = "loop" /\ lines # <<>>
    /\ lines' = Tail(lines)
    /\ IF Head(lines) \in BadLines THEN UNCHANGED <<msgs, seqCursor, bar, calls>>
       ELSE LET all == <<[seq |-> seqCursor, line |-> Head(lines)]>> \o msgs
            IN  /\ seqCursor' = seqCursor + 1
                /\ msgs' = SubSeq(all, 1, IF Len(all) > Keep THEN Keep ELSE Len(all))
                /\ calls' = calls + 1
                /\ bar' = IF Tail(lines) = <<>> THEN Head(lines) ELSE bar
    /\ UNCHANGED <<logged, taken, jctl, reader, worker, closed, viewVars>>

\* The select takes either when both are ready: lines may be left.
Leave ==
    /\ worker = "loop" /\ (closed \/ (reader = "gone" /\ lines = <<>>))
    /\ worker' = "reap" /\ lines' = <<>>
    /\ UNCHANGED <<logged, taken, jctl, reader, closed, msgs, seqCursor, bar, calls, viewVars>>

\* journalctl is killed, then the reader joined.
Reap ==
    /\ worker = "reap"
    /\ \/ jctl = "up" /\ jctl' = "dead" /\ UNCHANGED worker
       \/ jctl = "dead" /\ reader = "gone" /\ worker' = "gone" /\ UNCHANGED jctl
    /\ UNCHANGED <<logged, taken, reader, lines, closed, msgs, seqCursor, bar, calls, viewVars>>

\* The owner drops the tailer, and waits for the worker.
DropTailer ==
    /\ ~closed /\ closed' = TRUE
    /\ UNCHANGED <<logged, taken, jctl, reader, lines, worker, msgs, seqCursor, bar, calls, viewVars>>
-----------------------------------------------------------------------------
(* The view of resctl-demo.                                                 *)

Scroll ==
    /\ scrolls < MaxScrolls /\ scrolls' = scrolls + 1
    /\ atBottom' = ~atBottom
    /\ UNCHANGED <<logged, taken, tailerVars, calls, lastSeq, view, nrLineSpans, skipped>>

\* Mutant: what was dropped before it was shown still counts as new.
NewSeqOfCount(nrNew) == lastSeq + (IF nrNew > Len(msgs) THEN Len(msgs) ELSE nrNew)

NewSeq(nrNew) == lastSeq + nrNew

\* format_journal_msg() of each of ms, the newest of which is first.
Formatted(ms) ==
    LET upTo[n \in 0..Len(ms)] ==
            IF n = 0 THEN <<>>
            ELSE LET l == ms[Len(ms) - n + 1].line
                 IN IF l \in QuietLines THEN upTo[n - 1] ELSE Append(upTo[n - 1], l)
    IN upTo[Len(ms)]

\* How much there is in spans after the first kept of them.
Trimmed(spans, kept) ==
    LET sum[n \in 0..Len(spans)] == IF n <= kept THEN 0 ELSE sum[n - 1] + spans[n]
    IN sum[Len(spans)]

\* UpdaterInner::refresh(): a view that is not at its bottom is left alone, and
\* so is one whose tailer is gone.  Otherwise what is new is appended, and of
\* what it holds more than `retention' messages are removed at its top.
Refresh ==
    /\ calls > 0 /\ calls' = calls - 1
    /\ IF ~atBottom \/ closed THEN skipped' = TRUE /\ UNCHANGED <<lastSeq, view, nrLineSpans>>
       ELSE LET newest == IF msgs = <<>> THEN 0 ELSE msgs[1].seq
                nrNew == IF newest > lastSeq THEN newest - lastSeq ELSE 0
                new == SubSeq(msgs, 1, IF nrNew > Len(msgs) THEN Len(msgs) ELSE nrNew)
                spans(m) == IF m.line \in QuietLines THEN 0 ELSE 1
                all == [i \in DOMAIN new |-> spans(new[i])] \o nrLineSpans
                kept == IF Len(all) > Keep THEN Keep ELSE Len(all)
                full == view \o Formatted(new)
            IN  /\ lastSeq' = NewSeq(nrNew)
                /\ nrLineSpans' = SubSeq(all, 1, kept)
                /\ view' = SubSeq(full, Trimmed(all, kept) + 1, Len(full))
                /\ skipped' = FALSE
    /\ UNCHANGED <<logged, taken, tailerVars, atBottom, scrolls>>

TailerThreads == ReadLine \/ ReadEnd \/ Process \/ Leave \/ Reap
JournalNext == Log \/ JournalctlDies \/ TailerThreads \/ DropTailer \/ Scroll \/ Refresh

JournalFairness ==
    WF_journalVars(ReadLine \/ ReadEnd) /\ WF_journalVars(Process \/ Leave) /\ WF_journalVars(Reap)
-----------------------------------------------------------------------------
(* The view shows messages in order and each once, never more than the      *)
(* retention, and once no refresh is outstanding, just what the tailer      *)
(* keeps, whatever was dropped while the user had scrolled away.            *)
Displayed == Formatted(msgs)
ViewCurrent ==
    /\ \A i, j \in DOMAIN view : i < j => view[i] < view[j]
    /\ Len(view) <= Keep
    /\ calls = 0 /\ ~skipped => view = Displayed

(* A progress bar shows the newest message once no line is waiting, though  *)
(* only the last of several queued lines sets it.                           *)
BarNewest ==
    lines = <<>> /\ msgs # <<>> /\ worker = "loop" /\ (taken \notin BadLines) => bar = msgs[1].line

JournalShown == ViewCurrent /\ BarNewest
=============================================================================
