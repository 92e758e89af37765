-------------------------- MODULE MCAgentRunner --------------------------
(* Small instances of AgentRunner. *)
EXTENDS AgentRunner

Command(seq, hashdSeq, iocostSeq, busy, headroom) ==
    [seq |-> seq, hashdSeq |-> hashdSeq, iocostSeq |-> iocostSeq,
     benchBalloon |-> 2,
     hashd |-> IF busy THEN {"A"} ELSE {},
     sysloads |-> IF busy THEN {"sys"} ELSE {},
     sideloads |-> IF busy THEN {"side"} ELSE {},
     balloon |-> IF busy THEN 1 ELSE 0,
     headroom |-> headroom]

\* Nothing requested; workloads; either benchmark; both; hashd "once more".
MCCmds == {Command(1, 0, 0, FALSE, 0), Command(2, 1, 1, TRUE, 0),
           Command(3, 1, 2, TRUE, 1), Command(4, SeqMax, 1, FALSE, 0)}

MCLiveCmds == {Command(1, 0, 0, FALSE, 0), Command(2, 1, 1, TRUE, 0),
               Command(3, 2, 2, TRUE, 1)}

MCBenchEdits == {[hashdSeq |-> 0, iocostSeq |-> 0], [hashdSeq |-> 1, iocostSeq |-> 1]}
MCSliceEdits == {[off |-> {}, rev |-> 1], [off |-> {"io"}, rev |-> 2]}
MCOomdEdits == {[disabled |-> FALSE, rev |-> 1], [disabled |-> TRUE, rev |-> 2]}

\* A machine never benchmarked, and one with both results, serving workloads.
MCInitDisks ==
    {[cmd |-> Command(1, 0, 0, FALSE, 0),
      bench |-> [hashdSeq |-> 0, iocostSeq |-> 0],
      slice |-> [off |-> {}, rev |-> 1],
      oomd |-> [disabled |-> FALSE, rev |-> 1]],
     [cmd |-> Command(2, 1, 1, TRUE, 0),
      bench |-> [hashdSeq |-> 1, iocostSeq |-> 1],
      slice |-> [off |-> {}, rev |-> 1],
      oomd |-> [disabled |-> FALSE, rev |-> 1]]}
=============================================================================
