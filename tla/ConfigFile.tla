----------------------------- MODULE ConfigFile -----------------------------
(***************************************************************************)
(* A configuration file that one process saves, another follows and a user *)
(* may edit (rd-util/src/json_file.rs, and AgentFiles of rd-agent-intf).   *)
(* A save writes a staging file and renames it; the follower looks at the  *)
(* modification time only, which a file system keeps in steps of Granule.  *)
(*                                                                         *)
(* What is in a file is its version, or Bad for what does not parse: a     *)
(* file that is being written in place, or the user's mistake.             *)
(***************************************************************************)
EXTENDS Integers

CONSTANTS
    Granule,        \* the step of modification times
    Settle,         \* how long a file has to stay the same: 10ms
    SaveTime,       \* how long a save may take from its write to its rename
    MaxClock, MaxWrites         \* bounds: the clock; saves and edits

ASSUME GranuleAssumption == {Granule, Settle} \subseteq Nat \ {0} /\ Granule <= Settle
ASSUME FileBoundAssumption == {SaveTime, MaxClock, MaxWrites} \subseteq Nat

VARIABLES
    fclock,
    file,       \* what is at the path
    since,      \* when that came to be at the path
    saver,      \* "idle", "open" (staging truncated), "wrote"
    staging,
    editor,     \* "idle", "writing"
    nextVer,
    follower,   \* "out", "created", "load" (maybe_create_dfl done), "idle", "read"
    loadedMod, known,
    early,      \* known comes from load(), of a file not yet settled
    checked     \* the file has not changed since it was last found unchanged

fileVars == <<file, since, checked>>
followerVars == <<follower, loadedMod, known, early>>
configVars == <<fclock, fileVars, saver, staging, editor, nextVer, followerVars>>

Versions == 1..MaxWrites + 1
Bad == 0
Absent == -1
NoFile == [ver |-> Absent, at |-> 0]
Stamp == (fclock \div Granule) * Granule
Contents == [ver : Versions \cup {Bad, Absent}, at : 0..MaxClock]

ConfigTypeOK ==
    /\ fclock \in 0..MaxClock /\ file \in Contents /\ since \in 0..MaxClock
    /\ saver \in {"idle", "open", "wrote"} /\ staging \in Contents
    /\ editor \in {"idle", "writing"} /\ nextVer \in 1..MaxWrites + 2
    /\ follower \in {"out", "created", "load", "idle", "read"}
    /\ loadedMod \in 0..MaxClock /\ known \in Versions \cup {Absent}
    /\ early \in BOOLEAN /\ checked \in BOOLEAN

ConfigInit ==
    /\ fclock = 0 /\ file = NoFile /\ since = 0 /\ checked = FALSE
    /\ saver = "idle" /\ staging = NoFile /\ editor = "idle" /\ nextVer = 1
    /\ follower = "out" /\ loadedMod = 0 /\ known = Absent /\ early = FALSE

Elapse ==
    /\ fclock < MaxClock /\ fclock' = fclock + 1
    /\ saver = "wrote" => fclock' - staging.at <= SaveTime
    /\ UNCHANGED <<fileVars, saver, staging, editor, nextVer, followerVars>>

PutFile(c) == file' = c /\ since' = fclock /\ checked' = FALSE
-----------------------------------------------------------------------------
(* JsonSave::save, once for JsonConfigFile and JsonReportFile.              *)

\* A staging file that an earlier save left is truncated.
OpenStaging ==
    /\ saver = "idle" /\ nextVer <= MaxWrites
    /\ saver' = "open" /\ staging' = [ver |-> Bad, at |-> Stamp]
    /\ UNCHANGED <<fclock, fileVars, editor, nextVer, followerVars>>

WriteStaging ==
    /\ saver = "open" /\ saver' = "wrote"
    /\ staging' = [ver |-> nextVer, at |-> Stamp] /\ nextVer' = nextVer + 1
    /\ UNCHANGED <<fclock, fileVars, editor, followerVars>>

RenameStaging ==
    /\ saver = "wrote" /\ saver' = "idle"
    /\ PutFile(staging) /\ staging' = NoFile
    /\ UNCHANGED <<fclock, editor, nextVer, followerVars>>

\* An error, or the end of the process, in the middle of a save.
SaveFails ==
    /\ saver # "idle" /\ saver' = "idle"
    /\ UNCHANGED <<fclock, fileVars, staging, editor, nextVer, followerVars>>
-----------------------------------------------------------------------------
(* A user's editor writes in place, and may write what does not parse.      *)
EditBegin ==
    /\ editor = "idle" /\ file # NoFile /\ nextVer <= MaxWrites
    /\ editor' = "writing" /\ PutFile([ver |-> Bad, at |-> Stamp])
    /\ UNCHANGED <<fclock, saver, staging, nextVer, followerVars>>

EditEnd ==
    /\ editor = "writing" /\ editor' = "idle"
    /\ \E v \in {nextVer, Bad} : PutFile([ver |-> v, at |-> Stamp])
    /\ nextVer' = nextVer + 1
    /\ UNCHANGED <<fclock, saver, staging, followerVars>>
-----------------------------------------------------------------------------
(* The process that follows the file.                                       *)

\* maybe_create_dfl(): only a new file is given the defaults.
CreateDefault ==
    /\ follower = "out" /\ file = NoFile
    /\ follower' = "created" /\ PutFile([ver |-> Bad, at |-> Stamp])
    /\ UNCHANGED <<fclock, saver, staging, editor, nextVer, loadedMod, known, early>>

WriteDefault ==
    /\ follower = "created" /\ follower' = "load"
    /\ IF editor = "idle" /\ file.ver = Bad /\ nextVer <= MaxWrites
       THEN PutFile([ver |-> nextVer, at |-> Stamp]) /\ nextVer' = nextVer + 1
       ELSE UNCHANGED <<fileVars, nextVer>>     \* another file is there by now
    /\ UNCHANGED <<fclock, saver, staging, editor, loadedMod, known, early>>

FoundFile ==
    /\ follower = "out" /\ file # NoFile /\ follower' = "load"
    /\ UNCHANGED <<fclock, fileVars, saver, staging, editor, nextVer, loadedMod, known, early>>

\* load(): without the rule of the 10ms.  What fails is tried again by the next
\* start, or the next refresh of AgentFiles.
LoadFile ==
    /\ follower = "load"
    /\ IF file.ver \in Versions
       THEN /\ follower' = "idle" /\ known' = file.ver /\ loadedMod' = file.at
            /\ early' = (fclock - file.at < Settle)
       ELSE follower' = "out" /\ UNCHANGED <<known, loadedMod, early>>
    /\ UNCHANGED <<fclock, fileVars, saver, staging, editor, nextVer>>

\* Mutant: a file is considered however young it is.
SettledAtOnce == TRUE

Settled == fclock - file.at >= Settle

\* maybe_reload() up to where it notes the new time, and from there on.
StatFile ==
    /\ follower = "idle"
    /\ Settled
    /\ IF file.at = loadedMod THEN checked' = TRUE /\ UNCHANGED <<follower, loadedMod, early>>
       ELSE follower' = "read" /\ loadedMod' = file.at /\ early' = FALSE /\ UNCHANGED checked
    /\ UNCHANGED <<fclock, file, since, saver, staging, editor, nextVer, known>>

ReadFile ==
    /\ follower = "read" /\ follower' = "idle"
    /\ known' = IF file.ver \in Versions THEN file.ver ELSE known
    /\ UNCHANGED <<fclock, fileVars, saver, staging, editor, nextVer, loadedMod, early>>

\* The follower restarts.
FollowerExits ==
    /\ follower # "out" /\ follower' = "out"
    /\ known' = Absent /\ loadedMod' = 0 /\ early' = FALSE /\ checked' = FALSE
    /\ UNCHANGED <<fclock, file, since, saver, staging, editor, nextVer>>

Saver == OpenStaging \/ WriteStaging \/ RenameStaging \/ SaveFails
Follower == CreateDefault \/ WriteDefault \/ FoundFile \/ LoadFile \/ StatFile \/ ReadFile
ConfigNext == Elapse \/ Saver \/ EditBegin \/ EditEnd \/ Follower \/ FollowerExits
-----------------------------------------------------------------------------
(* A file that the follower finds unchanged is the one it has, whatever was *)
(* written while it was looking and in however small steps times are kept,  *)
(* except for a change in the very step in which load() read it, and what   *)
(* does not parse (JsonConfigFile::maybe_reload).                           *)
FollowsFile == checked /\ ~early => file.ver \in {known, Bad}
=============================================================================
