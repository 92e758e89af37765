------------------------- MODULE AgentReportsProofs -------------------------
(***************************************************************************)
(* Theorems about what rd-agent reports and what is read back: the report  *)
(* files and the rings the graphs draw from (Reporter, ReportRing), the    *)
(* journal tailer, and the configuration files.  Each part is proved from  *)
(* its own initial predicate and next-state relation, for every bound on   *)
(* the clock, on faults and on restarts.                                   *)
(***************************************************************************)
EXTENDS MCAgentReports, SequenceTheorems, FiniteSetTheorems, WellFoundedInduction, TLAPS

-----------------------------------------------------------------------------
(* Induction over the natural numbers, by the least counterexample.        *)
LEMMA UpTo ==
    ASSUME NEW N \in Nat, NEW T, 0 \in T, \A n \in 0..(N - 1) : n \in T => n + 1 \in T
    PROVE  \A n \in 0..N : n \in T
<1> DEFINE B == {n \in 0..N : n \notin T}
<1> SUFFICES ASSUME B # {} PROVE FALSE
  OBVIOUS
<1>1. PICK l \in B : \A k \in B : <<k, l>> \notin OpToRel(<, Nat)
  <2>1. B \in SUBSET Nat
    OBVIOUS
  <2> HIDE DEF B
  <2> QED BY <2>1, NatLessThanWellFounded, WFMin
<1>2. l \in 0..N /\ l \notin T
  BY <1>1
<1>3. l \in 1..N /\ l - 1 \in 0..(N - 1) /\ l - 1 \in 0..N /\ l - 1 < l /\ (l - 1) + 1 = l
  BY <1>2
<1>4. l - 1 \notin B
  <2>1. <<l - 1, l>> \in OpToRel(<, Nat)
    BY <1>3 DEF OpToRel
  <2> HIDE DEF B
  <2> QED BY <1>1, <2>1
<1>5. l - 1 \in T
  BY <1>3, <1>4
<1> QED BY <1>2, <1>3, <1>5

-----------------------------------------------------------------------------
(* Rounding down to a multiple.                                            *)
LEMMA RoundedDown ==
    ASSUME NEW n \in Nat, NEW d \in Nat \ {0}
    PROVE  /\ (n \div d) * d \in Nat
           /\ (n \div d) * d <= n /\ n < (n \div d) * d + d
OBVIOUS

LEMMA RoundedDownMonotonic ==
    ASSUME NEW m \in Nat, NEW n \in Nat, NEW d \in Nat \ {0}, m <= n
    PROVE  (m \div d) * d <= (n \div d) * d
<1>1. m \div d \in Nat /\ n \div d \in Nat /\ m \div d <= n \div d
  OBVIOUS
<1> QED
  BY <1>1

-----------------------------------------------------------------------------
(* The configuration file, ConfigFile.                                     *)

SavesInTime == SaveTime < Settle

FileTyped ==
    /\ fclock \in Nat /\ loadedMod \in Nat
    /\ file \in [ver : Versions \cup {Bad, Absent}, at : Nat]
    /\ staging \in [ver : Versions \cup {Bad, Absent}, at : Nat]
    /\ saver \in {"idle", "open", "wrote"} /\ editor \in {"idle", "writing"}
    /\ follower \in {"out", "created", "load", "idle", "read"}
    /\ known \in Versions \cup {Absent} /\ early \in BOOLEAN /\ checked \in BOOLEAN

VersionsLeft ==
    /\ nextVer \in 1..MaxWrites + 2
    /\ saver = "open" \/ editor = "writing" => nextVer <= MaxWrites + 1
    /\ saver = "open" /\ editor = "writing" => nextVer <= MaxWrites

FileKept ==
    /\ follower # "out" => file.ver # Absent
    /\ file.ver = Absent => file = NoFile
    /\ saver = "wrote" => staging.ver \in Versions /\ fclock < staging.at + Settle
FollowerKept ==
    /\ ~early /\ follower \in {"idle", "read"} => loadedMod + Settle <= fclock
    /\ ~early /\ follower = "idle" /\ file.at = loadedMod => file.ver \in {known, Bad}
    /\ checked => follower = "idle" /\ file.at = loadedMod
FileInv == FileTyped /\ VersionsLeft /\ FileKept /\ FollowerKept

LEMMA StampTyped == fclock \in Nat => Stamp \in Nat /\ fclock < Stamp + Settle
<1> SUFFICES ASSUME fclock \in Nat PROVE Stamp \in Nat /\ fclock < Stamp + Settle
  OBVIOUS
<1>1. Granule \in Nat \ {0} /\ Settle \in Nat /\ Granule <= Settle
  BY GranuleAssumption
<1> QED
  BY <1>1, RoundedDown DEF Stamp

LEMMA FileInit == ConfigInit => FileInv
<1> SUFFICES ASSUME ConfigInit PROVE FileInv
  OBVIOUS
<1>1. 1 \in 1..MaxWrites + 2
  BY FileBoundAssumption
<1>2. FileTyped /\ VersionsLeft
  BY <1>1 DEF ConfigInit, FileTyped, VersionsLeft, NoFile
<1>3. FileKept /\ FollowerKept
  BY DEF ConfigInit, FileKept, FollowerKept
<1> QED
  BY <1>2, <1>3 DEF FileInv

(* Whatever is put at the path is younger than what the follower has found *)
(* settled.                                                                *)
LEMMA FilePut ==
    ASSUME FileTyped, FileKept, FollowerKept,
           NEW c \in [ver : Versions \cup {Bad}, at : Nat], PutFile(c),
           fclock < c.at + Settle, UNCHANGED <<fclock, loadedMod, early, known>>,
           follower' = follower \/ follower' \in {"created", "load"}
    PROVE  FollowerKept' /\ file' = c /\ checked' = FALSE
BY GranuleAssumption DEF FileTyped, FollowerKept, PutFile

LEMMA FileStep == SavesInTime /\ FileInv /\ [ConfigNext]_configVars => FileInv'
<1> SUFFICES ASSUME SavesInTime, FileInv, [ConfigNext]_configVars PROVE FileInv'
  OBVIOUS
<1> USE DEF FileInv
<1>a. /\ Settle \in Nat \ {0} /\ SaveTime \in Nat /\ MaxWrites \in Nat
      /\ SaveTime < Settle
  BY GranuleAssumption, FileBoundAssumption DEF SavesInTime
<1>b. Stamp \in Nat /\ fclock < Stamp + Settle
  BY StampTyped DEF FileTyped
<1>c. 1 \in Versions /\ Bad \notin Versions /\ Absent \notin Versions /\ Bad # Absent
  BY <1>a DEF Versions, Bad, Absent
<1>1. CASE Elapse
  <2>1. /\ fclock' = fclock + 1 /\ (saver = "wrote" => fclock' - staging.at <= SaveTime)
        /\ UNCHANGED <<file, checked, saver, staging, editor, nextVer, followerVars>>
    BY <1>1 DEF Elapse, fileVars
  <2>2. FileTyped' /\ VersionsLeft'
    BY <2>1 DEF FileTyped, VersionsLeft, followerVars
  <2>3. FileKept'
    BY <1>a, <2>1 DEF FileTyped, FileKept, followerVars
  <2>4. FollowerKept'
    BY <1>a, <2>1 DEF FileTyped, FollowerKept, followerVars
  <2> QED
    BY <2>2, <2>3, <2>4
<1>2. CASE OpenStaging \/ WriteStaging \/ SaveFails
  <2>1. UNCHANGED <<fclock, file, checked, editor, followerVars>>
    BY <1>2 DEF OpenStaging, WriteStaging, SaveFails, fileVars
  <2>2. FollowerKept'
    BY <2>1 DEF FollowerKept, followerVars
  <2>3. VersionsLeft' /\ (WriteStaging => nextVer \in Versions)
    BY <1>2, <1>a, <2>1 DEF OpenStaging, WriteStaging, SaveFails, VersionsLeft, Versions
  <2>4. FileTyped' /\ FileKept'
    BY <1>2, <1>a, <1>b, <1>c, <2>1, <2>3 DEF OpenStaging, WriteStaging, SaveFails,
       FileTyped, FileKept, followerVars
  <2> QED
    BY <2>2, <2>3, <2>4
<1>3. CASE RenameStaging
  <2>1. /\ saver = "wrote" /\ saver' = "idle" /\ PutFile(staging) /\ staging' = NoFile
        /\ UNCHANGED <<fclock, editor, nextVer, followerVars>>
    BY <1>3 DEF RenameStaging
  <2>2. /\ staging \in [ver : Versions \cup {Bad}, at : Nat] /\ fclock < staging.at + Settle
        /\ staging.ver \in Versions
    BY <2>1 DEF FileTyped, FileKept
  <2>3. FollowerKept' /\ file' = staging /\ checked' = FALSE
    BY <2>1, <2>2, FilePut DEF followerVars
  <2>4. FileTyped' /\ VersionsLeft' /\ FileKept'
    BY <1>c, <2>1, <2>2, <2>3 DEF FileTyped, VersionsLeft, FileKept, NoFile, followerVars
  <2> QED
    BY <2>3, <2>4
<1>4. CASE EditBegin \/ EditEnd
  <2>1. PICK v \in Versions \cup {Bad} : PutFile([ver |-> v, at |-> Stamp])
    <3>1. EditEnd => nextVer \in Versions
      BY <1>a DEF EditEnd, VersionsLeft, Versions
    <3> QED
      BY <1>4, <3>1 DEF EditBegin, EditEnd
  <2>2. UNCHANGED <<fclock, saver, staging, followerVars>> /\ VersionsLeft'
        /\ editor' \in {"idle", "writing"}
    BY <1>4, <1>a DEF EditBegin, EditEnd, VersionsLeft
  <2>3. FollowerKept' /\ file' = [ver |-> v, at |-> Stamp] /\ checked' = FALSE
    BY <1>b, <2>1, <2>2, FilePut DEF followerVars
  <2>4. FileTyped' /\ FileKept'
    BY <1>b, <1>c, <2>2, <2>3 DEF FileTyped, FileKept, followerVars
  <2> QED
    BY <2>2, <2>3, <2>4
<1>5. CASE CreateDefault
  <2>1. /\ follower' = "created" /\ PutFile([ver |-> Bad, at |-> Stamp])
        /\ UNCHANGED <<fclock, saver, staging, editor, nextVer, loadedMod, known, early>>
    BY <1>5 DEF CreateDefault
  <2>2. FollowerKept' /\ file' = [ver |-> Bad, at |-> Stamp] /\ checked' = FALSE
    BY <1>b, <2>1, FilePut
  <2> QED
    BY <1>b, <1>c, <2>1, <2>2 DEF FileTyped, VersionsLeft, FileKept
<1>6. CASE WriteDefault
  <2>1. follower = "created" /\ follower' = "load"
        /\ UNCHANGED <<fclock, saver, staging, editor, loadedMod, known, early>>
    BY <1>6 DEF WriteDefault
  <2>2. CASE /\ editor = "idle" /\ nextVer <= MaxWrites
             /\ PutFile([ver |-> nextVer, at |-> Stamp]) /\ nextVer' = nextVer + 1
    <3>1. nextVer \in Versions /\ VersionsLeft'
      BY <1>a, <2>1, <2>2 DEF VersionsLeft, Versions
    <3>2. FollowerKept' /\ file' = [ver |-> nextVer, at |-> Stamp] /\ checked' = FALSE
      BY <1>b, <2>1, <2>2, <3>1, FilePut
    <3> QED
      BY <1>b, <1>c, <2>1, <3>1, <3>2 DEF FileTyped, FileKept
  <2>3. CASE UNCHANGED <<fileVars, nextVer>>
    BY <2>1, <2>3 DEF FileTyped, VersionsLeft, FileKept, FollowerKept, fileVars
  <2> QED
    BY <1>6, <2>2, <2>3 DEF WriteDefault
<1>7. CASE FoundFile
  <2>1. FileTyped'
    BY <1>7, <1>a DEF FoundFile, FileTyped, fileVars
  <2>2. VersionsLeft'
    BY <1>7 DEF FoundFile, VersionsLeft
  <2>3. FileKept' /\ FollowerKept'
    BY <1>7, <1>a DEF FoundFile, FileTyped, FileKept, FollowerKept, fileVars
  <2> QED
    BY <2>1, <2>2, <2>3
<1>8. CASE LoadFile
  <2>1. VersionsLeft' /\ UNCHANGED <<fclock, fileVars, saver, staging, editor>>
    BY <1>8 DEF LoadFile, VersionsLeft
  <2>2. CASE file.ver \in Versions
    <3>1. follower' = "idle" /\ known' = file.ver /\ loadedMod' = file.at
      BY <1>8, <2>2 DEF LoadFile
    <3>2. early' = (fclock - file.at < Settle)
      BY <1>8, <2>2, Zenon DEF LoadFile
    <3>3. early' \in BOOLEAN
      BY <3>2
    <3>4. ~early' => file.at + Settle <= fclock
      <4>1. CASE fclock - file.at < Settle
        <5>1. early' = TRUE
          BY <3>2, <4>1, Zenon
        <5> QED
          BY <5>1
      <4>2. CASE ~(fclock - file.at < Settle)
        <5>1. fclock \in Nat /\ file.at \in Nat
          BY DEF FileTyped
        <5> QED
          BY <1>a, <4>2, <5>1
      <4> QED
        BY <4>1, <4>2
    <3> QED
      BY <1>8, <2>1, <2>2, <3>1, <3>3, <3>4 DEF LoadFile, FileTyped, FileKept, FollowerKept,
         fileVars
  <2>3. CASE file.ver \notin Versions
    BY <1>8, <2>1, <2>3 DEF LoadFile, FileTyped, FileKept, FollowerKept, fileVars
  <2> QED
    BY <2>2, <2>3
<1>9. CASE StatFile
  <2>1. FileTyped'
    BY <1>9, <1>a DEF StatFile, Settled, FileTyped, fileVars
  <2>2. VersionsLeft'
    BY <1>9 DEF StatFile, VersionsLeft
  <2>3. FileKept' /\ FollowerKept'
    BY <1>9, <1>a DEF StatFile, Settled, FileTyped, FileKept, FollowerKept, fileVars
  <2> QED
    BY <2>1, <2>2, <2>3
<1>10. CASE ReadFile
  <2>1. FileTyped'
    BY <1>10, <1>a DEF ReadFile, FileTyped, fileVars
  <2>2. VersionsLeft'
    BY <1>10 DEF ReadFile, VersionsLeft
  <2>3. FileKept' /\ FollowerKept'
    BY <1>10, <1>a DEF ReadFile, FileTyped, FileKept, FollowerKept, fileVars
  <2> QED
    BY <2>1, <2>2, <2>3
<1>11. CASE FollowerExits
  <2>1. FileTyped'
    BY <1>11, <1>a DEF FollowerExits, FileTyped, fileVars
  <2>2. VersionsLeft'
    BY <1>11 DEF FollowerExits, VersionsLeft
  <2>3. FileKept' /\ FollowerKept'
    BY <1>11, <1>a DEF FollowerExits, FileTyped, FileKept, FollowerKept, fileVars
  <2> QED
    BY <2>1, <2>2, <2>3
<1>12. CASE UNCHANGED configVars
  BY <1>12 DEF configVars, fileVars, followerVars, FileTyped, VersionsLeft, FileKept,
     FollowerKept
<1> QED
  BY <1>1, <1>2, <1>3, <1>4, <1>5, <1>6, <1>7, <1>8, <1>9, <1>10, <1>11, <1>12
     DEF ConfigNext, Saver, Follower

ConfigSpec == ConfigInit /\ [][ConfigNext]_configVars

(* A follower that finds its file unchanged has read what is in it, though *)
(* maybe_reload() only compares modification times, which are kept in      *)
(* steps: it waits for the file to be Settle old, and what is put there    *)
(* later is younger.  A save must not take longer than that from its write *)
(* to its rename.                                                          *)
THEOREM UnchangedMeansKnown == ASSUME SavesInTime PROVE ConfigSpec => []FollowsFile
<1>1. FileInv => FollowsFile
  BY DEF FileInv, FollowerKept, FileTyped, FollowsFile
<1> QED
  BY <1>1, FileInit, FileStep, PTL DEF ConfigSpec
-----------------------------------------------------------------------------
(* The report files, Reporter.                                             *)

ReporterSpec == ReporterInit /\ [][ReporterNext]_reporterVars

ReporterTyped ==
    /\ clock \in 0..StartAt + MaxTime /\ now \in 0..clock
    /\ pc \in {"none", "select", "base", "tickSec", "expireSec", "tickLong", "expireLong", "done"}
    /\ due \in [Kinds -> Nat] /\ latest \in [Kinds -> Nat]
    /\ files \in [Kinds -> SUBSET Times]
    /\ written \in [Kinds -> SUBSET Times] /\ leaked \in [Kinds -> SUBSET Times]

\* No file is removed before its time, in whichever agent.
KeptSoFar == \A k \in Kinds : Kept(k) \subseteq files[k]

\* The newest file belongs to a tick before the one that is due next, unless
\* this tick has just written it.
Linked ==
    \A k \in Kinds :
        /\ latest[k] <= Aligned(k, now)
        /\ pc = ExpireAt[k] => latest[k] = Aligned(k, now) /\ now >= due[k]
        /\ pc \notin {"none", ExpireAt[k]} => latest[k] <= due[k] - Interval[k]

\* What had expired at the last tick is gone.
Unexpired ==
    pc # "none" =>
        \A k \in Kinds : \A s \in files[k] :
            s + Retention[k] >= due[k] - Interval[k] \/ s \in leaked[k]

ReporterInv == ReporterTyped /\ KeptSoFar /\ Linked /\ Unexpired

LEMMA Scales ==
    /\ StartAt \in Nat /\ MaxTime \in Nat
    /\ \A k \in Kinds : Interval[k] \in Nat \ {0} /\ Interval[k] <= Intv /\ Retention[k] \in Nat \ {0}
BY IntervalAssumption, ClockAssumption DEF Kinds, Interval, Retention

LEMMA Places ==
    /\ TickAt["sec"] = "tickSec" /\ TickAt["long"] = "tickLong"
    /\ ExpireAt["sec"] = "expireSec" /\ ExpireAt["long"] = "expireLong"
    /\ \A k \in Kinds : k \in {"sec", "long"}
BY DEF TickAt, ExpireAt, Kinds

LEMMA AlignedDown ==
    ASSUME NEW k \in Kinds, NEW t \in Nat
    PROVE  Aligned(k, t) \in Nat /\ Aligned(k, t) <= t /\ t < Aligned(k, t) + Interval[k]
BY Scales, RoundedDown DEF Aligned

LEMMA AlignedMonotonic ==
    ASSUME NEW k \in Kinds, NEW t \in Nat, NEW u \in Nat, t <= u
    PROVE  Aligned(k, t) <= Aligned(k, u)
BY Scales, RoundedDownMonotonic DEF Aligned

LEMMA ReporterStarts == ReporterInit => ReporterInv
<1> SUFFICES ASSUME ReporterInit PROVE ReporterInv
  OBVIOUS
<1>1. ReporterTyped
  BY Scales DEF ReporterInit, ReporterTyped
<1>2. KeptSoFar /\ Unexpired
  BY DEF ReporterInit, KeptSoFar, Kept, Unexpired
<1>3. Linked
  <2> SUFFICES ASSUME NEW k \in Kinds PROVE latest[k] <= Aligned(k, now) /\ pc \notin {ExpireAt[k]}
    BY DEF ReporterInit, Linked
  <2>1. latest[k] = 0 /\ now \in Nat /\ pc = "none"
    BY Scales DEF ReporterInit
  <2> QED
    BY <2>1, AlignedDown, Places
<1> QED
  BY <1>1, <1>2, <1>3 DEF ReporterInv

(* What moves neither the thread's counter nor its files.                  *)
LEMMA ReporterAside ==
    ASSUME ReporterInv, UNCHANGED <<disk, now, due, pc>>, clock' \in clock..StartAt + MaxTime
    PROVE  ReporterInv'
<1>1. ReporterTyped'
  BY Scales DEF ReporterInv, ReporterTyped, disk
<1>2. KeptSoFar'
  BY DEF ReporterInv, KeptSoFar, Kept, disk
<1>3. Linked'
  BY DEF ReporterInv, Linked, Aligned, disk
<1>4. Unexpired'
  BY DEF ReporterInv, Unexpired, disk
<1> QED
  BY <1>1, <1>2, <1>3, <1>4 DEF ReporterInv

(* What moves the thread's counter between the ticks, or wakes it up.      *)
LEMMA ReporterMoves ==
    ASSUME ReporterInv, UNCHANGED <<clock, disk, due>>,
           pc \notin {"none", "expireSec", "expireLong"} \/ pc' = "none",
           pc' \in {"none", "select", "base", "tickSec", "tickLong", "done"},
           now' \in now..clock
    PROVE  ReporterInv'
<1>1. ReporterTyped'
  BY Scales DEF ReporterInv, ReporterTyped, disk
<1>2. KeptSoFar'
  <2> SUFFICES ASSUME NEW k \in Kinds, NEW s \in written[k], s >= now' - Retention[k]
               PROVE  s \in files[k]
    BY DEF KeptSoFar, Kept, disk
  <2>1. s \in Times /\ now \in Nat /\ now' \in Nat /\ now <= now' /\ Retention[k] \in Nat
    BY Scales DEF ReporterInv, ReporterTyped
  <2>2. s >= now - Retention[k]
    BY <2>1, Scales DEF Times
  <2> QED
    BY <2>2 DEF ReporterInv, KeptSoFar, Kept
<1>3. Linked'
  <2> SUFFICES ASSUME NEW k \in Kinds
               PROVE  /\ latest[k] <= Aligned(k, now')
                      /\ pc' # ExpireAt[k]
                      /\ pc' # "none" => latest[k] <= due[k] - Interval[k]
    BY DEF Linked, disk, Aligned
  <2>1. now \in Nat /\ now' \in Nat /\ now <= now' /\ latest[k] \in Nat
    BY Scales DEF ReporterInv, ReporterTyped
  <2>2. latest[k] <= Aligned(k, now)
    BY DEF ReporterInv, Linked
  <2>3. latest[k] <= Aligned(k, now')
    BY <2>1, <2>2, AlignedMonotonic, AlignedDown
  <2>4. ExpireAt[k] \in {"expireSec", "expireLong"}
    BY Places
  <2> QED
    BY <2>3, <2>4 DEF ReporterInv, Linked
<1>4. Unexpired'
  BY DEF ReporterInv, Unexpired, disk
<1> QED
  BY <1>1, <1>2, <1>3, <1>4 DEF ReporterInv

(* How a tick ends.                                                        *)
LEMMA TickEnds ==
    ASSUME NEW k \in Kinds, AfterTick(k)
    PROVE  pc' \in {"select", "tickLong"}
BY Places DEF AfterTick

LEMMA ReporterStartStep == ReporterInv /\ StartReporter => ReporterInv'
<1> SUFFICES ASSUME ReporterInv, StartReporter PROVE ReporterInv'
  OBVIOUS
<1>1. /\ clock \in Nat /\ now \in Nat /\ now <= clock /\ clock <= StartAt + MaxTime
      /\ latest \in [Kinds -> Nat] /\ files \in [Kinds -> SUBSET Times]
      /\ written \in [Kinds -> SUBSET Times] /\ leaked \in [Kinds -> SUBSET Times]
  BY Scales DEF ReporterInv, ReporterTyped
<1>2. /\ pc' = "select" /\ now' = clock /\ clock' = clock
      /\ due' = [k \in Kinds |-> Aligned(k, clock) + Interval[k]]
      /\ files' = [k \in Kinds |-> {s \in files[k] : s >= clock - Retention[k]}]
      /\ leaked' = [k \in Kinds |-> {}] /\ latest' = latest /\ written' = written
  BY DEF StartReporter
<1>b. \A k \in Kinds : /\ due'[k] = Aligned(k, clock) + Interval[k]
                       /\ files'[k] = {s \in files[k] : s >= clock - Retention[k]}
  BY <1>2
<1>3. ReporterTyped'
  <2>1. due' \in [Kinds -> Nat]
    BY <1>1, <1>2, AlignedDown, Scales
  <2>2. files' \in [Kinds -> SUBSET Times] /\ leaked' \in [Kinds -> SUBSET Times]
    BY <1>1, <1>2
  <2> QED
    BY <1>1, <1>2, <2>1, <2>2 DEF ReporterInv, ReporterTyped
<1>4. KeptSoFar'
  <2> SUFFICES ASSUME NEW k \in Kinds, NEW s \in written[k], s >= clock - Retention[k]
               PROVE  s \in files[k]
    BY <1>2 DEF KeptSoFar, Kept
  <2>1. s \in Nat /\ Retention[k] \in Nat
    BY <1>1, Scales, IntervalAssumption DEF Times
  <2>2. s >= now - Retention[k]
    BY <1>1, <2>1
  <2> QED
    BY <2>2 DEF ReporterInv, KeptSoFar, Kept
<1>5. Linked'
  <2> SUFFICES ASSUME NEW k \in Kinds
               PROVE  /\ latest'[k] <= Aligned(k, now')
                      /\ pc' # ExpireAt[k]
                      /\ latest'[k] <= due'[k] - Interval[k]
    BY DEF Linked, Aligned
  <2>1. latest[k] <= Aligned(k, now) /\ latest[k] \in Nat
    BY <1>1 DEF ReporterInv, Linked
  <2>2. latest[k] <= Aligned(k, clock) /\ Aligned(k, clock) \in Nat
    BY <1>1, <2>1, AlignedMonotonic, AlignedDown
  <2>3. due'[k] - Interval[k] = Aligned(k, clock)
    BY <1>b, <2>2, Scales
  <2> QED
    BY <1>2, <2>2, <2>3, Places
<1>6. Unexpired'
  <2> SUFFICES ASSUME NEW k \in Kinds, NEW s \in files'[k]
               PROVE  s + Retention[k] >= due'[k] - Interval[k]
    BY DEF Unexpired
  <2>1. s \in files[k] /\ s >= clock - Retention[k]
    BY <1>b
  <2>2. s \in Nat /\ Retention[k] \in Nat /\ Interval[k] \in Nat
    BY <1>1, <2>1, Scales, IntervalAssumption DEF Times
  <2>3. Aligned(k, clock) \in Nat /\ Aligned(k, clock) <= clock
    BY <1>1, AlignedDown
  <2>4. due'[k] - Interval[k] = Aligned(k, clock)
    BY <1>b, <2>2, <2>3
  <2> QED
    BY <1>1, <2>1, <2>2, <2>3, <2>4
<1> QED
  BY <1>3, <1>4, <1>5, <1>6 DEF ReporterInv

(* What a tick finds once its time has come: the new report is of a later  *)
(* interval than the newest file, and no older than the tick that was due. *)
LEMMA TickDue ==
    ASSUME ReporterTyped, NEW k \in Kinds, now >= due[k]
    PROVE  /\ now \in Nat /\ now <= StartAt + MaxTime /\ due[k] \in Nat
           /\ Interval[k] \in Nat \ {0} /\ Retention[k] \in Nat \ {0}
           /\ Aligned(k, now) \in Times /\ Aligned(k, now) \in Nat /\ Aligned(k, now) <= now
           /\ due[k] - Interval[k] < Aligned(k, now)
<1>1. now \in Nat /\ now <= StartAt + MaxTime /\ due[k] \in Nat
  BY Scales DEF ReporterTyped
<1>2. Interval[k] \in Nat \ {0} /\ Retention[k] \in Nat \ {0}
  BY Scales
<1>3. Aligned(k, now) \in Nat /\ Aligned(k, now) <= now /\ now < Aligned(k, now) + Interval[k]
  BY <1>1, AlignedDown
<1>4. Aligned(k, now) \in Times
  BY <1>1, <1>3, Scales, IntervalAssumption DEF Times
<1> QED
  BY <1>1, <1>2, <1>3, <1>4

LEMMA CommitStep ==
    ASSUME ReporterInv, NEW k \in Kinds, pc = TickAt[k], now >= due[k],
           files' = [files EXCEPT ![k] = @ \cup {Aligned(k, now)}],
           written' = [written EXCEPT ![k] = @ \cup {Aligned(k, now)}],
           latest' = [latest EXCEPT ![k] = Aligned(k, now)],
           pc' = ExpireAt[k], UNCHANGED <<clock, now, due, leaked>>
    PROVE  ReporterInv'
<1>1. /\ now \in Nat /\ now <= StartAt + MaxTime /\ due[k] \in Nat
      /\ Interval[k] \in Nat \ {0} /\ Retention[k] \in Nat \ {0}
      /\ Aligned(k, now) \in Times /\ Aligned(k, now) \in Nat /\ Aligned(k, now) <= now
      /\ due[k] - Interval[k] < Aligned(k, now)
  BY TickDue DEF ReporterInv
<1>2. /\ latest \in [Kinds -> Nat] /\ files \in [Kinds -> SUBSET Times]
      /\ written \in [Kinds -> SUBSET Times]
  BY DEF ReporterInv, ReporterTyped
<1>3. ReporterTyped'
  <2>1. /\ latest' \in [Kinds -> Nat] /\ files' \in [Kinds -> SUBSET Times]
        /\ written' \in [Kinds -> SUBSET Times]
    BY <1>1, <1>2
  <2>2. pc' \in {"expireSec", "expireLong"}
    BY Places
  <2> QED
    BY <2>1, <2>2 DEF ReporterInv, ReporterTyped
<1>4. KeptSoFar'
  <2> SUFFICES ASSUME NEW j \in Kinds, NEW s \in written'[j], s >= now - Retention[j]
               PROVE  s \in files'[j]
    BY DEF KeptSoFar, Kept
  <2>1. CASE s \in written[j]
    BY <1>2, <2>1 DEF ReporterInv, KeptSoFar, Kept
  <2>2. CASE s \notin written[j]
    BY <1>2, <2>2
  <2> QED
    BY <2>1, <2>2
<1>5. Linked'
  <2> SUFFICES ASSUME NEW j \in Kinds
               PROVE  /\ latest'[j] <= Aligned(j, now)
                      /\ ExpireAt[k] = ExpireAt[j] => latest'[j] = Aligned(j, now) /\ now >= due[j]
                      /\ ExpireAt[k] # ExpireAt[j] => latest'[j] <= due[j] - Interval[j]
    BY DEF Linked, Aligned
  <2>1. CASE j = k
    BY <1>1, <1>2, <2>1
  <2>2. CASE j # k
    <3>1. latest'[j] = latest[j] /\ ExpireAt[k] # ExpireAt[j] /\ pc \notin {"none", ExpireAt[j]}
      BY <1>2, <2>2, Places
    <3> QED
      BY <3>1 DEF ReporterInv, Linked
  <2> QED
    BY <2>1, <2>2
<1>6. Unexpired'
  <2> SUFFICES ASSUME NEW j \in Kinds, NEW s \in files'[j]
               PROVE  s + Retention[j] >= due[j] - Interval[j] \/ s \in leaked[j]
    BY DEF Unexpired
  <2>1. CASE s \in files[j]
    <3>1. pc # "none"
      BY Places
    <3> QED
      BY <2>1, <3>1 DEF ReporterInv, Unexpired
  <2>2. CASE s \notin files[j]
    <3>1. j = k /\ s = Aligned(k, now)
      BY <1>2, <2>2
    <3> QED
      BY <1>1, <3>1
  <2> QED
    BY <2>1, <2>2
<1> QED
  BY <1>3, <1>4, <1>5, <1>6 DEF ReporterInv

(* What is removed, or leaked, when a tick moves to its next one.          *)
LEMMA MoveOnStep ==
    ASSUME ReporterInv, NEW k \in Kinds, pc \in {TickAt[k], ExpireAt[k]}, now >= due[k],
           due' = [due EXCEPT ![k] = Aligned(k, now) + Interval[k]],
           AfterTick(k), UNCHANGED <<clock, now, written, latest>>,
           \/ /\ files' = [files EXCEPT ![k] = @ \ Expiring(k, due[k] - Interval[k])]
              /\ leaked' = leaked
           \/ /\ leaked' = [leaked EXCEPT ![k] = @ \cup Expiring(k, due[k] - Interval[k])]
              /\ files' = files
    PROVE  ReporterInv'
<1> DEFINE gone == Expiring(k, due[k] - Interval[k])
<1>1. /\ now \in Nat /\ now <= StartAt + MaxTime /\ due[k] \in Nat
      /\ Interval[k] \in Nat \ {0} /\ Retention[k] \in Nat \ {0}
      /\ Aligned(k, now) \in Times /\ Aligned(k, now) \in Nat /\ Aligned(k, now) <= now
      /\ due[k] - Interval[k] < Aligned(k, now)
  BY TickDue DEF ReporterInv
<1>2. /\ due \in [Kinds -> Nat] /\ latest \in [Kinds -> Nat]
      /\ files \in [Kinds -> SUBSET Times] /\ leaked \in [Kinds -> SUBSET Times]
      /\ written \in [Kinds -> SUBSET Times]
  BY DEF ReporterInv, ReporterTyped
<1>3. gone \subseteq Times /\ \A s \in gone : s + Retention[k] < now
  BY DEF Expiring
<1>4. \A s \in Times : s \notin gone =>
         s + Retention[k] < due[k] - Interval[k] \/ s + Retention[k] >= now
  BY <1>1 DEF Expiring, Times
<1>5. pc' \in {"select", "tickLong"} /\ pc # "none"
  BY TickEnds, Places
<1> HIDE DEF gone
<1>6. \/ files' = [files EXCEPT ![k] = @ \ gone] /\ leaked' = leaked
      \/ leaked' = [leaked EXCEPT ![k] = @ \cup gone] /\ files' = files
  BY DEF gone
<1>7. ReporterTyped'
  <2>1. due' \in [Kinds -> Nat]
    BY <1>1, <1>2
  <2>2. files' \in [Kinds -> SUBSET Times] /\ leaked' \in [Kinds -> SUBSET Times]
    BY <1>2, <1>3, <1>6
  <2> QED
    BY <1>5, <2>1, <2>2 DEF ReporterInv, ReporterTyped
<1>8. KeptSoFar'
  <2> SUFFICES ASSUME NEW j \in Kinds, NEW s \in written[j], s >= now - Retention[j]
               PROVE  s \in files'[j]
    BY DEF KeptSoFar, Kept
  <2>1. s \in files[j] /\ s \in Nat
    BY <1>2, Scales, IntervalAssumption DEF ReporterInv, KeptSoFar, Kept, Times
  <2>2. CASE j = k
    <3>1. s \notin gone
      BY <1>1, <1>3, <2>1, <2>2
    <3> QED
      BY <1>2, <1>6, <2>1, <2>2, <3>1
  <2>3. CASE j # k
    BY <1>2, <1>6, <2>1, <2>3
  <2> QED
    BY <2>2, <2>3
<1>9. latest[k] <= Aligned(k, now)
  BY DEF ReporterInv, Linked
<1>10. Linked'
  <2> SUFFICES ASSUME NEW j \in Kinds
               PROVE  /\ latest[j] <= Aligned(j, now)
                      /\ pc' # ExpireAt[j]
                      /\ latest[j] <= due'[j] - Interval[j]
    BY DEF Linked, Aligned
  <2>1. latest[j] <= Aligned(j, now) /\ pc' # ExpireAt[j]
    BY <1>5, Places DEF ReporterInv, Linked
  <2>2. CASE j = k
    <3>1. due'[j] = Aligned(k, now) + Interval[k]
      BY <1>2, <2>2
    <3> QED
      BY <1>1, <1>2, <1>9, <2>1, <2>2, <3>1
  <2>3. CASE j # k
    <3>1. due'[j] = due[j] /\ pc \notin {"none", ExpireAt[j]}
      BY <1>2, <2>3, Places
    <3> QED
      BY <2>1, <3>1 DEF ReporterInv, Linked
  <2> QED
    BY <2>2, <2>3
<1>11. Unexpired'
  <2> SUFFICES ASSUME NEW j \in Kinds, NEW s \in files'[j]
               PROVE  s + Retention[j] >= due'[j] - Interval[j] \/ s \in leaked'[j]
    BY DEF Unexpired
  <2>1. s \in files[j] /\ s \in Times /\ s \in Nat
    BY <1>2, <1>6, Scales, IntervalAssumption DEF Times
  <2>2. s + Retention[j] >= due[j] - Interval[j] \/ s \in leaked[j]
    BY <1>5, <2>1 DEF ReporterInv, Unexpired
  <2>3. CASE j # k
    <3>1. due'[j] = due[j] /\ leaked'[j] = leaked[j]
      BY <1>2, <1>6, <2>3
    <3> QED
      BY <2>2, <3>1
  <2>4. CASE j = k /\ s \in leaked[k]
    BY <1>2, <1>6, <2>4
  <2>5. CASE j = k /\ s \notin leaked[k]
    <3>1. due'[j] = Aligned(k, now) + Interval[k]
      BY <1>2, <2>5
    <3>2. CASE s \in gone
      BY <1>2, <1>6, <2>5, <3>2
    <3>3. CASE s \notin gone
      <4>1. s + Retention[k] >= now
        BY <1>1, <1>4, <2>1, <2>2, <2>5, <3>3
      <4> QED
        BY <1>1, <2>1, <2>5, <3>1, <4>1
    <3> QED
      BY <3>2, <3>3
  <2> QED
    BY <2>3, <2>4, <2>5
<1> QED
  BY <1>7, <1>8, <1>10, <1>11 DEF ReporterInv

LEMMA ReporterStep == ReporterInv /\ [ReporterNext]_reporterVars => ReporterInv'
<1> SUFFICES ASSUME ReporterInv, [ReporterNext]_reporterVars PROVE ReporterInv'
  OBVIOUS
<1>a. /\ clock \in Nat /\ now \in Nat /\ now <= clock /\ clock <= StartAt + MaxTime
      /\ StartAt \in Nat /\ MaxTime \in Nat
  BY Scales DEF ReporterInv, ReporterTyped
<1>1. CASE Tick
  <2>1. UNCHANGED <<disk, now, due, pc>> /\ clock' \in clock..StartAt + MaxTime
    BY <1>1, <1>a DEF Tick, own
  <2> QED
    BY <2>1, ReporterAside
<1>2. CASE RunnerUnlock \/ RunnerLock \/ RunnerExit \/ RunnerJoined \/ SetExiting
  <2>1. UNCHANGED <<disk, now, due, pc, clock>>
    BY <1>2 DEF RunnerUnlock, RunnerLock, RunnerExit, RunnerJoined, SetExiting, own
  <2> QED
    BY <1>a, <2>1, ReporterAside
<1>3. CASE StartReporter
  BY <1>3, ReporterStartStep
<1>4. CASE AgentStarts
  <2>1. UNCHANGED <<clock, disk, due, now>> /\ pc' = "none"
    BY <1>4 DEF AgentStarts
  <2> QED
    BY <1>a, <2>1, ReporterMoves
<1>5. CASE IoLatEnds \/ Terminate
  <2>1. UNCHANGED <<clock, disk, due, now>> /\ pc = "select" /\ pc' \in {"select", "done"}
    BY <1>5 DEF IoLatEnds, Terminate
  <2> QED
    BY <1>a, <2>1, ReporterMoves
<1>6. CASE Wake \/ BaseReport
  <2>1. /\ UNCHANGED <<clock, disk, due>> /\ pc \in {"select", "base"}
        /\ pc' \in {"base", "tickSec", "select"} /\ now' \in {now, clock}
    BY <1>6, Places DEF Wake, BaseReport
  <2> QED
    BY <1>a, <2>1, ReporterMoves
<1>7. ASSUME NEW k \in Kinds, NotYet(k) PROVE ReporterInv'
  <2>1. UNCHANGED <<clock, disk, due, now>> /\ pc = TickAt[k] /\ pc' \in {"select", "tickLong"}
    BY <1>7, TickEnds DEF NotYet
  <2> QED
    BY <1>a, <2>1, ReporterMoves, Places
<1>8. ASSUME NEW k \in Kinds, Summarize(k) PROVE ReporterInv'
  <2>1. pc = TickAt[k] /\ now >= due[k] /\ UNCHANGED <<clock, now>>
    BY <1>8 DEF Summarize
  <2>2. CASE /\ files' = [files EXCEPT ![k] = @ \cup {Aligned(k, now)}]
             /\ written' = [written EXCEPT ![k] = @ \cup {Aligned(k, now)}]
             /\ latest' = [latest EXCEPT ![k] = Aligned(k, now)]
             /\ pc' = ExpireAt[k] /\ UNCHANGED <<due, leaked>>
    BY <2>1, <2>2, CommitStep
  <2>3. CASE /\ due' = [due EXCEPT ![k] = Aligned(k, now) + Interval[k]]
             /\ leaked' = [leaked EXCEPT ![k] = @ \cup Expiring(k, due[k] - Interval[k])]
             /\ AfterTick(k) /\ UNCHANGED <<files, written, latest>>
    BY <2>1, <2>3, MoveOnStep
  <2> QED
    BY <1>8, <2>2, <2>3 DEF Summarize
<1>9. ASSUME NEW k \in Kinds, Expire(k) PROVE ReporterInv'
  <2>1. pc = ExpireAt[k] /\ now >= due[k]
    BY <1>9 DEF Expire, ReporterInv, Linked
  <2> QED
    BY <1>9, <2>1, MoveOnStep DEF Expire
<1>10. CASE UNCHANGED reporterVars
  <2>1. UNCHANGED <<disk, now, due, pc, clock>>
    BY <1>10 DEF reporterVars, own
  <2> QED
    BY <1>a, <2>1, ReporterAside
<1> QED
  BY <1>1, <1>2, <1>3, <1>4, <1>5, <1>6, <1>7, <1>8, <1>9, <1>10
     DEF ReporterNext, RunnerThread, ReportThread

(* Whatever seconds are skipped and in whichever agent a report was        *)
(* written, its file is there while its retention lasts, and gone once     *)
(* the directory's newest report is past it, unless the tick that was to   *)
(* remove it gave up (ReportFile::tick, clear_old_report_files in          *)
(* report.rs).  The report written at a tick is of a later interval than   *)
(* the one before, so what that tick skips over is what it removes.        *)
THEOREM ReportsAreRetained == ReporterSpec => []RetentionKept
<1>1. ReporterInv => RetentionKept
  <2> SUFFICES ASSUME ReporterInv, NEW k \in Kinds,
                      pc \notin {"none", ExpireAt[k]}, NEW s \in files[k]
               PROVE  s >= latest[k] - Retention[k] \/ s \in leaked[k]
    BY DEF RetentionKept, ReporterInv, KeptSoFar
  <2>1. s + Retention[k] >= due[k] - Interval[k] \/ s \in leaked[k]
    BY DEF ReporterInv, Unexpired
  <2>2. latest[k] <= due[k] - Interval[k]
    BY DEF ReporterInv, Linked
  <2>3. /\ s \in Nat /\ latest[k] \in Nat /\ due[k] \in Nat /\ Interval[k] \in Nat
        /\ Retention[k] \in Nat
    BY Scales, IntervalAssumption DEF ReporterInv, ReporterTyped, Times
  <2> QED
    BY <2>1, <2>2, <2>3
<1> QED
  BY <1>1, ReporterStarts, ReporterStep, PTL DEF ReporterSpec

-----------------------------------------------------------------------------
(* The rings of the graphs, ReportRing.                                    *)

GraphSpec == GraphInit /\ [][GraphNext]_graphVars

\* The newest report file is the one the link points to; nothing in a ring is
\* newer, and all stamps are at the beginning of their interval.
Stamped ==
    \A k \in Kinds : \A s \in files[k] \cup ring[k] :
        s \in Nat /\ s <= latest[k] /\ Aligned(k, s) = s
RingInv == ReporterInv /\ Stamped /\ RingComplete

(* A set of numbers with an upper bound has a greatest.                    *)
LEMMA Greatest ==
    ASSUME NEW S, S # {}, NEW n \in Nat, \A s \in S : s \in Nat /\ s <= n
    PROVE  Max(S) \in S /\ \A s \in S : s <= Max(S)
<1> DEFINE T == {m \in Nat : \A s \in S : s <= m}
<1>1. n \in T
  OBVIOUS
<1>2. PICK m \in T : \A i \in T : <<i, m>> \notin OpToRel(<, Nat)
  BY <1>1, NatLessThanWellFounded, WFMin
<1>3. m \in S
  <2> SUFFICES ASSUME m \notin S PROVE FALSE
    OBVIOUS
  <2>a. m \in Nat /\ \A s \in S : s <= m
    OBVIOUS
  <2>1. \A s \in S : s < m
    <3>1. TAKE s \in S
    <3>2. s \in Nat /\ s <= m /\ s # m
      BY <2>a
    <3> QED
      BY <2>a, <3>2
  <2>2. PICK s0 : s0 \in S
    OBVIOUS
  <2>3. s0 \in Nat /\ s0 < m /\ m \in Nat
    BY <1>2, <2>1, <2>2
  <2>4. m - 1 \in Nat /\ m - 1 < m
    BY <2>3
  <2>5. \A s \in S : s <= m - 1
    <3>1. TAKE s \in S
    <3>2. s \in Nat /\ s < m
      BY <2>1
    <3> QED
      BY <2>a, <3>2
  <2>6. m - 1 \in T
    BY <2>4, <2>5
  <2> QED
    BY <1>2, <2>3, <2>4, <2>6 DEF OpToRel
<1>4. \A s \in S : m >= s
  BY <1>2
<1> HIDE DEF T
<1>5. /\ (CHOOSE x \in S : \A s \in S : x >= s) \in S
      /\ \A s \in S : (CHOOSE x \in S : \A y \in S : x >= y) >= s
  BY <1>3, <1>4
<1> QED
  BY <1>5 DEF Max

(* Two multiples that differ, differ by the interval at least.             *)
LEMMA AlignedApart ==
    ASSUME NEW k \in Kinds, NEW s \in Nat, NEW t \in Nat,
           Aligned(k, s) = s, Aligned(k, t) = t, s < t
    PROVE  s + Interval[k] <= t
<1>1. Interval[k] \in Nat \ {0}
  BY Scales
<1>2. PICK d \in Nat \ {0} : d = Interval[k]
  BY <1>1
<1>3. PICK p \in Nat : p = s \div d
  BY <1>2
<1>4. PICK q \in Nat : q = t \div d
  BY <1>2
<1>5. p * d = s /\ q * d = t
  BY <1>2, <1>3, <1>4 DEF Aligned
<1>6. p < q
  BY <1>5
<1>7. (p + 1) * d <= q * d
  BY <1>6
<1> QED
  BY <1>2, <1>5, <1>7

LEMMA AlignedTwice ==
    ASSUME NEW k \in Kinds, NEW t \in Nat
    PROVE  Aligned(k, Aligned(k, t)) = Aligned(k, t)
<1>1. \A d \in Nat \ {0} : \A p \in Nat : (p * d) \div d = p
  OBVIOUS
<1>2. Interval[k] \in Nat \ {0} /\ t \div Interval[k] \in Nat
  BY Scales
<1> QED
  BY <1>1, <1>2 DEF Aligned

(* A step of the reporter adds at most one file to a directory, and that   *)
(* one is newer than all it ever wrote.                                    *)
LEMMA FilesGrow ==
    ASSUME ReporterInv, [ReporterNext]_reporterVars, NEW k \in Kinds
    PROVE  \/ files'[k] \subseteq files[k] /\ latest'[k] = latest[k]
           \/ /\ files'[k] = files[k] \cup {latest'[k]} /\ latest[k] < latest'[k]
              /\ latest'[k] \in Nat /\ Aligned(k, latest'[k]) = latest'[k]
<1>1. /\ latest \in [Kinds -> Nat] /\ files \in [Kinds -> SUBSET Times]
  BY DEF ReporterInv, ReporterTyped
<1>2. CASE UNCHANGED disk
  BY <1>2 DEF disk
<1>3. CASE StartReporter
  BY <1>3, Zenon DEF StartReporter
<1>4. ASSUME NEW j \in Kinds, Summarize(j)
      PROVE  \/ files'[k] \subseteq files[k] /\ latest'[k] = latest[k]
             \/ /\ files'[k] = files[k] \cup {latest'[k]} /\ latest[k] < latest'[k]
                /\ latest'[k] \in Nat /\ Aligned(k, latest'[k]) = latest'[k]
  <2>1. pc = TickAt[j] /\ now >= due[j]
    BY <1>4 DEF Summarize
  <2>2. CASE UNCHANGED <<files, latest>>
    BY <2>2
  <2>3. CASE /\ files' = [files EXCEPT ![j] = @ \cup {Aligned(j, now)}]
             /\ latest' = [latest EXCEPT ![j] = Aligned(j, now)]
    <3>1. /\ now \in Nat /\ Aligned(j, now) \in Nat /\ due[j] \in Nat /\ Interval[j] \in Nat
          /\ due[j] - Interval[j] < Aligned(j, now)
      BY <2>1, TickDue DEF ReporterInv
    <3>2. latest[j] <= due[j] - Interval[j]
      BY <2>1, Places DEF ReporterInv, Linked
    <3>3. latest[j] < Aligned(j, now) /\ Aligned(j, Aligned(j, now)) = Aligned(j, now)
      BY <1>1, <3>1, <3>2, AlignedTwice
    <3>4. CASE j = k
      BY <1>1, <2>3, <3>1, <3>3, <3>4
    <3>5. CASE j # k
      BY <1>1, <2>3, <3>5
    <3> QED
      BY <3>4, <3>5
  <2> QED
    BY <1>4, <2>2, <2>3 DEF Summarize
<1>5. ASSUME NEW j \in Kinds, Expire(j)
      PROVE  files'[k] \subseteq files[k] /\ latest'[k] = latest[k]
  BY <1>1, <1>5 DEF Expire
<1>6. CASE \/ Tick \/ RunnerUnlock \/ RunnerLock \/ RunnerExit \/ RunnerJoined \/ SetExiting
           \/ AgentStarts \/ IoLatEnds \/ Terminate \/ Wake \/ BaseReport
           \/ (\E j \in Kinds : NotYet(j)) \/ UNCHANGED reporterVars
  <2>1. UNCHANGED disk
    BY <1>6 DEF Tick, RunnerUnlock, RunnerLock, RunnerExit, RunnerJoined, SetExiting,
       AgentStarts, IoLatEnds, Terminate, Wake, BaseReport, NotYet, reporterVars
  <2> QED
    BY <1>2, <2>1
<1> QED
  BY <1>3, <1>4, <1>5, <1>6 DEF ReporterNext, RunnerThread, ReportThread

LEMMA RingReporterStep ==
    RingInv /\ [ReporterNext]_reporterVars /\ UNCHANGED ringVars => RingInv'
<1> SUFFICES ASSUME RingInv, [ReporterNext]_reporterVars, UNCHANGED ringVars PROVE RingInv'
  OBVIOUS
<1>1. ReporterInv' /\ ReporterInv /\ ring' = ring
  BY ReporterStep DEF RingInv, ringVars
<1>2. latest \in [Kinds -> Nat]
  BY <1>1 DEF ReporterInv, ReporterTyped
<1>3. Stamped'
  <2> SUFFICES ASSUME NEW k \in Kinds, NEW s \in files'[k] \cup ring[k]
               PROVE  s \in Nat /\ s <= latest'[k] /\ Aligned(k, s) = s
    BY <1>1 DEF Stamped, Aligned
  <2>1. CASE s \in files[k] \cup ring[k]
    <3>1. s \in Nat /\ s <= latest[k] /\ Aligned(k, s) = s
      BY <2>1 DEF RingInv, Stamped
    <3> QED
      BY <1>1, <1>2, <3>1, FilesGrow
  <2>2. CASE s \notin files[k] \cup ring[k]
    BY <1>1, <2>2, FilesGrow
  <2> QED
    BY <2>1, <2>2
<1>4. RingComplete'
  <2> SUFFICES ASSUME NEW k \in Kinds, NEW s \in files'[k],
                      NEW a \in ring[k], NEW b \in ring[k], a < s, s < b
               PROVE  s \in ring[k]
    BY <1>1 DEF RingComplete
  <2>1. b \in Nat /\ b <= latest[k] /\ latest[k] \in Nat
    BY <1>2 DEF RingInv, Stamped
  <2>2. s \in files[k]
    BY <1>1, <2>1, FilesGrow
  <2> QED
    BY <2>2 DEF RingInv, RingComplete
<1> QED
  BY <1>1, <1>3, <1>4 DEF RingInv

LEMMA RingLoadStep ==
    RingInv /\ ring' = LoadedAll /\ UNCHANGED reporterVars => RingInv'
<1> SUFFICES ASSUME RingInv, ring' = LoadedAll, UNCHANGED reporterVars PROVE RingInv'
  OBVIOUS
<1>1. ReporterInv' /\ UNCHANGED <<files, latest>>
  BY ReporterStep DEF RingInv, reporterVars, disk
<1>2. ASSUME NEW k \in Kinds
      PROVE  \E t \in Int : ring'[k] = Loaded(k, t)
  <2>1. clock \in Int /\ Ret \in Int /\ Intv \in Int
    BY IntervalAssumption, Scales DEF RingInv, ReporterInv, ReporterTyped
  <2>2. RingEnd(k) \in Int
    BY <2>1 DEF RingEnd
  <2>3. ring'[k] = Loaded(k, RingEnd(k))
    BY DEF LoadedAll
  <2> QED
    BY <2>2, <2>3
<1>3. ASSUME NEW k \in Kinds
      PROVE  /\ ring'[k] \subseteq ring[k] \cup files[k]
             /\ \A s \in files[k] : (\E a, b \in ring'[k] : a < s /\ s < b) => s \in ring'[k]
  <2>1. PICK t \in Int : ring'[k] = Loaded(k, t)
    BY <1>2
  <2> DEFINE start == RingStart(k, t)
             kept == {s \in ring[k] : s >= start}
             from == IF kept = {} THEN start ELSE Max(kept) + Interval[k]
  <2>2. start \in Int
    BY <2>1, Scales, IntervalAssumption DEF RingStart, Aligned
  <2>3. ring'[k] = kept \cup {s \in files[k] : from <= s /\ s <= t}
    BY <2>1 DEF Loaded
  <2>4. latest[k] \in Nat /\ \A s \in files[k] \cup ring[k] :
            s \in Nat /\ s <= latest[k] /\ Aligned(k, s) = s
    BY DEF RingInv, Stamped, ReporterInv, ReporterTyped
  <2>5. Interval[k] \in Nat \ {0}
    BY Scales
  <2> HIDE DEF start
  <2>6. kept # {} => Max(kept) \in kept /\ \A s \in kept : s <= Max(kept)
    BY <2>4, Greatest
  <2>7. from \in Int /\ start <= from
    BY <2>2, <2>4, <2>5, <2>6
  <2>8. ASSUME NEW s \in files[k], NEW a \in ring'[k], NEW b \in ring'[k], a < s, s < b
        PROVE  s \in ring'[k]
    <3>1. /\ a \in ring[k] \cup files[k] /\ b \in ring[k] \cup files[k]
          /\ a \in Nat /\ b \in Nat /\ s \in Nat
      BY <2>3, <2>4
    <3>2. a >= start /\ s >= start
      BY <2>2, <2>3, <2>7, <2>8, <3>1
    <3>3. CASE s >= from
      <4>1. b \notin kept
        <5> SUFFICES ASSUME b \in kept PROVE FALSE
          OBVIOUS
        <5>1. Max(kept) \in Nat /\ b <= Max(kept) /\ from = Max(kept) + Interval[k]
          BY <2>4, <2>6
        <5> QED
          BY <2>5, <2>8, <3>1, <3>3, <5>1
      <4>2. b <= t
        BY <2>3, <4>1
      <4> QED
        BY <2>1, <2>3, <2>8, <3>1, <3>3, <4>2
    <3>4. CASE s < from
      <4>1. a \in kept
        BY <2>3, <2>7, <2>8, <3>1, <3>4
      <4>2. /\ Max(kept) \in ring[k] /\ Max(kept) \in Nat /\ from = Max(kept) + Interval[k]
            /\ Aligned(k, Max(kept)) = Max(kept)
        BY <2>4, <2>6, <4>1
      <4>3. s <= Max(kept)
        BY <2>4, <2>5, <3>1, <3>4, <4>2, AlignedApart
      <4>4. s \in ring[k]
        BY <2>8, <3>1, <4>1, <4>2, <4>3 DEF RingInv, RingComplete
      <4> QED
        BY <2>3, <3>2, <4>4
    <3> QED
      BY <2>7, <3>1, <3>3, <3>4
  <2>9. ring'[k] \subseteq ring[k] \cup files[k]
    BY <2>3
  <2> QED
    BY <2>8, <2>9
<1>4. Stamped'
  BY <1>1, <1>3 DEF RingInv, Stamped, Aligned
<1>5. RingComplete'
  BY <1>1, <1>3 DEF RingComplete
<1> QED
  BY <1>1, <1>4, <1>5 DEF RingInv

-----------------------------------------------------------------------------
(* Multiples.                                                              *)
Multiple(x, d) == \E q \in Int : x = q * d

LEMMA ProductsAre ==
    ASSUME NEW a \in Nat, NEW n \in Nat, NEW d \in Nat
    PROVE  /\ a * d \in Nat /\ n * d \in Nat /\ (n + 1) * d = n * d + d /\ (a + 1) * d = a * d + d
           /\ (a + n + 1) * d = a * d + n * d + d
OBVIOUS

LEMMA ProductsGrow ==
    ASSUME NEW a \in Int, NEW n \in Int, NEW d \in Nat, a <= n
    PROVE  a * d <= n * d /\ n * d \in Int /\ a * d \in Int
OBVIOUS

LEMMA MultiplesApart ==
    ASSUME NEW d \in Nat \ {0}, NEW x, NEW y, Multiple(x, d), Multiple(y, d), x < y
    PROVE  x + d <= y
<1>1. PICK p \in Int : x = p * d
  BY DEF Multiple
<1>2. PICK q \in Int : y = q * d
  BY DEF Multiple
<1>3. p < q
  BY <1>1, <1>2
<1>4. (p + 1) * d <= q * d
  BY <1>3
<1> QED
  BY <1>1, <1>2, <1>4

LEMMA MultiplesStep ==
    ASSUME NEW d \in Nat \ {0}, NEW x, Multiple(x, d), NEW n \in Int
    PROVE  Multiple(x + n * d, d) /\ Multiple(x + d, d) /\ x \in Int
<1>1. PICK p \in Int : x = p * d
  BY DEF Multiple
<1>2. x + n * d = (p + n) * d /\ x + d = (p + 1) * d /\ p + n \in Int /\ p + 1 \in Int /\ x \in Int
  BY <1>1
<1> QED
  BY <1>2 DEF Multiple

LEMMA MultiplesDiffer ==
    ASSUME NEW d \in Nat \ {0}, NEW x, NEW y, Multiple(x, d), Multiple(y, d), x <= y
    PROVE  (y - x) \div d \in Nat /\ y = x + ((y - x) \div d) * d /\ (x < y => (y - x) \div d # 0)
<1>1. PICK p \in Int : x = p * d
  BY DEF Multiple
<1>2. PICK q \in Int : y = q * d
  BY DEF Multiple
<1>3. p <= q
  BY <1>1, <1>2
<1>4. PICK n \in Nat : n = q - p
  BY <1>3
<1>5. y - x = n * d
  BY <1>1, <1>2, <1>4
<1>6. \A a \in Nat \ {0} : \A m \in Nat : (m * a) \div a = m
  OBVIOUS
<1>7. (y - x) \div d = n
  BY <1>5, <1>6
<1>8. n = 0 => y = x
  BY <1>1, <1>2, <1>4
<1> QED
  BY <1>1, <1>2, <1>5, <1>7, <1>8

LEMMA MultiplesOf ==
    ASSUME NEW a \in Nat, NEW d \in Nat, NEW x, Multiple(x, a * d)
    PROVE  Multiple(x, d)
<1>1. PICK p \in Int : x = p * (a * d)
  BY DEF Multiple
<1>2. x = (p * a) * d /\ p * a \in Int
  BY <1>1
<1> QED
  BY <1>2 DEF Multiple

(* The multiple below a number.                                            *)
LEMMA BinBelow ==
    ASSUME NEW n \in Nat, NEW d \in Nat \ {0}
    PROVE  /\ (n \div d) * d \in Nat /\ Multiple((n \div d) * d, d)
           /\ (n \div d) * d <= n /\ n < (n \div d) * d + d
           /\ n % d = n - (n \div d) * d
           /\ d <= n => (n \div d) * d # 0
<1>1. /\ n \div d \in Nat /\ n \div d \in Int /\ (n \div d) * d \in Nat
      /\ (n \div d) * d <= n /\ n < (n \div d) * d + d
      /\ n % d = n - (n \div d) * d
  OBVIOUS
<1>2. Multiple((n \div d) * d, d)
  <2>1. \A m \in Int : Multiple(m * d, d)
    BY DEF Multiple
  <2> QED
    BY <1>1, <2>1, ZenonT(30)
<1> QED
  BY <1>1, <1>2

-----------------------------------------------------------------------------
(* The bins of a graph.                                                    *)
Datas == [next : Nat, tip : [at : Nat, got : Seq(Nat)], bins : Seq(Seq(Nat)),
          stride : Nat, slots : Nat]

(* What is in a bin that begins at `at' and is st long: reports of that    *)
(* span only, in order, and unless it begins before lo all of those in S.  *)
Ascending(b) == \A i, j \in 1..Len(b) : i < j => b[i] < b[j]
Within(b, at, st) == \A i \in 1..Len(b) : at <= b[i] /\ b[i] < at + st
Covers(b, S, at, st) == \A s \in S : at <= s /\ s < at + st => \E i \in 1..Len(b) : b[i] = s
Holds(b, S, at, st, lo) == Ascending(b) /\ Within(b, at, st) /\ (lo <= at => Covers(b, S, at, st))

Unfed(d) == d.tip = NoTip /\ d.bins = <<>>
Base(d, st) == d.tip.at - Len(d.bins) * st
Binned(d, st, S, lo) ==
    /\ d.tip.at # 0 /\ Multiple(d.tip.at, st)
    /\ \A i \in 1..Len(d.bins) : Holds(d.bins[i], S, Base(d, st) + (i - 1) * st, st, lo)
    /\ Holds(d.tip.got, S, d.tip.at, st, lo)

(* The reports before p, and those of S before lo, have been dealt with.   *)
Ahead(d, st, S, lo, p) ==
    /\ d.tip.at <= p /\ p <= d.tip.at + st
    /\ \A s \in S : s < p \/ s < lo
    /\ \A i \in 1..Len(d.tip.got) : d.tip.got[i] < p

LEMMA EmptyHolds ==
    ASSUME NEW S, NEW at, NEW st, NEW lo, lo <= at => \A s \in S : ~(at <= s /\ s < at + st)
    PROVE  Holds(<<>>, S, at, st, lo)
<1>1. 1..Len(<<>>) = {}
  OBVIOUS
<1> QED
  BY <1>1 DEF Holds, Ascending, Within, Covers

(* The tip and n empty bins after it are pushed.                           *)
PushedOf(d, e, st, n) ==
    /\ Len(e.bins) = Len(d.bins) + n + 1
    /\ \A i \in 1..Len(d.bins) : e.bins[i] = d.bins[i]
    /\ e.bins[Len(d.bins) + 1] = d.tip.got
    /\ \A i \in (Len(d.bins) + 2)..(Len(d.bins) + n + 1) : e.bins[i] = <<>>
    /\ e.tip.got = <<>> /\ e.tip.at = d.tip.at + (n + 1) * st

Before(S, at, lo) == \A s \in S : s < at \/ s < lo

LEMMA Pushed ==
    ASSUME NEW d \in Datas, NEW e \in Datas, NEW st \in Nat \ {0}, NEW S \in SUBSET Nat, NEW lo \in Int,
           Binned(d, st, S, lo), NEW n \in Nat, PushedOf(d, e, st, n), Before(S, d.tip.at + st, lo)
    PROVE  Binned(e, st, S, lo) /\ Base(e, st) = Base(d, st)
<1> DEFINE L == Len(d.bins)
           b == Base(d, st)
<1>1. /\ L \in Nat /\ d.tip.at \in Nat /\ d.tip.at # 0 /\ e.tip.at \in Nat
  BY SMTT(20) DEF Datas, Binned
<1>2. Multiple(d.tip.at, st) /\ b = d.tip.at - L * st /\ \A i \in 1..L : Holds(d.bins[i], S, b + (i - 1) * st, st, lo)
  BY DEF Binned, Base
<1> DEFINE x == L * st
           y == n * st
<1> HIDE DEF L, b
<1>3. /\ x \in Nat /\ y \in Nat /\ (n + 1) * st = y + st /\ (L + n + 1) * st = x + y + st
      /\ (L + 1) * st = x + st
  BY <1>1, ProductsAre
<1>4. \A i \in Int : L + 1 <= i => i * st \in Int /\ x + st <= i * st
  <2> TAKE i \in Int
  <2> HAVE L + 1 <= i
  <2>1. L + 1 \in Int /\ (L + 1) * st <= i * st /\ i * st \in Int
    BY <1>1, ProductsGrow
  <2> QED
    BY <1>3, <2>1
<1>5. b \in Int /\ d.tip.at = b + x /\ e.tip.at = b + (x + y + st) /\ b = d.tip.at - x
  <2>1. b = d.tip.at - x
    BY <1>2
  <2>2. e.tip.at = d.tip.at + (y + st)
    BY <1>3 DEF PushedOf
  <2>3. x \in Nat /\ y \in Nat
    BY <1>3
  <2> HIDE DEF x, y
  <2> QED
    BY <1>1, <2>1, <2>2, <2>3
<1>6. Base(e, st) = b
  <2>1. Base(e, st) = e.tip.at - (L + n + 1) * st
    BY DEF Base, L, PushedOf
  <2>2. Base(e, st) = e.tip.at - (x + y + st)
    BY <1>3, <2>1
  <2>3. x \in Nat /\ y \in Nat
    BY <1>3
  <2> HIDE DEF x, y
  <2> QED
    BY <1>5, <2>2, <2>3
<1>7. e.tip.at # 0 /\ Multiple(e.tip.at, st) /\ d.tip.at + st <= e.tip.at
  <2>1. n + 1 \in Int /\ Multiple(d.tip.at + (n + 1) * st, st)
    <3>1. n + 1 \in Int
      OBVIOUS
    <3>2. \A m \in Int : Multiple(d.tip.at + m * st, st)
      BY <1>2, MultiplesStep
    <3> QED
      BY <3>1, <3>2, ZenonT(30)
  <2>2. Multiple(e.tip.at, st)
    BY <2>1 DEF PushedOf
  <2>4. x \in Nat /\ y \in Nat
    BY <1>3
  <2> HIDE DEF x, y
  <2>3. e.tip.at # 0 /\ d.tip.at + st <= e.tip.at
    BY <1>1, <1>5, <2>4
  <2> QED
    BY <2>2, <2>3
<1>11. x \in Nat /\ y \in Nat
  BY <1>3
<1> HIDE DEF x, y
<1>8. ASSUME NEW at \in Int, d.tip.at + st <= at PROVE Holds(<<>>, S, at, st, lo)
  <2>1. ASSUME lo <= at, NEW s \in S, at <= s PROVE FALSE
    <3>1. s \in Nat /\ (s < d.tip.at + st \/ s < lo)
      BY DEF Before
    <3> QED
      BY <1>1, <1>8, <2>1, <3>1
  <2>2. lo <= at => \A s \in S : ~(at <= s /\ s < at + st)
    BY <2>1
  <2> QED
    BY <2>2, EmptyHolds
<1>9. Holds(e.tip.got, S, e.tip.at, st, lo)
  <2>1. e.tip.at \in Int /\ e.tip.got = <<>>
    BY <1>1 DEF PushedOf
  <2> QED
    BY <1>7, <1>8, <2>1
<1>10. ASSUME NEW i \in 1..Len(e.bins)
       PROVE  Holds(e.bins[i], S, b + (i - 1) * st, st, lo)
  <2>1. i \in 1..L \/ i = L + 1 \/ i \in (L + 2)..(L + n + 1)
    <3>1. Len(e.bins) = L + n + 1
      BY DEF L, PushedOf
    <3> QED
      BY <1>1, <3>1
  <2>2. CASE i \in 1..L
    BY <1>2, <2>2 DEF L, PushedOf
  <2>3. CASE i = L + 1
    <3>1. i - 1 = L
      BY <1>1, <2>3
    <3>2. b + (i - 1) * st = d.tip.at
      BY <1>5, <3>1 DEF x
    <3>3. e.bins[i] = d.tip.got
      BY <2>3 DEF L, PushedOf
    <3> QED
      BY <3>2, <3>3 DEF Binned
  <2>4. CASE i \in (L + 2)..(L + n + 1)
    <3>1. L + 1 <= i - 1 /\ i - 1 \in Int
      BY <1>1, <2>4
    <3>2. (i - 1) * st \in Int /\ x + st <= (i - 1) * st
      BY <1>4, <3>1
    <3>3. b + (i - 1) * st \in Int /\ d.tip.at + st <= b + (i - 1) * st
      <4> DEFINE z == (i - 1) * st
      <4> HIDE DEF z
      <4>1. z \in Int /\ x + st <= z
        BY <3>2 DEF z
      <4>2. b + z \in Int /\ d.tip.at + st <= b + z
        BY <1>1, <1>5, <1>11, <4>1
      <4> QED
        BY <4>2 DEF z
    <3>4. e.bins[i] = <<>>
      BY <2>4 DEF L, PushedOf
    <3> QED
      BY <1>8, <3>3, <3>4
  <2> QED
    BY <2>1, <2>2, <2>3, <2>4
<1> QED
  BY <1>6, <1>7, <1>9, <1>10 DEF Binned, b

(* Report s is put into the tip, and the tip is pushed before it when it   *)
(* begins earlier than the bin of s, and after it when s is the last.      *)
Dealt(d, st, S, lo, p) ==
    \/ Unfed(d) /\ \A s \in S : s < lo
    \/ Binned(d, st, S, lo) /\ Ahead(d, st, S, lo, p)

Placed(m, st, S, lo, s) ==
    /\ Binned(m, st, S, lo) /\ m.tip.at = (s \div st) * st
    /\ \A i \in 1..Len(m.tip.got) : m.tip.got[i] < s

SameWidth(d, e) == e.next = d.next /\ e.stride = d.stride /\ e.slots = d.slots

LEMMA MovedPlaces ==
    ASSUME NEW k \in Kinds, NEW d \in Datas, NEW st \in Nat \ {0}, st = StepOf(d, k),
           NEW S \in SUBSET Nat, NEW lo \in Int, NEW p \in Nat, Dealt(d, st, S, lo, p),
           NEW s \in Nat, p <= s, st <= s, lo <= s, Before(S, s, lo)
    PROVE  /\ Moved(d, k, s) \in Datas /\ SameWidth(d, Moved(d, k, s))
           /\ Placed(Moved(d, k, s), st, S, lo, s)
           /\ ~Unfed(d) => Base(Moved(d, k, s), st) = Base(d, st)
<1> DEFINE m == Moved(d, k, s)
           at == (s \div st) * st
           gap == (at - d.tip.at) \div st
<1>1. at \in Nat /\ Multiple(at, st) /\ at <= s /\ s < at + st /\ at # 0
  BY BinBelow
<1>2. BinOf(d, k, s) = at
  BY DEF BinOf
<1>3. /\ d.tip \in [at : Nat, got : Seq(Nat)] /\ d.tip.at \in Nat /\ d.tip.got \in Seq(Nat)
      /\ d.bins \in Seq(Seq(Nat))
  BY DEF Datas
<1> HIDE DEF at
<1>4. CASE Unfed(d)
  <2>1. d.tip.at = 0 /\ d.tip.got = <<>> /\ d.bins = <<>>
    BY <1>4 DEF Unfed, NoTip
  <2>2. m = [d EXCEPT !.tip.at = at]
    BY <1>2, <2>1 DEF Moved
  <2>3. m \in Datas /\ SameWidth(d, m) /\ m.tip.at = at /\ m.tip.got = <<>> /\ m.bins = <<>>
    BY <1>1, <1>3, <2>1, <2>2 DEF Datas, SameWidth
  <2>4. Holds(<<>>, S, at, st, lo)
    <3>1. ~Binned(d, st, S, lo)
      BY <2>1 DEF Binned
    <3>2. \A t \in S : t < lo
      BY <3>1 DEF Dealt
    <3>3. lo <= at => \A t \in S : ~(at <= t /\ t < at + st)
      BY <1>1, <3>2
    <3> QED
      BY <3>3, EmptyHolds
  <2>5. Len(m.bins) = 0 /\ Len(m.tip.got) = 0 /\ 1..0 = {}
    BY <2>3
  <2> HIDE DEF m
  <2>6. Placed(m, st, S, lo, s)
    BY <1>1, <2>3, <2>4, <2>5 DEF Placed, Binned, at
  <2> QED
    BY <1>4, <2>3, <2>6 DEF m
<1>5. CASE ~Unfed(d)
  <2>1. Binned(d, st, S, lo) /\ Ahead(d, st, S, lo, p)
    BY <1>5 DEF Dealt
  <2>2. /\ d.tip.at # 0 /\ Multiple(d.tip.at, st) /\ d.tip.at <= p /\ p <= d.tip.at + st
        /\ \A i \in 1..Len(d.tip.got) : d.tip.got[i] < p
    BY <2>1 DEF Binned, Ahead
  <2>3. d.tip.at <= at
    <3> SUFFICES ASSUME at < d.tip.at PROVE FALSE
      BY <1>1, <1>3
    <3>1. at + st <= d.tip.at
      BY <1>1, <2>2, MultiplesApart
    <3> QED
      BY <1>1, <1>3, <2>2, <3>1
  <2>4. gap \in Nat /\ at = d.tip.at + gap * st /\ (d.tip.at < at => gap # 0)
    BY <1>1, <2>2, <2>3, MultiplesDiffer
  <2> HIDE DEF gap
  <2>5. CASE gap <= 0
    <3>1. m = d
      BY <1>2, <2>2, <2>5 DEF Moved, gap
    <3>2. at = d.tip.at
      BY <1>1, <1>3, <2>3, <2>4, <2>5
    <3>3. \A i \in 1..Len(d.tip.got) : d.tip.got[i] < s
      <4> TAKE i \in 1..Len(d.tip.got)
      <4>1. d.tip.got[i] \in Nat /\ d.tip.got[i] < p
        BY <1>3, <2>2, ElementOfSeq
      <4> QED
        BY <4>1
    <3> QED
      BY <2>1, <3>1, <3>2, <3>3 DEF Placed, SameWidth, at
  <2>6. CASE ~(gap <= 0)
    <3> DEFINE n == gap - 1
               E == [i \in 1..n |-> <<>>]
               first == Append(d.bins, d.tip.got)
               L == Len(d.bins)
    <3>1. n \in Nat /\ gap = n + 1
      BY <2>4, <2>6
    <3>2. m = [d EXCEPT !.bins = first \o E, !.tip = [at |-> at, got |-> <<>>]]
      BY <1>2, <2>2, <2>6 DEF Moved, gap
    <3> HIDE DEF n
    <3>3. E \in Seq(Seq(Nat)) /\ Len(E) = n /\ \A i \in 1..n : E[i] = <<>>
      <4>1. E \in [1..n -> Seq(Nat)]
        OBVIOUS
      <4>2. E \in Seq(Seq(Nat))
        BY <3>1, <4>1, IsASeq
      <4> QED
        BY <3>1, <4>1, <4>2, LenProperties
    <3> HIDE DEF E
    <3>4. /\ L \in Nat /\ first \in Seq(Seq(Nat)) /\ Len(first) = L + 1
          /\ \A i \in 1..L : first[i] = d.bins[i]
          /\ first[L + 1] = d.tip.got
      BY <1>3
    <3> HIDE DEF first
    <3>5. /\ first \o E \in Seq(Seq(Nat)) /\ Len(first \o E) = Len(first) + Len(E)
          /\ \A i \in 1..(Len(first) + Len(E)) :
                (first \o E)[i] = IF i <= Len(first) THEN first[i] ELSE E[i - Len(first)]
      BY <3>3, <3>4, ConcatProperties, ZenonT(40)
    <3> DEFINE all == first \o E
    <3> HIDE DEF all, L
    <3>6. /\ all \in Seq(Seq(Nat)) /\ Len(all) = L + n + 1
          /\ \A i \in 1..L : all[i] = d.bins[i]
          /\ all[L + 1] = d.tip.got
          /\ \A i \in (L + 2)..(L + n + 1) : all[i] = <<>>
      <4>1. all \in Seq(Seq(Nat)) /\ Len(all) = L + 1 + n /\ L \in Nat /\ n \in Nat
        BY <3>1, <3>3, <3>4, <3>5 DEF all
      <4>2. \A i \in 1..(L + 1 + n) : all[i] = IF i <= L + 1 THEN first[i] ELSE E[i - (L + 1)]
        BY <3>3, <3>4, <3>5 DEF all
      <4>3. \A i \in 1..L : i \in 1..(L + 1 + n) /\ i <= L + 1
        BY <4>1
      <4>4. L + 1 \in 1..(L + 1 + n)
        BY <4>1
      <4>5. \A i \in (L + 2)..(L + n + 1) : i \in 1..(L + 1 + n) /\ ~(i <= L + 1) /\ i - (L + 1) \in 1..n
        BY <4>1
      <4>6. \A i \in 1..L : all[i] = d.bins[i]
        BY <3>4, <4>2, <4>3
      <4>7. all[L + 1] = d.tip.got
        BY <3>4, <4>1, <4>2, <4>4
      <4>8. \A i \in (L + 2)..(L + n + 1) : all[i] = <<>>
        BY <3>3, <4>2, <4>5
      <4> QED
        BY <4>1, <4>6, <4>7, <4>8
    <3>7. m = [d EXCEPT !.bins = all, !.tip = [at |-> at, got |-> <<>>]]
      BY <3>2 DEF all
    <3> HIDE DEF m
    <3>8. m \in Datas /\ SameWidth(d, m) /\ m.bins = all /\ m.tip.at = at /\ m.tip.got = <<>>
      <4> DEFINE T == [at |-> at, got |-> <<>>]
      <4>1. T \in [at : Nat, got : Seq(Nat)] /\ T.at = at /\ T.got = <<>>
        BY <1>1
      <4>2. m = [d EXCEPT !.bins = all, !.tip = T]
        BY <3>7
      <4> HIDE DEF T
      <4>3. m \in Datas /\ m.bins = all /\ m.tip = T
        BY <3>6, <4>1, <4>2 DEF Datas
      <4>4. SameWidth(d, m)
        BY <4>2 DEF Datas, SameWidth
      <4> QED
        BY <4>1, <4>3, <4>4
    <3>9. PushedOf(d, m, st, n)
      <4>1. at = d.tip.at + (n + 1) * st
        BY <2>4, <3>1
      <4> QED
        BY <3>6, <3>8, <4>1 DEF PushedOf, L
    <3>10. Before(S, d.tip.at + st, lo)
      <4> SUFFICES ASSUME NEW t \in S, ~(t < lo) PROVE t < d.tip.at + st
        BY DEF Before
      <4>1. t < p /\ t \in Nat
        BY <2>1 DEF Ahead
      <4> QED
        BY <1>3, <2>2, <4>1
    <3>11. Binned(m, st, S, lo) /\ Base(m, st) = Base(d, st)
      BY <2>1, <3>1, <3>8, <3>9, <3>10, Pushed
    <3>12. Len(m.tip.got) = 0 /\ 1..0 = {}
      BY <3>8
    <3> QED
      BY <3>8, <3>11, <3>12 DEF Placed, at, m
  <2> QED
    BY <2>4, <2>5, <2>6
<1> QED
  BY <1>4, <1>5

(* A report joins the tip it belongs to.                                   *)
LEMMA Joins ==
    ASSUME NEW k \in Kinds, NEW d \in Datas, NEW e \in Datas, NEW st \in Nat \ {0},
           NEW S \in SUBSET Nat, NEW lo \in Int, NEW s \in Nat, Placed(d, st, S, lo, s),
           e.bins = d.bins, e.tip.at = d.tip.at, e.tip.got = Append(d.tip.got, s)
    PROVE  Binned(e, st, S \cup {s}, lo) /\ Base(e, st) = Base(d, st)
<1> DEFINE at == d.tip.at
           b == Base(d, st)
           got == d.tip.got
           L == Len(d.bins)
           T == S \cup {s}
<1>1. /\ at \in Nat /\ at # 0 /\ Multiple(at, st) /\ at <= s /\ s < at + st
      /\ \A i \in 1..Len(got) : got[i] < s
  <2>1. at = (s \div st) * st /\ Binned(d, st, S, lo) /\ \A i \in 1..Len(got) : got[i] < s
    BY DEF Placed
  <2> QED
    BY <2>1, BinBelow DEF Binned
<1>2. /\ \A i \in 1..L : Holds(d.bins[i], S, b + (i - 1) * st, st, lo)
      /\ Holds(got, S, at, st, lo) /\ got \in Seq(Nat) /\ Len(got) \in Nat
      /\ L \in Nat
  <2>1. got \in Seq(Nat) /\ Len(got) \in Nat /\ L \in Nat
    BY SMTT(20) DEF Datas
  <2>2. Binned(d, st, S, lo)
    BY DEF Placed
  <2>3. (\A i \in 1..L : Holds(d.bins[i], S, b + (i - 1) * st, st, lo)) /\ Holds(got, S, at, st, lo)
    BY <2>2 DEF Binned
  <2> QED
    BY <2>1, <2>3
<1>3. Base(e, st) = b /\ b = at - L * st
  BY DEF Base
<1> HIDE DEF at, b, got, L, T
<1>4. ASSUME NEW i \in 1..L PROVE Holds(d.bins[i], T, b + (i - 1) * st, st, lo)
  <2> DEFINE a == b + (i - 1) * st
  <2>1. /\ i * st \in Int /\ i * st <= L * st /\ L * st \in Int /\ (i - 1) * st \in Int
        /\ (i - 1) * st + st = i * st
    <3>1. i * st \in Int /\ i * st <= L * st /\ L * st \in Int
      BY <1>2, ProductsGrow
    <3>2. i - 1 \in Nat /\ i = (i - 1) + 1
      BY <1>2
    <3>3. (i - 1) * st \in Nat /\ ((i - 1) + 1) * st = (i - 1) * st + st
      BY <3>2, ProductsAre
    <3> QED
      BY <3>1, <3>2, <3>3
  <2>2. a + st <= s /\ a \in Int
    <3> DEFINE x == i * st
               y == L * st
               z == (i - 1) * st
    <3>1. x \in Int /\ x <= y /\ y \in Int /\ z \in Int /\ z + st = x
      BY <2>1
    <3>2. b = at - y /\ a = b + z
      BY <1>3
    <3> HIDE DEF x, y, z, a
    <3> QED
      BY <1>1, <3>1, <3>2
  <2>3. Holds(d.bins[i], S, a, st, lo)
    BY <1>2
  <2> HIDE DEF a
  <2>4. ~(s < a + st)
    BY <2>2
  <2>5. Covers(d.bins[i], S, a, st) => Covers(d.bins[i], T, a, st)
    BY <2>4 DEF Covers, T
  <2>6. Holds(d.bins[i], T, a, st, lo)
    BY <2>3, <2>5 DEF Holds
  <2> QED
    BY <2>6 DEF a
<1> DEFINE more == Append(got, s)
<1>5. /\ Len(more) = Len(got) + 1 /\ more[Len(got) + 1] = s
      /\ \A i \in 1..Len(got) : more[i] = got[i] /\ got[i] \in Nat
  BY <1>2, ElementOfSeq
<1> HIDE DEF more
<1>6. Holds(more, T, at, st, lo)
  <2> DEFINE old(i) == i \in 1..Len(got) /\ more[i] = got[i] /\ got[i] \in Nat /\ got[i] < s
             new(i) == i = Len(got) + 1 /\ more[i] = s
  <2>1. ASSUME NEW i \in 1..Len(more) PROVE old(i) \/ new(i)
    <3>1. i \in 1..Len(got) \/ i = Len(got) + 1
      BY <1>2, <1>5
    <3> QED
      BY <1>1, <1>5, <3>1
  <2>2. Ascending(more)
    <3> SUFFICES ASSUME NEW i \in 1..Len(more), NEW j \in 1..Len(more), i < j
                 PROVE  more[i] < more[j]
      BY DEF Ascending
    <3>1. old(i)
      BY <1>2, <1>5, <2>1
    <3>2. CASE old(j)
      BY <1>2, <3>1, <3>2 DEF Holds, Ascending
    <3>3. CASE new(j)
      BY <3>1, <3>3
    <3> QED
      BY <2>1, <3>2, <3>3
  <2>3. Within(more, at, st)
    <3> SUFFICES ASSUME NEW i \in 1..Len(more) PROVE at <= more[i] /\ more[i] < at + st
      BY DEF Within
    <3>1. CASE old(i)
      BY <1>2, <3>1 DEF Holds, Within
    <3>2. CASE new(i)
      BY <1>1, <3>2
    <3> QED
      BY <2>1, <3>1, <3>2
  <2>4. ASSUME Covers(got, S, at, st) PROVE Covers(more, T, at, st)
    <3> SUFFICES ASSUME NEW t \in T, at <= t, t < at + st
                 PROVE  \E i \in 1..Len(more) : more[i] = t
      BY DEF Covers
    <3>1. CASE t \in S
      <4>1. PICK i \in 1..Len(got) : got[i] = t
        BY <2>4, <3>1 DEF Covers
      <4>2. i \in 1..Len(more) /\ more[i] = t
        BY <1>2, <1>5, <4>1
      <4> QED
        BY <4>2
    <3>2. CASE t = s
      <4>1. Len(got) + 1 \in 1..Len(more) /\ more[Len(got) + 1] = t
        BY <1>2, <1>5, <3>2
      <4> QED
        BY <4>1
    <3> QED
      BY <3>1, <3>2 DEF T
  <2> QED
    BY <1>2, <2>2, <2>3, <2>4 DEF Holds
<1>7. /\ e.tip.at = at /\ e.tip.got = more /\ e.bins = d.bins /\ L = Len(e.bins)
  BY DEF at, got, more, L
<1> QED
  BY <1>1, <1>3, <1>4, <1>6, <1>7 DEF Binned, T, b

(* One more report.                                                        *)
LEMMA AccumulatedDeals ==
    ASSUME NEW k \in Kinds, NEW d \in Datas, NEW st \in Nat \ {0}, st = StepOf(d, k),
           NEW S \in SUBSET Nat, NEW lo \in Int, NEW p \in Nat, Dealt(d, st, S, lo, p),
           NEW s \in Nat, p <= s, st <= s, lo <= s, Before(S, s, lo), Multiple(s, Interval[k])
    PROVE  /\ Accumulated(d, k, s) \in Datas /\ SameWidth(d, Accumulated(d, k, s))
           /\ Binned(Accumulated(d, k, s), st, S \cup {s}, lo)
           /\ Ahead(Accumulated(d, k, s), st, S \cup {s}, lo, s + Interval[k])
           /\ ~Unfed(d) => Base(Accumulated(d, k, s), st) = Base(d, st)
<1> DEFINE m == Moved(d, k, s)
           g == [m EXCEPT !.tip.got = Append(@, s)]
           a == Accumulated(d, k, s)
           at == (s \div st) * st
           T == S \cup {s}
           w == Interval[k]
<1>1. /\ m \in Datas /\ SameWidth(d, m) /\ Placed(m, st, S, lo, s)
      /\ ~Unfed(d) => Base(m, st) = Base(d, st)
  BY MovedPlaces
<1>2. /\ at \in Nat /\ Multiple(at, st) /\ at <= s /\ s < at + st /\ s % st = s - at
  BY BinBelow
<1>3. w \in Nat \ {0} /\ d.stride \in Nat /\ st = d.stride * w
  BY Scales DEF StepOf, Datas
<1>4. s + w <= at + st /\ (s % st = (d.stride - 1) * w <=> s + w = at + st)
  <2>1. Multiple(at + st, d.stride * w)
    BY <1>2, <1>3, MultiplesStep
  <2>2. Multiple(at + st, w)
    BY <1>3, <2>1, MultiplesOf
  <2>3. s + w <= at + st
    BY <1>2, <1>3, <2>2, MultiplesApart
  <2>4. (d.stride - 1) * w = st - w
    BY <1>3
  <2> HIDE DEF at, w
  <2> QED
    BY <1>2, <1>3, <2>3, <2>4
<1>5. a = IF s % StepOf(d, k) = (d.stride - 1) * w THEN Consumed(g, k) ELSE g
  BY DEF Accumulated
<1> HIDE DEF m, a, at
<1>6. g \in Datas /\ SameWidth(d, g) /\ g.bins = m.bins /\ g.tip.at = at /\ g.tip.got = Append(m.tip.got, s)
  <2>1. m.tip \in [at : Nat, got : Seq(Nat)] /\ m.tip.at = at
    BY <1>1 DEF Datas, Placed, at
  <2>2. Append(m.tip.got, s) \in Seq(Nat)
    BY <2>1
  <2> QED
    BY <1>1, <2>1, <2>2 DEF Datas, SameWidth
<1> HIDE DEF g
<1>7. Binned(g, st, T, lo) /\ Base(g, st) = Base(m, st)
  <2>1. g.tip.at = m.tip.at
    BY <1>1, <1>6 DEF Placed, at
  <2> QED
    BY <1>1, <1>6, <2>1, Joins
<1>8. \A t \in T : t \in Nat /\ (t < s + w \/ t < lo)
  <2> SUFFICES ASSUME NEW t \in T PROVE t \in Nat /\ (t < s + w \/ t < lo)
    OBVIOUS
  <2>1. t \in Nat /\ (t < s \/ t < lo \/ t = s)
    BY DEF Before
  <2> QED
    BY <1>3, <2>1
<1>9. CASE s + w = at + st
  <2>1. a = Consumed(g, k)
    BY <1>4, <1>5, <1>9
  <2>2. StepOf(g, k) = st
    BY <1>6 DEF StepOf, SameWidth
  <2> DEFINE U == [at |-> g.tip.at + st, got |-> <<>>]
             B == Append(g.bins, g.tip.got)
  <2>3. a = [g EXCEPT !.bins = B, !.tip = U]
    BY <2>1, <2>2 DEF Consumed
  <2>4. /\ U \in [at : Nat, got : Seq(Nat)] /\ U.at = at + st /\ U.got = <<>>
    BY <1>2, <1>6
  <2>5. /\ B \in Seq(Seq(Nat)) /\ Len(B) = Len(g.bins) + 1 /\ B[Len(g.bins) + 1] = g.tip.got
        /\ \A i \in 1..Len(g.bins) : B[i] = g.bins[i]
        /\ Len(g.bins) \in Nat
    <3>1. g.bins \in Seq(Seq(Nat)) /\ g.tip.got \in Seq(Nat)
      BY <1>6 DEF Datas
    <3> QED
      BY <3>1
  <2> HIDE DEF U, B
  <2>6. a \in Datas /\ a.bins = B /\ a.tip = U /\ SameWidth(d, a)
    BY <1>6, <2>3, <2>4, <2>5 DEF Datas, SameWidth
  <2>7. PushedOf(g, a, st, 0)
    <3>1. (0 + 1) * st = st /\ Len(g.bins) + 0 + 1 = Len(g.bins) + 1
          /\ (Len(g.bins) + 2)..(Len(g.bins) + 0 + 1) = {}
      BY <2>5
    <3> QED
      BY <1>6, <2>4, <2>5, <2>6, <3>1 DEF PushedOf
  <2>8. Before(T, g.tip.at + st, lo)
    BY <1>6, <1>8, <1>9 DEF Before
  <2>9. Binned(a, st, T, lo) /\ Base(a, st) = Base(g, st)
    <3>1. 0 \in Nat /\ T \in SUBSET Nat
      OBVIOUS
    <3> QED
      BY <1>6, <1>7, <2>6, <2>7, <2>8, <3>1, Pushed
  <2>10. Ahead(a, st, T, lo, s + w)
    <3>1. a.tip.at = at + st /\ Len(a.tip.got) = 0 /\ 1..0 = {}
      BY <2>4, <2>6
    <3>2. a.tip.at <= s + w /\ s + w <= a.tip.at + st
      BY <1>2, <1>9, <3>1
    <3> QED
      BY <1>8, <3>1, <3>2 DEF Ahead
  <2> QED
    BY <1>1, <1>7, <2>6, <2>9, <2>10 DEF a
<1>10. CASE s + w # at + st
  <2>1. a = g
    BY <1>4, <1>5, <1>10
  <2>2. Ahead(g, st, T, lo, s + w)
    <3>1. g.tip.at <= s + w /\ s + w <= g.tip.at + st
      <4>1. s + w <= at + st /\ w \in Nat /\ at <= s /\ at \in Nat /\ g.tip.at = at
        BY <1>2, <1>3, <1>4, <1>6
      <4> HIDE DEF w
      <4> QED
        BY <4>1
    <3>2. \A i \in 1..Len(g.tip.got) : g.tip.got[i] < s + w
      <4>1. m.tip.got \in Seq(Nat) /\ Len(m.tip.got) \in Nat /\ \A i \in 1..Len(m.tip.got) : m.tip.got[i] < s /\ m.tip.got[i] \in Nat
        <5>1. m.tip.got \in Seq(Nat)
          BY <1>1 DEF Datas
        <5>2. \A i \in 1..Len(m.tip.got) : m.tip.got[i] < s
          BY <1>1 DEF Placed
        <5> QED
          BY <5>1, <5>2, ElementOfSeq, LenProperties
      <4>2. /\ Len(g.tip.got) = Len(m.tip.got) + 1 /\ g.tip.got[Len(m.tip.got) + 1] = s
            /\ \A i \in 1..Len(m.tip.got) : g.tip.got[i] = m.tip.got[i]
        BY <1>6, <4>1
      <4>3. ASSUME NEW i \in 1..Len(g.tip.got) PROVE g.tip.got[i] < s + w
        <5>1. i \in 1..Len(m.tip.got) \/ i = Len(m.tip.got) + 1
          BY <4>1, <4>2
        <5>2. CASE i \in 1..Len(m.tip.got)
          <6>1. g.tip.got[i] \in Nat /\ g.tip.got[i] < s
            BY <4>1, <4>2, <5>2
          <6> QED
            BY <1>3, <6>1, SMTT(20)
        <5>3. CASE i = Len(m.tip.got) + 1
          BY <1>3, <4>2, <5>3, SMTT(20)
        <5> QED
          BY <5>1, <5>2, <5>3
      <4> QED
        BY <4>3
    <3> QED
      BY <1>8, <3>1, <3>2 DEF Ahead
  <2> QED
    BY <1>1, <1>6, <1>7, <2>1, <2>2 DEF a
<1> QED
  BY <1>9, <1>10

(* The oldest bins are dropped.                                            *)
LEMMA TruncatedKeeps ==
    ASSUME NEW d \in Datas, NEW st \in Nat \ {0}, NEW S, NEW lo \in Int, Binned(d, st, S, lo)
    PROVE  /\ Truncated(d) \in Datas /\ SameWidth(d, Truncated(d)) /\ Truncated(d).tip = d.tip
           /\ Len(Truncated(d).bins) <= d.slots /\ Base(d, st) <= Base(Truncated(d), st)
           /\ Binned(Truncated(d), st, S, lo)
<1> DEFINE L == Len(d.bins)
           o == IF L > d.slots THEN L - d.slots ELSE 0
           e == Truncated(d)
           B == SubSeq(d.bins, o + 1, L)
           b == Base(d, st)
<1>1. L \in Nat /\ d.slots \in Nat /\ o \in Nat /\ o <= L /\ L - o <= d.slots /\ d.bins \in Seq(Seq(Nat))
  BY SMTT(30) DEF Datas
<1>2. /\ b = d.tip.at - L * st /\ d.tip.at \in Nat /\ d.tip.at # 0 /\ Multiple(d.tip.at, st)
      /\ \A i \in 1..L : Holds(d.bins[i], S, b + (i - 1) * st, st, lo)
      /\ Holds(d.tip.got, S, d.tip.at, st, lo)
  BY DEF Binned, Base, Datas
<1>3. e = [d EXCEPT !.bins = B]
  <2>1. o + 1 = IF L > d.slots THEN L - d.slots + 1 ELSE 1
    BY <1>1
  <2> QED
    BY <2>1 DEF Truncated
<1> HIDE DEF o, L, B, e, b
<1>4. B \in Seq(Seq(Nat)) /\ Len(B) = L - o /\ \A i \in 1..(L - o) : B[i] = d.bins[o + i]
  <2>1. \A i \in (o + 1)..L : i \in 1..L
    BY <1>1
  <2>2. \A i \in (o + 1)..L : d.bins[i] \in Seq(Nat)
    BY <1>1, <2>1, ElementOfSeq DEF L
  <2>3. /\ B \in Seq(Seq(Nat)) /\ Len(B) = (IF o + 1 <= L THEN L - (o + 1) + 1 ELSE 0)
        /\ \A i \in 1..(L - (o + 1) + 1) : B[i] = d.bins[(o + 1) + i - 1]
    <3>1. o + 1 \in Int /\ L \in Int
      BY <1>1
    <3> QED
      BY <1>1, <2>2, <3>1, SubSeqProperties DEF B
  <2>4. L - (o + 1) + 1 = L - o /\ \A i \in 1..(L - o) : (o + 1) + i - 1 = o + i
    BY <1>1
  <2> QED
    BY <1>1, <2>3, <2>4
<1>5. e \in Datas /\ SameWidth(d, e) /\ e.tip = d.tip /\ e.bins = B
  BY <1>3, <1>4 DEF Datas, SameWidth
<1>6. Base(e, st) = b + o * st /\ o * st \in Nat /\ b \in Int
  <2>1. PICK r \in Nat : r = L - o
    BY <1>1
  <2>2. L = o + r
    BY <1>1, <2>1
  <2>3. (o + r) * st = o * st + r * st /\ o * st \in Nat /\ r * st \in Nat
    BY <1>1, <2>1
  <2>4. Base(e, st) = d.tip.at - r * st
    BY <1>4, <1>5, <2>1 DEF Base
  <2> DEFINE x == o * st
             y == r * st
             z == L * st
  <2>5. z = x + y /\ x \in Nat /\ y \in Nat /\ Base(e, st) = d.tip.at - y /\ b = d.tip.at - z
    BY <1>2, <2>2, <2>3, <2>4
  <2> HIDE DEF x, y, z
  <2>6. Base(e, st) = b + x /\ b \in Int
    BY <1>2, <2>5
  <2> QED
    BY <2>5, <2>6 DEF x
<1>7. ASSUME NEW i \in 1..Len(e.bins)
      PROVE  Holds(e.bins[i], S, Base(e, st) + (i - 1) * st, st, lo)
  <2>1. i \in 1..(L - o) /\ o + i \in 1..L /\ i - 1 \in Nat /\ (o + i) - 1 = o + (i - 1)
    <3>1. Len(e.bins) = L - o
      BY <1>4, <1>5
    <3>2. \A h \in 1..(L - o) : o + h \in 1..L /\ h - 1 \in Nat /\ (o + h) - 1 = o + (h - 1)
      BY <1>1
    <3> QED
      BY <3>1, <3>2
  <2>2. PICK j \in Nat : j = i - 1
    BY <2>1
  <2>3. (o + j) * st = o * st + j * st /\ j * st \in Nat
    BY <1>1
  <2>4. Base(e, st) + j * st = b + (o + j) * st
    <3> DEFINE x == o * st
               y == j * st
    <3>1. Base(e, st) = b + x /\ x \in Nat /\ b \in Int /\ y \in Nat /\ (o + j) * st = x + y
      BY <1>6, <2>3
    <3> HIDE DEF x, y
    <3>2. Base(e, st) + y = b + (x + y)
      BY <3>1
    <3> QED
      BY <3>1, <3>2 DEF y
  <2>5. Holds(d.bins[o + i], S, b + ((o + i) - 1) * st, st, lo)
    BY <1>2, <2>1
  <2>6. e.bins[i] = d.bins[o + i]
    BY <1>4, <1>5, <2>1
  <2> QED
    BY <2>1, <2>2, <2>4, <2>5, <2>6
<1>8. Binned(e, st, S, lo)
  BY <1>2, <1>5, <1>7 DEF Binned
<1>9. Len(e.bins) <= d.slots
  BY <1>1, <1>4, <1>5
<1>10. b <= Base(e, st)
  <2> DEFINE x == o * st
  <2>1. Base(e, st) = b + x /\ x \in Nat /\ b \in Int
    BY <1>6
  <2> HIDE DEF x
  <2> QED
    BY <2>1
<1> QED
  BY <1>5, <1>8, <1>9, <1>10 DEF e, b

(* A graph whose bins all begin after lo has missed nothing.               *)
LEMMA NothingMissed ==
    ASSUME NEW d \in Datas, NEW st \in Nat \ {0}, NEW S, NEW lo \in Int, Binned(d, st, S, lo),
           lo <= Base(d, st), NEW R, R \subseteq S
    PROVE  \A l \in Int : Binned(d, st, R, l)
<1> TAKE l \in Int
<1> DEFINE b == Base(d, st)
           L == Len(d.bins)
<1>1. L \in Nat /\ d.tip.at \in Nat /\ b = d.tip.at - L * st
  BY DEF Datas, Base
<1> HIDE DEF L
<1>2. b \in Int /\ b <= d.tip.at
  <2> DEFINE x == L * st
  <2>1. x \in Nat /\ b = d.tip.at - x
    BY <1>1
  <2> HIDE DEF x
  <2> QED
    BY <1>1, <2>1
<1>3. ASSUME NEW c, NEW at, lo <= at, Holds(c, S, at, st, lo) PROVE Holds(c, R, at, st, l)
  BY <1>3 DEF Holds, Covers
<1>4. ASSUME NEW i \in 1..L PROVE lo <= b + (i - 1) * st
  <2>1. PICK j \in Nat : j = i - 1
    BY <1>1
  <2>2. j * st \in Nat
    OBVIOUS
  <2> DEFINE x == j * st
  <2> HIDE DEF x
  <2>3. lo <= b + x
    BY <1>2, <2>2 DEF x
  <2> QED
    BY <2>1, <2>3 DEF x
<1>5. lo <= d.tip.at
  BY <1>1, <1>2
<1> QED
  BY <1>3, <1>4, <1>5 DEF Binned, L

(* What a graph has of the reports S.                                      *)
Until(S, n) == {s \in S : s < n}
Fresh(d) == Unfed(d) /\ d.next = 0
DataOk(d, k, S) ==
    /\ d \in Datas
    /\ \/ Fresh(d)
       \/ /\ d.stride # 0 /\ Multiple(d.next, Interval[k])
          /\ Binned(d, StepOf(d, k), Until(S, d.next), Base(d, StepOf(d, k)))
          /\ Ahead(d, StepOf(d, k), Until(S, d.next), Base(d, StepOf(d, k)), d.next)

LEMMA GreaterOf ==
    ASSUME NEW m \in Int, NEW n \in Int
    PROVE  LET x == Max({m, n}) IN x \in {m, n} /\ m <= x /\ n <= x
<1> DEFINE P(x) == x \in {m, n} /\ \A y \in {m, n} : x >= y
<1>1. \E x : P(x)
  <2>1. P(m) \/ P(n)
    OBVIOUS
  <2> QED
    BY <2>1
<1>2. P(CHOOSE x : P(x))
  BY <1>1
<1>3. Max({m, n}) = CHOOSE x : P(x)
  BY DEF Max
<1> QED
  BY <1>2, <1>3

(* After the reports up to time t: what the graph has, and up to which     *)
(* report, when those before next are left out.                            *)
UpToTime(S, next, t) == {s \in S : s < next \/ s <= t}
DealtUpTo(f, d, st, w, S, next, lo, t, p) ==
    /\ p \in Nat /\ Multiple(p, w) /\ Dealt(f, st, UpToTime(S, next, t), lo, p)
    /\ p = d.next \/ \E s \in S : next <= s /\ s <= t /\ p = s + w
    /\ \A s \in S : next <= s /\ s <= t => s + w <= p
DoneUpTo(f, d, st, w, S, next, lo, t) ==
    /\ f \in Datas /\ f.stride = d.stride /\ f.slots = d.slots
    /\ ~Unfed(d) => ~Unfed(f) /\ Base(f, st) = Base(d, st)
    /\ \E p : DealtUpTo(f, d, st, w, S, next, lo, t, p)

(* A fill goes from each time to the next.                                 *)
LEMMA FillsOn ==
    ASSUME NEW k \in Kinds, NEW d \in Datas, NEW st \in Nat \ {0}, d.stride * Interval[k] = st,
           NEW S \in SUBSET Nat, \A s \in S : Multiple(s, Interval[k]) /\ st <= s,
           NEW next \in Nat, NEW lo \in Int, lo <= next, d.next <= next,
           NEW t \in Nat, NEW f, DoneUpTo(f, d, st, Interval[k], S, next, lo, t),
           NEW e, e = IF t + 1 \in S /\ next <= t + 1 THEN Accumulated(f, k, t + 1) ELSE f
    PROVE  DoneUpTo(e, d, st, Interval[k], S, next, lo, t + 1) /\ e.next = f.next
<1> DEFINE w == Interval[k]
           U == UpToTime(S, next, t)
           V == UpToTime(S, next, t + 1)
           s1 == t + 1
<1>1. w \in Nat \ {0} /\ d.next \in Nat
  BY Scales DEF Datas
<1>2. PICK p : DealtUpTo(f, d, st, w, S, next, lo, t, p)
  BY DEF DoneUpTo
<1>3. /\ p \in Nat /\ Multiple(p, w) /\ Dealt(f, st, U, lo, p)
      /\ p = d.next \/ \E s \in S : next <= s /\ s <= t /\ p = s + w
      /\ \A s \in S : next <= s /\ s <= t => s + w <= p
  BY <1>2 DEF DealtUpTo
<1>4. /\ f \in Datas /\ f.stride = d.stride /\ f.slots = d.slots
      /\ ~Unfed(d) => ~Unfed(f) /\ Base(f, st) = Base(d, st)
  BY DEF DoneUpTo
<1> HIDE DEF w, U, V
<1>5. CASE ~(s1 \in S /\ next <= s1)
  <2>1. e = f
    BY <1>5
  <2>2. \A s \in S : s <= s1 => s <= t \/ s < next
    BY <1>5
  <2>3. \A s \in S : s <= t => s <= s1
    OBVIOUS
  <2>4. V = U
    BY <2>2, <2>3 DEF U, V, UpToTime
  <2>5. \A s \in S : next <= s => (s <= s1 <=> s <= t)
    <3> TAKE s \in S
    <3> HAVE next <= s
    <3>1. s \in Nat
      OBVIOUS
    <3> QED
      BY <2>2, <2>3, <3>1
  <2>6. DealtUpTo(f, d, st, w, S, next, lo, s1, p)
    BY <1>3, <2>4, <2>5 DEF DealtUpTo, V
  <2> QED
    BY <1>4, <2>1, <2>6 DEF DoneUpTo, w
<1>6. CASE s1 \in S /\ next <= s1
  <2>1. e = Accumulated(f, k, s1)
    BY <1>6
  <2>2. V = U \cup {s1}
    <3>1. \A s \in S : s <= s1 <=> s <= t \/ s = s1
      OBVIOUS
    <3> QED
      BY <1>6, <3>1 DEF U, V, UpToTime
  <2>3. s1 \in Nat /\ Multiple(s1, w) /\ st <= s1 /\ lo <= s1 /\ next <= s1
    BY <1>6 DEF w
  <2>4. p <= s1
    <3>1. CASE p = d.next
      BY <1>1, <2>3, <3>1
    <3>2. CASE \E s \in S : next <= s /\ s <= t /\ p = s + w
      <4>1. PICK s \in S : s <= t /\ p = s + w
        BY <3>2
      <4>2. s \in Nat /\ Multiple(s, w) /\ s < s1
        BY <4>1 DEF w
      <4>3. s + w <= s1
        BY <1>1, <2>3, <4>2, MultiplesApart
      <4> QED
        BY <4>1, <4>3
    <3> QED
      BY <1>3, <3>1, <3>2
  <2>5. Before(U, s1, lo)
    <3>1. \A s \in S : s < next \/ s <= t => s < s1
      BY <1>6
    <3> QED
      BY <3>1 DEF Before, U, UpToTime
  <2>6. U \in SUBSET Nat /\ st = StepOf(f, k) /\ Multiple(s1, Interval[k])
    BY <1>4, <2>3 DEF U, UpToTime, StepOf, w
  <2>7. /\ e \in Datas /\ SameWidth(f, e) /\ Binned(e, st, V, lo) /\ Ahead(e, st, V, lo, s1 + w)
        /\ ~Unfed(f) => Base(e, st) = Base(f, st)
    <3> DEFINE a == Accumulated(f, k, s1)
    <3> HIDE DEF a, s1
    <3>1. /\ f \in Datas /\ U \in SUBSET Nat /\ p \in Nat /\ Dealt(f, st, U, lo, p) /\ s1 \in Nat
          /\ p <= s1 /\ st <= s1 /\ lo <= s1 /\ Before(U, s1, lo) /\ Multiple(s1, Interval[k])
          /\ st = StepOf(f, k)
      BY <1>3, <1>4, <2>3, <2>4, <2>5, <2>6
    <3>2. /\ a \in Datas /\ SameWidth(f, a) /\ Binned(a, st, U \cup {s1}, lo)
          /\ Ahead(a, st, U \cup {s1}, lo, s1 + Interval[k])
          /\ ~Unfed(f) => Base(a, st) = Base(f, st)
      BY <3>1, AccumulatedDeals DEF a
    <3> QED
      BY <2>1, <2>2, <3>2 DEF a, w
  <2>8. s1 + w \in Nat /\ Multiple(s1 + w, w)
    BY <1>1, <2>3, MultiplesStep
  <2>9. \A s \in S : next <= s /\ s <= s1 => s + w <= s1 + w
    BY <1>1
  <2>10. DealtUpTo(e, d, st, w, S, next, lo, s1, s1 + w)
    <3>1. Dealt(e, st, V, lo, s1 + w)
      BY <2>7 DEF Dealt
    <3>2. \E s \in S : next <= s /\ s <= s1 /\ s1 + w = s + w
      BY <1>6
    <3> HIDE DEF s1
    <3> QED
      BY <2>8, <2>9, <3>1, <3>2 DEF DealtUpTo, V, s1
  <2>11. ~Unfed(e)
    BY <2>7 DEF Binned, Unfed, NoTip
  <2>12. e.stride = d.stride /\ e.slots = d.slots /\ e.next = f.next
    BY <1>4, <2>7 DEF SameWidth
  <2> QED
    BY <1>4, <2>7, <2>10, <2>11, <2>12 DEF DoneUpTo, w
<1> QED
  BY <1>5, <1>6

LEMMA BaseIs ==
    ASSUME NEW d \in Datas, NEW st \in Nat
    PROVE  Base(d, st) \in Int /\ Base(d, st) <= d.tip.at /\ d.tip.at \in Nat
<1>1. Len(d.bins) \in Nat /\ d.tip.at \in Nat
  BY DEF Datas
<1> DEFINE x == Len(d.bins) * st
<1>2. x \in Nat /\ Base(d, st) = d.tip.at - x
  BY <1>1, ProductsAre DEF Base
<1> HIDE DEF x
<1> QED
  BY <1>1, <1>2

(* There is a fill up to any time.                                         *)
FillStep(k, S, next, t, g) == IF t \in S /\ next <= t THEN Accumulated(g, k, t) ELSE g
FillsTo(f, k, S, next, a, n) ==
    f = [t \in 0..n |-> IF t = 0 THEN a ELSE FillStep(k, S, next, t, f[t - 1])]

LEMMA FillsExist ==
    ASSUME NEW k, NEW S, NEW next, NEW a, NEW n \in Nat
    PROVE  \E f : FillsTo(f, k, S, next, a, n)
<1> DEFINE T == {m \in 0..n : \E f : FillsTo(f, k, S, next, a, m)}
<1>1. 0 \in T
  <2> DEFINE f == [t \in 0..0 |-> a]
  <2>1. f = [t \in 0..0 |-> IF t = 0 THEN a ELSE FillStep(k, S, next, t, f[t - 1])]
    OBVIOUS
  <2>2. FillsTo(f, k, S, next, a, 0)
    BY <2>1 DEF FillsTo
  <2> QED
    BY <2>2
<1>2. ASSUME NEW m \in 0..(n - 1), m \in T PROVE m + 1 \in T
  <2>1. PICK f : FillsTo(f, k, S, next, a, m)
    BY <1>2
  <2>2. DOMAIN f = 0..m /\ \A t \in 0..m : f[t] = IF t = 0 THEN a ELSE FillStep(k, S, next, t, f[t - 1])
    <3> DEFINE e(t) == IF t = 0 THEN a ELSE FillStep(k, S, next, t, f[t - 1])
    <3>1. f = [t \in 0..m |-> e(t)]
      BY <2>1 DEF FillsTo
    <3> HIDE DEF e
    <3>2. DOMAIN f = 0..m /\ \A t \in 0..m : f[t] = e(t)
      BY <3>1
    <3> QED
      BY <3>2 DEF e
  <2> DEFINE g == [t \in 0..(m + 1) |-> IF t = m + 1 THEN FillStep(k, S, next, m + 1, f[m]) ELSE f[t]]
             h(t) == IF t = 0 THEN a ELSE FillStep(k, S, next, t, g[t - 1])
  <2>3. ASSUME NEW t \in 0..(m + 1) PROVE g[t] = h(t)
    <3>1. CASE t = m + 1
      <4>1. t # 0 /\ t - 1 = m /\ m \in 0..(m + 1) /\ m # m + 1
        BY <3>1
      <4>2. g[m] = f[m]
        BY <4>1
      <4> HIDE DEF g
      <4>3. h(t) = FillStep(k, S, next, t, f[m])
        BY <4>1, <4>2
      <4> QED
        BY <3>1, <4>3 DEF g
    <3>2. CASE t # m + 1
      <4>1. t \in 0..m /\ (t # 0 => t - 1 \in 0..(m + 1) /\ t - 1 # m + 1)
        BY <3>2
      <4>2. g[t] = f[t] /\ (t # 0 => g[t - 1] = f[t - 1])
        BY <3>2, <4>1
      <4> HIDE DEF g
      <4> QED
        BY <2>2, <4>1, <4>2
    <3> QED
      BY <3>1, <3>2
  <2>4. g = [t \in 0..(m + 1) |-> h(t)]
    <3> HIDE DEF h
    <3> QED
      BY <2>3
  <2>5. FillsTo(g, k, S, next, a, m + 1)
    BY <2>4 DEF FillsTo
  <2>6. m + 1 \in 0..n
    OBVIOUS
  <2> HIDE DEF g
  <2> QED
    BY <2>5, <2>6
<1> HIDE DEF T
<1>3. n \in T
  <2>1. \A m \in 0..n : m \in T
    BY <1>1, <1>2, UpTo
  <2> QED
    BY <2>1
<1> QED
  BY <1>3 DEF T

(* A whole fill.                                                           *)
LEMMA FilledKeeps ==
    ASSUME NEW k \in Kinds, NEW stride \in Nat \ {0}, NEW slots \in Nat, NEW src \in SUBSET Nat,
           NEW n \in Nat, \A s \in src : s <= n,
           \A s \in src : Multiple(s, Interval[k]) /\ stride * Interval[k] <= s,
           DataOk(data[k], k, src),
           src # {} => \E r \in src : data[k].next <= r + Interval[k]
    PROVE  /\ DataOk(Filled(k, stride, slots, src), k, src)
           /\ \/ Fresh(Filled(k, stride, slots, src))
              \/ Filled(k, stride, slots, src).next = data[k].next
              \/ \E r \in src : Filled(k, stride, slots, src).next = r + Interval[k]
<1> DEFINE d == Reset(data[k], stride, slots)
           w == Interval[k]
           st == stride * w
           newest == Max(src)
           top == BinOf(d, k, newest)
           lowest == top - slots * st
           next == Max({d.next, lowest})
           d1 == [d EXCEPT !.next = newest + w]
           step(t, g) == IF t \in src /\ next <= t THEN Accumulated(g, k, t) ELSE g
           upTo == CHOOSE f : f = [t \in 0..newest |-> IF t = 0 THEN d1 ELSE step(t, f[t - 1])]
           F == Filled(k, stride, slots, src)
<1>1. /\ d.stride = stride /\ d.slots = slots /\ d \in Datas /\ DataOk(d, k, src)
      /\ Fresh(d) \/ d = data[k]
      /\ d.next = 0 \/ d.next = data[k].next
  <2>1. CASE data[k].stride # stride \/ data[k].slots # slots
    <3>1. d = [NoData EXCEPT !.stride = stride, !.slots = slots]
      BY <2>1 DEF Reset
    <3>2. /\ d = [next |-> 0, tip |-> NoTip, bins |-> <<>>, stride |-> stride, slots |-> slots]
      BY <3>1 DEF NoData
    <3>3. d \in Datas /\ Fresh(d) /\ d.next = 0 /\ d.stride = stride /\ d.slots = slots
      <4>1. NoTip \in [at : Nat, got : Seq(Nat)] /\ <<>> \in Seq(Seq(Nat))
        BY DEF NoTip
      <4> QED
        BY <3>2, <4>1 DEF Datas, Fresh, Unfed
    <3> QED
      BY <3>3 DEF DataOk
  <2>2. CASE ~(data[k].stride # stride \/ data[k].slots # slots)
    <3>1. d = data[k]
      BY <2>2 DEF Reset
    <3> QED
      BY <2>2, <3>1 DEF DataOk
  <2> QED
    BY <2>1, <2>2
<1>2. w \in Nat \ {0} /\ st \in Nat \ {0} /\ StepOf(d, k) = st /\ slots * st \in Nat /\ d.next \in Nat
  <2>1. w \in Nat \ {0}
    BY Scales
  <2>2. st \in Nat \ {0}
    BY <2>1
  <2>3. slots * st \in Nat
    <3> HIDE DEF st
    <3> QED
      BY <2>2
  <2>4. d.next \in Nat
    BY <1>1 DEF Datas
  <2>5. StepOf(d, k) = st
    BY <1>1 DEF StepOf
  <2> QED
    BY <2>1, <2>2, <2>3, <2>4, <2>5
<1>3. CASE src = {}
  <2>1. F = d
    BY <1>3 DEF Filled
  <2> QED
    BY <1>1, <2>1
<1>4. CASE src # {}
  <2>1. newest \in src /\ newest \in Nat /\ \A s \in src : s <= newest
    <3>1. newest \in src /\ \A s \in src : s <= newest
      BY <1>4, Greatest
    <3> QED
      BY <3>1
  <2>2. F = Truncated(upTo[newest])
    BY <1>2, <1>4 DEF Filled
  <2>3. top \in Nat /\ top <= newest /\ newest < top + st /\ Multiple(top, st)
    <3>1. top = (newest \div st) * st
      BY <1>2 DEF BinOf
    <3> QED
      BY <1>2, <2>1, <3>1, BinBelow
  <2>4. Multiple(newest, w) /\ d.next <= newest + w /\ Multiple(d.next, w)
    <3>1. Multiple(0, w)
      BY <1>2 DEF Multiple
    <3>2. d.next <= newest + w
      <4>1. PICK r \in src : data[k].next <= r + w
        BY <1>4
      <4>2. r <= newest /\ r \in Nat /\ (d.next = 0 \/ d.next <= r + w)
        BY <1>1, <2>1, <4>1
      <4> QED
        BY <1>2, <2>1, <4>2
    <3>3. Multiple(d.next, w)
      BY <1>1, <3>1 DEF DataOk, Fresh
    <3> QED
      BY <2>1, <3>2, <3>3
  <2> HIDE DEF w, st, top, newest
  <2>5. lowest \in Int /\ next \in Nat /\ d.next <= next /\ lowest <= next /\ (next = d.next \/ next = lowest)
    <3>1. lowest \in Int
      BY <1>2, <2>3
    <3> HIDE DEF lowest
    <3>2. d.next \in Int
      BY <1>2
    <3>3. next \in {d.next, lowest} /\ d.next <= next /\ lowest <= next
      BY <3>1, <3>2, GreaterOf
    <3> QED
      BY <1>2, <3>1, <3>3
  <2> HIDE DEF next, lowest, d
  <2> DEFINE lo == IF ~Unfed(d) /\ next = d.next THEN Base(d, st) ELSE lowest
             Done(f, t) == DoneUpTo(f, d, st, w, src, next, lo, t) /\ f.next = newest + w
  <2>6. \/ Fresh(d)
        \/ /\ Binned(d, st, Until(src, d.next), Base(d, st)) /\ ~Unfed(d)
           /\ Ahead(d, st, Until(src, d.next), Base(d, st), d.next)
    <3>1. Binned(d, st, Until(src, d.next), Base(d, st)) => ~Unfed(d)
      BY DEF Binned, Unfed, NoTip
    <3> QED
      BY <1>1, <1>2, <3>1 DEF DataOk
  <2>7. lo \in Int /\ lo <= next /\ Base(d, st) \in Int /\ Base(d, st) <= d.tip.at
    <3>1. Base(d, st) \in Int /\ Base(d, st) <= d.tip.at /\ d.tip.at \in Nat
      BY <1>1, <1>2, BaseIs
    <3>2. CASE ~Unfed(d) /\ next = d.next
      <4>1. d.tip.at <= d.next
        BY <2>6, <3>2 DEF Ahead, Fresh
      <4> QED
        BY <1>2, <3>1, <3>2, <4>1
    <3>3. CASE ~(~Unfed(d) /\ next = d.next)
      BY <2>5, <3>1, <3>3
    <3> QED
      BY <3>2, <3>3
  <2>8. /\ d1 \in Datas /\ d1.next = newest + w /\ d1.stride = d.stride /\ d1.slots = d.slots
        /\ d1.tip = d.tip /\ d1.bins = d.bins /\ Base(d1, st) = Base(d, st) /\ (Unfed(d1) <=> Unfed(d))
    <3>1. d1 \in Datas /\ d1.next = newest + w /\ d1.stride = d.stride /\ d1.slots = d.slots
          /\ d1.tip = d.tip /\ d1.bins = d.bins
      <4>1. newest + w \in Nat
        BY <1>2, <2>1
      <4> QED
        BY <1>1, <4>1 DEF Datas
    <3> HIDE DEF d1
    <3> QED
      BY <3>1 DEF Base, Unfed
  <2> HIDE DEF d1
  <2>9. \A s \in src : s \in Nat /\ Multiple(s, w) /\ st <= s /\ ~(s <= 0)
    <3>1. \A s \in src : s \in Nat /\ Multiple(s, w) /\ st <= s
      BY DEF w, st
    <3> QED
      BY <1>2, <3>1
  <2>10. Done(d1, 0)
    <3> DEFINE V == UpToTime(src, next, 0)
    <3>1. V = Until(src, next)
      BY <2>9 DEF UpToTime, Until
    <3>2. Dealt(d1, st, V, lo, d.next)
      <4>1. CASE Unfed(d)
        <5>1. d.next = 0 /\ lo = lowest
          BY <2>6, <4>1 DEF Fresh
        <5>2. ASSUME NEW s \in V PROVE s < lo
          <6>1. s \in Nat /\ s < next
            BY <2>9, <3>1 DEF Until
          <6> QED
            BY <2>5, <5>1, <6>1
        <5> QED
          BY <2>8, <4>1, <5>2 DEF Dealt
      <4>2. CASE ~Unfed(d) /\ next = d.next
        <5>1. lo = Base(d, st) /\ V = Until(src, d.next)
          BY <3>1, <4>2
        <5>2. Binned(d, st, V, lo) /\ Ahead(d, st, V, lo, d.next)
          BY <2>6, <4>2, <5>1 DEF Fresh
        <5>3. Binned(d1, st, V, lo) /\ Ahead(d1, st, V, lo, d.next)
          BY <2>8, <5>2 DEF Binned, Ahead
        <5> QED
          BY <5>3 DEF Dealt
      <4>3. CASE ~Unfed(d) /\ next # d.next
        <5>1. lo = lowest /\ next = lowest
          BY <2>5, <4>3
        <5>2. /\ Binned(d, st, Until(src, d.next), Base(d, st))
              /\ Ahead(d, st, Until(src, d.next), Base(d, st), d.next)
          BY <2>6, <4>3 DEF Fresh
        <5>3. \A s \in V : s < lo /\ s \in Nat
          BY <2>9, <3>1, <5>1 DEF Until
        <5>4. ASSUME NEW c, NEW at \in Int, Holds(c, Until(src, d.next), at, st, Base(d, st))
              PROVE  Holds(c, V, at, st, lo)
          <6>1. ASSUME lo <= at, NEW s \in V, at <= s PROVE FALSE
            BY <2>7, <5>3, <5>4, <6>1
          <6>2. lo <= at => Covers(c, V, at, st)
            BY <6>1 DEF Covers
          <6> QED
            BY <5>4, <6>2 DEF Holds
        <5>5. \A i \in 1..Len(d.bins) : Base(d, st) + (i - 1) * st \in Int
          <6>1. Len(d.bins) \in Nat
            BY <1>1 DEF Datas
          <6> QED
            BY <1>2, <2>7, <6>1
        <5>6. d.tip.at \in Int
          BY <1>1 DEF Datas
        <5>7. Binned(d, st, V, lo)
          BY <5>2, <5>4, <5>5, <5>6 DEF Binned
        <5>8. Ahead(d, st, V, lo, d.next)
          BY <5>2, <5>3 DEF Ahead
        <5>9. Binned(d1, st, V, lo) /\ Ahead(d1, st, V, lo, d.next)
          BY <2>8, <5>7, <5>8 DEF Binned, Ahead
        <5> QED
          BY <5>9 DEF Dealt
      <4> QED
        BY <4>1, <4>2, <4>3
    <3>3. DealtUpTo(d1, d, st, w, src, next, lo, 0, d.next)
      BY <1>2, <2>4, <2>9, <3>2 DEF DealtUpTo
    <3> QED
      BY <2>8, <3>3 DEF DoneUpTo
  <2>11. /\ upTo[0] = d1
         /\ \A t \in 1..newest : upTo[t] = step(t, upTo[t - 1])
    <3> DEFINE e(f, t) == IF t = 0 THEN d1 ELSE step(t, f[t - 1])
    <3>1. PICK f : FillsTo(f, k, src, next, d1, newest)
      BY <2>1, FillsExist
    <3>2. f = [t \in 0..newest |-> e(f, t)]
      BY <3>1 DEF FillsTo, FillStep
    <3>3. upTo = CHOOSE g : g = [t \in 0..newest |-> e(g, t)]
      OBVIOUS
    <3> HIDE DEF e, upTo
    <3>4. upTo = [t \in 0..newest |-> e(upTo, t)]
      BY <3>2, <3>3
    <3>5. \A t \in 0..newest : upTo[t] = e(upTo, t)
      BY <3>4
    <3>6. 0 \in 0..newest /\ \A t \in 1..newest : t \in 0..newest /\ t # 0
      BY <2>1
    <3> QED
      BY <3>5, <3>6 DEF e
  <2> HIDE DEF upTo, lo
  <2> DEFINE T == {t \in 0..newest : Done(upTo[t], t)}
  <2>12. 0 \in T
    BY <2>1, <2>10, <2>11
  <2>13. ASSUME NEW t \in 0..(newest - 1), t \in T PROVE t + 1 \in T
    <3>1. t \in Nat /\ t + 1 \in 1..newest /\ t + 1 \in 0..newest /\ (t + 1) - 1 = t
      BY <2>1
    <3> DEFINE f == upTo[t]
               g == upTo[t + 1]
    <3>2. DoneUpTo(f, d, st, w, src, next, lo, t) /\ f.next = newest + w
      BY <2>13
    <3>3. g = IF t + 1 \in src /\ next <= t + 1 THEN Accumulated(f, k, t + 1) ELSE f
      BY <2>11, <3>1
    <3> HIDE DEF f, g
    <3>4. d.stride * Interval[k] = st /\ \A s \in src : Multiple(s, Interval[k]) /\ st <= s
      BY <1>1, <2>9 DEF st, w
    <3>5. DoneUpTo(f, d, st, Interval[k], src, next, lo, t)
      BY <3>2 DEF w
    <3>6. DoneUpTo(g, d, st, Interval[k], src, next, lo, t + 1) /\ g.next = f.next
      BY <1>1, <1>2, <2>5, <2>7, <3>1, <3>3, <3>4, <3>5, FillsOn
    <3> QED
      BY <3>1, <3>2, <3>6 DEF g, w
  <2> HIDE DEF T
  <2>14. newest \in T
    <3>1. \A t \in 0..newest : t \in T
      BY <2>1, <2>12, <2>13, UpTo
    <3> QED
      BY <2>1, <3>1
  <2> DEFINE f == upTo[newest]
             e == Truncated(f)
  <2>15. DoneUpTo(f, d, st, w, src, next, lo, newest) /\ f.next = newest + w
    BY <2>14 DEF T
  <2> HIDE DEF f, e
  <2>20. lowest <= newest
    <3> DEFINE x == slots * st
    <3>1. x \in Nat /\ lowest = top - x
      BY <1>2 DEF lowest
    <3> HIDE DEF x
    <3> QED
      BY <2>1, <2>3, <3>1
  <2>16. UpToTime(src, next, newest) = src
    BY <2>1 DEF UpToTime
  <2>17. PICK p : DealtUpTo(f, d, st, w, src, next, lo, newest, p)
    BY <2>15 DEF DoneUpTo
  <2>18. p = newest + w
    <3>1. p \in Nat /\ Multiple(p, w)
      BY <2>17 DEF DealtUpTo
    <3>2. CASE next <= newest
      <4>1. newest + w <= p
        BY <2>1, <2>17, <3>2 DEF DealtUpTo
      <4>2. p = d.next \/ \E s \in src : p = s + w
        BY <2>17 DEF DealtUpTo
      <4>3. p <= newest + w
        <5>1. \A s \in src : s + w <= newest + w
          BY <1>2, <2>1, <2>9
        <5> QED
          BY <2>4, <4>2, <5>1
      <4> QED
        BY <1>2, <2>1, <3>1, <4>1, <4>3
    <3>3. CASE ~(next <= newest)
      <4>1. p = d.next
        <5>1. ~\E s \in src : next <= s
          BY <2>1, <2>5, <2>9, <3>3
        <5> QED
          BY <2>17, <5>1 DEF DealtUpTo
      <4>2. next = d.next
        BY <2>1, <2>3, <2>5, <2>20, <3>3
      <4>3. newest + w <= d.next
        <5>1. newest < d.next
          BY <1>2, <2>1, <2>5, <3>3, <4>2
        <5> QED
          BY <1>2, <2>4, <5>1, MultiplesApart
      <4> QED
        BY <1>2, <2>1, <2>4, <4>1, <4>3
    <3> QED
      BY <3>2, <3>3
  <2>19. Binned(f, st, src, lo) /\ Ahead(f, st, src, lo, newest + w) /\ f \in Datas
    <3>1. Dealt(f, st, src, lo, newest + w) /\ f \in Datas /\ (~Unfed(d) => ~Unfed(f))
      BY <2>15, <2>16, <2>17, <2>18 DEF DealtUpTo, DoneUpTo
    <3>2. ~(Unfed(f) /\ \A s \in src : s < lo)
      <4> SUFFICES ASSUME Unfed(f), newest < lo PROVE FALSE
        BY <2>1
      <4>1. lo = lowest
        BY <3>1 DEF lo
      <4> QED
        BY <2>1, <2>5, <2>20, <4>1
    <3> QED
      BY <3>1, <3>2 DEF Dealt
  <2>21. /\ e \in Datas /\ e.next = newest + w /\ e.stride = stride /\ e.tip = f.tip /\ Len(e.bins) <= slots
         /\ Base(f, st) <= Base(e, st) /\ Binned(e, st, src, lo)
    <3>1. f.stride = stride /\ f.slots = slots /\ f.next = newest + w
      BY <1>1, <2>15 DEF DoneUpTo
    <3> QED
      BY <1>2, <2>7, <2>19, <3>1, TruncatedKeeps DEF SameWidth, e
  <2>22. lo <= Base(e, st)
    <3>1. Base(e, st) \in Int /\ Base(f, st) \in Int
      BY <1>2, <2>19, <2>21, BaseIs
    <3>2. CASE ~Unfed(d) /\ next = d.next
      <4>1. lo = Base(d, st) /\ Base(f, st) = Base(d, st)
        BY <2>15, <3>2 DEF lo, DoneUpTo
      <4> QED
        BY <2>21, <4>1
    <3>3. CASE ~(~Unfed(d) /\ next = d.next)
      <4>1. lo = lowest
        BY <3>3 DEF lo
      <4>2. /\ f.tip.at \in Nat /\ Multiple(f.tip.at, st) /\ newest + w <= f.tip.at + st
        BY <2>19 DEF Datas, Binned, Ahead
      <4>3. top <= f.tip.at
        <5> SUFFICES ASSUME f.tip.at < top PROVE FALSE
          BY <2>3, <4>2
        <5>1. f.tip.at + st <= top
          BY <1>2, <2>3, <4>2, MultiplesApart
        <5> QED
          BY <1>2, <2>1, <2>3, <4>2, <5>1
      <4> DEFINE x == Len(e.bins) * st
                 y == slots * st
      <4>4. x \in Int /\ y \in Nat /\ x <= y
        <5>1. Len(e.bins) \in Int /\ slots \in Int
          BY <2>21 DEF Datas
        <5> QED
          BY <1>2, <2>21, <5>1, ProductsGrow
      <4>5. Base(e, st) = f.tip.at - x /\ lowest = top - y
        BY <2>21 DEF Base, lowest
      <4> HIDE DEF x, y
      <4> QED
        BY <2>3, <4>1, <4>2, <4>3, <4>4, <4>5
    <3> QED
      BY <3>2, <3>3
  <2>23. DataOk(e, k, src)
    <3>1. Base(e, st) \in Int
      BY <1>2, <2>21, BaseIs
    <3>2. Binned(e, st, src, Base(e, st))
      BY <1>2, <2>7, <2>21, <2>22, <3>1, NothingMissed
    <3>3. \A s \in src : s < newest + w
      <4> TAKE s \in src
      <4>1. s <= newest /\ s \in Nat /\ w \in Nat \ {0}
        BY <1>2, <2>1, <2>9
      <4> QED
        BY <2>1, <4>1
    <3>4. Until(src, e.next) = src
      BY <2>21, <3>3 DEF Until
    <3>5. Ahead(e, st, src, Base(e, st), newest + w)
      BY <2>19, <2>21, <3>3 DEF Ahead
    <3>6. StepOf(e, k) = st /\ e.stride # 0
      BY <2>21 DEF StepOf, st, w
    <3>7. Multiple(newest + w, w)
      BY <1>2, <2>4, MultiplesStep
    <3> QED
      BY <2>21, <3>2, <3>4, <3>5, <3>6, <3>7 DEF DataOk, w
  <2>24. F = e
    BY <2>2 DEF e, f
  <2>25. \E r \in src : e.next = r + Interval[k]
    BY <2>1, <2>21 DEF w
  <2> HIDE DEF F
  <2>26. DataOk(F, k, src) /\ \E r \in src : F.next = r + Interval[k]
    BY <2>23, <2>24, <2>25
  <2> QED
    BY <2>26 DEF F
<1> QED
  BY <1>3, <1>4

-----------------------------------------------------------------------------
(* What is loaded, and the reports of the graphs.                          *)
Reached(k, n) ==
    \/ \E r \in ring[k] : n <= r + Interval[k]
    \/ n < RingStart(k, RingEnd(k)) + Interval[k]

BinInv ==
    /\ StartAt <= clock
    /\ data \in [Kinds -> Datas]
    /\ \A k \in Kinds : DataOk(data[k], k, ring[k]) /\ Reached(k, data[k].next)

LEMMA AlignedIsMultiple ==
    ASSUME NEW k \in Kinds, NEW s \in Nat, Aligned(k, s) = s
    PROVE  Multiple(s, Interval[k])
<1>1. Interval[k] \in Nat \ {0}
  BY Scales
<1> QED
  BY <1>1, BinBelow DEF Aligned

(* Where a ring starts, which is long after the epoch.                     *)
LEMMA RingStartsLate ==
    ASSUME NEW k \in Kinds, clock \in Nat, StartAt <= clock, NEW stride \in Strides \cup {0}
    PROVE  /\ RingEnd(k) \in Nat /\ RingStart(k, RingEnd(k)) \in Nat
           /\ stride + Intv <= RingStart(k, RingEnd(k))
           /\ Aligned(k, RingEnd(k)) - Retention[k] \in Nat
<1> DEFINE t == RingEnd(k)
           a == Aligned(k, t)
           m == a - Retention[k]
<1>1. /\ Ret \in Nat /\ RetLong \in Nat /\ Intv \in Nat \ {0} /\ StartAt \in Nat /\ stride \in Nat
      /\ StartAt > Ret + RetLong + 4 * Intv + stride
  BY IntervalAssumption, ClockAssumption, GraphAssumption, StartAssumption
<1>2. /\ Interval[k] \in Nat \ {0} /\ Interval[k] <= Intv
  BY Scales
<1>3. (t = clock /\ Retention[k] = Ret) \/ (t = clock - Ret - Intv /\ Retention[k] = RetLong)
  <2>1. CASE k = "sec"
    BY <2>1 DEF RingEnd, Retention, Kinds
  <2>2. CASE k = "long"
    BY <2>2 DEF RingEnd, Retention, Kinds
  <2> QED
    BY <2>1, <2>2 DEF Kinds
<1>4. t \in Nat /\ t > Retention[k] + 3 * Intv + stride /\ Retention[k] \in Nat
  BY <1>1, <1>3
<1> HIDE DEF t
<1>5. a \in Nat /\ t < a + Interval[k]
  BY <1>4, AlignedDown
<1> HIDE DEF a
<1>6. m \in Nat /\ m > 2 * Intv + stride
  BY <1>1, <1>2, <1>4, <1>5
<1> HIDE DEF m
<1>7. RingStart(k, t) = (m \div Intv) * Intv
  BY DEF RingStart, m, a
<1>8. RingStart(k, t) \in Nat /\ m < RingStart(k, t) + Intv
  BY <1>1, <1>6, <1>7, RoundedDown
<1>9. stride + Intv <= RingStart(k, t)
  BY <1>1, <1>6, <1>8
<1> QED
  BY <1>4, <1>6, <1>8, <1>9 DEF t, a, m

LEMMA RingStartGrows ==
    ASSUME NEW k \in Kinds, clock \in Nat, StartAt <= clock, clock' \in Nat, clock <= clock'
    PROVE  RingStart(k, RingEnd(k)) <= RingStart(k, RingEnd(k)')
<1> DEFINE t == RingEnd(k)
           u == RingEnd(k)'
           m == Aligned(k, t) - Retention[k]
           n == Aligned(k, u) - Retention[k]
<1>1. /\ Ret \in Nat /\ Intv \in Nat \ {0} /\ StartAt \in Nat /\ Retention[k] \in Nat
  BY IntervalAssumption, ClockAssumption, Scales
<1>2. 0 \in Strides \cup {0} /\ t \in Nat /\ m \in Nat
  BY RingStartsLate
<1>3. t <= u /\ u \in Nat
  <2>1. CASE k = "sec"
    BY <1>1, <1>2, <2>1 DEF RingEnd
  <2>2. CASE k # "sec"
    <3>1. t = clock - Ret - Intv /\ u = clock' - Ret - Intv
      BY <2>2 DEF RingEnd
    <3>2. ASSUME NEW a \in Nat, NEW b \in Nat, a <= b, a - Ret - Intv \in Nat
          PROVE  a - Ret - Intv <= b - Ret - Intv /\ b - Ret - Intv \in Nat
      BY <3>2, <1>1
    <3>3. clock - Ret - Intv \in Nat
      BY <1>2, <3>1
    <3>4. clock - Ret - Intv <= clock' - Ret - Intv /\ clock' - Ret - Intv \in Nat
      BY <3>2, <3>3
    <3> QED
      BY <3>1, <3>4
  <2> QED
    BY <2>1, <2>2
<1> HIDE DEF t, u
<1>4. Aligned(k, t) <= Aligned(k, u) /\ Aligned(k, t) \in Nat /\ Aligned(k, u) \in Nat
  BY <1>2, <1>3, AlignedMonotonic, AlignedDown
<1>5. m <= n /\ n \in Nat
  BY <1>1, <1>2, <1>4
<1>6. RingStart(k, t) = (m \div Intv) * Intv /\ RingStart(k, u) = (n \div Intv) * Intv
  BY DEF RingStart
<1> HIDE DEF m, n
<1> QED
  BY <1>1, <1>2, <1>5, <1>6, RoundedDownMonotonic DEF t, u

(* A load brings nothing that is older than what a graph has dealt with.   *)
LEMMA LoadsAhead ==
    ASSUME RingInv, StartAt <= clock, ring' = LoadedAll, UNCHANGED reporterVars, NEW k \in Kinds,
           NEW n \in Nat, Multiple(n, Interval[k]), Reached(k, n)
    PROVE  /\ Until(ring'[k], n) \subseteq ring[k] /\ Reached(k, n)'
           /\ ring'[k] # {} => \E r \in ring'[k] : n <= r + Interval[k]
           /\ \A s \in ring'[k] : RingStart(k, RingEnd(k)) <= s
<1> DEFINE t == RingEnd(k)
           start == RingStart(k, t)
           kept == {s \in ring[k] : s >= start}
           from == IF kept = {} THEN start ELSE Max(kept) + Interval[k]
           w == Interval[k]
<1>1. ring'[k] = kept \cup {s \in files[k] : from <= s /\ s <= t}
  BY DEF LoadedAll, Loaded
<1>2. latest[k] \in Nat /\ \A s \in files[k] \cup ring[k] :
          s \in Nat /\ s <= latest[k] /\ Multiple(s, w)
  <2>1. latest[k] \in Nat /\ \A s \in files[k] \cup ring[k] : s \in Nat /\ s <= latest[k] /\ Aligned(k, s) = s
    BY DEF RingInv, Stamped, ReporterInv, ReporterTyped
  <2> QED
    BY <2>1, AlignedIsMultiple
<1>3. w \in Nat \ {0} /\ start \in Nat /\ clock \in Nat
  <2>1. clock \in Nat
    <3>1. StartAt \in Nat /\ MaxTime \in Nat /\ clock \in 0..StartAt + MaxTime
      BY Scales DEF RingInv, ReporterInv, ReporterTyped
    <3> QED
      BY <3>1
  <2>2. 0 \in Strides \cup {0}
    OBVIOUS
  <2> QED
    BY <2>1, <2>2, RingStartsLate, Scales
<1>4. RingStart(k, RingEnd(k))' = start
  BY DEF reporterVars, RingEnd, RingStart, Aligned
<1> HIDE DEF start, t, w
<1>5. kept # {} => Max(kept) \in kept /\ \A s \in kept : s <= Max(kept)
  BY <1>2, Greatest
<1>6. start <= from /\ from \in Nat
  <2>1. CASE kept = {}
    BY <1>3, <2>1
  <2>2. CASE kept # {}
    <3>1. Max(kept) \in Nat /\ start <= Max(kept)
      BY <1>2, <1>5, <2>2
    <3> HIDE DEF kept
    <3> QED
      BY <1>3, <2>2, <3>1 DEF w
  <2> QED
    BY <2>1, <2>2
<1>7. \A s \in ring'[k] : s \in Nat /\ Multiple(s, w) /\ start <= s
  <2>1. ASSUME NEW s \in ring'[k] PROVE s \in Nat /\ Multiple(s, w) /\ start <= s
    <3>1. s \in kept \/ (s \in files[k] /\ from <= s)
      BY <1>1
    <3>2. s \in Nat /\ Multiple(s, w)
      BY <1>2, <3>1
    <3> QED
      BY <1>3, <1>6, <3>1, <3>2
  <2> QED
    BY <2>1
<1>8. ASSUME NEW r \in Nat, NEW s \in Nat, Multiple(s, w), n <= r + w, r < s PROVE n <= s
  <2> SUFFICES ASSUME s < n PROVE FALSE
    OBVIOUS
  <2>1. s + w <= n
    BY <1>3, <1>8, MultiplesApart DEF w
  <2> QED
    BY <1>3, <1>8, <2>1
<1>9. CASE \E r \in ring[k] : n <= r + w
  <2>1. PICK r \in ring[k] : n <= r + w
    BY <1>9
  <2>2. r \in Nat
    BY <1>2
  <2>3. CASE r \in kept
    <3>1. r \in ring'[k]
      BY <1>1, <2>3
    <3>2. ASSUME NEW s \in ring'[k], s < n PROVE s \in ring[k]
      <4> SUFFICES ASSUME s \notin kept PROVE FALSE
        OBVIOUS
      <4>1. from <= s /\ s \in Nat
        BY <1>1, <1>7
      <4>2. Max(kept) \in Nat /\ r <= Max(kept) /\ from = Max(kept) + w
        BY <1>2, <1>5, <2>3 DEF w
      <4> HIDE DEF kept, from
      <4> QED
        BY <1>3, <2>1, <2>2, <3>2, <4>1, <4>2
    <3>3. Until(ring'[k], n) \subseteq ring[k]
      BY <3>2 DEF Until
    <3>4. Reached(k, n)' /\ \E q \in ring'[k] : n <= q + Interval[k]
      BY <2>1, <3>1 DEF Reached, w
    <3> QED
      BY <1>7, <3>3, <3>4 DEF start, t
  <2>4. CASE r \notin kept
    <3>1. r < start
      BY <1>3, <2>2, <2>4
    <3>2. \A s \in ring'[k] : n <= s
      BY <1>3, <1>7, <1>8, <2>1, <2>2, <3>1
    <3>3. Until(ring'[k], n) = {}
      BY <1>7, <3>2 DEF Until
    <3>4. n < start + w
      BY <1>3, <2>1, <2>2, <3>1
    <3>5. Reached(k, n)'
      BY <1>4, <3>4 DEF Reached, w
    <3>6. ring'[k] # {} => \E q \in ring'[k] : n <= q + w
      <4>1. \A q \in ring'[k] : n <= q + w
        BY <1>3, <1>7, <3>2
      <4> QED
        BY <4>1
    <3> QED
      BY <1>7, <3>3, <3>5, <3>6 DEF start, t, w
  <2> QED
    BY <2>3, <2>4
<1>10. CASE n < start + w
  <2>1. ASSUME NEW s \in ring'[k] PROVE n <= s
    <3>1. s \in Nat /\ Multiple(s, w) /\ start <= s
      BY <1>7
    <3> SUFFICES ASSUME s < n PROVE FALSE
      BY <3>1
    <3>2. s + w <= n
      BY <1>3, <3>1, MultiplesApart DEF w
    <3> QED
      BY <1>3, <1>10, <3>1, <3>2
  <2>2. Until(ring'[k], n) = {}
    BY <1>7, <2>1 DEF Until
  <2>3. Reached(k, n)'
    BY <1>4, <1>10 DEF Reached, w
  <2>4. ring'[k] # {} => \E q \in ring'[k] : n <= q + w
    <3>1. \A q \in ring'[k] : n <= q + w
      BY <1>3, <1>7, <2>1
    <3> QED
      BY <3>1
  <2> QED
    BY <1>7, <2>2, <2>3, <2>4 DEF start, t, w
<1> QED
  BY <1>9, <1>10 DEF Reached, start, t, w


(* The load leaves what a graph has as it was.                             *)
LEMMA DataAfterLoad ==
    ASSUME NEW k \in Kinds, NEW d, NEW S, NEW R, DataOk(d, k, S), Until(R, d.next) \subseteq S
    PROVE  DataOk(d, k, R)
<1> DEFINE st == StepOf(d, k)
           U == Until(R, d.next)
<1>1. CASE Fresh(d)
  BY <1>1 DEF DataOk
<1>2. CASE ~Fresh(d)
  <2>1. /\ d \in Datas /\ d.stride # 0 /\ Multiple(d.next, Interval[k])
        /\ Binned(d, st, Until(S, d.next), Base(d, st)) /\ Ahead(d, st, Until(S, d.next), Base(d, st), d.next)
    BY <1>2 DEF DataOk
  <2>2. U \subseteq Until(S, d.next)
    BY DEF Until
  <2>3. st \in Nat \ {0}
    <3>1. d.stride \in Nat \ {0} /\ Interval[k] \in Nat \ {0}
      BY <2>1, Scales DEF Datas
    <3>2. ASSUME NEW a \in Nat \ {0}, NEW b \in Nat \ {0} PROVE a * b \in Nat \ {0}
      OBVIOUS
    <3> QED
      BY <3>1, <3>2 DEF StepOf
  <2> HIDE DEF st, U
  <2>4. Base(d, st) \in Int
    BY <2>1, <2>3, BaseIs
  <2>5. Binned(d, st, U, Base(d, st))
    <3>1. Base(d, st) <= Base(d, st)
      BY <2>4
    <3> QED
      BY <2>1, <2>2, <2>3, <2>4, <3>1, NothingMissed
  <2>6. Ahead(d, st, U, Base(d, st), d.next)
    BY <2>1, <2>2 DEF Ahead
  <2> QED
    BY <2>1, <2>5, <2>6 DEF DataOk, st, U
<1> QED
  BY <1>1, <1>2

LEMMA DataDown ==
    ASSUME NEW k \in Kinds, NEW d, NEW S, DataOk(d, k, S)
    PROVE  d \in Datas /\ d.next \in Nat /\ Multiple(d.next, Interval[k])
<1>1. d \in Datas /\ d.next \in Nat
  BY DEF DataOk, Datas
<1>2. CASE Fresh(d)
  <2>1. Interval[k] \in Nat
    BY Scales
  <2>2. d.next = 0 * Interval[k]
    BY <1>2, <2>1 DEF Fresh
  <2> QED
    BY <1>1, <2>2 DEF Multiple
<1>3. CASE ~Fresh(d)
  BY <1>1, <1>3 DEF DataOk
<1> QED
  BY <1>2, <1>3

GraphInv == RingInv /\ BinInv

LEMMA GraphStarts == GraphInit => GraphInv
<1> SUFFICES ASSUME GraphInit PROVE GraphInv
  OBVIOUS
<1>1. ReporterInv /\ (\A k \in Kinds : files[k] = {} /\ ring[k] = {}) /\ clock = StartAt
  BY ReporterStarts DEF GraphInit, ReporterInit
<1>2. RingInv
  BY <1>1 DEF RingInv, Stamped, RingComplete
<1>3. StartAt \in Nat /\ StartAt <= clock /\ clock \in Nat
  BY <1>1, Scales
<1>4. NoData \in Datas
  <2>1. <<>> \in Seq(Nat) /\ <<>> \in Seq(Seq(Nat))
    OBVIOUS
  <2> QED
    BY <2>1 DEF NoData, NoTip, Datas
<1>5. data = [k \in Kinds |-> NoData] /\ Fresh(NoData) /\ NoData.next = 0
  BY DEF GraphInit, Fresh, Unfed, NoData
<1>6. ASSUME NEW k \in Kinds PROVE DataOk(data[k], k, ring[k]) /\ Reached(k, data[k].next)
  <2>1. DataOk(data[k], k, ring[k])
    BY <1>4, <1>5 DEF DataOk
  <2>2. 0 \in Strides \cup {0} /\ RingStart(k, RingEnd(k)) \in Nat
    BY <1>3, RingStartsLate
  <2>3. Interval[k] \in Nat \ {0}
    BY Scales
  <2>4. 0 < RingStart(k, RingEnd(k)) + Interval[k]
    BY <2>2, <2>3
  <2> QED
    BY <1>5, <2>1, <2>4 DEF Reached
<1> QED
  BY <1>2, <1>3, <1>4, <1>5, <1>6 DEF GraphInv, BinInv

LEMMA GraphReporterStep ==
    GraphInv /\ [ReporterNext]_reporterVars /\ UNCHANGED ringVars => GraphInv'
<1> SUFFICES ASSUME GraphInv, [ReporterNext]_reporterVars, UNCHANGED ringVars PROVE GraphInv'
  OBVIOUS
<1>1. RingInv' /\ ring' = ring /\ data' = data
  BY RingReporterStep DEF GraphInv, ringVars
<1>2. clock \in Nat /\ StartAt \in Nat /\ StartAt <= clock
  <2>1. StartAt \in Nat /\ MaxTime \in Nat /\ clock \in 0..StartAt + MaxTime
    BY Scales DEF GraphInv, RingInv, ReporterInv, ReporterTyped
  <2> QED
    BY <2>1 DEF GraphInv, BinInv
<1>3. clock' = clock \/ clock' = clock + 1
  <2>1. CASE Tick
    BY <2>1 DEF Tick
  <2>2. CASE UNCHANGED reporterVars
    BY <2>2 DEF reporterVars
  <2>3. CASE RunnerThread \/ ReportThread \/ SetExiting \/ AgentStarts \/ IoLatEnds
    <3>1. UNCHANGED clock
      BY <2>3 DEF RunnerThread, RunnerUnlock, RunnerLock, StartReporter, RunnerExit, RunnerJoined,
         ReportThread, Terminate, Wake, BaseReport, NotYet, Summarize, Expire,
         SetExiting, AgentStarts, IoLatEnds
    <3> QED
      BY <3>1
  <2> QED
    BY <2>1, <2>2, <2>3 DEF ReporterNext
<1>4. clock' \in Nat /\ clock <= clock' /\ StartAt <= clock'
  BY <1>2, <1>3
<1>5. ASSUME NEW k \in Kinds PROVE DataOk(data[k], k, ring[k]) /\ Reached(k, data[k].next)'
  <2>1. DataOk(data[k], k, ring[k]) /\ Reached(k, data[k].next)
    BY DEF GraphInv, BinInv
  <2>2. RingStart(k, RingEnd(k)) <= RingStart(k, RingEnd(k)')
    BY <1>2, <1>4, RingStartGrows
  <2>3. RingStart(k, RingEnd(k)) \in Nat /\ 0 \in Strides \cup {0}
    BY <1>2, RingStartsLate
  <2>4. RingStart(k, RingEnd(k)') \in Int /\ RingStart(k, RingEnd(k))' = RingStart(k, RingEnd(k)')
    BY <1>4, IntervalAssumption, Scales DEF RingStart, RingEnd, Aligned
  <2>5. data[k].next \in Nat /\ Interval[k] \in Nat
    BY <2>1, DataDown, Scales
  <2>6. CASE \E r \in ring[k] : data[k].next <= r + Interval[k]
    BY <1>1, <2>1, <2>6 DEF Reached
  <2>7. CASE data[k].next < RingStart(k, RingEnd(k)) + Interval[k]
    <3>1. data[k].next < RingStart(k, RingEnd(k)') + Interval[k]
      BY <2>2, <2>3, <2>4, <2>5, <2>7
    <3> QED
      BY <1>1, <2>1, <2>4, <3>1 DEF Reached
  <2> QED
    BY <2>1, <2>6, <2>7 DEF Reached
<1>6. BinInv'
  BY <1>1, <1>4, <1>5 DEF GraphInv, BinInv
<1> QED
  BY <1>1, <1>6 DEF GraphInv

(* What a load leaves the graphs with.                                     *)
LEMMA LoadedData ==
    ASSUME GraphInv, ring' = LoadedAll, UNCHANGED reporterVars
    PROVE  /\ RingInv' /\ StartAt <= clock /\ clock \in Nat /\ UNCHANGED clock
           /\ \A k \in Kinds :
                /\ DataOk(data[k], k, ring'[k])
                /\ ring'[k] # {} => \E r \in ring'[k] : data[k].next <= r + Interval[k]
                /\ ring'[k] = {} => data[k].next < RingStart(k, RingEnd(k))' + Interval[k]
                /\ latest[k] \in Nat
                /\ \A s \in ring'[k] : /\ s \in Nat /\ s <= latest[k] /\ Multiple(s, Interval[k])
                                       /\ RingStart(k, RingEnd(k)) <= s
<1>1. RingInv' /\ UNCHANGED <<clock, latest>>
  BY RingLoadStep DEF GraphInv, reporterVars, disk
<1>2. StartAt <= clock /\ clock \in Nat
  <2>1. StartAt \in Nat /\ MaxTime \in Nat /\ clock \in 0..StartAt + MaxTime
    BY Scales DEF GraphInv, RingInv, ReporterInv, ReporterTyped
  <2> QED
    BY <2>1 DEF GraphInv, BinInv
<1>3. ASSUME NEW k \in Kinds
      PROVE  /\ DataOk(data[k], k, ring'[k])
             /\ ring'[k] # {} => \E r \in ring'[k] : data[k].next <= r + Interval[k]
             /\ ring'[k] = {} => data[k].next < RingStart(k, RingEnd(k))' + Interval[k]
             /\ latest[k] \in Nat
             /\ \A s \in ring'[k] : /\ s \in Nat /\ s <= latest[k] /\ Multiple(s, Interval[k])
                                    /\ RingStart(k, RingEnd(k)) <= s
  <2> DEFINE n == data[k].next
  <2>1. DataOk(data[k], k, ring[k]) /\ Reached(k, n)
    BY DEF GraphInv, BinInv
  <2>2. n \in Nat /\ Multiple(n, Interval[k])
    BY <2>1, DataDown
  <2> HIDE DEF n
  <2>3. PICK m : m = n
    OBVIOUS
  <2>4. m \in Nat /\ Multiple(m, Interval[k]) /\ Reached(k, m)
    BY <2>1, <2>2, <2>3
  <2>5. /\ Until(ring'[k], m) \subseteq ring[k] /\ Reached(k, m)'
        /\ ring'[k] # {} => \E r \in ring'[k] : m <= r + Interval[k]
        /\ \A s \in ring'[k] : RingStart(k, RingEnd(k)) <= s
    BY <1>2, <2>4, LoadsAhead DEF GraphInv
  <2>6. DataOk(data[k], k, ring'[k])
    BY <2>1, <2>3, <2>5, DataAfterLoad DEF n
  <2>7. \A s \in ring'[k] : s \in Nat /\ s <= latest[k] /\ Aligned(k, s) = s
    BY <1>1 DEF RingInv, Stamped, Aligned
  <2>8. \A s \in ring'[k] : Multiple(s, Interval[k])
    BY <2>7, AlignedIsMultiple
  <2>9. ring'[k] = {} => m < RingStart(k, RingEnd(k))' + Interval[k]
    BY <2>5 DEF Reached
  <2>10. latest[k] \in Nat
    BY DEF GraphInv, RingInv, ReporterInv, ReporterTyped
  <2> QED
    BY <2>3, <2>5, <2>6, <2>7, <2>8, <2>9, <2>10 DEF n
<1> QED
  BY <1>1, <1>2, <1>3

LEMMA OtherFillStep == GraphInv /\ OtherFill => GraphInv'
<1> SUFFICES ASSUME GraphInv, OtherFill PROVE GraphInv'
  OBVIOUS
<1>1. ring' = LoadedAll /\ UNCHANGED reporterVars /\ data' = data
  BY DEF OtherFill
<1>2. RingInv' /\ StartAt <= clock /\ clock' = clock /\ data \in [Kinds -> Datas]
  BY <1>1, LoadedData DEF GraphInv, BinInv
<1>3. ASSUME NEW k \in Kinds
      PROVE  /\ DataOk(data[k], k, ring'[k])
             /\ ring'[k] # {} => \E r \in ring'[k] : data[k].next <= r + Interval[k]
             /\ ring'[k] = {} => data[k].next < RingStart(k, RingEnd(k))' + Interval[k]
  BY <1>1, LoadedData
<1>4. ASSUME NEW k \in Kinds PROVE (DataOk(data[k], k, ring[k]) /\ Reached(k, data[k].next))'
  BY <1>1, <1>3 DEF Reached
<1> QED
  BY <1>1, <1>2, <1>4 DEF GraphInv, BinInv

(* A graph is filled from what was loaded.                                 *)
LEMMA FilledData ==
    ASSUME GraphInv, ring' = LoadedAll, UNCHANGED reporterVars, NEW k \in Kinds,
           NEW stride \in Strides, NEW width \in Nat \ {0}, width * Interval[k] < stride + Intv,
           NEW slots \in Nat, NEW e, e = Filled(k, width, slots, ring'[k])
    PROVE  /\ DataOk(e, k, ring'[k])
           /\ \/ \E r \in ring'[k] : e.next <= r + Interval[k]
              \/ e.next < RingStart(k, RingEnd(k))' + Interval[k]
<1> DEFINE src == ring'[k]
           w == Interval[k]
<1>1. /\ StartAt <= clock /\ clock \in Nat /\ UNCHANGED clock
      /\ DataOk(data[k], k, src)
      /\ src # {} => \E r \in src : data[k].next <= r + w
      /\ src = {} => data[k].next < RingStart(k, RingEnd(k))' + w
      /\ latest[k] \in Nat
      /\ \A s \in src : /\ s \in Nat /\ s <= latest[k] /\ Multiple(s, w) /\ RingStart(k, RingEnd(k)) <= s
  BY LoadedData
<1>2. stride + Intv <= RingStart(k, RingEnd(k)) /\ RingStart(k, RingEnd(k)) \in Nat
  BY <1>1, RingStartsLate
<1>3. w \in Nat \ {0} /\ stride \in Nat /\ Intv \in Nat
  BY Scales, GraphAssumption, IntervalAssumption
<1>4. width * w \in Nat
  BY <1>3
<1>5. \A s \in src : width * w <= s
  <2> DEFINE x == width * w
  <2> HIDE DEF x
  <2>1. x \in Nat /\ x < stride + Intv
    BY <1>4 DEF x
  <2>2. \A s \in src : x <= s
    BY <1>1, <1>2, <1>3, <2>1
  <2> QED
    BY <2>2 DEF x
<1>6. src \in SUBSET Nat
  BY <1>1
<1>7. /\ DataOk(e, k, src)
      /\ \/ Fresh(e)
         \/ e.next = data[k].next
         \/ \E r \in src : e.next = r + w
  <2>1. \A s \in src : Multiple(s, Interval[k]) /\ width * Interval[k] <= s
    BY <1>1, <1>5
  <2>2. latest[k] \in Nat /\ \A s \in src : s <= latest[k]
    BY <1>1
  <2>3. DataOk(data[k], k, src) /\ (src # {} => \E r \in src : data[k].next <= r + Interval[k])
    BY <1>1
  <2> HIDE DEF src
  <2>4. /\ DataOk(Filled(k, width, slots, src), k, src)
        /\ \/ Fresh(Filled(k, width, slots, src))
           \/ Filled(k, width, slots, src).next = data[k].next
           \/ \E r \in src : Filled(k, width, slots, src).next = r + Interval[k]
    BY <1>6, <2>1, <2>2, <2>3, FilledKeeps, ZenonT(60)
  <2>5. e = Filled(k, width, slots, src)
    BY DEF src
  <2> QED
    BY <2>4, <2>5
<1>8. RingStart(k, RingEnd(k))' = RingStart(k, RingEnd(k))
  BY <1>1 DEF RingStart, RingEnd, Aligned
<1>9. CASE Fresh(e)
  <2>1. e.next = 0
    BY <1>9 DEF Fresh
  <2>2. 0 < RingStart(k, RingEnd(k)) + w
    BY <1>2, <1>3
  <2> QED
    BY <1>7, <1>8, <2>1, <2>2
<1>10. CASE e.next = data[k].next
  BY <1>1, <1>7, <1>10
<1>11. CASE \E r \in src : e.next = r + w
  <2>1. PICK r \in src : e.next = r + w
    BY <1>11
  <2>2. r + w <= r + w
    BY <1>1, <1>3
  <2> QED
    BY <1>7, <2>1, <2>2
<1> QED
  BY <1>7, <1>9, <1>10, <1>11

LEMMA RingSize == RingInv => Cardinality(ring["sec"]) \in Nat
<1> SUFFICES ASSUME RingInv PROVE Cardinality(ring["sec"]) \in Nat
  OBVIOUS
<1> DEFINE k == "sec"
           S == ring[k]
<1>1. k \in Kinds
  BY DEF Kinds
<1> HIDE DEF k
<1>2. latest[k] \in Nat /\ \A s \in S : s \in Nat /\ s <= latest[k]
  BY <1>1 DEF RingInv, Stamped, ReporterInv, ReporterTyped
<1>3. S \subseteq 0..latest[k]
  BY <1>2
<1>4. IsFiniteSet(0..latest[k])
  BY <1>2, FS_Interval
<1>5. IsFiniteSet(S)
  BY <1>3, <1>4, FS_Subset
<1>6. Cardinality(S) \in Nat
  BY <1>5, FS_CardinalityType
<1> QED
  BY <1>6 DEF k

LEMMA GraphFillStep == \A stride \in Strides : GraphInv /\ Fill(stride) => GraphInv'
<1> SUFFICES ASSUME NEW stride \in Strides, GraphInv, Fill(stride) PROVE GraphInv'
  OBVIOUS
<1> DEFINE have == Cardinality(ring'["sec"])
           span == Slots * stride
           long == LongStride(stride)
           slots == ((span - have) \div Intv) \div long
           OfSec == Filled("sec", stride, Slots, ring'["sec"])
           OfLong == IF span > have THEN Filled("long", long, slots, ring'["long"]) ELSE data["long"]
<1>1. /\ ring' = LoadedAll /\ UNCHANGED reporterVars
      /\ data' = [k \in Kinds |-> IF k = "sec" THEN Filled(k, stride, Slots, ring'[k])
                                  ELSE IF span > have THEN Filled(k, long, slots, ring'[k]) ELSE data[k]]
  BY DEF Fill
<1>2. "sec" \in Kinds /\ "long" \in Kinds /\ Kinds = {"sec", "long"}
  BY DEF Kinds
<1>3. data'["sec"] = OfSec /\ data'["long"] = OfLong
  BY <1>1, <1>2
<1>4. stride \in Nat \ {0} /\ Slots \in Nat /\ Intv \in Nat \ {0}
  BY GraphAssumption, IntervalAssumption
<1>5. RingInv' /\ StartAt <= clock /\ UNCHANGED clock
  BY <1>1, LoadedData
<1>6. have \in Nat
  <2>1. (RingInv => Cardinality(ring["sec"]) \in Nat)'
    BY RingSize, PTL
  <2> QED
    BY <1>5, <2>1
<1> HIDE DEF have
<1>7. span \in Nat
  BY <1>4
<1> HIDE DEF span
<1>8. long \in Nat \ {0} /\ long * Intv < stride + Intv
  <2>1. stride + Intv - 1 \in Nat /\ Intv <= stride + Intv - 1
    BY <1>4
  <2>2. (stride + Intv - 1) \div Intv \in Nat \ {0}
    <3>1. ASSUME NEW a \in Nat, NEW b \in Nat \ {0}, b <= a PROVE a \div b \in Nat \ {0}
      BY <3>1
    <3> QED
      BY <1>4, <2>1, <3>1
  <2>3. ((stride + Intv - 1) \div Intv) * Intv \in Nat /\ ((stride + Intv - 1) \div Intv) * Intv <= stride + Intv - 1
    BY <1>4, <2>1, RoundedDown
  <2>4. long * Intv \in Nat /\ long * Intv <= stride + Intv - 1
    BY <2>3 DEF LongStride
  <2> DEFINE x == long * Intv
  <2> HIDE DEF x
  <2>5. x < stride + Intv
    BY <1>4, <2>4 DEF x
  <2> QED
    BY <2>2, <2>5 DEF LongStride, x
<1> HIDE DEF long
<1>9. /\ DataOk(OfSec, "sec", ring'["sec"])
      /\ \/ \E r \in ring'["sec"] : OfSec.next <= r + Interval["sec"]
         \/ OfSec.next < RingStart("sec", RingEnd("sec"))' + Interval["sec"]
  <2>1. Interval["sec"] = 1 /\ stride * 1 = stride /\ stride < stride + Intv
    BY <1>2, <1>4 DEF Interval
  <2>2. stride * Interval["sec"] < stride + Intv
    BY <2>1
  <2> QED
    BY <1>1, <1>2, <1>4, <2>2, FilledData
<1>10. /\ DataOk(OfLong, "long", ring'["long"])
       /\ \/ \E r \in ring'["long"] : OfLong.next <= r + Interval["long"]
          \/ OfLong.next < RingStart("long", RingEnd("long"))' + Interval["long"]
  <2>1. CASE span > have
    <3>1. Interval["long"] = Intv
      BY <1>2 DEF Interval
    <3>2. long * Interval["long"] < stride + Intv
      BY <1>8, <3>1
    <3>3. slots \in Nat
      <4>1. ASSUME NEW a \in Nat, NEW b \in Nat \ {0} PROVE a \div b \in Nat
        OBVIOUS
      <4>2. span - have \in Nat
        BY <1>6, <1>7, <2>1
      <4>3. (span - have) \div Intv \in Nat
        BY <1>4, <4>1, <4>2
      <4> QED
        BY <1>8, <4>1, <4>3
    <3>4. OfLong = Filled("long", long, slots, ring'["long"])
      BY <2>1
    <3> HIDE DEF slots, OfLong
    <3> QED
      BY <1>1, <1>2, <1>8, <3>2, <3>3, <3>4, FilledData
  <2>2. CASE ~(span > have)
    <3>1. OfLong = data["long"]
      BY <2>2
    <3>2. /\ DataOk(data["long"], "long", ring'["long"])
          /\ ring'["long"] # {} => \E r \in ring'["long"] : data["long"].next <= r + Interval["long"]
          /\ ring'["long"] = {} => data["long"].next < RingStart("long", RingEnd("long"))' + Interval["long"]
      BY <1>1, <1>2, LoadedData
    <3> HIDE DEF OfLong
    <3> QED
      BY <3>1, <3>2
  <2> QED
    BY <2>1, <2>2
<1> HIDE DEF OfSec, OfLong
<1>11. (\A k \in Kinds : DataOk(data[k], k, ring[k]) /\ Reached(k, data[k].next))'
  <2>1. (DataOk(data["sec"], "sec", ring["sec"]) /\ Reached("sec", data["sec"].next))'
    BY <1>3, <1>9 DEF Reached
  <2>2. (DataOk(data["long"], "long", ring["long"]) /\ Reached("long", data["long"].next))'
    BY <1>3, <1>10 DEF Reached
  <2> QED
    BY <1>2, <2>1, <2>2
<1>12. data' \in [Kinds -> Datas]
  <2>1. OfSec \in Datas /\ OfLong \in Datas
    BY <1>9, <1>10 DEF DataOk
  <2>2. \E f : data' = [k \in Kinds |-> f[k]]
    BY <1>1
  <2>3. data' = [k \in Kinds |-> data'[k]] /\ \A k \in Kinds : data'[k] \in Datas
    BY <1>1, <1>2, <1>3, <2>1
  <2> QED
    BY <2>3
<1> QED
  BY <1>5, <1>11, <1>12 DEF GraphInv, BinInv

LEMMA BinIsExact ==
    ASSUME GraphInv, NEW k \in Kinds, NEW i \in DOMAIN data[k].bins
    PROVE  LET bin == data[k].bins[i]
               span == BinAt(k, i)..BinAt(k, i) + StepOf(data[k], k) - 1
           IN  /\ IsInjective(bin)
               /\ ring[k] \cap span \subseteq Range(bin) /\ Range(bin) \subseteq span
               /\ DrawnAt(k, i) - BinAt(k, i) \in 0..StepOf(data[k], k)
<1> DEFINE d == data[k]
           st == StepOf(d, k)
           S == Until(ring[k], d.next)
           b == Base(d, st)
           L == Len(d.bins)
           bin == d.bins[i]
           at == b + (i - 1) * st
           x == L * st
           y == (i - 1) * st
           z == (L - i + 1) * st
<1>1. DataOk(d, k, ring[k]) /\ d \in Datas
  BY DEF GraphInv, BinInv
<1>2. L \in Nat /\ i \in 1..L /\ d.tip.at \in Nat /\ d.next \in Nat /\ d.bins \in Seq(Seq(Nat))
  BY <1>1, SMTT(30) DEF Datas
<1>3. ~Fresh(d)
  BY <1>2 DEF Fresh, Unfed
<1>4. d.stride # 0 /\ Binned(d, st, S, b) /\ Ahead(d, st, S, b, d.next)
  BY <1>1, <1>3 DEF DataOk
<1>5. st \in Nat \ {0}
  <2>1. d.stride \in Nat \ {0} /\ Interval[k] \in Nat \ {0}
    BY <1>1, <1>4, Scales DEF Datas
  <2>2. ASSUME NEW a \in Nat \ {0}, NEW c \in Nat \ {0} PROVE a * c \in Nat \ {0}
    OBVIOUS
  <2> QED
    BY <2>1, <2>2 DEF StepOf
<1>6. /\ b = d.tip.at - x /\ BinAt(k, i) = d.tip.at - z /\ DrawnAt(k, i) = d.next - z
  BY DEF Base, BinAt, DrawnAt
<1>7. Holds(bin, S, at, st, b) /\ d.tip.at <= d.next /\ d.next <= d.tip.at + st
  BY <1>2, <1>4 DEF Binned, Ahead
<1>8. bin \in Seq(Nat) /\ Len(bin) \in Nat /\ DOMAIN bin = 1..Len(bin) /\ \A j \in 1..Len(bin) : bin[j] \in Nat
  <2>1. bin \in Seq(Nat)
    BY <1>2
  <2> HIDE DEF bin
  <2> QED
    BY <2>1
<1> HIDE DEF st, b, L, bin
<1>9. x \in Nat /\ y \in Nat /\ z \in Nat /\ x = y + z /\ st <= z
  <2>1. i \in Nat /\ i - 1 \in Nat /\ L - i + 1 \in Nat /\ L = (i - 1) + (L - i + 1) /\ 1 <= L - i + 1
    BY <1>2
  <2> DEFINE m == i - 1
             n == L - i + 1
  <2>2. ASSUME NEW p \in Nat, NEW q \in Nat, NEW c \in Nat, 1 <= q
        PROVE  (p + q) * c = p * c + q * c /\ p * c \in Nat /\ q * c \in Nat /\ c <= q * c
    <3>1. 1 * c <= q * c
      BY <2>2, ProductsGrow
    <3> QED
      BY <3>1
  <2>3. m \in Nat /\ n \in Nat /\ 1 <= n /\ L = m + n
    BY <2>1
  <2>4. y = m * st /\ z = n * st
    OBVIOUS
  <2> HIDE DEF m, n, x, y, z
  <2>5. L * st = m * st + n * st /\ m * st \in Nat /\ n * st \in Nat /\ st <= n * st
    BY <1>5, <2>2, <2>3
  <2> QED
    BY <2>4, <2>5 DEF x
<1>10. at = b + y
  OBVIOUS
<1> HIDE DEF x, y, z, at
<1> DEFINE tip == d.tip.at
           next == d.next
<1>a. /\ tip \in Nat /\ next \in Nat /\ tip <= next /\ next <= tip + st
      /\ b = tip - x /\ BinAt(k, i) = tip - z /\ DrawnAt(k, i) = next - z
  BY <1>2, <1>6, <1>7
<1> HIDE DEF tip, next
<1>11. at = BinAt(k, i) /\ b <= at /\ at + st <= tip /\ at \in Int /\ b \in Int
  BY <1>5, <1>9, <1>10, <1>a
<1>12. IsInjective(bin)
  <2>1. ASSUME NEW p \in DOMAIN bin, NEW q \in DOMAIN bin, bin[p] = bin[q] PROVE p = q
    <3>1. p \in 1..Len(bin) /\ q \in 1..Len(bin) /\ bin[p] \in Nat /\ bin[q] \in Nat
      BY <1>8
    <3>2. ~(p < q) /\ ~(q < p)
      <4>1. (p < q => bin[p] < bin[q]) /\ (q < p => bin[q] < bin[p])
        BY <1>7, <3>1 DEF Holds, Ascending
      <4> QED
        BY <2>1, <3>1, <4>1
    <3> QED
      BY <3>1, <3>2
  <2> QED
    BY <2>1 DEF IsInjective
<1>13. Range(bin) \subseteq at..at + st - 1
  <2>1. ASSUME NEW j \in 1..Len(bin) PROVE bin[j] \in at..at + st - 1
    <3>1. at <= bin[j] /\ bin[j] < at + st
      BY <1>7 DEF Holds, Within
    <3> QED
      BY <1>5, <1>8, <1>11, <3>1
  <2> QED
    BY <1>8, <2>1 DEF Range
<1>14. ring[k] \cap (at..at + st - 1) \subseteq Range(bin)
  <2>1. ASSUME NEW s \in ring[k], s \in at..at + st - 1 PROVE s \in Range(bin)
    <3>1. at <= s /\ s < at + st /\ s < next
      BY <1>5, <1>11, <1>a, <2>1
    <3>2. s \in S
      BY <2>1, <3>1 DEF Until, next
    <3>3. \E j \in 1..Len(bin) : bin[j] = s
      BY <1>7, <1>11, <3>1, <3>2 DEF Holds, Covers
    <3> QED
      BY <1>8, <3>3 DEF Range
  <2> QED
    BY <2>1
<1>15. DrawnAt(k, i) - BinAt(k, i) \in 0..st
  <2>1. DrawnAt(k, i) - BinAt(k, i) = next - tip
    BY <1>9, <1>a
  <2> QED
    BY <1>5, <1>a, <2>1
<1> QED
  BY <1>11, <1>12, <1>13, <1>14, <1>15 DEF bin, st

(* A bin of a graph holds exactly the reports of its own span, however the *)
(* loads and the fills of several graphs, the changes of the timescale and *)
(* the writing and removing of the files are interleaved, and wherever the *)
(* reporter skips seconds, fails or is started again; and no graph has a   *)
(* hole in the middle of what it draws from (ReportRing::update and        *)
(* ReportData::fill in report_ring.rs).                                    *)
THEOREM GraphsAreExact == GraphSpec => []GraphExact
<1>1. GraphInv /\ [GraphNext]_graphVars => GraphInv'
  <2> SUFFICES ASSUME GraphInv, [GraphNext]_graphVars PROVE GraphInv'
    OBVIOUS
  <2>1. CASE \/ ReporterNext /\ UNCHANGED ringVars
             \/ UNCHANGED graphVars
    BY <2>1, GraphReporterStep DEF graphVars
  <2>2. CASE OtherFill
    BY <2>2, OtherFillStep
  <2>3. CASE \E stride \in Strides : Fill(stride)
    BY <2>3, GraphFillStep
  <2> QED
    BY <2>1, <2>2, <2>3 DEF GraphNext
<1>2. GraphInv => GraphExact
  <2> SUFFICES ASSUME GraphInv PROVE GraphExact
    OBVIOUS
  <2>1. RingComplete
    BY DEF GraphInv, RingInv
  <2>2. BinsExact
    BY BinIsExact DEF BinsExact
  <2> QED
    BY <2>1, <2>2 DEF GraphExact
<1> QED
  BY GraphStarts, <1>1, <1>2, PTL DEF GraphSpec

-----------------------------------------------------------------------------
(* The journal tailer, JournalTailer.                                      *)

JournalSpec == JournalInit /\ [][JournalNext]_journalVars

\* The last line of the channel is the last one that was read; once there is
\* none, what was made of that line is on top, unless it could not be parsed.
BarFresh ==
    /\ taken \in Nat /\ lines \in Seq(Nat) /\ DOMAIN msgs = 1..Len(msgs) /\ Len(msgs) \in Nat
    /\ taken = 0 => lines = <<>> /\ msgs = <<>>
    /\ worker = "loop" /\ lines # <<>> => lines[Len(lines)] = taken
    /\ worker = "loop" /\ lines = <<>> /\ taken # 0 /\ taken \notin BadLines =>
          bar = taken /\ msgs[1].line = taken

LEMMA JournalStep == BarFresh /\ [JournalNext]_journalVars => BarFresh'
<1> SUFFICES ASSUME BarFresh, [JournalNext]_journalVars PROVE BarFresh'
  OBVIOUS
<1>1. CASE UNCHANGED <<taken, lines, msgs, worker, bar>>
  BY <1>1 DEF BarFresh
<1>2. CASE ReadLine
  <2>1. taken' = taken + 1 /\ UNCHANGED <<msgs, worker, bar>> /\ taken' \in Nat /\ taken' # 0
    BY <1>2 DEF ReadLine, BarFresh
  <2>2. CASE worker = "loop"
    <3>1. lines' = Append(lines, taken')
      BY <1>2, <2>1, <2>2 DEF ReadLine
    <3>2. /\ lines' \in Seq(Nat) /\ lines' # <<>> /\ lines'[Len(lines')] = taken'
      BY <2>1, <3>1 DEF BarFresh
    <3> QED
      BY <2>1, <3>2 DEF BarFresh
  <2>3. CASE worker # "loop"
    <3>1. lines' = lines
      BY <1>2, <2>3 DEF ReadLine
    <3> QED
      BY <2>1, <2>3, <3>1 DEF BarFresh
  <2> QED
    BY <2>2, <2>3
<1>3. CASE Process
  <2>1. /\ worker = "loop" /\ lines # <<>> /\ lines' = Tail(lines) /\ UNCHANGED <<taken, worker>>
    BY <1>3 DEF Process
  <2>2. /\ lines \in Seq(Nat) /\ lines' \in Seq(Nat) /\ taken \in Nat /\ taken # 0
        /\ lines[Len(lines)] = taken /\ Head(lines) \in Nat
        /\ lines' # <<>> => lines'[Len(lines')] = taken
        /\ lines' = <<>> => Head(lines) = taken
    <3>1. lines \in Seq(Nat) /\ taken \in Nat /\ taken # 0 /\ lines[Len(lines)] = taken
      BY <2>1 DEF BarFresh
    <3>2. Len(lines) \in Nat /\ Len(lines) >= 1 /\ Head(lines) = lines[1] /\ lines[1] \in Nat
      BY <2>1, <3>1
    <3>3. /\ lines' \in Seq(Nat) /\ Len(lines') = Len(lines) - 1
          /\ \A i \in 1..Len(lines') : lines'[i] = lines[i + 1]
      BY <2>1, <3>1, HeadTailProperties
    <3>4. lines' # <<>> => lines'[Len(lines')] = taken
      <4> SUFFICES ASSUME lines' # <<>> PROVE lines'[Len(lines')] = taken
        OBVIOUS
      <4>1. Len(lines') \in Nat /\ Len(lines') # 0
        BY <3>3, EmptySeq
      <4>2. lines'[Len(lines')] = lines[Len(lines') + 1]
        BY <3>3, <4>1
      <4>3. Len(lines') + 1 = Len(lines)
        BY <3>2, <3>3
      <4> QED
        BY <3>1, <4>2, <4>3
    <3>5. lines' = <<>> => Head(lines) = taken
      <4> SUFFICES ASSUME lines' = <<>> PROVE Head(lines) = taken
        OBVIOUS
      <4>1. Len(lines') = 0
        OBVIOUS
      <4>2. Len(lines) = 1
        BY <3>2, <3>3, <4>1
      <4>3. Head(lines) = lines[1] /\ lines[1] = taken
        BY <3>1, <3>2, <4>2
      <4> QED
        BY <4>3
    <3> QED
      BY <3>1, <3>2, <3>3, <3>4, <3>5
  <2>3. CASE Head(lines) \in BadLines
    <3>1. UNCHANGED <<msgs, bar>>
      BY <1>3, <2>3 DEF Process
    <3> QED
      BY <2>1, <2>2, <2>3, <3>1 DEF BarFresh
  <2>4. CASE Head(lines) \notin BadLines
    <3> DEFINE new == [seq |-> seqCursor, line |-> Head(lines)]
               all == <<new>> \o msgs
               upto == IF Len(all) > Keep THEN Keep ELSE Len(all)
    <3>1. /\ msgs' = SubSeq(all, 1, upto)
          /\ bar' = IF Tail(lines) = <<>> THEN Head(lines) ELSE bar
      BY <1>3, <2>4 DEF Process
    <3>2. Len(all) = Len(msgs) + 1 /\ all[1] = new
      BY DEF BarFresh
    <3>3. upto \in Nat /\ upto >= 1
      BY <3>2, JournalAssumption DEF BarFresh
    <3>4. Len(msgs') = upto /\ DOMAIN msgs' = 1..upto /\ msgs'[1] = new
      BY <3>1, <3>2, <3>3
    <3> HIDE DEF all, upto
    <3>5. msgs'[1].line = Head(lines)
      BY <3>4
    <3> HIDE DEF new
    <3>6. lines' = <<>> => bar' = taken /\ msgs'[1].line = taken
      BY <2>1, <2>2, <3>1, <3>5
    <3> QED
      BY <2>1, <2>2, <3>3, <3>4, <3>6 DEF BarFresh
  <2> QED
    BY <2>3, <2>4
<1>4. CASE Leave
  <2>1. worker' # "loop" /\ lines' = <<>> /\ UNCHANGED <<taken, msgs>>
    BY <1>4 DEF Leave
  <2> QED
    BY <2>1 DEF BarFresh
<1>5. CASE Reap
  <2>1. worker # "loop" /\ worker' # "loop" /\ UNCHANGED <<taken, lines, msgs>>
    BY <1>5 DEF Reap
  <2> QED
    BY <2>1 DEF BarFresh
<1>6. CASE Log \/ JournalctlDies \/ ReadEnd \/ DropTailer \/ Scroll \/ Refresh
           \/ UNCHANGED journalVars
  <2>1. UNCHANGED <<taken, lines, msgs, worker, bar>>
    BY <1>6 DEF Log, JournalctlDies, ReadEnd, DropTailer, Scroll, Refresh, journalVars, tailerVars
  <2> QED
    BY <1>1, <2>1, ZenonT(60)
<1> QED
  BY <1>2, <1>3, <1>4, <1>5, <1>6 DEF JournalNext, TailerThreads

(* What the view shows: it is a part of all that there was to show, W.     *)

(* The history of the first n messages: g has their lines, W what of them  *)
(* is shown, and c how much of W each message is the last of.              *)
LineHistory(n, g, c, W) ==
    /\ g \in [1..n -> Nat] /\ c \in [0..n -> Nat] /\ W \in Seq(Nat)
    /\ c[0] = 0 /\ c[n] = Len(W)
    /\ \A q \in 1..n : IF g[q] \in QuietLines THEN c[q] = c[q - 1]
                       ELSE c[q] = c[q - 1] + 1 /\ W[c[q]] = g[q]
    /\ \A i, j \in 1..Len(W) : i < j => W[i] < W[j]

LEMMA CountsStep ==
    ASSUME NEW n \in Nat, NEW g, NEW c, NEW W, LineHistory(n, g, c, W), NEW q \in 0..n
    PROVE  \A k \in 0..(n - q) : c[q] <= c[q + k] /\ c[q + k] <= c[q] + k
<1> DEFINE T == {k \in 0..(n - q) : c[q] <= c[q + k] /\ c[q + k] <= c[q] + k}
<1>1. /\ \A p \in 0..n : c[p] \in Nat
      /\ \A p \in 1..n : c[p] = c[p - 1] \/ c[p] = c[p - 1] + 1
      /\ q \in Nat /\ n - q \in Nat
  BY DEF LineHistory
<1>2. 0 \in T
  BY <1>1
<1>3. ASSUME NEW k \in 0..((n - q) - 1), k \in T PROVE k + 1 \in T
  <2>1. q + k \in 0..n /\ q + (k + 1) \in 1..n /\ (q + (k + 1)) - 1 = q + k /\ k + 1 \in 0..(n - q)
    BY <1>1
  <2>2. c[q + (k + 1)] = c[q + k] \/ c[q + (k + 1)] = c[q + k] + 1
    BY <1>1, <2>1
  <2>3. c[q] \in Nat /\ c[q + k] \in Nat /\ c[q + (k + 1)] \in Nat
    BY <1>1, <2>1
  <2>4. c[q] <= c[q + k] /\ c[q + k] <= c[q] + k
    BY <1>3
  <2> QED BY <2>1, <2>2, <2>3, <2>4
<1> HIDE DEF T
<1>4. \A k \in 0..(n - q) : k \in T
  BY <1>1, <1>2, <1>3, UpTo
<1> QED BY <1>4 DEF T

LEMMA CountsGrow ==
    ASSUME NEW n \in Nat, NEW g, NEW c, NEW W, LineHistory(n, g, c, W),
           NEW q \in 0..n, NEW p \in 0..n, q <= p
    PROVE  /\ c[q] <= c[p] /\ c[p] - c[q] <= p - q
           /\ c[q] \in 0..Len(W) /\ c[p] \in 0..Len(W)
<1>1. \A a \in 0..n : \A b \in 0..n : a <= b => c[a] <= c[b] /\ c[b] <= c[a] + (b - a)
  <2> TAKE a \in 0..n
  <2> TAKE b \in 0..n
  <2> HAVE a <= b
  <2>1. b - a \in 0..(n - a) /\ a + (b - a) = b
    OBVIOUS
  <2>2. c[a] <= c[a + (b - a)] /\ c[a + (b - a)] <= c[a] + (b - a)
    BY <2>1, CountsStep
  <2> QED BY <2>1, <2>2
<1>2. c[q] \in Nat /\ c[p] \in Nat /\ c[n] = Len(W) /\ Len(W) \in Nat /\ n \in 0..n
  BY DEF LineHistory
<1>3. c[q] <= c[p] /\ c[p] <= c[q] + (p - q) /\ c[p] <= c[n] /\ c[q] <= c[n]
  BY <1>1, <1>2
<1> QED BY <1>2, <1>3

(* Parts of a sequence.                                                    *)
LEMMA PartIs ==
    ASSUME NEW W \in Seq(Nat), NEW a \in 0..Len(W), NEW b \in a..Len(W)
    PROVE  /\ SubSeq(W, a + 1, b) \in Seq(Nat) /\ Len(SubSeq(W, a + 1, b)) = b - a
           /\ \A i \in 1..(b - a) : SubSeq(W, a + 1, b)[i] = W[a + i]
<1>1. a \in Nat /\ b \in Nat /\ a <= b /\ a + 1 \in Int /\ b \in Int /\ Len(W) \in Nat /\ b <= Len(W)
  OBVIOUS
<1>2. \A i \in (a + 1)..b : W[i] \in Nat
  BY <1>1, ElementOfSeq
<1>3. /\ SubSeq(W, a + 1, b) \in Seq(Nat)
      /\ Len(SubSeq(W, a + 1, b)) = IF a + 1 <= b THEN b - (a + 1) + 1 ELSE 0
      /\ \A i \in 1..(b - (a + 1) + 1) : SubSeq(W, a + 1, b)[i] = W[(a + 1) + i - 1]
  BY <1>1, <1>2, SubSeqProperties
<1>4. b - (a + 1) + 1 = b - a /\ (IF a + 1 <= b THEN b - (a + 1) + 1 ELSE 0) = b - a
  BY <1>1
<1>5. \A i \in 1..(b - a) : (a + 1) + i - 1 = a + i
  BY <1>1
<1> QED BY <1>3, <1>4, <1>5

LEMMA PartsJoin ==
    ASSUME NEW W \in Seq(Nat), NEW a \in 0..Len(W), NEW b \in a..Len(W), NEW d \in b..Len(W)
    PROVE  SubSeq(W, a + 1, b) \o SubSeq(W, b + 1, d) = SubSeq(W, a + 1, d)
<1>1. a + 1 \in 1..(Len(W) + 1) /\ b \in ((a + 1) - 1)..Len(W)
  OBVIOUS
<1> QED BY <1>1, ConcatAdjacentSubSeq

LEMMA PartOfPart ==
    ASSUME NEW W \in Seq(Nat), NEW a \in 0..Len(W), NEW b \in a..Len(W), NEW d \in b..Len(W)
    PROVE  SubSeq(SubSeq(W, a + 1, d), (b - a) + 1, d - a) = SubSeq(W, b + 1, d)
<1> DEFINE V == SubSeq(W, a + 1, d)
<1>1. /\ d \in a..Len(W) /\ b \in 0..Len(W) /\ b - a \in 0..(d - a) /\ d - a \in (b - a)..(d - a)
      /\ (d - a) - (b - a) = d - b
  OBVIOUS
<1>2. V \in Seq(Nat) /\ Len(V) = d - a /\ \A i \in 1..(d - a) : V[i] = W[a + i]
  BY <1>1, PartIs
<1> HIDE DEF V
<1> DEFINE s == SubSeq(V, (b - a) + 1, d - a)
           t == SubSeq(W, b + 1, d)
<1>3. s \in Seq(Nat) /\ Len(s) = d - b /\ \A i \in 1..(d - b) : s[i] = V[(b - a) + i]
  BY <1>1, <1>2, PartIs
<1>4. t \in Seq(Nat) /\ Len(t) = d - b /\ \A i \in 1..(d - b) : t[i] = W[b + i]
  BY <1>1, PartIs
<1>5. \A i \in 1..(d - b) : (b - a) + i \in 1..(d - a) /\ a + ((b - a) + i) = b + i
  OBVIOUS
<1> HIDE DEF s, t
<1>6. \A i \in 1..Len(s) : s[i] = t[i]
  BY <1>2, <1>3, <1>4, <1>5
<1>7. s = t
  BY <1>3, <1>4, <1>6, SeqEqual
<1> QED BY <1>7 DEF s, t, V

LEMMA RestOfJoined ==
    ASSUME NEW s \in Seq(Nat), NEW t \in Seq(Nat)
    PROVE  SubSeq(s \o t, Len(s) + 1, Len(s \o t)) = t
<1> DEFINE W == s \o t
           a == Len(s)
           d == Len(W)
           r == SubSeq(W, a + 1, d)
<1>1. /\ W \in Seq(Nat) /\ d = Len(s) + Len(t) /\ a \in Nat /\ Len(t) \in Nat
      /\ \A i \in 1..(Len(s) + Len(t)) : W[i] = IF i <= Len(s) THEN s[i] ELSE t[i - Len(s)]
  BY ConcatProperties
<1> HIDE DEF W
<1>2. a \in 0..Len(W) /\ d \in a..Len(W) /\ d - a = Len(t)
  BY <1>1
<1>3. r \in Seq(Nat) /\ Len(r) = Len(t) /\ \A i \in 1..Len(t) : r[i] = W[a + i]
  BY <1>1, <1>2, PartIs, SMTT(30)
<1>4. \A i \in 1..Len(t) : a + i \in 1..(Len(s) + Len(t)) /\ ~(a + i <= Len(s)) /\ (a + i) - Len(s) = i
  BY <1>1
<1> HIDE DEF r
<1>5. \A i \in 1..Len(r) : r[i] = t[i]
  BY <1>1, <1>3, <1>4
<1>6. r = t
  BY <1>3, <1>5, SeqEqual
<1> QED BY <1>6 DEF r, W

(* What is shown of successive messages is a part of what is shown of all. *)
LastOf(ms, g, top) == Len(ms) \in 0..top /\ \A i \in 1..Len(ms) : ms[i].line = g[top - i + 1]

LEMMA FormattedIs ==
    ASSUME NEW n \in Nat, NEW g, NEW c, NEW W, LineHistory(n, g, c, W), NEW top \in 0..n,
           NEW ms, LastOf(ms, g, top)
    PROVE  Formatted(ms) = SubSeq(W, c[top - Len(ms)] + 1, c[top])
<1> DEFINE N == Len(ms)
           a == c[top - N]
           F == [k \in 0..N |-> SubSeq(W, a + 1, c[top - N + k])]
           step(k, s) == LET l == ms[Len(ms) - k + 1].line
                         IN IF l \in QuietLines THEN s ELSE Append(s, l)
           upTo == CHOOSE f : f = [k \in 0..N |-> IF k = 0 THEN <<>> ELSE step(k, f[k - 1])]
<1>1. /\ N \in Nat /\ top - N \in 0..n
      /\ \A k \in 0..N : top - N + k \in 0..n /\ top - N <= top - N + k
      /\ \A k \in 1..N : /\ top - N + k \in 1..n /\ (top - N + k) - 1 = top - N + (k - 1)
                         /\ k - 1 \in 0..N /\ N - k + 1 \in 1..N /\ k # 0
                         /\ top - (N - k + 1) + 1 = top - N + k
  <2>1. N \in 0..top
    BY DEF LastOf
  <2> HIDE DEF N
  <2> QED BY <2>1
<1>2. W \in Seq(Nat) /\ \A q \in 0..n : c[q] \in 0..Len(W)
  <2>1. W \in Seq(Nat) /\ \A q \in 0..n : q <= q
    BY DEF LineHistory
  <2> QED BY <2>1, CountsGrow
<1>3. a \in 0..Len(W) /\ \A k \in 0..N : c[top - N + k] \in a..Len(W)
  <2>1. a \in 0..Len(W) /\ Len(W) \in Nat
    BY <1>1, <1>2
  <2>2. ASSUME NEW k \in 0..N PROVE c[top - N] <= c[top - N + k] /\ c[top - N + k] \in 0..Len(W)
    <3>1. top - N + k \in 0..n /\ top - N <= top - N + k
      BY <1>1
    <3> QED BY <1>1, <3>1, CountsGrow
  <2> QED BY <2>1, <2>2
<1>4. \A k \in 1..N : ms[Len(ms) - k + 1].line = g[top - N + k]
  BY <1>1 DEF LastOf
<1>5. Formatted(ms) = upTo[N]
  BY DEF Formatted
<1> HIDE DEF a
<1>6. F[0] = <<>>
  <2>1. top - N + 0 = top - N /\ 0 \in 0..N
    BY <1>1
  <2>2. F[0] = SubSeq(W, a + 1, a)
    BY <2>1 DEF a
  <2>3. a + 1 \in Int /\ a \in Int /\ a < a + 1
    BY <1>3
  <2> QED BY <2>2, <2>3, SubSeqEmpty
<1>7. ASSUME NEW k \in 1..N PROVE F[k] = step(k, F[k - 1])
  <2> DEFINE q == top - N + k
  <2>1. /\ q \in 1..n /\ q - 1 = top - N + (k - 1) /\ k - 1 \in 0..N /\ k \in 0..N
        /\ ms[Len(ms) - k + 1].line = g[q]
    BY <1>1, <1>4
  <2>2. F[k] = SubSeq(W, a + 1, c[q]) /\ F[k - 1] = SubSeq(W, a + 1, c[q - 1])
    BY <2>1
  <2>3. c[q - 1] \in a..Len(W) /\ c[q] \in a..Len(W) /\ a \in Nat /\ Len(W) \in Nat
    <3>1. /\ \A j \in 0..N : c[top - N + j] \in a..Len(W)
          /\ k \in 0..N /\ k - 1 \in 0..N /\ q - 1 = top - N + (k - 1)
      BY <1>3, <2>1
    <3>2. c[q] \in a..Len(W) /\ c[top - N + (k - 1)] \in a..Len(W)
      BY <3>1
    <3>3. a \in Nat /\ Len(W) \in Nat
      BY <1>2, <1>3
    <3> QED BY <3>1, <3>2, <3>3
  <2> HIDE DEF F, q
  <2>4. CASE g[q] \in QuietLines
    <3>1. c[q] = c[q - 1]
      BY <2>1, <2>4 DEF LineHistory
    <3> QED BY <2>1, <2>2, <2>4, <3>1
  <2>5. CASE g[q] \notin QuietLines
    <3>1. c[q] = c[q - 1] + 1 /\ W[c[q]] = g[q]
      BY <2>1, <2>5 DEF LineHistory
    <3>2. /\ a + 1 \in 1..Len(W) /\ c[q] \in (a + 1)..Len(W) /\ c[q] - 1 = c[q - 1]
      BY <2>3, <3>1
    <3>3. SubSeq(W, a + 1, c[q]) = SubSeq(W, a + 1, c[q - 1]) \o <<W[c[q]]>>
      BY <1>2, <3>2, SubSeqRecursiveSecond
    <3>4. SubSeq(W, a + 1, c[q - 1]) \in Seq(Nat) /\ W[c[q]] \in Nat
      <4>1. c[q] \in 1..Len(W) /\ a \in 0..Len(W)
        BY <2>3, <3>2
      <4>2. SubSeq(W, a + 1, c[q - 1]) \in Seq(Nat)
        BY <1>2, <2>3, <4>1, PartIs
      <4> QED BY <1>2, <4>1, <4>2, ElementOfSeq
    <3>5. SubSeq(W, a + 1, c[q - 1]) \o <<W[c[q]]>> = Append(SubSeq(W, a + 1, c[q - 1]), W[c[q]])
      BY <3>4, AppendIsConcat
    <3> QED BY <2>1, <2>2, <2>5, <3>1, <3>3, <3>5
  <2> QED BY <2>4, <2>5
<1>8. F = [k \in 0..N |-> IF k = 0 THEN <<>> ELSE step(k, F[k - 1])]
  <2>1. \A k \in 0..N : F[k] = IF k = 0 THEN <<>> ELSE step(k, F[k - 1])
    <3>1. \A k \in 0..N : k = 0 \/ k \in 1..N
      BY <1>1
    <3> HIDE DEF F, step
    <3> QED BY <1>6, <1>7, <3>1
  <2> HIDE DEF step
  <2> QED BY <2>1
<1> HIDE DEF N, step
<1>9. upTo = [k \in 0..N |-> IF k = 0 THEN <<>> ELSE step(k, upTo[k - 1])]
  <2> HIDE DEF F
  <2> QED BY <1>8
<1> HIDE DEF upTo, F
<1>10. \A k \in 0..N : k \in {j \in 0..N : upTo[j] = F[j]}
  <2> DEFINE T == {j \in 0..N : upTo[j] = F[j]}
  <2>1. 0 \in T
    BY <1>1, <1>6, <1>9
  <2>2. ASSUME NEW k \in 0..(N - 1), k \in T PROVE k + 1 \in T
    <3>1. k + 1 \in 0..N /\ k + 1 \in 1..N /\ k + 1 # 0 /\ (k + 1) - 1 = k
      BY <1>1
    <3>2. upTo[k + 1] = step(k + 1, upTo[k]) /\ F[k + 1] = step(k + 1, F[k])
      BY <1>7, <1>9, <3>1
    <3>3. upTo[k] = F[k]
      BY <2>2
    <3>4. upTo[k + 1] = F[k + 1]
      BY <3>2, <3>3
    <3> QED BY <3>1, <3>4
  <2> HIDE DEF T
  <2>3. \A k \in 0..N : k \in T
    BY <1>1, <2>1, <2>2, UpTo
  <2> QED BY <2>3 DEF T
<1>11. upTo[N] = F[N] /\ F[N] = SubSeq(W, a + 1, c[top])
  <2>1. N \in 0..N /\ top - N + N = top
    BY <1>1
  <2>2. F[N] = SubSeq(W, a + 1, c[top])
    BY <2>1 DEF F
  <2> QED BY <1>10, <2>1, <2>2
<1> QED BY <1>5, <1>11 DEF a, N

(* What is trimmed is what the last of the messages are shown as.          *)
LEMMA TrimmedIs ==
    ASSUME NEW spans, Len(spans) \in Nat, NEW kept \in 0..Len(spans),
           NEW d \in [kept..Len(spans) -> Nat],
           \A i \in (kept + 1)..Len(spans) : d[i] <= d[i - 1] /\ spans[i] = d[i - 1] - d[i]
    PROVE  Trimmed(spans, kept) = d[kept] - d[Len(spans)]
<1> DEFINE N == Len(spans)
           F == [k \in 0..N |-> IF k <= kept THEN 0 ELSE d[kept] - d[k]]
           sum == CHOOSE f : f = [k \in 0..N |-> IF k <= kept THEN 0 ELSE f[k - 1] + spans[k]]
<1>1. /\ N \in Nat /\ kept \in Nat /\ kept <= N /\ kept \in kept..N /\ N \in kept..N
      /\ \A k \in kept..N : d[k] \in Nat
  OBVIOUS
<1>2. ASSUME NEW k \in 0..N, ~(k <= kept) PROVE F[k] = F[k - 1] + spans[k]
  <2>1. k \in (kept + 1)..N /\ k - 1 \in kept..N /\ k \in kept..N /\ k - 1 \in 0..N
    BY <1>1, <1>2
  <2>2. spans[k] = d[k - 1] - d[k] /\ d[k] \in Nat /\ d[k - 1] \in Nat /\ d[kept] \in Nat
    BY <1>1, <2>1
  <2>3. F[k] = d[kept] - d[k]
    BY <1>2
  <2>4. F[k - 1] = d[kept] - d[k - 1]
    <3>1. CASE k - 1 <= kept
      <4>1. k - 1 = kept
        BY <1>1, <2>1, <3>1
      <4> QED BY <1>1, <2>1, <3>1, <4>1
    <3>2. CASE ~(k - 1 <= kept)
      BY <2>1, <3>2
    <3> QED BY <3>1, <3>2
  <2> QED BY <2>2, <2>3, <2>4
<1>3. \A k \in 0..N : k <= kept => F[k] = 0
  OBVIOUS
<1>4. F[N] = d[kept] - d[N]
  <2>1. CASE N <= kept
    <3>1. N = kept
      BY <1>1, <2>1
    <3> QED BY <1>1, <2>1, <3>1
  <2>2. CASE ~(N <= kept)
    BY <1>1, <2>2
  <2> QED BY <2>1, <2>2
<1>5. F = [k \in 0..N |-> F[k]]
  OBVIOUS
<1>6. Trimmed(spans, kept) = sum[N]
  BY DEF Trimmed
<1> HIDE DEF F, N
<1>7. F = [k \in 0..N |-> IF k <= kept THEN 0 ELSE F[k - 1] + spans[k]]
  <2>1. \A k \in 0..N : F[k] = IF k <= kept THEN 0 ELSE F[k - 1] + spans[k]
    BY <1>2, <1>3
  <2> QED BY <1>5, <2>1
<1>8. sum = [k \in 0..N |-> IF k <= kept THEN 0 ELSE sum[k - 1] + spans[k]]
  BY <1>7
<1> HIDE DEF sum
<1>9. \A k \in 0..N : k \in {j \in 0..N : sum[j] = F[j]}
  <2> DEFINE T == {j \in 0..N : sum[j] = F[j]}
  <2>1. 0 \in T
    <3>1. 0 \in 0..N /\ 0 <= kept
      BY <1>1
    <3> QED BY <1>3, <1>8, <3>1
  <2>2. ASSUME NEW k \in 0..(N - 1), k \in T PROVE k + 1 \in T
    <3>1. k + 1 \in 0..N /\ (k + 1) - 1 = k
      BY <1>1
    <3>2. sum[k] = F[k]
      BY <2>2
    <3>3. sum[k + 1] = F[k + 1]
      <4>1. CASE k + 1 <= kept BY <1>3, <1>8, <3>1, <4>1
      <4>2. CASE ~(k + 1 <= kept)
        <5>1. sum[k + 1] = sum[k] + spans[k + 1]
          BY <1>8, <3>1, <4>2
        <5>2. F[k + 1] = F[k] + spans[k + 1]
          BY <1>2, <3>1, <4>2
        <5> QED BY <3>2, <5>1, <5>2
      <4> QED BY <4>1, <4>2
    <3> QED BY <3>1, <3>3
  <2> HIDE DEF T
  <2>3. \A k \in 0..N : k \in T
    BY <1>1, <2>1, <2>2, UpTo
  <2> QED BY <2>3 DEF T
<1>10. sum[N] = F[N]
  <2>1. N \in 0..N
    BY <1>1
  <2> QED BY <1>9, <2>1
<1> QED BY <1>4, <1>6, <1>10 DEF N

(* What is read of the journal is later than what was made into messages;  *)
(* the messages kept, and those the view holds the spans of, are the last  *)
(* of them, and the view is what those are shown as.                       *)
Capped(n) == IF n > Keep THEN Keep ELSE n
Entries == [seq : Nat, line : Nat]

ChannelAhead(W) ==
    /\ taken \in Nat /\ lines \in Seq(Nat)
    /\ \A i \in 1..Len(lines) : lines[i] <= taken
    /\ \A i, j \in 1..Len(lines) : i < j => lines[i] < lines[j]
    /\ \A w \in 1..Len(W) : W[w] <= taken /\ \A i \in 1..Len(lines) : W[w] < lines[i]

MsgsKept(g) ==
    /\ msgs \in Seq(Entries) /\ Len(msgs) = Capped(seqCursor - 1)
    /\ \A i \in 1..Len(msgs) : msgs[i].seq = seqCursor - i /\ msgs[i].line = g[seqCursor - i]

ViewKept(c, W) ==
    /\ lastSeq \in 0..(seqCursor - 1)
    /\ nrLineSpans \in Seq(Nat) /\ Len(nrLineSpans) = Capped(lastSeq)
    /\ \A i \in 1..Len(nrLineSpans) : nrLineSpans[i] = c[lastSeq - i + 1] - c[lastSeq - i]
    /\ view = SubSeq(W, c[lastSeq - Len(nrLineSpans)] + 1, c[lastSeq])

HistoryKept(g, c, W) ==
    LineHistory(seqCursor - 1, g, c, W) /\ ChannelAhead(W) /\ MsgsKept(g) /\ ViewKept(c, W)

ViewInv ==
    /\ seqCursor \in Nat \ {0} /\ calls \in Nat
    /\ calls = 0 /\ ~skipped => lastSeq = seqCursor - 1
    /\ \E g, c, W : HistoryKept(g, c, W)

LEMMA CappedIs == \A n \in Nat : Capped(n) \in 0..n /\ Capped(n) <= Keep
BY JournalAssumption DEF Capped

LEMMA ViewStarts == JournalInit => ViewInv
<1> SUFFICES ASSUME JournalInit PROVE ViewInv
  OBVIOUS
<1> DEFINE g == [q \in 1..0 |-> 0]
           c == [q \in 0..0 |-> 0]
           W == <<>>
<1>1. /\ g \in [1..0 -> Nat] /\ c \in [0..0 -> Nat] /\ c[0] = 0
      /\ W \in Seq(Nat) /\ Len(W) = 0 /\ SubSeq(W, 1, 0) = <<>>
  <2>1. SubSeq(W, 1, 0) = <<>>
    BY SubSeqEmpty
  <2> QED BY <2>1
<1> HIDE DEF g, c, W
<1>2. LineHistory(0, g, c, W)
  BY <1>1 DEF LineHistory
<1>3. /\ taken = 0 /\ lines = <<>> /\ msgs = <<>> /\ seqCursor = 1 /\ lastSeq = 0
      /\ view = <<>> /\ nrLineSpans = <<>> /\ calls = 0
  BY DEF JournalInit
<1>4. Capped(0) = 0
  BY JournalAssumption DEF Capped
<1>5. ChannelAhead(W)
  BY <1>1, <1>3 DEF ChannelAhead
<1>6. MsgsKept(g)
  BY <1>3, <1>4 DEF MsgsKept
<1>7. ViewKept(c, W)
  <2>1. lastSeq = 0 /\ Len(nrLineSpans) = 0 /\ lastSeq - Len(nrLineSpans) = 0 /\ nrLineSpans \in Seq(Nat)
    <3>1. nrLineSpans = <<>> /\ lastSeq = 0
      BY <1>3
    <3>2. nrLineSpans \in Seq(Nat) /\ Len(nrLineSpans) = 0
      BY <3>1
    <3>3. \A x, y : x = 0 /\ y = 0 => x - y = 0
      OBVIOUS
    <3> QED BY <3>1, <3>2, <3>3, Zenon
  <2>2. c[lastSeq - Len(nrLineSpans)] + 1 = 1 /\ c[lastSeq] = 0
    BY <1>1, <2>1
  <2>3. lastSeq \in 0..(seqCursor - 1) /\ 1..Len(nrLineSpans) = {}
    BY <1>3, <2>1
  <2> QED BY <1>1, <1>3, <1>4, <2>1, <2>2, <2>3 DEF ViewKept
<1>8. seqCursor - 1 = 0
  BY <1>3
<1>9. HistoryKept(g, c, W)
  BY <1>2, <1>5, <1>6, <1>7, <1>8 DEF HistoryKept
<1> QED BY <1>3, <1>8, <1>9 DEF ViewInv

(* What leaves the messages and the view alone.                            *)
LEMMA ViewAside ==
    ASSUME ViewInv, UNCHANGED <<taken, lines, msgs, seqCursor, calls, lastSeq, nrLineSpans, view>>,
           skipped => skipped'
    PROVE  ViewInv'
<1>1. PICK g, c, W : HistoryKept(g, c, W)
  BY DEF ViewInv
<1>2. HistoryKept(g, c, W)'
  BY <1>1 DEF HistoryKept, ChannelAhead, MsgsKept, ViewKept
<1> QED BY <1>2 DEF ViewInv

LEMMA ViewReadLine == ViewInv /\ ReadLine => ViewInv'
<1> SUFFICES ASSUME ViewInv, ReadLine PROVE ViewInv'
  OBVIOUS
<1>1. PICK g, c, W : HistoryKept(g, c, W)
  BY DEF ViewInv
<1>2. /\ taken' = taken + 1 /\ (lines' = Append(lines, taken') \/ lines' = lines)
      /\ UNCHANGED <<msgs, seqCursor, calls, viewVars>>
  BY DEF ReadLine
<1>3. /\ taken \in Nat /\ lines \in Seq(Nat) /\ Len(lines) \in Nat
      /\ \A i \in 1..Len(lines) : lines[i] \in Nat /\ lines[i] <= taken
      /\ \A i, j \in 1..Len(lines) : i < j => lines[i] < lines[j]
      /\ \A w \in 1..Len(W) : W[w] \in Nat /\ W[w] <= taken /\ \A i \in 1..Len(lines) : W[w] < lines[i]
  BY <1>1 DEF HistoryKept, ChannelAhead, LineHistory
<1>4. ChannelAhead(W)'
  <2>1. taken' \in Nat /\ taken < taken'
    BY <1>2, <1>3
  <2>2. CASE lines' = lines BY <1>3, <2>1, <2>2 DEF ChannelAhead
  <2>3. CASE lines' = Append(lines, taken')
    <3>1. /\ lines' \in Seq(Nat) /\ Len(lines') = Len(lines) + 1
          /\ \A i \in 1..Len(lines) : lines'[i] = lines[i]
          /\ lines'[Len(lines) + 1] = taken'
      BY <1>3, <2>1, <2>3
    <3> DEFINE old(i) == i \in 1..Len(lines) /\ lines'[i] = lines[i] /\ lines[i] < taken'
               new(i) == i = Len(lines) + 1 /\ lines'[i] = taken'
    <3>2. ASSUME NEW i \in 1..Len(lines') PROVE old(i) \/ new(i)
      <4>1. i \in 1..Len(lines) \/ i = Len(lines) + 1
        BY <1>3, <3>1
      <4>2. CASE i \in 1..Len(lines) BY <1>3, <2>1, <3>1, <4>2
      <4>3. CASE i = Len(lines) + 1 BY <3>1, <4>3
      <4> QED BY <4>1, <4>2, <4>3
    <3>3. \A i \in 1..Len(lines') : lines'[i] <= taken'
      BY <1>3, <2>1, <3>2, SMTT(20)
    <3>4. ASSUME NEW i \in 1..Len(lines'), NEW j \in 1..Len(lines'), i < j
          PROVE  lines'[i] < lines'[j]
      <4>1. old(i)
        BY <1>3, <3>1, <3>2, <3>4
      <4> QED BY <1>3, <3>2, <3>4, <4>1
    <3>5. ASSUME NEW w \in 1..Len(W)
          PROVE  W[w] <= taken' /\ \A i \in 1..Len(lines') : W[w] < lines'[i]
      <4>1. W[w] \in Nat /\ W[w] <= taken
        BY <1>3
      <4>2. W[w] <= taken' /\ W[w] < taken'
        BY <1>3, <2>1, <4>1
      <4>3. \A i \in 1..Len(lines) : W[w] < lines[i]
        BY <1>3
      <4> QED BY <3>2, <4>2, <4>3
    <3> QED BY <2>1, <3>1, <3>3, <3>4, <3>5 DEF ChannelAhead
  <2> QED BY <1>2, <2>2, <2>3
<1>5. HistoryKept(g, c, W)'
  BY <1>1, <1>2, <1>4 DEF HistoryKept, MsgsKept, ViewKept, viewVars
<1> QED BY <1>2, <1>5 DEF ViewInv, viewVars

LEMMA ViewLeave == ViewInv /\ Leave => ViewInv'
<1> SUFFICES ASSUME ViewInv, Leave PROVE ViewInv'
  OBVIOUS
<1>1. PICK g, c, W : HistoryKept(g, c, W)
  BY DEF ViewInv
<1>2. lines' = <<>> /\ UNCHANGED <<taken, msgs, seqCursor, calls, viewVars>>
  BY DEF Leave
<1>3. ChannelAhead(W)'
  BY <1>1, <1>2 DEF HistoryKept, ChannelAhead
<1>4. HistoryKept(g, c, W)'
  BY <1>1, <1>2, <1>3 DEF HistoryKept, MsgsKept, ViewKept, viewVars
<1> QED BY <1>2, <1>4 DEF ViewInv, viewVars

(* The history grows by a message, of line l.                              *)
GrownBy(n, g, c, W, l, g2, c2, W2) ==
    /\ LineHistory(n + 1, g2, c2, W2)
    /\ g2[n + 1] = l /\ \A q \in 1..n : g2[q] = g[q]
    /\ \A q \in 0..n : c2[q] = c[q]
    /\ Len(W) <= Len(W2) /\ \A w \in 1..Len(W) : W2[w] = W[w]
    /\ \A w \in 1..Len(W2) : w \in 1..Len(W) \/ W2[w] = l

LEMMA HistoryGrows ==
    ASSUME NEW n \in Nat, NEW g, NEW c, NEW W, LineHistory(n, g, c, W),
           NEW l \in Nat, \A w \in 1..Len(W) : W[w] < l
    PROVE  \E g2, c2, W2 : GrownBy(n, g, c, W, l, g2, c2, W2)
<1> DEFINE quiet == l \in QuietLines
           g2 == [q \in 1..(n + 1) |-> IF q = n + 1 THEN l ELSE g[q]]
           c2 == [q \in 0..(n + 1) |-> IF q # n + 1 THEN c[q] ELSE IF quiet THEN c[n] ELSE c[n] + 1]
           W2 == IF quiet THEN W ELSE Append(W, l)
<1>1. /\ g \in [1..n -> Nat] /\ c \in [0..n -> Nat] /\ W \in Seq(Nat) /\ Len(W) \in Nat
      /\ c[0] = 0 /\ c[n] = Len(W) /\ c[n] \in Nat
      /\ \A q \in 1..n : IF g[q] \in QuietLines THEN c[q] = c[q - 1]
                         ELSE c[q] = c[q - 1] + 1 /\ W[c[q]] = g[q]
      /\ \A i, j \in 1..Len(W) : i < j => W[i] < W[j]
  BY DEF LineHistory
<1>2. /\ \A q \in 1..(n + 1) : q = n + 1 \/ q \in 1..n
      /\ \A q \in 0..(n + 1) : q = n + 1 \/ q \in 0..n
      /\ \A q \in 0..n : q # n + 1 /\ q \in 0..(n + 1)
      /\ \A q \in 1..n : q # n + 1 /\ q \in 1..(n + 1) /\ q \in 0..n /\ q - 1 \in 0..n
      /\ n + 1 \in 1..(n + 1) /\ n + 1 \in 0..(n + 1) /\ (n + 1) - 1 = n /\ n \in 0..n /\ 0 \in 0..n
  OBVIOUS
<1>3. g2 \in [1..(n + 1) -> Nat] /\ g2[n + 1] = l /\ \A q \in 1..n : g2[q] = g[q]
  BY <1>1, <1>2
<1>4. /\ c2 \in [0..(n + 1) -> Nat] /\ \A q \in 0..n : c2[q] = c[q]
      /\ c2[n + 1] = IF quiet THEN c[n] ELSE c[n] + 1
  <2>1. c[n] \in Nat /\ c[n] + 1 \in Nat /\ \A q \in 0..n : c[q] \in Nat
    BY <1>1
  <2> QED BY <1>2, <2>1
<1>5. /\ W2 \in Seq(Nat) /\ Len(W2) = IF quiet THEN Len(W) ELSE Len(W) + 1
      /\ \A w \in 1..Len(W) : W2[w] = W[w]
      /\ ~quiet => W2[Len(W) + 1] = l
  <2>1. /\ Append(W, l) \in Seq(Nat) /\ Len(Append(W, l)) = Len(W) + 1
        /\ \A w \in 1..Len(W) : Append(W, l)[w] = W[w]
        /\ Append(W, l)[Len(W) + 1] = l
    BY <1>1
  <2> HIDE DEF quiet
  <2>2. CASE quiet BY <1>1, <2>2
  <2>3. CASE ~quiet BY <2>1, <2>3
  <2> QED BY <2>2, <2>3
<1> HIDE DEF g2, c2, W2
<1>6. \A w \in 1..Len(W2) : w \in 1..Len(W) \/ (~quiet /\ w = Len(W) + 1)
  BY <1>1, <1>5
<1>7. LineHistory(n + 1, g2, c2, W2)
  <2>1. c2[0] = 0 /\ c2[n + 1] = Len(W2)
    BY <1>1, <1>2, <1>4, <1>5
  <2>2. ASSUME NEW q \in 1..(n + 1)
        PROVE  IF g2[q] \in QuietLines THEN c2[q] = c2[q - 1]
               ELSE c2[q] = c2[q - 1] + 1 /\ W2[c2[q]] = g2[q]
    <3>1. CASE q \in 1..n
      <4>1. g2[q] = g[q] /\ c2[q] = c[q] /\ c2[q - 1] = c[q - 1]
        BY <1>2, <1>3, <1>4, <3>1
      <4>2. g[q] \notin QuietLines => c[q] \in 1..Len(W)
        <5>1. q <= q /\ q \in 0..n /\ q - 1 \in 0..n
          BY <1>2, <3>1
        <5>2. c[q] \in 0..Len(W) /\ c[q - 1] \in Nat
          BY <1>1, <5>1, CountsGrow
        <5>3. g[q] \notin QuietLines => c[q] = c[q - 1] + 1
          BY <1>1, <3>1
        <5> QED BY <1>1, <5>2, <5>3
      <4>3. IF g[q] \in QuietLines THEN c[q] = c[q - 1] ELSE c[q] = c[q - 1] + 1 /\ W[c[q]] = g[q]
        BY <1>1, <3>1
      <4> QED BY <1>5, <4>1, <4>2, <4>3
    <3>2. CASE q = n + 1
      <4>1. g2[q] = l /\ c2[q] = (IF quiet THEN c[n] ELSE c[n] + 1) /\ c2[q - 1] = c[n]
        BY <1>2, <1>3, <1>4, <3>2
      <4> QED BY <1>1, <1>5, <4>1
    <3> QED BY <1>2, <3>1, <3>2
  <2>3. ASSUME NEW i \in 1..Len(W2), NEW j \in 1..Len(W2), i < j PROVE W2[i] < W2[j]
    <3>1. i \in 1..Len(W) /\ W2[i] = W[i]
      BY <1>1, <1>5, <1>6, <2>3
    <3>2. CASE j \in 1..Len(W) BY <1>1, <1>5, <2>3, <3>1, <3>2
    <3>3. CASE j \notin 1..Len(W)
      <4>1. W2[j] = l
        BY <1>5, <1>6, <3>3
      <4> QED BY <3>1, <4>1
    <3> QED BY <3>2, <3>3
  <2> QED BY <1>3, <1>4, <1>5, <2>1, <2>2, <2>3 DEF LineHistory
<1>8. \A w \in 1..Len(W2) : w \in 1..Len(W) \/ W2[w] = l
  BY <1>5, <1>6
<1>9. Len(W) <= Len(W2)
  BY <1>1, <1>5
<1> WITNESS g2, c2, W2
<1> QED BY <1>3, <1>4, <1>5, <1>7, <1>8, <1>9 DEF GrownBy

LEMMA PartOfLonger ==
    ASSUME NEW W \in Seq(Nat), NEW V \in Seq(Nat), Len(W) <= Len(V),
           \A w \in 1..Len(W) : V[w] = W[w], NEW a \in 0..Len(W), NEW b \in a..Len(W)
    PROVE  SubSeq(V, a + 1, b) = SubSeq(W, a + 1, b)
<1> DEFINE s == SubSeq(V, a + 1, b)
           t == SubSeq(W, a + 1, b)
<1>1. a \in 0..Len(V) /\ b \in a..Len(V) /\ \A i \in 1..(b - a) : a + i \in 1..Len(W)
  BY LenProperties
<1>2. s \in Seq(Nat) /\ Len(s) = b - a /\ \A i \in 1..(b - a) : s[i] = V[a + i]
  BY <1>1, PartIs
<1>3. t \in Seq(Nat) /\ Len(t) = b - a /\ \A i \in 1..(b - a) : t[i] = W[a + i]
  BY PartIs
<1> HIDE DEF s, t
<1>4. \A i \in 1..Len(s) : s[i] = t[i]
  BY <1>1, <1>2, <1>3
<1>5. s = t
  BY <1>2, <1>3, <1>4, SeqEqual
<1> QED BY <1>5 DEF s, t

LEMMA ViewProcess == ViewInv /\ Process => ViewInv'
<1> SUFFICES ASSUME ViewInv, Process PROVE ViewInv'
  OBVIOUS
<1> DEFINE n == seqCursor - 1
           l == Head(lines)
<1>1. PICK g, c, W : HistoryKept(g, c, W)
  BY DEF ViewInv
<1>2. /\ lines # <<>> /\ lines' = Tail(lines) /\ UNCHANGED <<taken, viewVars>>
      /\ n \in Nat /\ seqCursor \in Nat /\ calls \in Nat
  BY DEF Process, ViewInv
<1>3. /\ LineHistory(n, g, c, W) /\ W \in Seq(Nat) /\ Len(W) \in Nat /\ \A w \in 1..Len(W) : W[w] \in Nat
      /\ taken \in Nat /\ lines \in Seq(Nat)
      /\ \A i \in 1..Len(lines) : lines[i] \in Nat /\ lines[i] <= taken
      /\ \A i, j \in 1..Len(lines) : i < j => lines[i] < lines[j]
      /\ \A w \in 1..Len(W) : W[w] <= taken /\ \A i \in 1..Len(lines) : W[w] < lines[i]
  BY <1>1 DEF HistoryKept, ChannelAhead, LineHistory
<1>4. /\ Len(lines) \in Nat /\ 1 \in 1..Len(lines) /\ l = lines[1] /\ l \in Nat /\ l <= taken
      /\ lines' \in Seq(Nat) /\ Len(lines') = Len(lines) - 1
      /\ \A i \in 1..Len(lines') : lines'[i] = lines[i + 1] /\ i + 1 \in 1..Len(lines) /\ 1 < i + 1
  <2>1. Len(lines) \in Nat /\ 1 \in 1..Len(lines) /\ l = lines[1]
    BY <1>2, <1>3
  <2>2. /\ lines' \in Seq(Nat) /\ Len(lines') = Len(lines) - 1
        /\ \A i \in 1..Len(lines') : lines'[i] = lines[i + 1]
    BY <1>2, <1>3, HeadTailProperties
  <2>3. \A i \in 1..(Len(lines) - 1) : i + 1 \in 1..Len(lines) /\ 1 < i + 1
    BY <2>1
  <2> QED BY <1>3, <2>1, <2>2, <2>3
<1>5. /\ \A i \in 1..Len(lines') : lines'[i] \in Nat /\ lines'[i] <= taken /\ l < lines'[i]
      /\ \A i, j \in 1..Len(lines') : i < j => lines'[i] < lines'[j]
      /\ \A w \in 1..Len(W) : W[w] < l /\ \A i \in 1..Len(lines') : W[w] < lines'[i]
  <2>1. \A i, j \in 1..Len(lines') : i < j => i + 1 < j + 1
    BY <1>4
  <2> QED BY <1>3, <1>4, <2>1
<1> HIDE DEF l
<1>6. CASE l \in BadLines
  <2>1. UNCHANGED <<msgs, seqCursor, calls>>
    BY <1>6 DEF Process, l
  <2>2. ChannelAhead(W)'
    BY <1>2, <1>3, <1>4, <1>5 DEF ChannelAhead
  <2>3. HistoryKept(g, c, W)'
    BY <1>1, <1>2, <2>1, <2>2 DEF HistoryKept, MsgsKept, ViewKept, viewVars
  <2> QED BY <1>2, <2>1, <2>3 DEF ViewInv, viewVars
<1>7. CASE l \notin BadLines
  <2> DEFINE new == [seq |-> seqCursor, line |-> l]
             all == <<new>> \o msgs
             upto == IF Len(all) > Keep THEN Keep ELSE Len(all)
  <2>1. /\ seqCursor' = seqCursor + 1 /\ calls' = calls + 1 /\ msgs' = SubSeq(all, 1, upto)
    BY <1>7 DEF Process, l
  <2>0. PICK g2, c2, W2 : GrownBy(n, g, c, W, l, g2, c2, W2)
    <3>1. n \in Nat /\ LineHistory(n, g, c, W) /\ l \in Nat /\ \A w \in 1..Len(W) : W[w] < l
      BY <1>2, <1>3, <1>4, <1>5
    <3> HIDE DEF n
    <3> QED BY <3>1, HistoryGrows
  <2>2. /\ LineHistory(n + 1, g2, c2, W2)
        /\ g2[n + 1] = l /\ \A q \in 1..n : g2[q] = g[q]
        /\ \A q \in 0..n : c2[q] = c[q]
        /\ Len(W) <= Len(W2) /\ \A w \in 1..Len(W) : W2[w] = W[w]
        /\ \A w \in 1..Len(W2) : w \in 1..Len(W) \/ W2[w] = l
    BY <2>0 DEF GrownBy
  <2>3. n + 1 = seqCursor' - 1 /\ seqCursor' \in Nat \ {0} /\ calls' \in Nat /\ calls' # 0
    BY <1>2, <2>1
  <2>4. ChannelAhead(W2)'
    <3>1. ASSUME NEW w \in 1..Len(W2)
          PROVE  W2[w] <= taken /\ \A i \in 1..Len(lines') : W2[w] < lines'[i]
      <4>1. CASE w \in 1..Len(W) BY <1>3, <1>5, <2>2, <4>1
      <4>2. CASE W2[w] = l BY <1>4, <1>5, <4>2
      <4> QED BY <2>2, <4>1, <4>2
    <3>2. taken' = taken
      BY <1>2
    <3> QED BY <1>3, <1>4, <1>5, <3>1, <3>2 DEF ChannelAhead
  <2>5. MsgsKept(g2)'
    <3>1. /\ msgs \in Seq(Entries) /\ Len(msgs) = Capped(n) /\ Len(msgs) \in Nat
          /\ \A i \in 1..Len(msgs) : msgs[i].seq = seqCursor - i /\ msgs[i].line = g[seqCursor - i]
      BY <1>1 DEF HistoryKept, MsgsKept
    <3>2. new \in Entries /\ new.seq = seqCursor /\ new.line = l
      BY <1>2, <1>4 DEF Entries
    <3> HIDE DEF new
    <3>3. /\ all \in Seq(Entries) /\ Len(all) = Len(msgs) + 1 /\ all[1] = new
          /\ \A i \in 2..(Len(msgs) + 1) : all[i] = msgs[i - 1]
      BY <3>1, <3>2
    <3> HIDE DEF all
    <3>4. upto = Capped(n + 1) /\ upto \in 1..Len(all)
      <4>1. n \in Nat /\ Keep \in Nat /\ Keep > 0
        BY <1>2, JournalAssumption
      <4> HIDE DEF n
      <4>2. Len(all) = (IF n > Keep THEN Keep ELSE n) + 1
        BY <3>1, <3>3 DEF Capped
      <4>3. Capped(n + 1) = IF n + 1 > Keep THEN Keep ELSE n + 1
        BY DEF Capped
      <4> QED BY <4>1, <4>2, <4>3
    <3> HIDE DEF upto
    <3>5. /\ msgs' \in Seq(Entries) /\ Len(msgs') = upto
          /\ \A i \in 1..upto : msgs'[i] = all[i]
      <4>1. upto \in Nat /\ \A i \in 1..upto : i \in 1..Len(all) /\ 1 + i - 1 = i
        BY <3>1, <3>3, <3>4
      <4>2. \A i \in 1..upto : all[i] \in Entries
        BY <3>3, <4>1, ElementOfSeq
      <4>3. /\ msgs' \in Seq(Entries) /\ Len(msgs') = (IF 1 <= upto THEN upto - 1 + 1 ELSE 0)
            /\ \A i \in 1..(upto - 1 + 1) : msgs'[i] = all[1 + i - 1]
        BY <2>1, <4>1, <4>2, SubSeqProperties
      <4> QED BY <3>4, <4>1, <4>3
    <3>6. ASSUME NEW i \in 1..upto
          PROVE  msgs'[i].seq = seqCursor' - i /\ msgs'[i].line = g2[seqCursor' - i]
      <4>1. CASE i = 1
        <5>1. seqCursor' - i = seqCursor /\ seqCursor = n + 1
          BY <1>2, <2>1, <4>1
        <5> QED BY <2>2, <3>2, <3>3, <3>5, <4>1, <5>1
      <4>2. CASE i # 1
        <5>1. i \in 2..(Len(msgs) + 1) /\ i - 1 \in 1..Len(msgs) /\ seqCursor' - i = seqCursor - (i - 1)
          BY <1>2, <2>1, <3>1, <3>3, <3>4, <4>2
        <5>2. msgs'[i].seq = seqCursor' - i /\ msgs'[i].line = g[seqCursor' - i]
          BY <3>1, <3>3, <3>5, <5>1
        <5>3. seqCursor - (i - 1) \in 1..n
          <6>1. Capped(n) <= n
            BY <1>2, CappedIs
          <6> QED BY <1>2, <3>1, <5>1, <6>1
        <5> QED BY <2>2, <5>1, <5>2, <5>3
      <4> QED BY <4>1, <4>2
    <3> QED BY <2>3, <3>4, <3>5, <3>6 DEF MsgsKept
  <2>6. ViewKept(c2, W2)'
    <3> DEFINE L == Len(nrLineSpans)
    <3>1. ViewKept(c, W) /\ UNCHANGED <<lastSeq, nrLineSpans, view>>
      BY <1>1, <1>2 DEF HistoryKept, viewVars
    <3>2. /\ lastSeq \in 0..n /\ L = Capped(lastSeq) /\ nrLineSpans \in Seq(Nat)
          /\ \A i \in 1..L : nrLineSpans[i] = c[lastSeq - i + 1] - c[lastSeq - i]
          /\ view = SubSeq(W, c[lastSeq - L] + 1, c[lastSeq])
      BY <3>1 DEF ViewKept
    <3>3. L \in 0..lastSeq
      BY <3>2, CappedIs
    <3>4. /\ lastSeq - L \in 0..n /\ lastSeq - L <= lastSeq /\ lastSeq \in 0..n
          /\ \A i \in 1..L : lastSeq - i + 1 \in 0..n /\ lastSeq - i \in 0..n
      BY <1>2, <3>2, <3>3
    <3>5. c[lastSeq - L] \in 0..Len(W) /\ c[lastSeq] \in c[lastSeq - L]..Len(W)
      BY <1>2, <1>3, <3>4, CountsGrow
    <3>6. SubSeq(W2, c[lastSeq - L] + 1, c[lastSeq]) = view
      <4>1. W2 \in Seq(Nat)
        BY <2>2 DEF LineHistory
      <4> QED BY <1>3, <2>2, <3>2, <3>5, <4>1, PartOfLonger
    <3>7. lastSeq \in 0..(seqCursor' - 1)
      <4>1. \A m \in Nat : \A x \in 0..m : x \in 0..(m + 1)
        OBVIOUS
      <4>2. lastSeq \in 0..(n + 1)
        BY <1>2, <3>2, <4>1
      <4> QED BY <2>3, <4>2
    <3> HIDE DEF L
    <3>8. /\ c2[lastSeq - L] = c[lastSeq - L] /\ c2[lastSeq] = c[lastSeq]
          /\ \A i \in 1..L : c2[lastSeq - i + 1] = c[lastSeq - i + 1] /\ c2[lastSeq - i] = c[lastSeq - i]
      BY <2>2, <3>4
    <3> QED BY <3>1, <3>2, <3>6, <3>7, <3>8 DEF ViewKept, L
  <2>7. HistoryKept(g2, c2, W2)'
    BY <2>2, <2>3, <2>4, <2>5, <2>6 DEF HistoryKept
  <2> QED BY <2>3, <2>7 DEF ViewInv
<1> QED BY <1>6, <1>7

LEMMA ViewRefresh == ViewInv /\ Refresh => ViewInv'
<1> SUFFICES ASSUME ViewInv, Refresh PROVE ViewInv'
  OBVIOUS
<1>1. PICK g, c, W : HistoryKept(g, c, W)
  BY DEF ViewInv
<1>2. /\ calls \in Nat /\ calls > 0 /\ calls' = calls - 1 /\ seqCursor \in Nat \ {0}
      /\ UNCHANGED <<taken, lines, msgs, seqCursor>>
  BY DEF Refresh, tailerVars, ViewInv
<1>3. calls' \in Nat
  BY <1>2
<1>4. ChannelAhead(W)' /\ MsgsKept(g)' /\ seqCursor' = seqCursor
  BY <1>1, <1>2, SMTT(20) DEF HistoryKept, ChannelAhead, MsgsKept
<1>5. CASE ~atBottom \/ closed
  <2>1. skipped' = TRUE /\ UNCHANGED <<lastSeq, view, nrLineSpans>>
    BY <1>5 DEF Refresh
  <2>2. HistoryKept(g, c, W)'
    BY <1>1, <1>4, <2>1 DEF HistoryKept, ViewKept
  <2> QED BY <1>2, <1>3, <2>1, <2>2 DEF ViewInv
<1>6. CASE ~(~atBottom \/ closed)
  <2> DEFINE n == seqCursor - 1
             newest == IF msgs = <<>> THEN 0 ELSE msgs[1].seq
             nrNew == IF newest > lastSeq THEN newest - lastSeq ELSE 0
             new == SubSeq(msgs, 1, IF nrNew > Len(msgs) THEN Len(msgs) ELSE nrNew)
             spans == [i \in DOMAIN new |-> IF new[i].line \in QuietLines THEN 0 ELSE 1]
             all == spans \o nrLineSpans
             kept == IF Len(all) > Keep THEN Keep ELSE Len(all)
             full == view \o Formatted(new)
             L == Len(nrLineSpans)
             M == Len(msgs)
             m == IF nrNew > M THEN M ELSE nrNew
  <2>1. /\ lastSeq' = lastSeq + nrNew /\ nrLineSpans' = SubSeq(all, 1, kept)
        /\ view' = SubSeq(full, Trimmed(all, kept) + 1, Len(full)) /\ skipped' = FALSE
    BY <1>6 DEF Refresh, NewSeq
  <2>2. /\ n \in Nat /\ Keep \in Nat \ {0} /\ LineHistory(n, g, c, W) /\ W \in Seq(Nat) /\ Len(W) \in Nat
        /\ msgs \in Seq(Entries) /\ M = Capped(n)
        /\ \A i \in 1..M : msgs[i].seq = n - i + 1 /\ msgs[i].line = g[n - i + 1]
    <3>1. n \in Nat /\ \A i \in Nat : seqCursor - i = n - i + 1
      BY <1>2
    <3>2. LineHistory(n, g, c, W) /\ MsgsKept(g)
      BY <1>1 DEF HistoryKept
    <3>3. msgs \in Seq(Entries) /\ M = Capped(n) /\ M \in Nat
      BY <3>2 DEF MsgsKept
    <3>4. \A i \in 1..M : msgs[i].seq = seqCursor - i /\ msgs[i].line = g[seqCursor - i]
      BY <3>2 DEF MsgsKept
    <3>5. \A i \in 1..M : seqCursor - i = n - i + 1
      BY <3>1, <3>3
    <3>6. W \in Seq(Nat) /\ Len(W) \in Nat
      BY <3>2 DEF LineHistory
    <3> HIDE DEF n
    <3> QED BY <3>1, <3>2, <3>3, <3>4, <3>5, <3>6, JournalAssumption
  <2>3. /\ lastSeq \in 0..n /\ nrLineSpans \in Seq(Nat) /\ L = Capped(lastSeq)
        /\ \A i \in 1..L : nrLineSpans[i] = c[lastSeq - i + 1] - c[lastSeq - i]
        /\ view = SubSeq(W, c[lastSeq - L] + 1, c[lastSeq])
    BY <1>1 DEF HistoryKept, ViewKept
  <2>4. /\ M = (IF n > Keep THEN Keep ELSE n) /\ L = (IF lastSeq > Keep THEN Keep ELSE lastSeq)
        /\ M \in 0..n /\ L \in 0..lastSeq /\ lastSeq \in Nat
    BY <2>2, <2>3 DEF Capped
  <2>5. newest = n /\ nrNew = n - lastSeq
    <3> HIDE DEF n
    <3>1. CASE msgs = <<>>
      <4>1. M = 0
        BY <3>1
      <4> QED BY <2>2, <2>4, <2>3, <3>1, <4>1
    <3>2. CASE msgs # <<>>
      <4>1. M \in Nat /\ M # 0
        BY <2>2, <3>2, EmptySeq, LenProperties
      <4>2. msgs[1].seq = n
        BY <2>2, <4>1
      <4> QED BY <2>2, <2>3, <3>2, <4>2
    <3> QED BY <3>1, <3>2
  <2> HIDE DEF n, newest
  <2>6. /\ nrNew \in 0..n /\ m \in 0..M /\ m <= nrNew /\ m = Len(new) /\ DOMAIN new = 1..m
        /\ \A i \in 1..m : new[i].line = g[n - i + 1]
    <3>1. nrNew \in 0..n /\ m \in 0..M /\ m <= nrNew /\ m \in Nat
      BY <2>2, <2>3, <2>4, <2>5
    <3> HIDE DEF m, nrNew
    <3>2. \A i \in 1..m : i \in 1..M /\ 1 + i - 1 = i
      BY <2>4, <3>1
    <3>3. \A i \in 1..m : msgs[i] \in Entries
      BY <2>2, <3>2, ElementOfSeq
    <3>4. new = SubSeq(msgs, 1, m)
      BY DEF m
    <3> HIDE DEF new
    <3>5. /\ new \in Seq(Entries) /\ Len(new) = (IF 1 <= m THEN m - 1 + 1 ELSE 0)
          /\ \A i \in 1..(m - 1 + 1) : new[i] = msgs[1 + i - 1]
      BY <3>1, <3>3, <3>4, SubSeqProperties
    <3>6. Len(new) = m /\ \A i \in 1..m : new[i] = msgs[i]
      BY <3>1, <3>2, <3>5
    <3>7. DOMAIN new = 1..m
      BY <3>5, <3>6, LenProperties
    <3> QED BY <2>2, <3>1, <3>2, <3>6, <3>7
  <2>7. \A i \in 1..m : n - i + 1 \in 1..n /\ (n - i + 1) - 1 = n - i
    BY <2>2, <2>4, <2>6
  <2>8. \A p \in 0..n : \A q \in 0..n : p <= q =>
           /\ c[p] <= c[q] /\ c[q] - c[p] <= q - p
           /\ c[p] \in 0..Len(W) /\ c[q] \in c[p]..Len(W)
    <3> TAKE p \in 0..n
    <3> TAKE q \in 0..n
    <3> HAVE p <= q
    <3>1. c[p] <= c[q] /\ c[q] - c[p] <= q - p /\ c[p] \in 0..Len(W) /\ c[q] \in 0..Len(W)
      BY <2>2, CountsGrow
    <3> QED BY <2>2, <3>1
  <2>9. Formatted(new) = SubSeq(W, c[n - m] + 1, c[n])
    <3>1. Len(new) \in 0..n /\ n \in 0..n /\ \A i \in 1..Len(new) : new[i].line = g[n - i + 1]
      BY <2>2, <2>4, <2>6
    <3> HIDE DEF m, new
    <3>2. Formatted(new) = SubSeq(W, c[n - Len(new)] + 1, c[n])
      <4>1. n \in Nat /\ LineHistory(n, g, c, W) /\ LastOf(new, g, n)
        BY <2>2, <3>1 DEF LastOf
      <4> QED BY <3>1, <4>1, FormattedIs
    <3> QED BY <2>6, <3>2
  <2>10. /\ spans \in Seq(Nat) /\ Len(spans) = m
         /\ \A i \in 1..m : spans[i] = c[n - i + 1] - c[n - i]
    <3> HIDE DEF m, new
    <3>1. spans \in [1..m -> Nat] /\ m \in Nat
      BY <2>6
    <3>2. ASSUME NEW i \in 1..m PROVE spans[i] = c[n - i + 1] - c[n - i]
      <4>1. /\ spans[i] = IF g[n - i + 1] \in QuietLines THEN 0 ELSE 1
        BY <2>6
      <4>2. /\ n - i + 1 \in 1..n /\ (n - i + 1) - 1 = n - i /\ n - i \in 0..n /\ n - i + 1 \in 0..n
        BY <2>2, <2>7
      <4>3. c[n - i] \in Nat /\ c[n - i + 1] \in Nat
        BY <2>2, <4>2 DEF LineHistory
      <4>4. IF g[n - i + 1] \in QuietLines THEN c[n - i + 1] = c[n - i] ELSE c[n - i + 1] = c[n - i] + 1
        BY <2>2, <4>2 DEF LineHistory
      <4> QED BY <4>1, <4>3, <4>4
    <3> HIDE DEF spans
    <3>3. spans \in Seq(Nat)
      BY <3>1, IsASeq
    <3>4. Len(spans) = m
      BY <3>1, <3>3, LenProperties
    <3> QED BY <3>2, <3>3, <3>4
  <2> HIDE DEF new, nrNew, m, spans
  <2>11. /\ all \in Seq(Nat) /\ Len(all) = m + L /\ m \in Nat /\ L \in Nat
         /\ \A i \in 1..(m + L) : all[i] = IF i <= m THEN spans[i] ELSE nrLineSpans[i - m]
    <3>1. spans \in Seq(Nat) /\ nrLineSpans \in Seq(Nat) /\ Len(spans) = m /\ m \in Nat /\ L \in Nat
      BY <2>3, <2>4, <2>6, <2>10
    <3>2. /\ spans \o nrLineSpans \in Seq(Nat) /\ Len(spans \o nrLineSpans) = Len(spans) + L
          /\ \A i \in 1..(Len(spans) + L) :
                (spans \o nrLineSpans)[i] = IF i <= Len(spans) THEN spans[i]
                                           ELSE nrLineSpans[i - Len(spans)]
      BY <3>1, ConcatProperties, ZenonT(60)
    <3> QED BY <3>1, <3>2
  <2>12. lastSeq' = n
    BY <2>1, <2>2, <2>3, <2>5
  <2> HIDE DEF all
  <2>13. kept = Capped(n) /\ kept \in 0..Len(all) /\ (m # nrNew => m = Keep /\ kept = m)
    <3>1. nrNew = n - lastSeq /\ m = (IF nrNew > M THEN M ELSE nrNew)
      BY <2>5 DEF m
    <3> QED BY <2>2, <2>4, <2>11, <3>1 DEF Capped
  <2> HIDE DEF kept
  <2>14. /\ kept \in Nat /\ nrLineSpans' \in Seq(Nat) /\ Len(nrLineSpans') = kept
         /\ \A i \in 1..kept : nrLineSpans'[i] = all[i]
    <3>1. kept \in Nat /\ \A i \in 1..kept : i \in 1..Len(all) /\ 1 + i - 1 = i
      BY <2>11, <2>13
    <3>2. \A i \in 1..kept : all[i] \in Nat
      BY <2>11, <3>1, ElementOfSeq
    <3>3. /\ nrLineSpans' \in Seq(Nat) /\ Len(nrLineSpans') = (IF 1 <= kept THEN kept - 1 + 1 ELSE 0)
          /\ \A i \in 1..(kept - 1 + 1) : nrLineSpans'[i] = all[1 + i - 1]
      BY <2>1, <3>1, <3>2, SubSeqProperties
    <3> QED BY <3>1, <3>3
  <2>15. /\ \A i \in 1..kept : all[i] = c[n - i + 1] - c[n - i]
         /\ view' = SubSeq(W, c[n - kept] + 1, c[n])
    <3>1. /\ n - kept \in 0..n /\ n - m \in 0..n /\ lastSeq \in 0..n /\ lastSeq - L \in 0..n
          /\ lastSeq - L <= lastSeq /\ n \in 0..n /\ n - kept <= n /\ n - m <= n
      <4>1. kept \in 0..n /\ m \in 0..n /\ n \in Nat
        BY <2>2, <2>4, <2>6, <2>13, CappedIs
      <4> QED BY <2>3, <2>4, <4>1
    <3>2. /\ c[lastSeq - L] \in 0..Len(W) /\ c[lastSeq] \in c[lastSeq - L]..Len(W)
          /\ c[n - m] \in 0..Len(W) /\ c[n] \in c[n - m]..Len(W)
      BY <2>8, <3>1
    <3>3. /\ view \in Seq(Nat) /\ Len(view) = c[lastSeq] - c[lastSeq - L]
          /\ Formatted(new) \in Seq(Nat) /\ Len(Formatted(new)) = c[n] - c[n - m]
      <4>1. \A a \in 0..Len(W) : \A b \in a..Len(W) :
               SubSeq(W, a + 1, b) \in Seq(Nat) /\ Len(SubSeq(W, a + 1, b)) = b - a
        BY <2>2, PartIs
      <4>2. /\ SubSeq(W, c[lastSeq - L] + 1, c[lastSeq]) \in Seq(Nat)
            /\ Len(SubSeq(W, c[lastSeq - L] + 1, c[lastSeq])) = c[lastSeq] - c[lastSeq - L]
        BY <3>2, <4>1, ZenonT(60)
      <4>3. /\ SubSeq(W, c[n - m] + 1, c[n]) \in Seq(Nat)
            /\ Len(SubSeq(W, c[n - m] + 1, c[n])) = c[n] - c[n - m]
        BY <3>2, <4>1, ZenonT(60)
      <4> QED BY <2>3, <2>9, <4>2, <4>3, ZenonT(60)
    <3>4. CASE m = nrNew
      <4>1. n - m = lastSeq /\ lastSeq - L = n - (m + L) /\ m + L \in 0..n /\ kept \in 0..(m + L)
        BY <2>2, <2>3, <2>4, <2>5, <2>11, <2>13, <3>4
      <4>2. ASSUME NEW i \in 1..(m + L) PROVE all[i] = c[n - i + 1] - c[n - i]
        <5>1. CASE i <= m
          <6>1. i \in 1..m
            BY <2>11, <5>1
          <6> QED BY <2>10, <2>11, <5>1, <6>1
        <5>2. CASE ~(i <= m)
          <6>1. /\ i - m \in 1..L /\ lastSeq - (i - m) = n - i /\ lastSeq - (i - m) + 1 = n - i + 1
            BY <2>2, <2>11, <4>1, <5>2, SMTT(30)
          <6>2. all[i] = nrLineSpans[i - m]
            BY <2>11, <5>2
          <6> QED BY <2>3, <6>1, <6>2
        <5> QED BY <5>1, <5>2
      <4> DEFINE d == [i \in kept..Len(all) |-> c[n - i]]
      <4>3. Trimmed(all, kept) = c[n - kept] - c[lastSeq - L]
        <5>1. /\ \A i \in kept..Len(all) : n - i \in 0..n
              /\ kept \in kept..Len(all) /\ Len(all) \in kept..Len(all) /\ Len(all) \in Nat
              /\ \A i \in (kept + 1)..Len(all) :
                    /\ i - 1 \in kept..Len(all) /\ i \in kept..Len(all) /\ i \in 1..(m + L)
                    /\ n - (i - 1) = n - i + 1 /\ n - i <= n - i + 1 /\ n - i + 1 \in 0..n
          <6>1. /\ n \in Nat /\ m + L \in 0..n /\ Len(all) = m + L /\ kept \in 0..(m + L)
                /\ m + L \in Nat
            BY <2>2, <2>11, <2>13, <4>1
          <6> DEFINE N == m + L
          <6> HIDE DEF N
          <6>2. \A i \in kept..N : n - i \in 0..n
            BY <6>1 DEF N
          <6>3. kept \in kept..N /\ N \in kept..N /\ N \in Nat
            BY <6>1 DEF N
          <6>4. \A i \in (kept + 1)..N :
                   i - 1 \in kept..N /\ i \in kept..N /\ i \in 1..N
            BY <6>1 DEF N
          <6>5. \A i \in (kept + 1)..N :
                   n - (i - 1) = n - i + 1 /\ n - i <= n - i + 1 /\ n - i + 1 \in 0..n
            BY <6>1 DEF N
          <6>6. Len(all) = N
            BY <6>1 DEF N
          <6> QED BY <6>2, <6>3, <6>4, <6>5, <6>6 DEF N
        <5>2. d \in [kept..Len(all) -> Nat]
          BY <2>2, <5>1 DEF LineHistory
        <5>3. d[kept] = c[n - kept] /\ d[Len(all)] = c[lastSeq - L]
          BY <2>11, <4>1, <5>1
        <5>4. ASSUME NEW i \in (kept + 1)..Len(all)
              PROVE  d[i] <= d[i - 1] /\ all[i] = d[i - 1] - d[i]
          <6>1. d[i] = c[n - i] /\ d[i - 1] = c[n - i + 1]
            BY <5>1
          <6>2. c[n - i] <= c[n - i + 1]
            BY <2>8, <5>1
          <6> QED BY <4>2, <5>1, <6>1, <6>2
        <5> HIDE DEF d
        <5>5. Trimmed(all, kept) = d[kept] - d[Len(all)]
          BY <2>13, <5>1, <5>2, <5>4, TrimmedIs
        <5> QED BY <5>3, <5>5
      <4>4. full = SubSeq(W, c[lastSeq - L] + 1, c[n])
        <5>1. full = SubSeq(W, c[lastSeq - L] + 1, c[lastSeq]) \o SubSeq(W, c[lastSeq] + 1, c[n])
          BY <2>3, <2>9, <4>1, ZenonT(60)
        <5>2. c[lastSeq] \in c[lastSeq - L]..Len(W) /\ c[n] \in c[lastSeq]..Len(W)
          BY <3>2, <4>1
        <5> QED BY <2>2, <3>2, <5>1, <5>2, PartsJoin, ZenonT(60)
      <4>5. /\ c[n - kept] \in c[lastSeq - L]..Len(W) /\ c[n] \in c[n - kept]..Len(W)
            /\ c[lastSeq - L] \in 0..Len(W) /\ c[n] \in c[lastSeq - L]..Len(W)
        <5>1. lastSeq - L <= n - kept /\ lastSeq - L <= n
          BY <2>2, <2>11, <3>1, <4>1
        <5> QED BY <2>8, <3>1, <5>1
      <4>6. Len(full) = c[n] - c[lastSeq - L]
        <5>1. \A a \in 0..Len(W) : \A b \in a..Len(W) : Len(SubSeq(W, a + 1, b)) = b - a
          BY <2>2, PartIs
        <5>2. Len(SubSeq(W, c[lastSeq - L] + 1, c[n])) = c[n] - c[lastSeq - L]
          BY <4>5, <5>1, ZenonT(60)
        <5> QED BY <4>4, <5>2, ZenonT(60)
      <4>7. view' = SubSeq(SubSeq(W, c[lastSeq - L] + 1, c[n]),
                           (c[n - kept] - c[lastSeq - L]) + 1, c[n] - c[lastSeq - L])
        BY <2>1, <4>3, <4>4, <4>6
      <4>8. view' = SubSeq(W, c[n - kept] + 1, c[n])
        BY <2>2, <4>5, <4>7, PartOfPart
      <4>9. \A i \in 1..kept : i \in 1..(m + L)
        BY <2>11, <4>1
      <4> QED BY <4>2, <4>8, <4>9
    <3>5. CASE m # nrNew
      <4>1. m = Keep /\ kept = m
        BY <2>13, <3>5
      <4>2. \A i \in 1..kept : all[i] = c[n - i + 1] - c[n - i]
        <5>1. \A i \in 1..m : i <= m /\ i \in 1..(m + L)
          BY <2>11
        <5> QED BY <2>10, <2>11, <4>1, <5>1
      <4> DEFINE d == [i \in kept..Len(all) |-> c[lastSeq - (i - m)]]
      <4>3. Trimmed(all, kept) = Len(view)
        <5>1. /\ \A i \in kept..Len(all) : lastSeq - (i - m) \in 0..n
              /\ kept \in kept..Len(all) /\ Len(all) \in kept..Len(all) /\ Len(all) \in Nat
              /\ \A i \in (kept + 1)..Len(all) :
                    /\ i - 1 \in kept..Len(all) /\ i \in kept..Len(all) /\ i \in 1..(m + L)
                    /\ ~(i <= m) /\ i - m \in 1..L
                    /\ lastSeq - ((i - 1) - m) = lastSeq - (i - m) + 1
                    /\ lastSeq - (i - m) <= lastSeq - (i - m) + 1 /\ lastSeq - (i - m) + 1 \in 0..n
              /\ lastSeq - (kept - m) = lastSeq /\ lastSeq - (Len(all) - m) = lastSeq - L
          <6>1. /\ n \in Nat /\ lastSeq \in 0..n /\ L \in 0..lastSeq /\ m \in Nat
                /\ kept = m /\ Len(all) = m + L
            BY <2>2, <2>3, <2>4, <2>11, <2>13, <4>1
          <6> HIDE DEF L
          <6>2. \A i \in kept..Len(all) : lastSeq - (i - m) \in 0..n
            BY <6>1
          <6>3. /\ kept \in kept..Len(all) /\ Len(all) \in kept..Len(all) /\ Len(all) \in Nat
                /\ lastSeq - (kept - m) = lastSeq /\ lastSeq - (Len(all) - m) = lastSeq - L
            BY <6>1
          <6>4. \A i \in (kept + 1)..Len(all) :
                    /\ i - 1 \in kept..Len(all) /\ i \in kept..Len(all) /\ i \in 1..(m + L)
                    /\ ~(i <= m) /\ i - m \in 1..L
            BY <6>1
          <6>5. \A i \in (kept + 1)..Len(all) :
                    /\ lastSeq - ((i - 1) - m) = lastSeq - (i - m) + 1
                    /\ lastSeq - (i - m) <= lastSeq - (i - m) + 1 /\ lastSeq - (i - m) + 1 \in 0..n
            BY <6>1
          <6> QED BY <6>2, <6>3, <6>4, <6>5
        <5>2. d \in [kept..Len(all) -> Nat]
          BY <2>2, <5>1 DEF LineHistory
        <5>3. d[kept] = c[lastSeq] /\ d[Len(all)] = c[lastSeq - L]
          BY <5>1
        <5>4. ASSUME NEW i \in (kept + 1)..Len(all)
              PROVE  d[i] <= d[i - 1] /\ all[i] = d[i - 1] - d[i]
          <6>1. d[i] = c[lastSeq - (i - m)] /\ d[i - 1] = c[lastSeq - (i - m) + 1]
            BY <5>1
          <6>2. c[lastSeq - (i - m)] <= c[lastSeq - (i - m) + 1]
            BY <2>8, <5>1
          <6>3. all[i] = nrLineSpans[i - m] /\ i - m \in 1..L
            BY <2>11, <5>1
          <6> QED BY <2>3, <6>1, <6>2, <6>3
        <5> HIDE DEF d
        <5>5. Trimmed(all, kept) = d[kept] - d[Len(all)]
          BY <2>13, <5>1, <5>2, <5>4, TrimmedIs
        <5> QED BY <3>3, <5>3, <5>5
      <4>4. view' = Formatted(new)
        BY <2>1, <3>3, <4>3, RestOfJoined
      <4> QED BY <2>9, <4>1, <4>2, <4>4
    <3> QED BY <3>4, <3>5
  <2>16. ViewKept(c, W)'
    <3>1. lastSeq' \in 0..(seqCursor' - 1)
      BY <1>4, <2>2, <2>12 DEF n
    <3>2. c[n - kept] = c[lastSeq' - Len(nrLineSpans')]
      BY <2>12, <2>14
    <3>3. Len(nrLineSpans') = Capped(lastSeq')
      BY <2>12, <2>13, <2>14
    <3>4. \A i \in 1..Len(nrLineSpans') : nrLineSpans'[i] = c[lastSeq' - i + 1] - c[lastSeq' - i]
      BY <2>12, <2>14, <2>15
    <3>5. view' = SubSeq(W, c[lastSeq' - Len(nrLineSpans')] + 1, c[lastSeq'])
      BY <2>12, <2>15, <3>2
    <3> QED BY <2>14, <3>1, <3>3, <3>4, <3>5 DEF ViewKept
  <2>17. HistoryKept(g, c, W)'
    BY <1>1, <1>4, <2>16 DEF HistoryKept
  <2> QED BY <1>2, <1>3, <2>12, <2>17 DEF ViewInv, n
<1> QED BY <1>5, <1>6, SMTT(20)

LEMMA ViewStep == ViewInv /\ [JournalNext]_journalVars => ViewInv'
<1> SUFFICES ASSUME ViewInv, [JournalNext]_journalVars PROVE ViewInv'
  OBVIOUS
<1>1. CASE \/ Log \/ JournalctlDies \/ ReadEnd \/ Reap \/ DropTailer \/ Scroll
           \/ UNCHANGED journalVars
  <2>1. UNCHANGED <<taken, lines, msgs, seqCursor, calls, lastSeq, nrLineSpans, view, skipped>>
    BY <1>1 DEF Log, JournalctlDies, ReadEnd, Reap, DropTailer, Scroll, journalVars, tailerVars, viewVars
  <2> QED
    BY <2>1, ViewAside
<1> QED
  BY <1>1, ViewReadLine, ViewProcess, ViewLeave, ViewRefresh DEF JournalNext, TailerThreads

(* What a view that has kept up shows.                                     *)
LEMMA ViewShows == ViewInv => ViewCurrent
<1> SUFFICES ASSUME ViewInv PROVE ViewCurrent
  OBVIOUS
<1>1. PICK g, c, W : HistoryKept(g, c, W)
  BY DEF ViewInv
<1> DEFINE n == seqCursor - 1
           L == Len(nrLineSpans)
           a == c[lastSeq - L]
           b == c[lastSeq]
<1>2. n \in Nat /\ LineHistory(n, g, c, W) /\ MsgsKept(g) /\ ViewKept(c, W)
  BY <1>1 DEF HistoryKept, ViewInv
<1>3. /\ lastSeq \in 0..n /\ lastSeq \in Nat /\ L = Capped(lastSeq) /\ view = SubSeq(W, a + 1, b)
      /\ msgs \in Seq(Entries) /\ Len(msgs) = Capped(n)
      /\ \A i \in 1..Len(msgs) : msgs[i].line = g[seqCursor - i]
  BY <1>2 DEF ViewKept, MsgsKept
<1>4. L \in 0..lastSeq /\ L <= Keep /\ Len(msgs) \in 0..n
  BY <1>2, <1>3, CappedIs
<1>5. lastSeq - L \in 0..n /\ lastSeq - L <= lastSeq /\ lastSeq - (lastSeq - L) = L
  <2> HIDE DEF n, L
  <2> QED BY <1>2, <1>3, <1>4
<1>6. calls = 0 /\ ~skipped => lastSeq = n
  BY DEF ViewInv
<1>7. \A i \in Nat : seqCursor - i = n - i + 1
  BY <1>2 DEF ViewInv
<1> HIDE DEF n
<1>8. W \in Seq(Nat) /\ Len(W) \in Nat /\ \A i, j \in 1..Len(W) : i < j => W[i] < W[j]
  BY <1>2 DEF LineHistory
<1>9. \A p \in 0..n : \A q \in 0..n : p <= q =>
           c[p] <= c[q] /\ c[q] - c[p] <= q - p /\ c[p] \in 0..Len(W) /\ c[q] \in 0..Len(W)
  BY <1>2, CountsGrow
<1>10. a <= b /\ b - a <= L /\ a \in 0..Len(W) /\ b \in 0..Len(W)
  BY <1>3, <1>5, <1>9
<1> HIDE DEF a, b, L
<1>11. /\ view \in Seq(Nat) /\ Len(view) = b - a /\ \A i \in 1..(b - a) : view[i] = W[a + i]
       /\ b - a \in Nat
  <2>1. b \in a..Len(W) /\ b - a \in Nat
    BY <1>10, <1>8
  <2> QED BY <1>3, <1>8, <1>10, <2>1, PartIs
<1>12. \A i, j \in DOMAIN view : i < j => view[i] < view[j]
  <2>1. DOMAIN view = 1..(b - a)
    BY <1>11, LenProperties
  <2> SUFFICES ASSUME NEW i \in 1..(b - a), NEW j \in 1..(b - a), i < j
               PROVE  view[i] < view[j]
    BY <2>1
  <2>2. a + i \in 1..Len(W) /\ a + j \in 1..Len(W) /\ a + i < a + j
    BY <1>8, <1>10
  <2>3. W[a + i] < W[a + j]
    BY <1>8, <2>2
  <2> QED BY <1>11, <2>3
<1>13. Len(view) <= Keep
  BY <1>4, <1>10, <1>11, JournalAssumption
<1>14. ASSUME calls = 0, ~skipped PROVE view = Displayed
  <2>1. lastSeq = n /\ L = Len(msgs) /\ n \in 0..n
    BY <1>2, <1>3, <1>6, <1>14
  <2>2. \A i \in 1..Len(msgs) : i \in Nat /\ msgs[i].line = g[n - i + 1]
    BY <1>3, <1>4, <1>7
  <2>3. LastOf(msgs, g, n)
    BY <1>4, <2>2 DEF LastOf
  <2>4. Formatted(msgs) = SubSeq(W, c[n - Len(msgs)] + 1, c[n])
    BY <1>2, <2>1, <2>3, FormattedIs
  <2> QED BY <1>3, <2>1, <2>4 DEF Displayed, a, b
<1> QED BY <1>12, <1>13, <1>14 DEF ViewCurrent

(* The view of resctl-demo shows the journal's messages in order and each  *)
(* once, never more than the retention, and once no refresh is outstanding *)
(* just what the tailer keeps, whatever was dropped while the user had     *)
(* scrolled away (UpdaterInner::refresh in resctl-demo's journal.rs); and, *)
(* while the tailer runs and no line waits for its worker, a progress bar  *)
(* shows the message made of the newest line, though of several queued     *)
(* lines only the last sets it (JournalTailWorker::process in              *)
(* journal_tailer.rs, BenchProgress in progress.rs).                       *)
THEOREM JournalIsShown == JournalSpec => []JournalShown
<1>1. JournalInit => BarFresh /\ ViewInv
  BY ViewStarts DEF JournalInit, BarFresh
<1>2. BarFresh /\ ViewInv => JournalShown
  BY ViewShows DEF BarFresh, BarNewest, JournalShown
<1> QED
  BY <1>1, <1>2, JournalStep, ViewStep, PTL DEF JournalSpec

=============================================================================
