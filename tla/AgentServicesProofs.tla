------------------------ MODULE AgentServicesProofs ------------------------
(***************************************************************************)
(* Proofs about the parts of rd-agent that drive systemd services and      *)
(* system settings, for every bound on faults, sessions and commands.      *)
(***************************************************************************)
EXTENDS SideRunner, TransientUnit, HashdSet, ServiceConfig, AgentSession, TLAPS,
        WellFoundedInduction

-----------------------------------------------------------------------------
(* The system settings, AgentSession.                                      *)

Allowed == [iocost |-> {"off", "on", "user"}, iosched |-> {"none", "mq"},
            wbt |-> {"off", "on"}, swap |-> {"low", "ok", "asked"},
            zswap |-> {"Y", "N"}, oomd |-> {"running", "stopped"}]

(* The settings of the system, as a function of their names.               *)
LEMMA SettingsOf ==
    ASSUME NEW r \in Values
    PROVE  /\ DOMAIN r = Settings /\ r = [s \in Settings |-> r[s]]
           /\ \A s \in Settings : r[s] \in Allowed[s] /\ r[s] # NoOne
<1>1. DOMAIN r = Settings /\ r = [s \in Settings |-> r[s]]
  BY DEF Values, Settings
<1>2. \A s \in Settings : r[s] \in Allowed[s]
  BY DEF Values, Settings, Allowed
<1>3. \A s \in Settings : NoOne \notin Allowed[s]
  <2>1. /\ NoOne \notin Allowed.iocost /\ NoOne \notin Allowed.iosched
        /\ NoOne \notin Allowed.wbt /\ NoOne \notin Allowed.swap
        /\ NoOne \notin Allowed.zswap /\ NoOne \notin Allowed.oomd
    BY DEF Allowed, NoOne
  <2> QED BY <2>1 DEF Settings
<1> QED BY <1>1, <1>2, <1>3

LEMMA SetOne ==
    ASSUME NEW r \in Values, NEW s \in Settings, NEW v \in Allowed[s]
    PROVE  /\ [r EXCEPT ![s] = v] \in Values
           /\ [r EXCEPT ![s] = v][s] = v
           /\ \A t \in Settings \ {s} : [r EXCEPT ![s] = v][t] = r[t]
BY DEF Values, Settings, Allowed

LEMMA SetAll ==
    ASSUME NEW f, \A s \in Settings : f[s] \in Allowed[s]
    PROVE  [s \in Settings |-> f[s]] \in Values
BY DEF Values, Settings, Allowed

SettingsTyped ==
    /\ sys \in Values /\ found \in Values
    /\ DOMAIN saved = Settings
    /\ \A s \in Settings : saved[s] = NoOne \/ saved[s] \in Allowed[s]
    /\ cmdSwap \in {NoOne, "low", "asked"} /\ writeFaults \in Nat

(* Where startup has not come to save a setting yet.                       *)
Early == {"init", "controllers", "iocost", "fs", "iosched"}
NotYet == [iocost |-> {"init"}, iosched |-> Early, wbt |-> Early \cup {"wbt"},
           swap |-> Early \cup {"wbt", "swapdev", "swap"},
           zswap |-> Early \cup {"wbt", "swapdev", "swap", "zswap"},
           oomd |-> Early \cup {"wbt", "swapdev", "swap", "zswap", "oomd"}]
SavedInv == \A s \in Settings : mainPc \in NotYet[s] => saved[s] = NoOne

(* What is left of a setting before it is put back, and what of io.cost    *)
(* and the others once one of the destructors has run.                     *)
Found(s) == saved[s] = found[s] \/ (saved[s] = NoOne /\ sys[s] = found[s])
Checked == {"wbt", "swapdev", "swap", "zswap", "oomd", "critical", "device"}
Launched == {"objs", "apply", "run"}
KeptInv ==
    writeFaults = 0 =>
      /\ mainPc \notin {"down", "init"} => saved["iocost"] # NoOne
      /\ mainPc \in Checked /\ Enforce("io") => saved["iosched"] # NoOne
      /\ mainPc \in Launched /\ Enforce("io") => saved["iosched"] # NoOne \/ opts.force
      /\ mainPc \in Startup => \A s \in Settings : Found(s)
      /\ mainPc \in Launched \cup {"prepared", "config", "refused"} =>
            \A s \in Settings \ Unguarded : Found(s)
      /\ mainPc = "lastconfig" =>
            /\ saved["iocost"] = found["iocost"] /\ sys["iocost"] = found["iocost"]
            /\ \A s \in Settings \ Unguarded : Found(s)
      /\ mainPc = "iocostsave" =>
            /\ saved["iocost"] = found["iocost"]
            /\ \A s \in Settings \ {"iocost"} : s \notin Unguarded => sys[s] = found[s]
      /\ LeftAsFound
SessionInv == SettingsTyped /\ SavedInv /\ KeptInv

LEMMA WriteOne ==
    ASSUME SettingsTyped, NEW s \in Settings, NEW v \in Allowed[s], Write(s, v)
    PROVE  /\ sys' \in Values /\ writeFaults' \in Nat
           /\ writeFaults' = 0 => writeFaults = 0
           /\ \A t \in Settings \ {s} : sys'[t] = sys[t]
<1>1. CASE sys' = [sys EXCEPT ![s] = v] /\ UNCHANGED writeFaults
  <2>1. /\ [sys EXCEPT ![s] = v] \in Values
        /\ \A t \in Settings \ {s} : [sys EXCEPT ![s] = v][t] = sys[t]
    BY SetOne DEF SettingsTyped
  <2> QED BY <1>1, <2>1 DEF SettingsTyped
<1>2. CASE WriteFault /\ UNCHANGED sys
  BY <1>2 DEF SettingsTyped, WriteFault
<1> QED BY <1>1, <1>2 DEF Write

LEMMA SaveOne ==
    ASSUME SettingsTyped, NEW s \in Settings, Save(s)
    PROVE  /\ DOMAIN saved' = Settings
           /\ saved'[s] = sys[s] /\ saved'[s] # NoOne
           /\ \A t \in Settings \ {s} : saved'[t] = saved[t]
           /\ \A t \in Settings : saved'[t] = NoOne \/ saved'[t] \in Allowed[t]
BY SettingsOf DEF SettingsTyped, Save

LEMMA SessionStarts == SessionInit => SessionInv
<1> SUFFICES ASSUME SessionInit PROVE SessionInv
  OBVIOUS
<1>1. sys \in Values /\ found = sys
  BY DEF SessionInit, Values
<1>2. SettingsTyped
  BY <1>1 DEF SettingsTyped, SessionInit, NothingSaved
<1>3. SavedInv
  BY DEF SavedInv, NotYet, Early, Settings, SessionInit, NothingSaved
<1>4. KeptInv
  BY <1>1 DEF KeptInv, LeftAsFound, SessionInit, Startup, Checked, Launched
<1> QED BY <1>2, <1>3, <1>4 DEF SessionInv

(* A setting that is saved as it was found may be changed.                 *)
LEMMA Saved ==
    ASSUME SettingsTyped, NEW s \in Settings, saved[s] = NoOne, Save(s),
           UNCHANGED found, \A t \in Settings : Found(t),
           \A t \in Settings \ {s} : sys'[t] = sys[t]
    PROVE  \A t \in Settings : Found(t)'
<1>1. saved'[s] = found'[s]
  BY SaveOne, SettingsOf DEF Found, SettingsTyped
<1>2. \A t \in Settings \ {s} : saved'[t] = saved[t]
  BY SaveOne
<1> QED BY <1>1, <1>2 DEF Found

Startups ==
    \/ ReadIoCost \/ CheckControllers \/ CheckIoCost \/ CheckFs \/ CheckIosched \/ CheckWbt
    \/ CheckSwapDevs \/ CheckSwap \/ SaveZswap \/ CheckOomd \/ CheckHostCritical

(* What a step of startup does to the settings: nothing; it saves one for  *)
(* the first time and may write it; it enables io.cost, saved before; or   *)
(* it does not succeed.                                                    *)
Looks == UNCHANGED <<sys, saved, writeFaults>>
Takes(s, v) == mainPc \in NotYet[s] /\ mainPc' \notin NotYet[s] /\ Save(s) /\ (Write(s, v) \/ Unwritten)
Enables(v) == mainPc = "iocost" /\ UNCHANGED saved /\ Write("iocost", v)
Fumbles == UNCHANGED saved /\ WriteFault /\ sys' \in {sys, [sys EXCEPT !["iosched"] = "none"]}

LEMMA SettingNames ==
    /\ "iocost" \in Settings /\ "iosched" \in Settings /\ "wbt" \in Settings
    /\ "swap" \in Settings /\ "zswap" \in Settings /\ "oomd" \in Settings
    /\ "on" \in Allowed["iocost"] /\ "user" \in Allowed["iocost"]
    /\ "none" \in Allowed["iosched"] /\ "off" \in Allowed["wbt"] /\ "ok" \in Allowed["swap"]
    /\ "Y" \in Allowed["zswap"] /\ "stopped" \in Allowed["oomd"]
BY DEF Settings, Allowed

LEMMA StartupEffect ==
    ASSUME Startups
    PROVE  /\ UNCHANGED <<found, opts, cmdSwap>>
           /\ \/ Looks
              \/ \E s \in Settings : \E v \in Allowed[s] : Takes(s, v)
              \/ \E v \in Allowed["iocost"] : Enables(v)
              \/ Fumbles
<1> USE DEF StartupStep, Unwritten, OnlyRead
<1>0. UNCHANGED <<found, opts, cmdSwap>>
  BY DEF Startups, ReadIoCost, CheckControllers, CheckIoCost, CheckFs, CheckIosched, CheckWbt,
     CheckSwapDevs, CheckSwap, SaveZswap, CheckOomd, CheckHostCritical
<1>1. CASE CheckControllers \/ CheckFs \/ CheckSwapDevs \/ CheckHostCritical
  BY <1>0, <1>1 DEF CheckControllers, CheckFs, CheckSwapDevs, CheckHostCritical, Looks
<1>2. CASE ReadIoCost
  <2>1. ASSUME Save("iocost"), UNCHANGED writeFaults PROVE Takes("iocost", "on")
    BY <1>2, <2>1 DEF ReadIoCost, Takes, NotYet
  <2> QED BY <1>0, <1>2, <2>1, SettingNames DEF ReadIoCost, Fumbles
<1>3. CASE CheckIoCost
  <2>1. ASSUME NEW v, Write("iocost", v) PROVE Enables(v)
    BY <1>3, <2>1 DEF CheckIoCost, Enables
  <2> QED BY <1>0, <1>3, <2>1, SettingNames DEF CheckIoCost, Looks
<1>4. CASE CheckIosched
  <2>1. ASSUME Save("iosched"), Write("iosched", "none") PROVE Takes("iosched", "none")
    BY <1>4, <2>1 DEF CheckIosched, Takes, NotYet, Early
  <2> QED BY <1>0, <1>4, <2>1, SettingNames DEF CheckIosched, Looks, Fumbles
<1>5. CASE CheckWbt
  <2>1. ASSUME Save("wbt"), Write("wbt", "off"), mainPc = "wbt", mainPc' = "swapdev"
        PROVE Takes("wbt", "off")
    BY <2>1 DEF Takes, NotYet, Early
  <2> QED BY <1>0, <1>5, <2>1, SettingNames DEF CheckWbt, Looks
<1>6. CASE CheckSwap
  <2>1. ASSUME Save("swap"), Write("swap", "ok") \/ Unwritten PROVE Takes("swap", "ok")
    BY <1>6, <2>1 DEF CheckSwap, Takes, NotYet, Early
  <2> QED BY <1>0, <1>6, <2>1, SettingNames DEF CheckSwap, Looks
<1>7. CASE SaveZswap
  <2>1. ASSUME Save("zswap") PROVE Takes("zswap", "Y")
    BY <1>7, <2>1 DEF SaveZswap, Takes, NotYet, Early
  <2> QED BY <1>0, <1>7, <2>1, SettingNames DEF SaveZswap, Looks
<1>8. CASE CheckOomd
  <2>1. ASSUME Save("oomd"), Write("oomd", "stopped") PROVE Takes("oomd", "stopped")
    BY <1>8, <2>1 DEF CheckOomd, Takes, NotYet, Early
  <2> QED BY <1>0, <1>8, <2>1, SettingNames DEF CheckOomd, Looks
<1> QED BY <1>1, <1>2, <1>3, <1>4, <1>5, <1>6, <1>7, <1>8 DEF Startups

(* Where it goes: never back to where a setting is still to be saved, and  *)
(* on from the io scheduler with that one saved.                           *)
LEMMA StartupMoves ==
    ASSUME Startups
    PROVE  /\ mainPc \in Startup /\ mainPc' \in Startup \cup {"refused"}
           /\ \A s \in Settings : mainPc' \in NotYet[s] => mainPc \in NotYet[s]
           /\ mainPc' # "init"
           /\ mainPc = "init" => Save("iocost") \/ writeFaults' = writeFaults + 1
           /\ mainPc' \in Checked /\ Enforce("io") =>
                 mainPc \in Checked \/ Save("iosched") \/ writeFaults' = writeFaults + 1
<1> USE DEF StartupStep
<1> DEFINE Goes(from, to) == mainPc = from /\ mainPc' \in to
<1>1. \/ Goes("init", {"controllers"})
      \/ Goes("controllers", {"iocost", "failed", "refused"})
      \/ Goes("iocost", {"fs"})
      \/ Goes("fs", {"iosched"})
      \/ Goes("iosched", {"wbt"})
      \/ Goes("wbt", {"swapdev", "failed"})
      \/ Goes("swapdev", {"swap", "failed"})
      \/ Goes("swap", {"zswap"})
      \/ Goes("zswap", {"oomd"})
      \/ Goes("oomd", {"critical"})
      \/ Goes("critical", {"device"})
  <2>1. /\ ReadIoCost => Goes("init", {"controllers"})
        /\ CheckControllers => Goes("controllers", {"iocost", "failed", "refused"})
        /\ CheckIoCost => Goes("iocost", {"fs"})
        /\ CheckFs => Goes("fs", {"iosched"})
        /\ CheckIosched => Goes("iosched", {"wbt"})
    BY DEF ReadIoCost, CheckControllers, CheckIoCost, CheckFs, CheckIosched
  <2>2. /\ CheckWbt => Goes("wbt", {"swapdev", "failed"})
        /\ CheckSwapDevs => Goes("swapdev", {"swap", "failed"})
        /\ CheckSwap => Goes("swap", {"zswap"})
        /\ SaveZswap => Goes("zswap", {"oomd"})
        /\ CheckOomd => Goes("oomd", {"critical"})
        /\ CheckHostCritical => Goes("critical", {"device"})
    BY DEF CheckWbt, CheckSwapDevs, CheckSwap, SaveZswap, CheckOomd, CheckHostCritical
  <2> QED BY <2>1, <2>2 DEF Startups
<1>2. mainPc \in Startup /\ mainPc' \in Startup \cup {"refused"} /\ mainPc' # "init"
  BY <1>1 DEF Startup
<1>3. ASSUME NEW s \in Settings, mainPc' \in NotYet[s] PROVE mainPc \in NotYet[s]
  BY <1>1, <1>3 DEF NotYet, Early, Settings
<1>4. mainPc = "init" => Save("iocost") \/ writeFaults' = writeFaults + 1
  BY DEF Startups, ReadIoCost, CheckControllers, CheckIoCost, CheckFs, CheckIosched, CheckWbt,
     CheckSwapDevs, CheckSwap, SaveZswap, CheckOomd, CheckHostCritical, WriteFault
<1>5. mainPc = "iosched" /\ Enforce("io") => Save("iosched") \/ writeFaults' = writeFaults + 1
  <2>1. mainPc = "iosched" => CheckIosched
    BY DEF Startups, ReadIoCost, CheckControllers, CheckIoCost, CheckFs, CheckWbt,
       CheckSwapDevs, CheckSwap, SaveZswap, CheckOomd, CheckHostCritical
  <2> QED BY <2>1 DEF CheckIosched, WriteFault
<1>6. mainPc' \in Checked => mainPc \in Checked \/ mainPc = "iosched"
  BY <1>1 DEF Checked
<1> QED BY <1>2, <1>3, <1>4, <1>5, <1>6

LEMMA StartupTyped == SettingsTyped /\ Startups => SettingsTyped'
<1> SUFFICES ASSUME SettingsTyped, Startups PROVE SettingsTyped'
  OBVIOUS
<1>0. UNCHANGED <<found, opts, cmdSwap>>
  BY StartupEffect
<1>1. CASE Looks
  BY <1>0, <1>1 DEF Looks, SettingsTyped
<1>2. ASSUME NEW s \in Settings, NEW v \in Allowed[s], Takes(s, v) PROVE SettingsTyped'
  <2>1. sys' \in Values /\ writeFaults' \in Nat
    BY <1>2, WriteOne DEF Takes, Unwritten, SettingsTyped
  <2>2. /\ DOMAIN saved' = Settings
        /\ \A t \in Settings : saved'[t] = NoOne \/ saved'[t] \in Allowed[t]
    BY <1>2, SaveOne DEF Takes
  <2> QED BY <1>0, <2>1, <2>2 DEF SettingsTyped
<1>3. ASSUME NEW v \in Allowed["iocost"], Enables(v) PROVE SettingsTyped'
  BY <1>0, <1>3, WriteOne, SettingNames DEF Enables, SettingsTyped
<1>4. CASE Fumbles
  <2>1. sys' \in Values
    BY <1>4, SetOne, SettingNames DEF Fumbles, SettingsTyped
  <2> QED BY <1>0, <1>4, <2>1 DEF Fumbles, WriteFault, SettingsTyped
<1> QED BY <1>1, <1>2, <1>3, <1>4, StartupEffect

LEMMA StartupSaves == SessionInv /\ Startups => SavedInv'
<1> SUFFICES ASSUME SessionInv, Startups, NEW t \in Settings, mainPc' \in NotYet[t]
             PROVE  saved'[t] = NoOne
  BY DEF SavedInv, NotYet
<1> USE DEF SessionInv
<1>0. mainPc \in NotYet[t] /\ saved[t] = NoOne
  BY StartupMoves DEF SavedInv
<1>1. ASSUME NEW s \in Settings, NEW v \in Allowed[s], Takes(s, v) PROVE saved'[t] = NoOne
  BY <1>0, <1>1, SaveOne DEF Takes
<1>2. Looks \/ Fumbles \/ (\E v \in Allowed["iocost"] : Enables(v)) => UNCHANGED saved
  BY DEF Looks, Fumbles, Enables
<1> QED BY <1>0, <1>1, <1>2, StartupEffect

LEMMA StartupKeeps == SessionInv /\ Startups => KeptInv'
<1> SUFFICES ASSUME SessionInv, Startups, writeFaults' = 0 PROVE KeptInv'
  BY DEF KeptInv
<1> USE DEF SessionInv
<1>0. UNCHANGED <<found, opts, cmdSwap>> /\ ~Fumbles
  BY StartupEffect DEF Fumbles, WriteFault, SettingsTyped
<1>1. writeFaults = 0
  <2>1. ASSUME NEW s \in Settings, NEW v \in Allowed[s], Takes(s, v) PROVE writeFaults = 0
    BY <2>1, WriteOne DEF Takes, Unwritten
  <2>2. ASSUME NEW v \in Allowed["iocost"], Enables(v) PROVE writeFaults = 0
    BY <2>2, WriteOne, SettingNames DEF Enables
  <2> QED BY <1>0, <2>1, <2>2, StartupEffect DEF Looks
<1>m. /\ mainPc \in Startup /\ mainPc' \in Startup \cup {"refused"} /\ mainPc' # "init"
      /\ mainPc = "init" => Save("iocost")
      /\ mainPc' \in Checked /\ Enforce("io") => mainPc \in Checked \/ Save("iosched")
  BY <1>1, StartupMoves
<1>2. \A s \in Settings : Found(s)
  BY <1>1, <1>m DEF KeptInv
<1>s. \A s \in Settings : saved[s] # NoOne => saved'[s] # NoOne
  <2>1. ASSUME NEW s \in Settings, NEW v \in Allowed[s], Takes(s, v)
        PROVE  \A t \in Settings : saved[t] # NoOne => saved'[t] # NoOne
    BY <2>1, SaveOne DEF Takes
  <2> QED BY <1>0, <2>1, StartupEffect DEF Looks, Enables
<1>3. \A s \in Settings : Found(s)'
  <2>1. CASE Looks
    BY <2>1, <1>0, <1>2 DEF Looks, Found
  <2>2. ASSUME NEW s \in Settings, NEW v \in Allowed[s], Takes(s, v)
        PROVE  \A t \in Settings : Found(t)'
    <3>1. saved[s] = NoOne /\ Save(s)
      BY <2>2 DEF Takes, SavedInv
    <3>2. \A t \in Settings \ {s} : sys'[t] = sys[t]
      BY <2>2, WriteOne DEF Takes, Unwritten
    <3> QED BY <1>0, <1>2, <3>1, <3>2, Saved
  <2>3. ASSUME NEW v \in Allowed["iocost"], Enables(v)
        PROVE  \A t \in Settings : Found(t)'
    <3>1. saved["iocost"] # NoOne /\ UNCHANGED saved
      BY <1>1, <2>3 DEF Enables, KeptInv
    <3>2. \A t \in Settings \ {"iocost"} : sys'[t] = sys[t]
      BY <2>3, WriteOne, SettingNames DEF Enables
    <3> QED BY <1>0, <1>2, <3>1, <3>2 DEF Found
  <2> QED BY <1>0, <2>1, <2>2, <2>3, StartupEffect
<1>4. saved'["iocost"] # NoOne
  BY <1>1, <1>m, <1>s, SaveOne, SettingNames DEF KeptInv, Startup
<1>5. mainPc' \in Checked /\ Enforce("io") => saved'["iosched"] # NoOne
  BY <1>1, <1>m, <1>s, SaveOne, SettingNames DEF KeptInv
<1>6. Enforce("io")' = Enforce("io")
  BY <1>0 DEF Enforce
<1>7. mainPc' \notin Launched \cup {"prepared", "config", "lastconfig", "iocostsave", "down"}
  BY <1>m DEF Startup, Launched
<1> QED BY <1>3, <1>4, <1>5, <1>6, <1>7 DEF KeptInv, LeftAsFound

(* After startup only settings that were saved are written, and the drops  *)
(* put them back.                                                          *)
LEMMA SessionKeeps == SessionInv /\ [SessionNext]_sessionVars => SessionInv'
<1> SUFFICES ASSUME SessionInv, [SessionNext]_sessionVars PROVE SessionInv'
  OBVIOUS
<1> USE DEF SessionInv
<1>s. writeFaults \in Nat
  BY DEF SettingsTyped
<1>t. \A s \in Settings : found[s] # NoOne /\ sys[s] # NoOne
  BY SettingsOf DEF SettingsTyped
<1>1. CASE Startups
  BY <1>1, StartupTyped, StartupSaves, StartupKeeps
<1>2. CASE Start
  <2>1. SettingsTyped'
    <3>1. UNCHANGED <<sys, writeFaults>> /\ found' = sys /\ saved' = NothingSaved
      BY <1>2 DEF Start
    <3>2. cmdSwap' \in {NoOne, "low", "asked"}
      BY <1>2 DEF Start, Removed, SettingsTyped, envVars
    <3> QED BY <3>1, <3>2 DEF SettingsTyped, NothingSaved
  <2>2. saved' = NothingSaved /\ mainPc' = "init" /\ found' = sys /\ sys' = sys
    BY <1>2 DEF Start
  <2>3. \A s \in Settings : saved'[s] = NoOne
    BY <2>2 DEF NothingSaved
  <2>4. SavedInv'
    BY <2>3 DEF SavedInv, NotYet
  <2>5. KeptInv'
    BY <2>2, <2>3 DEF KeptInv, LeftAsFound, Found, Checked, Launched
  <2> QED BY <2>1, <2>4, <2>5
<1>3. CASE Killed
  <2>1. saved' = NothingSaved /\ mainPc' = "down"
    BY <1>3 DEF Killed
  <2>2. \A s \in Settings : saved'[s] = NoOne
    BY <2>1 DEF NothingSaved
  <2>3. SettingsTyped'
    BY <1>3, <2>1 DEF Killed, Rest, SettingsTyped, NothingSaved
  <2>4. SavedInv'
    BY <2>2 DEF SavedInv, NotYet
  <2>5. KeptInv'
    BY <2>1 DEF KeptInv, LeftAsFound, Checked, Launched, Startup
  <2> QED BY <2>3, <2>4, <2>5
<1>4. CASE Verdict
  <2>1. SettingsTyped'
    BY <1>4 DEF Verdict, SettingsTyped
  <2>2. UNCHANGED <<sys, found, saved, opts, writeFaults>>
    BY <1>4 DEF Verdict
  <2>3. /\ mainPc \in {"device", "failed"} /\ mainPc' \in {"refused", "prepared", "objs"}
        /\ mainPc = "failed" /\ mainPc' = "objs" => opts.force
    BY <1>4 DEF Verdict, AfterChecks
  <2>4. SavedInv'
    BY <2>2, <2>3 DEF SavedInv, NotYet, Early, Settings
  <2>5. KeptInv'
    BY <2>2, <2>3 DEF KeptInv, LeftAsFound, Found, Unguarded, Enforce, Checked, Launched, Startup
  <2> QED BY <2>1, <2>4, <2>5
<1>5. CASE NewObjs \/ Prepared \/ Finish \/ WriteReport \/ ClearOldReports \/ Ask
  <2>1. /\ UNCHANGED <<sys, found, saved, opts, writeFaults>>
        /\ cmdSwap' \in {cmdSwap, NoOne, "asked", "low"}
    BY <1>5 DEF NewObjs, Prepared, Finish, WriteReport, ClearOldReports, Ask, Rest
  <2>2. \/ mainPc = "objs" /\ mainPc' \in {"apply", "refused"}
        \/ mainPc = "prepared" /\ mainPc' = "refused"
        \/ mainPc = "run" /\ mainPc' \in {"run", "config"}
    BY <1>5 DEF NewObjs, Prepared, Finish, WriteReport, ClearOldReports, Ask
  <2>3. SettingsTyped'
    BY <2>1 DEF SettingsTyped
  <2>4. SavedInv'
    BY <2>1, <2>2 DEF SavedInv, NotYet, Early, Settings
  <2>5. KeptInv'
    BY <2>1, <2>2 DEF KeptInv, LeftAsFound, Found, Unguarded, Enforce, Checked, Launched, Startup
  <2> QED BY <2>3, <2>4, <2>5
<1>6. CASE ApplyAll
  <2>1. /\ UNCHANGED <<found, saved, opts, cmdSwap, writeFaults>>
        /\ mainPc = "apply" /\ mainPc' \in {"run", "refused"}
    BY <1>6 DEF ApplyAll, Rest
  <2>2. sys' \in Values /\ \A s \in Settings \ {"iocost"} : sys'[s] = sys[s]
    <3>1. ASSUME NEW v \in {"on", "user"}
          PROVE  /\ [sys EXCEPT !["iocost"] = v] \in Values
                 /\ \A s \in Settings \ {"iocost"} : [sys EXCEPT !["iocost"] = v][s] = sys[s]
      BY SetOne, SettingNames DEF SettingsTyped
    <3> QED BY <1>6, <3>1 DEF ApplyAll, SettingsTyped
  <2>3. SettingsTyped'
    BY <2>1, <2>2 DEF SettingsTyped
  <2>4. SavedInv'
    BY <2>1 DEF SavedInv, NotYet, Early, Settings
  <2>5. KeptInv'
    <3> SUFFICES ASSUME writeFaults = 0 PROVE KeptInv'
      BY <2>1 DEF KeptInv
    <3>1. saved["iocost"] # NoOne /\ \A s \in Settings \ Unguarded : Found(s)
      BY <2>1 DEF KeptInv, Launched
    <3>2. UNCHANGED Unguarded
      BY <2>1 DEF Unguarded, Enforce
    <3>3. \A s \in Settings \ Unguarded : Found(s)'
      BY <2>1, <2>2, <3>1 DEF Found
    <3> QED BY <2>1, <3>1, <3>2, <3>3 DEF KeptInv, LeftAsFound, Launched, Checked, Startup, Enforce
  <2> QED BY <2>3, <2>4, <2>5
<1>7. CASE Drifted
  <2>1. /\ UNCHANGED <<found, saved, opts, cmdSwap, writeFaults>>
        /\ mainPc = "run" /\ mainPc' = "run" /\ Enforce("io")
    BY <1>7 DEF Drifted, Rest
  <2>2. sys' \in Values /\ \A s \in Settings \ {"iosched"} : sys'[s] = sys[s]
    <3>1. PICK v \in {"mq", "none"} : sys' = [sys EXCEPT !["iosched"] = v]
      BY <1>7 DEF Drifted
    <3>2. v \in Allowed["iosched"] /\ sys \in Values
      BY DEF Allowed, SettingsTyped
    <3>3. /\ [sys EXCEPT !["iosched"] = v] \in Values
          /\ \A s \in Settings \ {"iosched"} : [sys EXCEPT !["iosched"] = v][s] = sys[s]
      BY <3>2, SetOne, SettingNames
    <3> QED BY <3>1, <3>3
  <2>3. SettingsTyped'
    BY <2>1, <2>2 DEF SettingsTyped
  <2>4. SavedInv'
    BY <2>1 DEF SavedInv
  <2>5. KeptInv'
    <3> SUFFICES ASSUME writeFaults = 0 PROVE KeptInv'
      BY <2>1 DEF KeptInv
    <3>1. /\ saved["iocost"] # NoOne /\ \A s \in Settings \ Unguarded : Found(s)
          /\ saved["iosched"] # NoOne \/ opts.force
      BY <2>1 DEF KeptInv, Launched
    <3>2. UNCHANGED Unguarded /\ (saved["iosched"] = NoOne => "iosched" \in Unguarded)
      BY <2>1, <3>1 DEF Unguarded, Enforce
    <3>3. \A s \in Settings \ Unguarded : Found(s)'
      BY <2>1, <2>2, <3>1, <3>2 DEF Found
    <3> QED BY <2>1, <3>1, <3>2, <3>3 DEF KeptInv, LeftAsFound, Launched, Checked, Startup, Enforce
  <2> QED BY <2>3, <2>4, <2>5
<1>8. CASE ApplySwap
  <2>1. /\ UNCHANGED <<found, saved, opts, cmdSwap, writeFaults>>
        /\ mainPc = "run" /\ mainPc' \in {"run", "config"}
    BY <1>8 DEF ApplySwap, Rest, Unsaved
  <2> DEFINE v == IF cmdSwap = NoOne THEN saved["swap"] ELSE cmdSwap
             r == [sys EXCEPT !["swap"] = v]
  <2>v. saved["swap"] # NoOne =>
           /\ v \in Allowed["swap"] /\ r \in Values
           /\ \A s \in Settings \ {"swap"} : r[s] = sys[s]
    <3>1. saved["swap"] # NoOne => v \in Allowed["swap"]
      BY SettingNames DEF Allowed, SettingsTyped
    <3> QED BY <3>1, SetOne, SettingNames DEF SettingsTyped
  <2>2. /\ sys' \in Values
        /\ \A s \in Settings : sys'[s] = sys[s] \/ saved[s] # NoOne
    <3>1. CASE saved["swap"] = NoOne
      <4>1. UNCHANGED sys
        BY <1>8, <3>1 DEF ApplySwap
      <4> QED BY <4>1 DEF SettingsTyped
    <3>2. CASE saved["swap"] # NoOne /\ saved["zswap"] = NoOne
      <4>1. sys' = r
        BY <1>8, <3>2 DEF ApplySwap
      <4> QED BY <2>v, <3>2, <4>1
    <3>3. CASE saved["swap"] # NoOne /\ saved["zswap"] # NoOne
      <4>1. PICK z \in {saved["zswap"], "N"} : sys' = [r EXCEPT !["zswap"] = z]
        BY <1>8, <3>3 DEF ApplySwap
      <4>2. z \in Allowed["zswap"]
        BY <3>3, SettingNames DEF Allowed, SettingsTyped
      <4> HIDE DEF r
      <4>3. /\ [r EXCEPT !["zswap"] = z] \in Values
            /\ \A s \in Settings \ {"zswap"} : [r EXCEPT !["zswap"] = z][s] = r[s]
        BY <2>v, <3>3, <4>2, SetOne, SettingNames
      <4> QED BY <2>v, <3>3, <4>1, <4>3
    <3> QED BY <3>1, <3>2, <3>3
  <2>3. SettingsTyped'
    BY <2>1, <2>2 DEF SettingsTyped
  <2>4. SavedInv'
    BY <2>1 DEF SavedInv, NotYet, Early, Settings
  <2>5. KeptInv'
    <3> SUFFICES ASSUME writeFaults = 0 PROVE KeptInv'
      BY <2>1 DEF KeptInv
    <3>1. /\ saved["iocost"] # NoOne /\ \A s \in Settings \ Unguarded : Found(s)
          /\ Enforce("io") => saved["iosched"] # NoOne \/ opts.force
      BY <2>1 DEF KeptInv, Launched
    <3>2. UNCHANGED Unguarded
      BY <2>1 DEF Unguarded, Enforce
    <3>3. \A s \in Settings \ Unguarded : Found(s)'
      BY <2>1, <2>2, <3>1 DEF Found
    <3> QED BY <2>1, <3>1, <3>2, <3>3 DEF KeptInv, LeftAsFound, Launched, Checked, Startup, Enforce
  <2> QED BY <2>3, <2>4, <2>5
<1>9. CASE DropConfig
  <2>1. /\ UNCHANGED <<found, saved, opts, cmdSwap>> /\ writeFaults' \in {writeFaults, writeFaults + 1}
        /\ \/ mainPc = "config" /\ mainPc' = "iocostsave"
           \/ mainPc = "lastconfig" /\ mainPc' = "down"
    BY <1>9 DEF DropConfig, Rest, WriteFault
  <2>2. \A s \in Settings : sys[s] \in Allowed[s] /\ Restored(s) \in Allowed[s]
    BY SettingsOf DEF Restored, SettingsTyped
  <2>3. sys' \in Values
    <3>1. CASE sys' = [s \in Settings |-> Restored(s)]
      BY <3>1, <2>2, SetAll
    <3>2. ASSUME NEW t \in Settings, sys' = [s \in Settings |-> IF s = t THEN sys[s] ELSE Restored(s)]
          PROVE  sys' \in Values
      BY <3>2, <2>2, SetAll
    <3> QED BY <1>9, <3>1, <3>2 DEF DropConfig
  <2>4. SettingsTyped'
    BY <2>1, <2>3, <1>s DEF SettingsTyped
  <2>5. SavedInv'
    BY <2>1 DEF SavedInv, NotYet, Early, Settings
  <2>6. KeptInv'
    <3> SUFFICES ASSUME writeFaults' = 0 PROVE KeptInv'
      BY DEF KeptInv
    <3>1. writeFaults = 0 /\ sys' = [s \in Settings |-> Restored(s)]
      BY <1>9, <1>s DEF DropConfig, WriteFault
    <3>2. saved["iocost"] # NoOne /\ \A s \in Settings \ Unguarded : Found(s)
      BY <3>1, <2>1 DEF KeptInv
    <3>3. UNCHANGED Unguarded /\ "iocost" \notin Unguarded
      BY <2>1 DEF Unguarded, Enforce
    <3>4. \A s \in Settings \ {"iocost"} : s \notin Unguarded => sys'[s] = found[s]
      BY <3>1, <3>2, <1>t DEF Restored, Found
    <3>5. saved["iocost"] = found["iocost"] /\ sys'["iocost"] = sys["iocost"]
      BY <3>1, <3>2, <3>3, SettingNames DEF Restored, Found
    <3>6. CASE mainPc' = "iocostsave"
      BY <2>1, <3>2, <3>3, <3>4, <3>5, <3>6 DEF KeptInv, LeftAsFound, Launched, Checked, Startup
    <3>7. CASE mainPc' = "down"
      <4>1. sys["iocost"] = found["iocost"]
        BY <2>1, <3>1, <3>7 DEF KeptInv
      <4>2. \A s \in Settings \ Unguarded : sys'[s] = found[s]
        BY <3>4, <3>5, <4>1
      <4> QED BY <2>1, <3>2, <3>3, <3>7, <4>2 DEF KeptInv, LeftAsFound, Launched, Checked, Startup
    <3> QED BY <2>1, <3>6, <3>7
  <2> QED BY <2>4, <2>5, <2>6
<1>10. CASE DropIoCost
  <2>1. /\ UNCHANGED <<found, saved, opts, cmdSwap>>
        /\ \/ mainPc = "refused" /\ mainPc' = "lastconfig"
           \/ mainPc = "iocostsave" /\ mainPc' = "down"
    BY <1>10 DEF DropIoCost, Rest
  <2>2. saved["iocost"] # NoOne => saved["iocost"] \in Allowed["iocost"] /\ Write("iocost", saved["iocost"])
    BY <1>10, SettingNames DEF DropIoCost, SettingsTyped
  <2>3. /\ sys' \in Values /\ writeFaults' \in Nat /\ (writeFaults' = 0 => writeFaults = 0)
        /\ \A s \in Settings \ {"iocost"} : sys'[s] = sys[s]
    <3>1. CASE saved["iocost"] = NoOne
      BY <1>10, <3>1 DEF DropIoCost, Unwritten, SettingsTyped
    <3>2. CASE saved["iocost"] # NoOne
      BY <2>2, <3>2, WriteOne, SettingNames
    <3> QED BY <3>1, <3>2
  <2>4. SettingsTyped'
    BY <2>1, <2>3 DEF SettingsTyped
  <2>5. SavedInv'
    BY <2>1 DEF SavedInv, NotYet, Early, Settings
  <2>6. KeptInv'
    <3> SUFFICES ASSUME writeFaults' = 0 PROVE KeptInv'
      BY DEF KeptInv
    <3>1. writeFaults = 0 /\ saved["iocost"] # NoOne
      BY <2>1, <2>3 DEF KeptInv
    <3>2. sys'["iocost"] = saved["iocost"]
      <4>1. saved["iocost"] \in Allowed["iocost"] /\ sys \in Values
        BY <2>2, <3>1 DEF SettingsTyped
      <4>2. [sys EXCEPT !["iocost"] = saved["iocost"]]["iocost"] = saved["iocost"]
        BY <4>1 DEF Values
      <4>3. UNCHANGED writeFaults
        BY <3>1
      <4>4. sys' = [sys EXCEPT !["iocost"] = saved["iocost"]]
        BY <2>2, <3>1, <4>3 DEF Write, WriteFault
      <4> QED BY <4>2, <4>4
    <3>3. UNCHANGED Unguarded /\ "iocost" \notin Unguarded
      BY <2>1 DEF Unguarded, Enforce
    <3>4. CASE mainPc = "refused"
      <4>1. \A s \in Settings \ Unguarded : Found(s)
        BY <3>1, <3>4 DEF KeptInv
      <4>2. saved["iocost"] = found["iocost"]
        BY <3>1, <3>3, <4>1, SettingNames DEF Found
      <4>3. \A s \in Settings \ Unguarded : Found(s)'
        BY <2>1, <2>3, <4>1, <4>2 DEF Found
      <4> QED BY <2>1, <3>1, <3>2, <3>3, <3>4, <4>2, <4>3
              DEF KeptInv, LeftAsFound, Launched, Checked, Startup
    <3>5. CASE mainPc = "iocostsave"
      <4>1. \A s \in Settings \ Unguarded : sys'[s] = found[s]
        BY <2>1, <2>3, <3>1, <3>2, <3>5 DEF KeptInv
      <4> QED BY <2>1, <3>1, <3>3, <3>5, <4>1
              DEF KeptInv, LeftAsFound, Launched, Checked, Startup
    <3> QED BY <2>1, <3>4, <3>5
  <2> QED BY <2>4, <2>5, <2>6
<1>11. CASE Age \/ UNCHANGED sessionVars
  <2>1. UNCHANGED <<sys, found, saved, opts, cmdSwap, writeFaults, mainPc>>
    BY <1>11 DEF Age, Rest, sessionVars
  <2> QED BY <2>1 DEF SettingsTyped, SavedInv, KeptInv, Found, LeftAsFound, Unguarded, Enforce
<1> QED BY <1>1, <1>2, <1>3, <1>4, <1>5, <1>6, <1>7, <1>8, <1>9, <1>10, <1>11
    DEF SessionNext, Startups

(* A session of the agent that ends on its own leaves every system setting *)
(* as it found it, wherever the startup checks end it, whatever they find, *)
(* and whatever the options, the commands and a panic make of it, unless a *)
(* setting could not be read or written; but for the io scheduler after a  *)
(* --force past checks that returned before it was saved.                  *)
THEOREM SettingsLeftAsFound == SessionSpec => []LeftAsFound
<1>1. SessionInit => SessionInv
  BY SessionStarts
<1>2. SessionInv /\ [SessionNext]_sessionVars => SessionInv'
  BY SessionKeeps
<1>3. SessionInv => LeftAsFound
  BY DEF SessionInv, KeptInv, LeftAsFound
<1> QED BY <1>1, <1>2, <1>3, PTL DEF SessionSpec

-----------------------------------------------------------------------------
(* The balloon's transient service, TransientUnit.                         *)

\* What a drop leaves behind: nothing, or a warning.
Gone == loaded = "none" \/ stopWarned \/ assumed

UnitInv ==
    /\ upc \in {"idle", "take", "make"} /\ ~svc => Gone
    /\ svc => upc \in {"idle", "same", "take"} /\ holds = size
    /\ upc = "same" => svc
    /\ upc = "same" \/ (upc = "idle" /\ svc) => want = size
    /\ upc = "wait_start" => holds = want

(* A unit is taken for gone only if it is.                                 *)
LEMMA NotFoundIsGone == Seen = "NotFound" => loaded = "none"
BY DEF Seen

(* Where stop_and_reset() goes on, it leaves nothing unnoticed.            *)
LEMMA ResetNoticed ==
    ASSUME NEW ok \in BOOLEAN, AfterReset(ok), UNCHANGED <<env, balloon>>, ~svc,
           ok => loaded = "none" \/ assumed'
    PROVE  UnitInv'
<1>1. /\ upc' \in {"idle", "refresh", "make", "start"}
      /\ upc' \in {"idle", "make"} => stopWarned' = ~ok
  BY DEF AfterReset
<1> QED BY <1>1 DEF UnitInv, Gone, env, balloon

LEMMA UnitStarts == UnitInit => UnitInv
BY DEF UnitInit, UnitInv

(* Every step of set_size(), of the drop and the start it makes and of     *)
(* systemd, with calls that fail and waits that time out.                  *)
LEMMA UnitKeeps == UnitInv /\ [UnitNext]_unitVars => UnitInv'
<1> SUFFICES ASSUME UnitInv, [UnitNext]_unitVars PROVE UnitInv'
  OBVIOUS
<1>1. CASE UnitMoves
  BY <1>1 DEF UnitMoves, UnitInv, Gone, balloon
<1>2. ASSUME NEW n \in Sizes \cup {0}, SetSize(n) PROVE UnitInv'
  BY <1>2 DEF SetSize, UnitInv, Gone, env
<1>3. CASE SameRefresh
  BY <1>3 DEF SameRefresh, UnitInv, Gone, env, balloon
<1>4. CASE Take
  BY <1>4 DEF Take, UnitInv, Gone, env
<1>5. CASE StopRefresh
  <2>1. ~svc
    BY <1>5 DEF StopRefresh, UnitInv
  <2>2. CASE RefreshOk /\ state' = "NotFound" /\ AfterReset(TRUE)
    BY <1>5, <2>1, <2>2, ResetNoticed, NotFoundIsGone DEF StopRefresh, RefreshOk
  <2>3. CASE AfterReset(FALSE)
    BY <1>5, <2>1, <2>3, ResetNoticed DEF StopRefresh
  <2>4. CASE upc' \in {"reset", "stop"}
    BY <1>5, <2>1, <2>4 DEF StopRefresh, UnitInv, env, balloon
  <2> QED BY <1>5, <2>2, <2>3, <2>4 DEF StopRefresh
<1>6. CASE StopUnit
  <2>1. ~svc
    BY <1>6 DEF StopUnit, UnitInv
  <2>2. CASE AfterReset(FALSE) /\ UNCHANGED loaded
    BY <1>6, <2>1, <2>2, ResetNoticed DEF StopUnit, env
  <2>3. CASE upc' = "wait_stop"
    BY <1>6, <2>1, <2>3 DEF StopUnit, UnitInv, balloon
  <2> QED BY <1>6, <2>2, <2>3 DEF StopUnit
<1>7. CASE WaitStop
  <2>1. ~svc /\ UNCHANGED <<env, balloon>>
    BY <1>7 DEF WaitStop, UnitInv
  <2>2. state' = "NotFound" => loaded = "none" \/ assumed'
    BY <1>7, NotFoundIsGone DEF WaitStop, RefreshOk, RefreshErr
  <2>3. CASE StopEnded(state')
    <3>1. CASE state' = "NotFound"
      BY <2>1, <2>2, <2>3, <3>1, ResetNoticed DEF StopEnded
    <3>2. CASE state' = "Failed"
      BY <2>1, <2>3, <3>2 DEF StopEnded, UnitInv, env, balloon
    <3>3. CASE state' \notin {"NotFound", "Failed"}
      BY <2>1, <2>3, <3>3, ResetNoticed DEF StopEnded
    <3> QED BY <3>1, <3>2, <3>3
  <2>4. CASE UNCHANGED upc
    BY <1>7, <2>1, <2>4 DEF WaitStop, UnitInv, env, balloon
  <2> QED BY <1>7, <2>3, <2>4 DEF WaitStop
<1>8. CASE ResetFailed
  <2>1. ~svc
    BY <1>8 DEF ResetFailed, UnitInv
  <2>2. CASE AfterReset(FALSE) /\ UNCHANGED loaded
    BY <1>8, <2>1, <2>2, ResetNoticed DEF ResetFailed, env
  <2>3. CASE upc' = "wait_reset"
    BY <1>8, <2>1, <2>3 DEF ResetFailed, UnitInv, balloon
  <2> QED BY <1>8, <2>2, <2>3 DEF ResetFailed
<1>9. CASE WaitReset
  <2>1. ~svc /\ UNCHANGED <<env, balloon>>
    BY <1>9 DEF WaitReset, UnitInv
  <2>2. state' = "NotFound" => loaded = "none" \/ assumed'
    BY <1>9, NotFoundIsGone DEF WaitReset, RefreshOk, RefreshErr
  <2>3. CASE AfterReset(state' = "NotFound")
    BY <2>1, <2>2, <2>3, ResetNoticed
  <2>4. CASE UNCHANGED upc
    BY <1>9, <2>1, <2>4 DEF WaitReset, UnitInv, env, balloon
  <2> QED BY <1>9, <2>3, <2>4 DEF WaitReset
<1>10. CASE Make
  BY <1>10 DEF Make, UnitInv, Gone, env, balloon
<1>11. CASE StartUnit
  BY <1>11 DEF StartUnit, GiveUp, UnitInv, env, balloon
<1>12. CASE WaitStart
  BY <1>12 DEF WaitStart, StartEnded, GiveUp, UnitInv, env
<1>13. CASE UNCHANGED unitVars
  BY <1>13 DEF unitVars, UnitInv, Gone, env, balloon
<1> QED BY <1>1, <1>2, <1>3, <1>4, <1>5, <1>6, <1>7, <1>8, <1>9, <1>10, <1>11, <1>12, <1>13
    DEF UnitNext, Client

(* For every size and however many calls to systemd fail: the memory       *)
(* balloon that is there is the one set_size() was asked for last, and a   *)
(* unit that is left behind without one was warned about.                  *)
THEOREM BalloonIsSafe == UnitSpec => []BalloonSafety
<1>1. UnitInv => BalloonSafety
  BY DEF UnitInv, BalloonSafety, NoStrayBalloon, BalloonAsAsked, Gone
<1> QED BY <1>1, UnitStarts, UnitKeeps, PTL DEF UnitSpec

-----------------------------------------------------------------------------
(* The two rd-hashds, HashdSet.                                            *)

LifeInv ==
    /\ hashdTime \in Nat
    /\ DOMAIN hashd = H /\ DOMAIN daemon = H /\ DOMAIN repFile = H
    /\ \A i \in H : repFile[i].at \in Nat /\ repFile[i].at <= hashdTime
    /\ \A i \in H : DOMAIN hashd[i] = {"svc", "startedAt", "rpsMax"} /\ hashd[i].startedAt \in Nat
    /\ \A i \in H : daemon[i].life \in {0, hashd[i].svc}
    /\ \A i \in H : ~Stopped(i) /\ repFile[i].at >= hashd[i].startedAt =>
                        repFile[i].life = hashd[i].svc

LEMMA LifeKept == LifeInv /\ [HashdSetNext]_hashdSetVars => LifeInv'
<1> SUFFICES ASSUME LifeInv, [HashdSetNext]_hashdSetVars PROVE LifeInv'
  OBVIOUS
<1>1. CASE NewCmd \/ UpdateResctl \/ ReportHashd \/ UNCHANGED hashdSetVars
  BY <1>1 DEF NewCmd, UpdateResctl, ReportHashd, hashdSetVars, Unapplied, LifeInv, Stopped
<1>2. CASE UpdateParams
  BY <1>2 DEF UpdateParams, Unapplied, LifeInv, Stopped
<1>3. CASE StopAll
  <2>1. /\ DOMAIN hashd' = H /\ DOMAIN daemon' = H
        /\ \A i \in H : DOMAIN hashd'[i] = {"svc", "startedAt", "rpsMax"}
        /\ \A i \in H : hashd'[i].svc = 0 /\ hashd'[i].startedAt = 0 /\ daemon'[i].life = 0
        /\ UNCHANGED repFile /\ hashdTime' = hashdTime + 1
    BY <1>3 DEF StopAll, Spend, LifeInv, Never
  <2> QED BY <2>1 DEF LifeInv, Stopped
<1>4. CASE Pass
  BY <1>4 DEF Pass, Spend, LifeInv, Stopped
<1>5. ASSUME NEW i \in H, Goner(i) PROVE LifeInv'
  BY <1>5 DEF Goner, Spend, Unapplied, LifeInv, Stopped, Never
<1>6. ASSUME NEW i \in H, StartHashd(i) PROVE LifeInv'
  <2>1. CASE applyAt' = "panic"
    BY <1>6, <2>1 DEF StartHashd, Spend, Unapplied, LifeInv, Stopped
  <2>2. CASE applyAt' # "panic"
    <3>1. /\ hashd' = [hashd EXCEPT ![i].svc = lives + 1, ![i].startedAt = hashdTime']
          /\ daemon' = [daemon EXCEPT ![i] = [life |-> lives + 1, rps |-> paramsFile[i]]]
          /\ UNCHANGED repFile /\ hashdTime' = hashdTime + 1
      BY <1>6, <2>2 DEF StartHashd, Spend, Unapplied
    <3>2. /\ DOMAIN hashd' = H /\ DOMAIN daemon' = H
          /\ hashd'[i].svc = lives + 1 /\ hashd'[i].startedAt = hashdTime + 1
          /\ daemon'[i].life = lives + 1
          /\ \A j \in H \ {i} : hashd'[j] = hashd[j] /\ daemon'[j] = daemon[j]
      BY <3>1 DEF LifeInv
    <3>3. ~(repFile'[i].at >= hashd'[i].startedAt)
      BY <3>1, <3>2 DEF LifeInv
    <3> QED BY <3>1, <3>2, <3>3 DEF LifeInv, Stopped
  <2> QED BY <2>1, <2>2
<1>7. ASSUME NEW i \in H, DaemonReads(i) PROVE LifeInv'
  BY <1>7 DEF DaemonReads, LifeInv, Stopped
<1>8. ASSUME NEW i \in H, DaemonReports(i) PROVE LifeInv'
  BY <1>8 DEF DaemonReports, LifeInv, Stopped
<1>9. ASSUME NEW i \in H, DaemonDies(i) PROVE LifeInv'
  BY <1>9 DEF DaemonDies, LifeInv, Stopped
<1> QED BY <1>1, <1>2, <1>3, <1>4, <1>5, <1>6, <1>7, <1>8, <1>9 DEF HashdSetNext

(* The load and the latency the agent reports of a running rd-hashd were   *)
(* measured by it, never by the one it replaced, and the memory probe it   *)
(* reports beside them is of the same one, for every clock, expiry and     *)
(* number of restarts: the start of a unit and the last report of the one  *)
(* before are never in the same millisecond.                               *)
THEOREM ReportsAreOfThisLife == HashdSetSpec => ReportsOfThisLife
<1>1. HashdSetInit => LifeInv
  BY DEF HashdSetInit, LifeInv, Stopped, NoReportYet, Never
<1>2. ASSUME LifeInv, [HashdSetNext]_hashdSetVars, shown' # shown, NEW i \in H, ~Stopped(i)
      PROVE  /\ shown'[i].life \in {0, hashd[i].svc}
             /\ shown'[i].life # 0 => shown'[i].probe = hashd[i].svc
  <2>1. ReportHashd
    BY <1>2 DEF HashdSetNext, NewCmd, UpdateParams, UpdateResctl, StopAll, Pass, Goner, StartHashd,
       DaemonReads, DaemonReports, DaemonDies, Unapplied, hashdSetVars
  <2>2. CASE repFile[i].at >= Since(i)
    <3>1. Since(i) >= hashd[i].startedAt
      BY <1>2, HashdSetAssumption DEF Since, LifeInv
    <3>2. Since(i) \in Nat
      BY <1>2, HashdSetAssumption DEF Since, LifeInv
    <3>3. repFile[i].at >= hashd[i].startedAt
      BY <1>2, <2>2, <3>1, <3>2 DEF LifeInv
    <3>4. repFile[i].life = hashd[i].svc
      BY <1>2, <3>3 DEF LifeInv
    <3> QED BY <2>1, <2>2, <3>4 DEF ReportHashd, Shown
  <2>3. CASE ~(repFile[i].at >= Since(i))
    BY <2>1, <2>3 DEF ReportHashd, Shown
  <2> QED BY <2>2, <2>3
<1>3. LifeInv /\ [HashdSetNext]_hashdSetVars
        => [shown' # shown => \A i \in H : ~Stopped(i) =>
               /\ shown'[i].life \in {0, hashd[i].svc}
               /\ shown'[i].life # 0 => shown'[i].probe = hashd[i].svc]_hashdSetVars
  BY <1>2
<1> QED BY <1>1, <1>3, LifeKept, PTL DEF HashdSetSpec, ReportsOfThisLife

-----------------------------------------------------------------------------
(* oomd and the sideloader, ServiceConfig.                                 *)

Comma == ","
Tokens == OomdFeatures \cup {Comma}
Rules(s) == {r \in OomdFeatures : \E i \in 1..Len(s) : s[i] = r}

\* A text that becomes a well-formed one with the next ruleset.
Alternates(s) == \A i \in 1..Len(s) : (s[i] = Comma) <=> (i % 2 = 0)

(* What the model says of commas, by their name: the arithmetic solver     *)
(* does not read the character.                                            *)
LEMMA TokenFacts == /\ Comma \notin OomdFeatures /\ Comma \in Tokens
                    /\ OomdFeatures \subseteq Tokens
BY Zenon DEF OomdFeatures, Tokens, Comma

LEMMA EndFacts ==
    ASSUME NEW s
    PROVE  EndsRuleset(s) <=> s # <<>> /\ s[Len(s)] # Comma
BY Zenon DEF EndsRuleset, Comma

LEMMA CommaFacts ==
    ASSUME NEW s
    PROVE  /\ WellFormed(s) <=> Alternates(s) /\ (s # <<>> => s[Len(s)] # Comma)
           /\ \A r, on : AppendRule(s, r, on) =
                 (IF EndsRuleset(s) THEN Append(s, Comma) ELSE s) \o (IF on THEN <<r>> ELSE <<>>)
BY Zenon DEF WellFormed, Alternates, AppendRule, Comma

LEMMA CommaPut ==
    ASSUME NEW s \in Seq(Tokens), Alternates(s), EndsRuleset(s)
    PROVE  /\ Append(s, Comma) \in Seq(Tokens)
           /\ Alternates(Append(s, Comma)) /\ Rules(Append(s, Comma)) = Rules(s)
           /\ Len(Append(s, Comma)) % 2 = 0
<1>1. /\ Append(s, Comma) \in Seq(Tokens) /\ Len(Append(s, Comma)) = Len(s) + 1
      /\ Append(s, Comma)[Len(s) + 1] = Comma /\ Len(s) \in Nat
      /\ \A i \in 1..Len(s) : Append(s, Comma)[i] = s[i]
  BY TokenFacts
<1>2. Len(s) > 0 /\ s[Len(s)] # Comma
  BY EndFacts
<1>3. Len(s) % 2 = 1
  BY <1>1, <1>2 DEF Alternates
<1>4. (Len(s) + 1) % 2 = 0
  BY <1>1, <1>3
<1>5. 1..(Len(s) + 1) = 1..Len(s) \cup {Len(s) + 1}
  BY <1>1
<1>6. Alternates(Append(s, Comma))
  BY <1>1, <1>4, <1>5 DEF Alternates
<1>7. Rules(Append(s, Comma)) = Rules(s)
  BY <1>1, <1>5, TokenFacts DEF Rules
<1> QED BY <1>1, <1>4, <1>6, <1>7

LEMMA RulePut ==
    ASSUME NEW s \in Seq(Tokens), Alternates(s), Len(s) % 2 = 0, NEW r \in OomdFeatures
    PROVE  /\ Append(s, r) \in Seq(Tokens)
           /\ Alternates(Append(s, r)) /\ Rules(Append(s, r)) = Rules(s) \cup {r}
           /\ WellFormed(Append(s, r))
<1>1. /\ Append(s, r) \in Seq(Tokens) /\ Len(Append(s, r)) = Len(s) + 1
      /\ Append(s, r)[Len(s) + 1] = r /\ Len(s) \in Nat
      /\ \A i \in 1..Len(s) : Append(s, r)[i] = s[i]
  BY TokenFacts
<1>2. (Len(s) + 1) % 2 # 0
  BY <1>1
<1>3. 1..(Len(s) + 1) = 1..Len(s) \cup {Len(s) + 1}
  BY <1>1
<1>4. Alternates(Append(s, r))
  BY <1>1, <1>2, <1>3, TokenFacts DEF Alternates
<1>5. Rules(Append(s, r)) = Rules(s) \cup {r}
  BY <1>1, <1>3 DEF Rules
<1>6. WellFormed(Append(s, r))
  BY <1>1, <1>4, TokenFacts, CommaFacts
<1> QED BY <1>1, <1>4, <1>5, <1>6

(* The comma goes between two rulesets, whatever was left out before.      *)
LEMMA RuleAppended ==
    ASSUME NEW s \in Seq(Tokens), Alternates(s), NEW r \in OomdFeatures, NEW on \in BOOLEAN
    PROVE  /\ AppendRule(s, r, on) \in Seq(Tokens)
           /\ Alternates(AppendRule(s, r, on))
           /\ Rules(AppendRule(s, r, on)) = Rules(s) \cup (IF on THEN {r} ELSE {})
           /\ on => WellFormed(AppendRule(s, r, on))
<1>1. PICK t \in Seq(Tokens) :
        /\ t = IF EndsRuleset(s) THEN Append(s, Comma) ELSE s
        /\ Alternates(t) /\ Rules(t) = Rules(s) /\ Len(t) % 2 = 0
  <2>1. CASE EndsRuleset(s)
    BY <2>1, CommaPut
  <2>2. CASE ~EndsRuleset(s)
    <3>1. s = <<>> \/ (Len(s) \in Nat /\ Len(s) > 0 /\ s[Len(s)] = Comma)
      BY <2>2, EndFacts
    <3>2. Len(s) % 2 = 0
      BY <3>1 DEF Alternates
    <3> QED BY <2>2, <3>2
  <2> QED BY <2>1, <2>2
<1>2. CASE on
  <2>1. AppendRule(s, r, on) = Append(t, r)
    <3>1. AppendRule(s, r, on) = t \o <<r>>
      BY <1>1, <1>2, CommaFacts, Zenon
    <3>2. Append(t, r) = t \o <<r>>
      BY TokenFacts
    <3> QED BY <3>1, <3>2
  <2> QED BY <1>1, <1>2, <2>1, RulePut
<1>3. CASE ~on
  <2>1. AppendRule(s, r, on) = t \o <<>>
    BY <1>1, <1>3, CommaFacts, Zenon
  <2> QED BY <1>1, <1>3, <2>1
<1> QED BY <1>2, <1>3

LEMMA OrderFacts ==
    /\ Len(RuleOrder) = 5 /\ RuleOrder[1] = "workload pressure" /\ RuleOrder[2] = "system pressure"
    /\ RuleOrder[3] = "workload senpai" /\ RuleOrder[4] = "system senpai" /\ RuleOrder[5] = "swap"
    /\ \A n \in 1..5 : RuleOrder[n] \in OomdFeatures
    /\ \A n \in 1..4 : RuleOrder[n] # "swap"
<1>1. RuleOrder = <<"workload pressure", "system pressure", "workload senpai", "system senpai", "swap">>
  BY DEF RuleOrder
<1>2. /\ Len(RuleOrder) = 5 /\ RuleOrder[1] = "workload pressure" /\ RuleOrder[2] = "system pressure"
      /\ RuleOrder[3] = "workload senpai" /\ RuleOrder[4] = "system senpai" /\ RuleOrder[5] = "swap"
  BY <1>1
<1>3. \A n \in 1..5 : n = 1 \/ n = 2 \/ n = 3 \/ n = 4 \/ n = 5
  OBVIOUS
<1>4. \A n \in 1..4 : n = 1 \/ n = 2 \/ n = 3 \/ n = 4
  OBVIOUS
<1>5. \A n \in 1..5 : RuleOrder[n] \in OomdFeatures
  BY <1>2, <1>3 DEF OomdFeatures
<1>6. \A n \in 1..4 : RuleOrder[n] # "swap"
  BY <1>2, <1>4
<1> QED BY <1>2, <1>5, <1>6

\* The text after a ruleset, of the text before it.
NextText(n, s) ==
    IF RuleOrder[n] = "swap" /\ "swap" \notin knobs THEN s
    ELSE AppendRule(s, RuleOrder[n], RuleOrder[n] \in knobs)

(* The recursion over the five rulesets is the function it says.           *)
LEMMA RulesUnrolled ==
    /\ RulesUpTo[0] = <<>>
    /\ \A n \in 1..5 : RulesUpTo[n] = NextText(n, RulesUpTo[n - 1])
<1> DEFINE t1 == NextText(1, <<>>)  t2 == NextText(2, t1)  t3 == NextText(3, t2)
           t4 == NextText(4, t3)  t5 == NextText(5, t4)
           W == [n \in 0..Len(RuleOrder) |->
                    IF n = 0 THEN <<>> ELSE IF n = 1 THEN t1 ELSE IF n = 2 THEN t2
                    ELSE IF n = 3 THEN t3 ELSE IF n = 4 THEN t4 ELSE t5]
           F(f) == [n \in 0..Len(RuleOrder) |-> IF n = 0 THEN <<>> ELSE NextText(n, f[n - 1])]
<1>1. W = F(W)
  <2> HIDE DEF t1, t2, t3, t4, t5
  <2>0. 0..Len(RuleOrder) = {0, 1, 2, 3, 4, 5}
    <3>1. Len(RuleOrder) = 5
      BY OrderFacts
    <3>2. 0..5 = {0, 1, 2, 3, 4, 5}
      OBVIOUS
    <3> QED BY <3>1, <3>2
  <2>1. W[0] = <<>> /\ W[1] = t1 /\ W[2] = t2 /\ W[3] = t3 /\ W[4] = t4 /\ W[5] = t5
    BY <2>0
  <2>2. t1 = NextText(1, <<>>) /\ t2 = NextText(2, t1) /\ t3 = NextText(3, t2)
        /\ t4 = NextText(4, t3) /\ t5 = NextText(5, t4)
    BY DEF t1, t2, t3, t4, t5
  <2> DEFINE X == W
  <2>3. DOMAIN X = {0, 1, 2, 3, 4, 5} /\ X = [n \in {0, 1, 2, 3, 4, 5} |-> X[n]]
    BY <2>0
  <2>4. \A n \in {0, 1, 2, 3, 4, 5} : X[n] = IF n = 0 THEN <<>> ELSE NextText(n, X[n - 1])
    <3> HIDE DEF X
    <3>1. X[0] = <<>> /\ X[1] = t1 /\ X[2] = t2 /\ X[3] = t3 /\ X[4] = t4 /\ X[5] = t5
      BY <2>1 DEF X
    <3>2. 1 - 1 = 0 /\ 2 - 1 = 1 /\ 3 - 1 = 2 /\ 4 - 1 = 3 /\ 5 - 1 = 4
      OBVIOUS
    <3> QED BY <3>1, <3>2, <2>2
  <2> HIDE DEF X
  <2>5. X = F(X)
    BY <2>0, <2>3, <2>4
  <2> QED BY <2>5 DEF X
<1> HIDE DEF t1, t2, t3, t4, t5, W
<1>2. RulesUpTo = F(RulesUpTo)
  <2>1. RulesUpTo = CHOOSE f : f = F(f)
    BY Zenon DEF RulesUpTo, NextText
  <2>2. \E f : f = F(f)
    BY <1>1, Zenon
  <2> HIDE DEF F
  <2> QED BY <2>1, <2>2, Zenon
<1> HIDE DEF F
<1>3. /\ RulesUpTo[0] = <<>>
      /\ \A n \in 1..5 : F(RulesUpTo)[n] = NextText(n, RulesUpTo[n - 1])
  <2>1. \A f, n : n \in 0..Len(RuleOrder) =>
            F(f)[n] = IF n = 0 THEN <<>> ELSE NextText(n, f[n - 1])
    BY Zenon DEF F
  <2>2. Len(RuleOrder) = 5
    BY OrderFacts
  <2>3. 0 \in 0..5 /\ \A n \in 1..5 : n \in 0..5 /\ n # 0
    OBVIOUS
  <2>4. F(RulesUpTo)[0] = <<>>
    BY <2>1, <2>2, <2>3, Zenon
  <2>5. \A n \in 1..5 : F(RulesUpTo)[n] = NextText(n, RulesUpTo[n - 1])
    BY <2>1, <2>2, <2>3, Zenon
  <2> QED BY <1>2, <2>4, <2>5, Zenon
<1> QED BY <1>2, <1>3, Zenon

(* Of any subset of the features, the text holds exactly the rulesets      *)
(* asked for, and it is well-formed if it ends in that of swap.            *)
LEMMA RulesAsKnobs ==
    ASSUME knobs \subseteq OomdFeatures
    PROVE  /\ Rules(RulesUpTo[Len(RuleOrder)]) = knobs \ {"oomd"}
           /\ "swap" \in knobs => WellFormed(RulesUpTo[Len(RuleOrder)])
<1> DEFINE P(n) == /\ RulesUpTo[n] \in Seq(Tokens) /\ Alternates(RulesUpTo[n])
                   /\ Rules(RulesUpTo[n]) = {r \in knobs : \E i \in 1..n : RuleOrder[i] = r}
<1>1. P(0)
  <2>1. RulesUpTo[0] = <<>>
    BY RulesUnrolled
  <2>2. \A s : s = <<>> => s \in Seq(Tokens) /\ Alternates(s) /\ Rules(s) = {}
    BY DEF Alternates, Rules
  <2> QED BY <2>1, <2>2
<1>2. ASSUME NEW n \in 1..4, P(n - 1) PROVE P(n)
  <2>1. RulesUpTo[n] = AppendRule(RulesUpTo[n - 1], RuleOrder[n], RuleOrder[n] \in knobs)
    <3>1. RulesUpTo[n] = NextText(n, RulesUpTo[n - 1])
      BY RulesUnrolled
    <3> QED BY <3>1, OrderFacts, Zenon DEF NextText
  <2>2. n \in 1..5 /\ n - 1 \in Nat /\ 1..n = 1..(n - 1) \cup {n}
    OBVIOUS
  <2>3. RuleOrder[n] \in OomdFeatures
    BY <2>2, OrderFacts
  <2> DEFINE s == RulesUpTo[n - 1]  r == RuleOrder[n]
  <2>4. /\ AppendRule(s, r, r \in knobs) \in Seq(Tokens)
        /\ Alternates(AppendRule(s, r, r \in knobs))
        /\ Rules(AppendRule(s, r, r \in knobs)) = Rules(s) \cup (IF r \in knobs THEN {r} ELSE {})
    <3>1. s \in Seq(Tokens) /\ Alternates(s) /\ r \in OomdFeatures /\ (r \in knobs) \in BOOLEAN
      BY <1>2, <2>3
    <3> HIDE DEF s, r
    <3> QED BY <3>1, RuleAppended, Zenon
  <2>5. Rules(s) \cup (IF r \in knobs THEN {r} ELSE {}) = {q \in knobs : \E i \in 1..n : RuleOrder[i] = q}
    BY <1>2, <2>2
  <2> QED BY <2>1, <2>4, <2>5
<1>3. P(4)
  <2>1. 1 \in 1..4 /\ 2 \in 1..4 /\ 3 \in 1..4 /\ 4 \in 1..4
        /\ 1 - 1 = 0 /\ 2 - 1 = 1 /\ 3 - 1 = 2 /\ 4 - 1 = 3
    OBVIOUS
  <2> HIDE DEF P
  <2>2. P(1)
    <3>1. P(1 - 1)
      BY <1>1, <2>1
    <3> QED BY <1>2, <2>1, <3>1
  <2>3. P(2)
    BY <1>2, <2>1, <2>2, Zenon
  <2>4. P(3)
    BY <1>2, <2>1, <2>3, Zenon
  <2> QED BY <1>2, <2>1, <2>4, Zenon
<1>4. /\ RulesUpTo[5] = NextText(5, RulesUpTo[4]) /\ RuleOrder[5] = "swap" /\ "swap" \in OomdFeatures
      /\ {r \in knobs : \E i \in 1..4 : RuleOrder[i] = r} = knobs \ {"oomd", "swap"}
  <2>1. RulesUpTo[5] = NextText(5, RulesUpTo[4])
    <3>1. 5 \in 1..5 /\ 5 - 1 = 4
      OBVIOUS
    <3> QED BY <3>1, RulesUnrolled, Zenon
  <2>2. \A r : (\E i \in 1..4 : RuleOrder[i] = r) <=>
           r \in {RuleOrder[1], RuleOrder[2], RuleOrder[3], RuleOrder[4]}
    <3>1. \A i : i \in 1..4 <=> i \in {1, 2, 3, 4}
      OBVIOUS
    <3> QED BY <3>1
  <2>3. {RuleOrder[1], RuleOrder[2], RuleOrder[3], RuleOrder[4]} = OomdFeatures \ {"oomd", "swap"}
    BY OrderFacts DEF OomdFeatures
  <2>4. RuleOrder[5] = "swap" /\ "swap" \in OomdFeatures
    BY OrderFacts DEF OomdFeatures
  <2> QED BY <2>1, <2>2, <2>3, <2>4
<1>5. CASE "swap" \notin knobs
  <2>1. RulesUpTo[5] = RulesUpTo[4]
    BY <1>4, <1>5 DEF NextText
  <2> QED BY <1>3, <1>4, <1>5, <2>1, OrderFacts
<1>6. CASE "swap" \in knobs
  <2>1. RulesUpTo[5] = AppendRule(RulesUpTo[4], "swap", TRUE)
    BY <1>4, <1>6, Zenon DEF NextText
  <2>2. /\ Rules(RulesUpTo[5]) = Rules(RulesUpTo[4]) \cup {"swap"}
        /\ WellFormed(RulesUpTo[5])
    <3>1. /\ Rules(AppendRule(RulesUpTo[4], "swap", TRUE))
               = Rules(RulesUpTo[4]) \cup (IF TRUE THEN {"swap"} ELSE {})
          /\ TRUE => WellFormed(AppendRule(RulesUpTo[4], "swap", TRUE))
      BY <1>3, <1>4, RuleAppended, Zenon
    <3> QED BY <2>1, <3>1
  <2>3. Rules(RulesUpTo[5]) = knobs \ {"oomd"}
    <3>1. Rules(RulesUpTo[5]) = (knobs \ {"oomd", "swap"}) \cup {"swap"}
      BY <1>3, <1>4, <2>2
    <3> QED BY <1>6, <3>1
  <2>4. Len(RuleOrder) = 5
    BY OrderFacts
  <2> QED BY <2>2, <2>3, <2>4
<1> QED BY <1>5, <1>6

OomdRead ==
    /\ oomdSvc.up <=> "oomd" \in knobs
    /\ oomdSvc.up => oomdSvc.rules = knobs
    /\ "swap" \in knobs => WellFormed(oomdCfg)
    /\ Rules(oomdCfg) = knobs \ {"oomd"}

\* What was read of each file holds until it changes again.
DaemonInv ==
    /\ knobs \subseteq OomdFeatures /\ headroom \in Nat \ {0} /\ serviceFaults \in Nat
    /\ headroom = 1 => readHeadroom = 1
    /\ agentUp /\ "oomd" \notin reread => OomdRead
    /\ serviceFaults = 0 => (sideRuns <=> sideState = "Running")
    /\ ~agentUp => ~sideRuns /\ sideState # "Running"
    /\ agentUp /\ controlsOff /\ "slices" \notin reread /\ headroom = 1 /\ serviceFaults = 0
         => ~sideRuns

LEMMA OomdApplied ==
    ASSUME knobs \subseteq OomdFeatures, OomdApply, UNCHANGED knobs
    PROVE  OomdRead'
<1>1. oomdCfg' = RulesUpTo[Len(RuleOrder)]
  BY Zenon DEF OomdApply
<1>2. /\ Rules(oomdCfg') = knobs \ {"oomd"}
      /\ "swap" \in knobs => WellFormed(oomdCfg')
  BY <1>1, RulesAsKnobs, Zenon
<1>3. oomdSvc' = IF "oomd" \in knobs THEN [up |-> TRUE, rules |-> knobs \cap OomdFeatures]
                                      ELSE [up |-> FALSE, rules |-> {}]
  BY Zenon DEF OomdApply
<1>4. /\ oomdSvc'.up <=> "oomd" \in knobs
      /\ oomdSvc'.up => oomdSvc'.rules = knobs
  BY <1>3
<1> QED BY <1>2, <1>4 DEF OomdRead

LEMMA DaemonStarts == ServiceInit => DaemonInv
<1> SUFFICES ASSUME ServiceInit PROVE DaemonInv
  OBVIOUS
<1>1. knobs \subseteq OomdFeatures
  BY Zenon DEF ServiceInit
<1>2. /\ headroom = 1 /\ readHeadroom = 1 /\ serviceFaults = 0
      /\ ~agentUp /\ ~sideRuns /\ sideState = "Other"
  BY DEF ServiceInit
<1> QED BY <1>1, <1>2 DEF DaemonInv

(* Each reload applies what changed, and a change is noted as unread.      *)
LEMMA DaemonKept == DaemonInv /\ [ServiceNext]_serviceVars => DaemonInv'
<1> SUFFICES ASSUME DaemonInv, [ServiceNext]_serviceVars PROVE DaemonInv'
  OBVIOUS
<1>1. CASE AgentStart
  <2>1. UNCHANGED <<knobs, controlsOff, headroom, serviceFaults>> /\ readHeadroom' = headroom
        /\ ~agentUp /\ agentUp' /\ OomdApply
    BY <1>1 DEF AgentStart
  <2>2. OomdRead'
    BY <2>1, OomdApplied DEF DaemonInv
  <2>3. /\ controlsOff => UNCHANGED <<sideState, sideRuns>>
        /\ ~controlsOff => sideState' = "Running" /\ sideRuns' = IF sideState = "Running" THEN sideRuns ELSE TRUE
    BY <1>1 DEF AgentStart, SideApply, SideUntouched
  <2>4. CASE controlsOff
    BY <2>1, <2>2, <2>3, <2>4 DEF DaemonInv
  <2>5. CASE ~controlsOff
    <3>1. sideState' = "Running" /\ (serviceFaults = 0 => sideRuns')
      BY <2>1, <2>3, <2>5 DEF DaemonInv
    <3> QED BY <2>1, <2>2, <2>5, <3>1 DEF DaemonInv
  <2> QED BY <2>4, <2>5
<1>2. CASE MaybeReload
  <2>1. UNCHANGED <<knobs, controlsOff, headroom, agentUp, serviceFaults>> /\ readHeadroom' = headroom
        /\ agentUp /\ reread' = {}
    BY <1>2 DEF MaybeReload
  <2>2. OomdRead'
    <3>1. CASE "oomd" \in reread
      BY <1>2, <2>1, <3>1, OomdApplied DEF MaybeReload, DaemonInv
    <3>2. CASE "oomd" \notin reread
      BY <1>2, <2>1, <3>2 DEF MaybeReload, DaemonInv, OomdRead
    <3> QED BY <3>1, <3>2
  <2>3. CASE ApplySideloader
    <3>1. sideState' = "Running" /\ sideRuns' = IF sideState = "Running" THEN sideRuns ELSE TRUE
      BY <1>2, <2>3 DEF MaybeReload, SideApply
    <3>2. controlsOff => headroom # 1
      BY <2>3 DEF ApplySideloader, DaemonInv
    <3> QED BY <2>1, <2>2, <3>1, <3>2 DEF DaemonInv
  <2>4. CASE ~ApplySideloader /\ StopSideloader
    <3>1. sideState' = "Other" /\ sideRuns' = FALSE
      BY <1>2, <2>4 DEF MaybeReload
    <3> QED BY <2>1, <2>2, <3>1 DEF DaemonInv
  <2>5. CASE ~ApplySideloader /\ ~StopSideloader
    <3>1. UNCHANGED <<sideState, sideRuns>>
      BY <1>2, <2>5 DEF MaybeReload, SideUntouched
    <3> QED BY <2>1, <2>2, <2>5, <3>1 DEF DaemonInv, StopSideloader
  <2> QED BY <2>3, <2>4, <2>5
<1>3. CASE AgentStop
  BY <1>3 DEF AgentStop, DaemonInv
<1>4. CASE Change
  BY <1>4 DEF Change, DaemonInv, OomdRead
<1>5. CASE Senpai
  BY <1>5 DEF Senpai, DaemonInv, OomdRead
<1>6. CASE SideReport
  BY <1>6 DEF SideReport, DaemonInv, OomdRead
<1>7. CASE SideDies
  BY <1>7 DEF SideDies, DaemonInv, OomdRead
<1>8. CASE UNCHANGED serviceVars
  BY <1>8 DEF serviceVars, DaemonInv, OomdRead
<1> QED BY <1>1, <1>2, <1>3, <1>4, <1>5, <1>6, <1>7, <1>8 DEF ServiceNext

(* Once the agent has read what the user changed, oomd runs with exactly   *)
(* the rules asked for, in a file it can parse, and the sideloader of an   *)
(* agent whose controllers are off does not run: for every sequence of     *)
(* changes, restarts and reloads.                                          *)
THEOREM DaemonsRunAsAsked == ServiceSpec => []DaemonsAsAsked
<1>1. DaemonInv => DaemonsAsAsked
  BY Zenon DEF DaemonInv, DaemonsAsAsked, OomdAsAsked, SideloaderOff, Current, OomdRead, Rules
<1> QED BY <1>1, DaemonStarts, DaemonKept, PTL DEF ServiceSpec

-----------------------------------------------------------------------------
(* Side workloads, SideRunner.                                             *)

(* The types, variable by variable.                                        *)
AgentTyped ==
    /\ target \subseteq Names /\ active \subseteq Names
    /\ pc \in {"idle", "start", "write", "rename", "insert", "drop", "dropStop"}
    /\ todo \subseteq Names /\ cur \in Names \cup {None} /\ removed \subseteq Names
    /\ leaked \subseteq Side /\ warned \subseteq Names /\ cmds \in 0..MaxCmds
FilesTyped ==
    /\ file \in [Side -> Inodes \cup {None}] /\ staging \in [Side -> Inodes \cup {None}]
    /\ content \in [Inodes -> Side \cup {None}]
DaemonTyped ==
    /\ jobs \in [Side -> Inodes \cup {None}] /\ pending \in [Side -> Inodes \cup {None}]
    /\ dpc \in {"down", "open", "load", "kill", "start", "assess"}
    /\ jobfiles \subseteq Inodes /\ new \subseteq Inodes
    /\ killing \subseteq Side /\ killed \subseteq Side /\ overload \in BOOLEAN
    /\ overloads \in 0..MaxOverloads
UnitsTyped ==
    /\ scr \subseteq Names /\ frozen \subseteq Side
    /\ unit \in [Names -> {"none", "running", "done", "failed"}]
CountsTyped == faults \in 0..MaxFaults /\ crashes \in 0..MaxCrashes

SideTyped == AgentTyped /\ FilesTyped /\ DaemonTyped /\ UnitsTyped /\ CountsTyped

(* A job the daemon knows is the one its inode was written with: an inode  *)
(* is written only while its staging file is the one being saved, and then *)
(* nothing has been read from it yet.                                      *)
KnownInv ==
    /\ \A n \in Side : {jobs[n], pending[n]} \subseteq {None} \cup {i \in Inodes : content[i] = n}
    /\ \A n \in Side : staging[n] # None => pc \in {"write", "rename"} /\ n = cur
    /\ pc \in {"write", "rename"} => cur \in Side /\ staging[cur] # None
    /\ pc = "write" => content[staging[cur]] = None

(* Who a job file belongs to: a sideload of the runner, one that is being  *)
(* put in or dropped, or one whose unit could not be looked up.            *)
OwnedInv ==
    /\ active \subseteq target /\ todo \subseteq target
    /\ active \cap removed = {} /\ todo \cap removed = {}
    /\ pc \in {"write", "rename", "insert"} => cur \in (Side \cap target) \ removed
    /\ pc = "insert" => file[cur] # None
    /\ pc = "dropStop" => cur # None
    /\ pc = "idle" => removed = {}
    /\ pc \in {"idle", "drop", "dropStop"} => todo = {}
    /\ \A n \in active \cap Side : file[n] # None
    /\ \A n \in Side : file[n] # None =>
          n \in active \cup leaked \cup removed \/ (pc = "insert" /\ n = cur)

(* A sysload that is not active was stopped or is about to be.             *)
StoppedInv ==
    \A n \in Sys \ active :
        unit[n] = "none" \/ n \in warned \cup removed \/ (pc = "dropStop" /\ n = cur)

SideInv == SideTyped /\ KnownInv /\ OwnedInv /\ StoppedInv
LEMMA LeastInode ==
    ASSUME FreeInodes # {}
    PROVE  (CHOOSE j \in FreeInodes : \A k \in FreeInodes : j <= k) \in FreeInodes
<1>1. FreeInodes \subseteq Nat
  BY NamesAssumption DEF FreeInodes
<1>2. PICK j \in FreeInodes : \A k \in FreeInodes : <<k, j>> \notin OpToRel(<, Nat)
  BY <1>1, NatLessThanWellFounded, WFMin
<1>3. \A k \in FreeInodes : j <= k
  <2>1. TAKE k \in FreeInodes
  <2>2. j \in Nat /\ k \in Nat
    BY <1>1
  <2>3. ~ (k < j)
    BY <1>2, <2>2 DEF OpToRel
  <2> QED BY <2>2, <2>3
<1> QED BY <1>3

LEMMA SideStarts == SideInit => SideInv
<1> SUFFICES ASSUME SideInit PROVE SideInv
  OBVIOUS
<1>1. SideTyped
  <2>1. FilesTyped
    BY DEF SideInit, FilesTyped, NoJobs
  <2>2. UnitsTyped
    BY DEF SideInit, UnitsTyped, Names
  <2>3. DaemonTyped
    <3>1. jobs \in [Side -> Inodes \cup {None}] /\ pending \in [Side -> Inodes \cup {None}]
      BY DEF SideInit, NoJobs
    <3>2. overload \in BOOLEAN
      BY DEF SideInit
    <3>3. overloads \in 0..MaxOverloads
      BY BoundsAssumption DEF SideInit
    <3> QED BY <3>1, <3>2, <3>3 DEF SideInit, DaemonTyped
  <2>4. AgentTyped /\ CountsTyped
    BY BoundsAssumption DEF SideInit, AgentTyped, CountsTyped, Names
  <2> QED BY <2>1, <2>2, <2>3, <2>4 DEF SideTyped
<1>2. KnownInv /\ OwnedInv /\ StoppedInv
  BY DEF SideInit, KnownInv, OwnedInv, StoppedInv, NoJobs, Names
<1> QED BY <1>1, <1>2 DEF SideInv

(* The inode a staging file is opened on.                                  *)
LEMMA StagingInode ==
    ASSUME SideTyped, NEW n \in Side, staging[n] # None \/ FreeInodes # {}
    PROVE  LET i == IF staging[n] # None THEN staging[n]
                    ELSE CHOOSE j \in FreeInodes : \A k \in FreeInodes : j <= k
           IN  i \in Inodes /\ (staging[n] = None => i \in FreeInodes)
BY LeastInode DEF SideTyped, FilesTyped, FreeInodes

LEMMA SideTypesKept == SideInv /\ [SideNext]_sideVars => SideTyped'
<1> SUFFICES ASSUME SideInv, [SideNext]_sideVars PROVE SideTyped'
  OBVIOUS
<1> USE BoundsAssumption, NamesAssumption
    DEF SideTyped, AgentTyped, FilesTyped, DaemonTyped, UnitsTyped, CountsTyped,
        agentVars, files, daemonVars, units, Fault, Names
<1>0. AgentTyped /\ FilesTyped /\ DaemonTyped /\ UnitsTyped /\ CountsTyped
  BY DEF SideInv
<1>c. /\ pc \in {"write", "rename", "insert"} => cur \in Side
      /\ pc \in {"write", "rename"} => staging[cur] \in Inodes
      /\ pc = "dropStop" => cur \in Names
  BY <1>0 DEF SideInv, KnownInv, OwnedInv
<1>1. ASSUME NEW t \in SUBSET Names, Cmd(t) PROVE SideTyped'
  BY <1>0, <1>1 DEF Cmd, Begin
<1>2. CASE BecomeIdle
  BY <1>0, <1>2 DEF BecomeIdle
<1>3. ASSUME NEW n \in Names, StartSysload(n) PROVE SideTyped'
  <2>1. AgentTyped' /\ CountsTyped'
    BY <1>0, <1>3 DEF StartSysload, Refuse
  <2>2. UnitsTyped'
    BY <1>0, <1>3 DEF StartSysload, Refuse
  <2>3. FilesTyped' /\ DaemonTyped'
    BY <1>0, <1>3 DEF StartSysload, Refuse
  <2> QED BY <2>1, <2>2, <2>3
<1>4. ASSUME NEW n \in Names, OpenStaging(n) PROVE SideTyped'
  <2>1. CASE Refuse(n)
    BY <1>0, <1>4, <2>1 DEF OpenStaging, Refuse
  <2>2. CASE ~ Refuse(n)
    <3>1. n \in Side /\ (staging[n] # None \/ FreeInodes # {})
      BY <1>0, <1>4, <2>2 DEF OpenStaging
    <3>2. PICK i \in Inodes : /\ staging' = [staging EXCEPT ![n] = i]
                              /\ content' = [content EXCEPT ![i] = None]
      BY <1>0, <1>4, <2>2, <3>1, StagingInode DEF OpenStaging
    <3>3. FilesTyped'
      BY <1>0, <1>4, <2>2, <3>1, <3>2 DEF OpenStaging
    <3>4. AgentTyped' /\ DaemonTyped' /\ UnitsTyped' /\ CountsTyped'
      BY <1>0, <1>4, <2>2, <3>1 DEF OpenStaging
    <3> QED BY <3>3, <3>4
  <2> QED BY <2>1, <2>2
<1>5. CASE WriteStaging
  BY <1>0, <1>c, <1>5 DEF WriteStaging
<1>6. CASE RenameStaging
  BY <1>0, <1>c, <1>6 DEF RenameStaging
<1>7. CASE Insert
  BY <1>0, <1>c, <1>7 DEF Insert
<1>8. CASE Started \/ Dropped
  BY <1>0, <1>8 DEF Started, Dropped
<1>9. CASE DropBegin
  BY <1>0, <1>9 DEF DropBegin
<1>10. CASE DropStop
  <2>1. AgentTyped'
    BY <1>0, <1>c, <1>10 DEF DropStop
  <2>4. CountsTyped'
    BY <1>0, <1>c, <1>10 DEF DropStop
  <2>2. UnitsTyped'
    BY <1>0, <1>c, <1>10 DEF DropStop
  <2>3. FilesTyped' /\ DaemonTyped'
    BY <1>0, <1>c, <1>10 DEF DropStop
  <2> QED BY <2>1, <2>2, <2>3, <2>4
<1>11. CASE AgentRestart
  BY <1>0, <1>11 DEF AgentRestart, NoJobs
<1>12. CASE OpenJobFiles
  <2>1. Linked \ {None} \subseteq Inodes
    BY <1>0 DEF Linked
  <2> QED BY <1>0, <1>12, <2>1 DEF OpenJobFiles
<1>13. CASE LoadJobFiles
  BY <1>0, <1>13 DEF LoadJobFiles, Chosen
<1>14. CASE JobsStopped \/ JobsStarted
  BY <1>0, <1>14 DEF JobsStopped, JobsStarted
<1>15. CASE DaemonStart
  BY <1>0, <1>15 DEF DaemonStart
<1>16. ASSUME NEW n \in Side, StopJob(n) PROVE SideTyped'
  BY <1>0, <1>16 DEF StopJob
<1>17. ASSUME NEW n \in Side, StartJob(n) PROVE SideTyped'
  BY <1>0, <1>17 DEF StartJob
<1>18. ASSUME NEW c \in {"ok", "overload", "critical"}, NEW e \in BOOLEAN, Assess(c, e)
       PROVE  SideTyped'
  <2>1. PICK ov \in BOOLEAN, kill \in SUBSET Side : Freeze(ov, kill)
    BY <1>0, <1>18 DEF Assess, Running
  <2>2. UnitsTyped'
    BY <1>0, <1>18, <2>1 DEF Assess, Freeze, Running
  <2>3. DaemonTyped'
    BY <1>0, <1>18, <2>1 DEF Assess, Freeze
  <2>4. AgentTyped' /\ FilesTyped' /\ CountsTyped'
    BY <1>0, <1>18 DEF Assess
  <2> QED BY <2>2, <2>3, <2>4
<1>19. CASE DaemonCrash
  <2>1. jobs' \in [Side -> Inodes \cup {None}] /\ pending' \in [Side -> Inodes \cup {None}]
    BY <1>19 DEF DaemonCrash, NoJobs
  <2>2. overload' \in BOOLEAN
    BY <1>19 DEF DaemonCrash
  <2> QED BY <1>0, <1>19, <2>1, <2>2 DEF DaemonCrash
<1>20. ASSUME NEW n \in Side, ServiceEnds(n) PROVE SideTyped'
  BY <1>0, <1>20 DEF ServiceEnds
<1>21. CASE UNCHANGED sideVars
  BY <1>0, <1>21 DEF sideVars
<1> QED BY <1>1, <1>2, <1>3, <1>4, <1>5, <1>6, <1>7, <1>8, <1>9, <1>10, <1>11, <1>12, <1>13,
        <1>14, <1>15, <1>16, <1>17, <1>18, <1>19, <1>20, <1>21 DEF SideNext, Agent, Daemon


LEMMA KnownKept ==
    ASSUME CrashMidSave = FALSE, SideInv, [SideNext]_sideVars
    PROVE  KnownInv'
<1> USE NamesAssumption DEF agentVars, files, daemonVars, units, KnownInv, Names
<1>0. FilesTyped /\ DaemonTyped /\ SideTyped /\ KnownInv
  BY DEF SideInv, SideTyped
<1>c. pc \in {"write", "rename", "insert"} => cur \in Side
  BY DEF SideInv, OwnedInv
<1>k. \A n \in Side : /\ jobs[n] # None => jobs[n] \in Inodes /\ content[jobs[n]] = n
                      /\ pending[n] # None => pending[n] \in Inodes /\ content[pending[n]] = n
  BY <1>0
<1>1. CASE \/ \E t \in SUBSET Names : Cmd(t)
           \/ BecomeIdle \/ \E n \in Names : StartSysload(n)
           \/ Started \/ DropBegin \/ DropStop \/ Dropped
  <2>1. /\ UNCHANGED <<jobs, pending, content, staging>>
        /\ pc \notin {"write", "rename"} /\ pc' \notin {"write", "rename"}
    BY <1>1 DEF Cmd, Begin, BecomeIdle, StartSysload, Refuse, Started, DropBegin, DropStop, Dropped
  <2> QED BY <1>0, <2>1
<1>2. ASSUME NEW n \in Names, OpenStaging(n) PROVE KnownInv'
  <2>1. CASE Refuse(n)
    BY <1>0, <1>2, <2>1 DEF OpenStaging, Refuse
  <2>2. CASE ~ Refuse(n)
    <3>1. /\ n \in Side /\ (staging[n] # None \/ FreeInodes # {})
          /\ pc = "start" /\ pc' = "write" /\ cur' = n /\ UNCHANGED <<jobs, pending>>
      BY <1>2, <2>2 DEF OpenStaging
    <3>2. \A m \in Side : staging[m] = None
      BY <1>0, <3>1
    <3>3. PICK i \in FreeInodes : /\ staging' = [staging EXCEPT ![n] = i]
                                  /\ content' = [content EXCEPT ![i] = None]
      BY <1>0, <1>2, <2>2, <3>1, <3>2, StagingInode DEF OpenStaging
    <3>4. i \in Inodes /\ i # None /\ \A m \in Side : jobs[m] # i /\ pending[m] # i
      BY DEF FreeInodes, Open
    <3>5. \A m \in Side : jobs'[m] # None => content'[jobs'[m]] = m
      BY <1>0, <1>k, <3>1, <3>3, <3>4 DEF FilesTyped
    <3>6. \A m \in Side : pending'[m] # None => content'[pending'[m]] = m
      BY <1>0, <1>k, <3>1, <3>3, <3>4 DEF FilesTyped
    <3>7. staging'[n] = i /\ content'[i] = None /\ \A m \in Side \ {n} : staging'[m] = None
      BY <1>0, <3>1, <3>2, <3>3, <3>4 DEF FilesTyped
    <3> QED BY <1>k, <3>1, <3>4, <3>5, <3>6, <3>7
  <2> QED BY <2>1, <2>2
<1>3. CASE WriteStaging
  <2>1. /\ pc = "write" /\ pc' = "rename" /\ cur \in Side /\ staging[cur] # None
        /\ content[staging[cur]] = None
        /\ content' = [content EXCEPT ![staging[cur]] = cur]
        /\ UNCHANGED <<jobs, pending, cur, staging>>
    BY <1>0, <1>3 DEF WriteStaging
  <2>2. \A n \in Side : /\ jobs[n] # None => content'[jobs[n]] = n
                        /\ pending[n] # None => content'[pending[n]] = n
    BY <1>0, <1>k, <2>1 DEF FilesTyped
  <2> QED BY <1>0, <1>k, <2>1, <2>2
<1>4. CASE RenameStaging
  <2>1. /\ pc = "rename" /\ pc' = "insert" /\ cur \in Side
        /\ staging' = [staging EXCEPT ![cur] = None]
        /\ UNCHANGED <<jobs, pending, content>>
    BY <1>0, <1>4 DEF RenameStaging
  <2>2. \A n \in Side : staging'[n] = None
    BY <1>0, <2>1 DEF FilesTyped
  <2> QED BY <1>0, <2>1, <2>2
<1>5. CASE Insert
  BY <1>0, <1>5 DEF Insert
<1>6. CASE AgentRestart
  BY <1>0, <1>6 DEF AgentRestart
<1>7. CASE DaemonCrash
  <2>1. \A n \in Side : jobs'[n] = None /\ pending'[n] = None
    BY <1>7 DEF DaemonCrash, NoJobs
  <2> QED BY <1>0, <1>7, <2>1 DEF DaemonCrash
<1>8. CASE LoadJobFiles
  <2>1. UNCHANGED <<jobs, content, staging, pc, cur>>
    BY <1>8 DEF LoadJobFiles
  <2>2. \A n \in Side : pending'[n] = pending[n] \/ (pending'[n] \in Inodes /\ content[pending'[n]] = n)
    <3>1. TAKE n \in Side
    <3>2. CASE \E i \in Chosen(new) : content[i] = n
      <4>1. pending'[n] = CHOOSE i \in Chosen(new) : content[i] = n
        BY <1>8, <3>2 DEF LoadJobFiles
      <4>2. pending'[n] \in Chosen(new) /\ content[pending'[n]] = n
        BY <3>2, <4>1
      <4> QED BY <1>0, <4>2 DEF Chosen, DaemonTyped
    <3>3. CASE ~ \E i \in Chosen(new) : content[i] = n
      BY <1>8, <3>3 DEF LoadJobFiles
    <3> QED BY <3>2, <3>3
  <2> QED BY <1>0, <2>1, <2>2
<1>9. ASSUME NEW n \in Side, StopJob(n) \/ StartJob(n) PROVE KnownInv'
  <2>1. /\ UNCHANGED <<content, staging, pc, cur>>
        /\ \A m \in Side : /\ jobs'[m] \in {None, jobs[m], pending[m]}
                           /\ pending'[m] \in {None, pending[m]}
    BY <1>0, <1>9 DEF StopJob, StartJob, DaemonTyped
  <2>2. \A m \in Side : {jobs[m], pending[m]} \subseteq {None} \cup {i \in Inodes : content[i] = m}
    BY <1>0
  <2>3. \A m \in Side : {jobs'[m], pending'[m]} \subseteq {None} \cup {i \in Inodes : content[i] = m}
    BY <2>1, <2>2
  <2> QED BY <1>0, <2>1, <2>3
<1>10. CASE \/ OpenJobFiles \/ JobsStopped \/ JobsStarted \/ DaemonStart
            \/ \E c \in {"ok", "overload", "critical"}, e \in BOOLEAN : Assess(c, e)
            \/ \E n \in Side : ServiceEnds(n)
            \/ UNCHANGED sideVars
  <2>1. UNCHANGED <<jobs, pending, content, staging, pc, cur>>
    BY <1>10 DEF OpenJobFiles, JobsStopped, JobsStarted, DaemonStart, Assess, ServiceEnds, sideVars
  <2> QED BY <1>0, <2>1
<1> QED BY <1>1, <1>2, <1>3, <1>4, <1>5, <1>6, <1>7, <1>8, <1>9, <1>10 DEF SideNext, Agent, Daemon

LEMMA OwnedKept ==
    ASSUME SideInv, [SideNext]_sideVars
    PROVE  OwnedInv'
<1> USE NamesAssumption DEF agentVars, files, daemonVars, units, Fault, Names
<1>0. FilesTyped /\ AgentTyped /\ KnownInv /\ OwnedInv
  BY DEF SideInv, SideTyped
<1>1. ASSUME NEW t \in SUBSET Names, Cmd(t) PROVE OwnedInv'
  BY <1>0, <1>1 DEF OwnedInv, Cmd, Begin
<1>2. CASE BecomeIdle
  BY <1>0, <1>2 DEF OwnedInv, BecomeIdle
<1>3. ASSUME NEW n \in Names, StartSysload(n) PROVE OwnedInv'
  BY <1>0, <1>3 DEF OwnedInv, StartSysload, Refuse
<1>4. ASSUME NEW n \in Names, OpenStaging(n) PROVE OwnedInv'
  BY <1>0, <1>4 DEF OwnedInv, OpenStaging, Refuse
<1>5. CASE WriteStaging
  BY <1>0, <1>5 DEF OwnedInv, WriteStaging
<1>6. CASE RenameStaging
  <2>1. /\ cur \in Side /\ staging[cur] # None
        /\ file' = [file EXCEPT ![cur] = staging[cur]]
    BY <1>0, <1>6 DEF KnownInv, RenameStaging
  <2>2. file'[cur] # None /\ \A n \in Side \ {cur} : file'[n] = file[n]
    BY <1>0, <2>1 DEF FilesTyped
  <2> QED BY <1>0, <1>6, <2>1, <2>2 DEF OwnedInv, RenameStaging
<1>7. CASE Insert
  BY <1>0, <1>7 DEF OwnedInv, Insert
<1>8. CASE Started \/ Dropped
  BY <1>0, <1>8 DEF OwnedInv, Started, Dropped
<1>9. CASE DropBegin
  <2>1. PICK n \in removed :
          /\ cur' = n /\ removed' = removed \ {n}
          /\ file' = IF n \in Side THEN [file EXCEPT ![n] = None] ELSE file
    BY <1>9 DEF DropBegin
  <2>2. \A m \in Side : file'[m] = IF m = n THEN None ELSE file[m]
    BY <1>0, <2>1 DEF FilesTyped
  <2> QED BY <1>0, <1>9, <2>1, <2>2 DEF OwnedInv, AgentTyped, DropBegin
<1>10. CASE DropStop
  BY <1>0, <1>10 DEF OwnedInv, DropStop
<1>11. CASE AgentRestart
  <2>1. \A n \in Side : file'[n] = None
    BY <1>11 DEF AgentRestart, NoJobs
  <2> QED BY <1>0, <1>11, <2>1 DEF OwnedInv, AgentRestart
<1>12. CASE Daemon \/ DaemonCrash \/ (\E n \in Side : ServiceEnds(n)) \/ UNCHANGED sideVars
  <2>1. UNCHANGED <<agentVars, files>>
    BY <1>12 DEF Daemon, OpenJobFiles, LoadJobFiles, StopJob, JobsStopped, StartJob, JobsStarted,
       Assess, DaemonStart, DaemonCrash, ServiceEnds, sideVars
  <2> QED BY <1>0, <2>1 DEF OwnedInv
<1> QED BY <1>1, <1>2, <1>3, <1>4, <1>5, <1>6, <1>7, <1>8, <1>9, <1>10, <1>11, <1>12
        DEF SideNext, Agent

LEMMA StoppedKept ==
    ASSUME SideInv, [SideNext]_sideVars
    PROVE  StoppedInv'
<1> USE NamesAssumption DEF agentVars, files, daemonVars, units, Fault, Names
<1>0. AgentTyped /\ UnitsTyped /\ DaemonTyped /\ OwnedInv /\ StoppedInv
  BY DEF SideInv, SideTyped
<1>1. ASSUME NEW t \in SUBSET Names, Cmd(t) PROVE StoppedInv'
  BY <1>0, <1>1 DEF OwnedInv, StoppedInv, Cmd, Begin
<1>2. CASE BecomeIdle
  BY <1>0, <1>2 DEF OwnedInv, StoppedInv, BecomeIdle
<1>3. ASSUME NEW n \in Names, StartSysload(n) PROVE StoppedInv'
  BY <1>0, <1>3 DEF StoppedInv, UnitsTyped, StartSysload, Refuse
<1>4. ASSUME NEW n \in Names, OpenStaging(n) PROVE StoppedInv'
  BY <1>0, <1>4 DEF StoppedInv, OpenStaging, Refuse
<1>5. CASE WriteStaging \/ RenameStaging \/ Started \/ Dropped
  BY <1>0, <1>5 DEF StoppedInv, WriteStaging, RenameStaging, Started, Dropped
<1>6. CASE Insert
  BY <1>0, <1>6 DEF StoppedInv, OwnedInv, Insert
<1>7. CASE DropBegin
  BY <1>0, <1>7 DEF StoppedInv, DropBegin
<1>8. CASE DropStop
  BY <1>0, <1>8 DEF StoppedInv, OwnedInv, UnitsTyped, DropStop
<1>9. CASE AgentRestart
  BY <1>0, <1>9 DEF StoppedInv, AgentRestart
<1>10. CASE Daemon \/ DaemonCrash \/ (\E n \in Side : ServiceEnds(n)) \/ UNCHANGED sideVars
  <2>1. UNCHANGED agentVars
    BY <1>10 DEF Daemon, OpenJobFiles, LoadJobFiles, StopJob, JobsStopped, StartJob, JobsStarted,
       Assess, DaemonStart, DaemonCrash, ServiceEnds, sideVars
  <2>2. \A n \in Sys : unit[n] = "none" => unit'[n] = "none"
    <3>1. CASE \E n \in Side : StopJob(n) \/ StartJob(n) \/ ServiceEnds(n)
      BY <1>0, <3>1 DEF UnitsTyped, StopJob, StartJob, ServiceEnds
    <3>2. CASE \E c \in {"ok", "overload", "critical"}, e \in BOOLEAN : Assess(c, e)
      <4>1. PICK ov \in BOOLEAN, kill \in SUBSET Side : Freeze(ov, kill)
        BY <1>0, <3>2 DEF Assess, Running
      <4> QED BY <1>0, <4>1 DEF UnitsTyped, Freeze
    <3>3. CASE DaemonStart
      BY <1>0, <3>3 DEF UnitsTyped, DaemonStart
    <3>4. CASE \/ OpenJobFiles \/ LoadJobFiles \/ JobsStopped \/ JobsStarted
               \/ DaemonCrash \/ UNCHANGED sideVars
      BY <3>4 DEF OpenJobFiles, LoadJobFiles, JobsStopped, JobsStarted, DaemonCrash, sideVars
    <3> QED BY <1>10, <3>1, <3>2, <3>3, <3>4 DEF Daemon
  <2> QED BY <1>0, <2>1, <2>2 DEF StoppedInv
<1> QED BY <1>1, <1>2, <1>3, <1>4, <1>5, <1>6, <1>7, <1>8, <1>9, <1>10 DEF SideNext, Agent

(* Of the workloads nothing is left that the runner does not know of: the  *)
(* daemon takes no job for another although inode numbers are used again,  *)
(* every job file has its sideload, and every sysload that is gone was     *)
(* stopped or warned of.  For any number of workloads, commands, faults,   *)
(* overloads and restarts of either process, except a death of the agent   *)
(* between writing a job file and giving it its name.                      *)
THEOREM NothingIsLeftOver ==
    ASSUME CrashMidSave = FALSE
    PROVE  SideSpec => []Leftovers
<1>1. SideInit => SideInv
  BY SideStarts
<1>2. SideInv /\ [SideNext]_sideVars => SideInv'
  BY SideTypesKept, KnownKept, OwnedKept, StoppedKept DEF SideInv
<1>3. SideInv => Leftovers
  BY DEF SideInv, KnownInv, OwnedInv, StoppedInv, Leftovers
<1> QED BY <1>1, <1>2, <1>3, PTL DEF SideSpec
====
