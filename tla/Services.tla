------------------------------ MODULE Services ------------------------------
(***************************************************************************)
(* EnsureServiceStateChanger (service/ensure_service.py) with the changers  *)
(* it delegates to: a systemd unit on Linux (systemd/                       *)
(* ensure_systemd_unit.py) and a launchd agent on macOS (launchd/           *)
(* ensure_launchd_agent.py).  One action per call of the file system, of    *)
(* systemctl or of launchctl; a call that fails may have had its effect.    *)
(*                                                                         *)
(* The manager (systemd or launchd) knows a service in the version it has   *)
(* read, which need not be the one in the file, and a running service was   *)
(* started from a version the manager knew then.                            *)
(***************************************************************************)
EXTENDS Naturals, NodeLife

CONSTANTS
  MaxCrashes,  \* bound on how often the service dies
  MaxRuns      \* bound on how often the program calls start()

ASSUME NodeAssumption   == Node = {"node"}
ASSUME BoundsAssumption == MaxCrashes \in Nat /\ MaxRuns \in Nat \ {0}

\* The wanted unit_content or plist_content, another version of the same
\* service, a file of another owner (with another Description or Label), and
\* what a failed write leaves.
Version == {"new", "old", "foreign", "torn"}

\* What may be under the service's name, before the program and after it.
File   == Version \cup {"none"}
Active == Version \cup {"none", "failed"}

\* started is loaded for launchd, which ignores enabled; domain: is there a
\* domain_target?
Params == [enabled : BOOLEAN, started : BOOLEAN, reload_on_change : BOOLEAN,
           domain : BOOLEAN]

\* Has the unit an [Install] section, does the service stay active once it is
\* started (a oneshot does not), and can it be reloaded (ExecReload)?
Nature == [install : BOOLEAN, stays : BOOLEAN, reloads : BOOLEAN]

VARIABLES
  faults,    \* may the calls of this host fail?
  platform,  \* env.platform()
  params,    \* self._params
  nature,
  file,      \* the unit or the plist
  known,     \* the version the manager knows, "none" if it is not loaded
  running,   \* the version the active service was started from, "none" if it is
             \* inactive, "failed" if it has died (Linux)
  enabled,   \* is the unit enabled? (Linux)
  changed,   \* content_changed of the transition that is running
  runs, crashes,
  before     \* the service when the transition began

setVars  == <<faults, platform, params, nature, runs, crashes>>
hostVars == <<file, known, running, enabled>>
vars     == <<setVars, hostVars, changed, before, lifeVars>>

Service == [file |-> file, known |-> known, running |-> running]

Linux  == platform = "linux"
Darwin == platform = "darwin"

\* The manager has read what is in the file.
Init ==
  /\ faults \in BOOLEAN
  /\ platform \in {"linux", "darwin"}
  /\ params \in Params
  /\ nature \in Nature
  /\ file \in {"none", "new", "old", "foreign"}
  /\ IF Linux
     THEN /\ known = file
          /\ running \in {file, "none", "failed"}
          /\ enabled \in (IF file = "none" THEN {FALSE} ELSE {FALSE, nature.install})
     ELSE /\ known \in {file, "none"}
          /\ running = "none"
          /\ enabled = FALSE
  /\ changed = FALSE
  /\ runs = 1
  /\ crashes = 0
  /\ before = Service
  /\ LifeInit

-----------------------------------------------------------------------------

Crash ==
  /\ Linux
  /\ running \in Version
  /\ crashes < MaxCrashes
  /\ crashes' = crashes + 1
  /\ running' = "failed"
  /\ UNCHANGED <<faults, platform, params, nature, runs, file, known, enabled,
                 changed, before, lifeVars>>

StartAgain ==
  /\ phase["node"] = "done"
  /\ runs < MaxRuns
  /\ runs' = runs + 1
  /\ LifeAgain
  /\ UNCHANGED <<faults, platform, params, nature, crashes, hostVars, changed, before>>

-----------------------------------------------------------------------------
(* assess_state.                                                            *)

\* _enable_state_matches: a unit without [Install] is "static".
EnabledMatches ==
  IF params.enabled THEN nature.install /\ enabled ELSE ~enabled

\* _active_state_matches
ActiveMatches ==
  IF params.started THEN running \in Version ELSE running = "none"

UnitVerdict ==
  IF file = "foreign" THEN "INVALID"
  ELSE IF file = "new" /\ EnabledMatches /\ ActiveMatches THEN "ALREADY_APPLIED"
  ELSE "READY"

AgentVerdict ==
  IF file \in {"foreign", "torn"} \/ (params.started /\ ~params.domain) THEN "INVALID"
  ELSE IF file = "new" /\ (params.started => known # "none") THEN "ALREADY_APPLIED"
  ELSE "READY"

Verdict == IF Linux THEN UnitVerdict ELSE AgentVerdict

\* A query of the manager that fails counts as no match, anything else that
\* fails is an issue.
FaultyVerdicts ==
  {"INVALID"} \cup {s \in {"READY"} : Verdict # "INVALID"}

AssessState ==
  /\ \E state \in {Verdict} \cup (IF faults THEN FaultyVerdicts ELSE {}) :
       Assess("node", state) \/ Verify("node", state)
  /\ UNCHANGED <<setVars, hostVars, changed, before>>

-----------------------------------------------------------------------------
(* The transitions.                                                         *)

At(p)       == phase["node"] = p
Continue(p) == Goto("node", p) /\ UNCHANGED <<outcome, result, undo>>
Succeeds    == Returns("node", "SUCCESS")
Fails       == Returns("node", "FAILURE")

\* A call whose effect is `effect` and after which the transition goes on with
\* `next`, or fails.
Call(effect, none, next) ==
  \/ effect /\ next
  \/ faults /\ (effect \/ none) /\ Fails

\* A unit that cannot be read counts as one that is not there.
WriteUnit ==
  /\ At("transition") /\ Linux
  /\ changed' \in {file \notin {"none", "new"}} \cup {c \in {FALSE} : faults}
  /\ \/ file' = "new" /\ Continue("reload")
     \/ faults /\ file' \in {file, "torn"} /\ Fails
  /\ before' = Service
  /\ UNCHANGED <<setVars, known, running, enabled>>

WritePlist ==
  /\ At("transition") /\ Darwin
  /\ \/ file' = "new" /\ params.started /\ Continue("bootstrap")
     \/ file' = "new" /\ ~params.started /\ Succeeds
     \/ faults /\ file' \in {file, "torn"} /\ Fails
  /\ before' = Service
  /\ UNCHANGED <<setVars, known, running, enabled, changed>>

\* systemctl daemon-reload
DaemonReload ==
  /\ At("reload")
  /\ Call(known' = file, UNCHANGED known, Continue("enable"))
  /\ UNCHANGED <<setVars, file, running, enabled, changed, before>>

\* systemctl enable or disable: nothing happens to a unit without [Install].
ApplyEnabled ==
  /\ At("enable")
  /\ Call(enabled' = (params.enabled /\ nature.install), UNCHANGED enabled, Continue("start"))
  /\ UNCHANGED <<setVars, file, known, running, changed, before>>

\* What is active after the manager has started the unit.
Started == IF nature.stays THEN known ELSE "none"

\* systemctl stop: a unit that has died stays failed.
Stopped == IF running = "failed" THEN "failed" ELSE "none"

\* Mutant: the service is never restarted.
ActiveAfterNoRestart ==
  IF ~params.started THEN Stopped
  ELSE IF running \in Version THEN running
  ELSE Started

\* Does the process of an active service go on?  systemctl start leaves it alone;
\* reload-or-restart does not replace it either if the unit can be reloaded.
Retained ==
  /\ running \in Version
  /\ changed /\ params.reload_on_change => nature.reloads

\* systemctl stop, reload-or-restart or start
ActiveAfter ==
  IF ~params.started THEN Stopped ELSE IF Retained THEN running ELSE Started

ApplyStarted ==
  /\ At("start")
  /\ Call(running' = ActiveAfter, running' \in {running, "failed"}, Succeeds)
  /\ UNCHANGED <<setVars, file, known, enabled, changed, before>>

\* launchctl bootstrap fails if the agent is loaded already.
Bootstrap ==
  /\ At("bootstrap")
  /\ \/ known = "none" /\ known' = file /\ (Succeeds \/ (faults /\ (Continue("load") \/ Fails)))
     \/ known # "none" /\ Continue("load") /\ UNCHANGED known
     \/ faults /\ (Continue("load") \/ Fails) /\ UNCHANGED known
  /\ UNCHANGED <<setVars, file, running, enabled, changed, before>>

\* launchctl load of an agent that is loaded complains, with exit code 0 or not.
LegacyLoad ==
  /\ At("load")
  /\ \/ /\ known' = (IF known = "none" THEN file ELSE known)
        /\ Succeeds \/ ((known # "none" \/ faults) /\ Fails)
     \/ faults /\ UNCHANGED known /\ Fails
  /\ UNCHANGED <<setVars, file, running, enabled, changed, before>>

-----------------------------------------------------------------------------
(* The transitions of the inverses.                                         *)

GivesUp == Undone("node", "FAILURE")

\* systemctl stop, whatever its exit code: only an error of the process counts.
RollbackStop ==
  /\ At("rollback") /\ Linux
  /\ \/ Continue("disable") /\ running' \in {Stopped} \cup {r \in {running} : faults}
     \/ faults /\ GivesUp /\ running' \in {Stopped, running}
  /\ UNCHANGED <<setVars, file, known, enabled, changed, before>>

RollbackDisable ==
  /\ At("disable")
  /\ \/ Continue("delete") /\ enabled' \in {FALSE} \cup {e \in {enabled} : faults}
     \/ faults /\ GivesUp /\ enabled' \in {FALSE, enabled}
  /\ UNCHANGED <<setVars, file, known, running, changed, before>>

\* Mutant: the manager is not told that the unit has gone.
DeleteUnitForgets ==
  /\ At("delete") /\ Linux
  /\ file' = "none"
  /\ Undone("node", IF file = "none" THEN "SKIPPED" ELSE "SUCCESS")
  /\ UNCHANGED <<setVars, known, running, enabled, changed, before>>

DeleteUnit ==
  /\ At("delete") /\ Linux
  /\ \/ file = "none" /\ Undone("node", "SKIPPED") /\ UNCHANGED file
     \/ file # "none" /\ file' = "none" /\ Continue("undo_reload")
     \/ faults /\ GivesUp /\ UNCHANGED file
  /\ UNCHANGED <<setVars, known, running, enabled, changed, before>>

\* Mutant: the reload is reported as an assessment.
RollbackReloadAssesses ==
  /\ At("undo_reload")
  /\ known' = file
  /\ Undone("node", "ALREADY_APPLIED")
  /\ UNCHANGED <<setVars, file, running, enabled, changed, before>>

RollbackReload ==
  /\ At("undo_reload")
  /\ \/ known' = file /\ Undone("node", "SUCCESS")
     \/ faults /\ known' \in {file, known} /\ GivesUp
  /\ UNCHANGED <<setVars, file, running, enabled, changed, before>>

\* launchctl bootout fails if the agent is not loaded; without a domain_target
\* only launchctl unload is left.
Bootout ==
  /\ At("rollback") /\ Darwin
  /\ \/ /\ params.domain /\ known # "none"
        /\ known' = "none"
        /\ Continue("delete") \/ (faults /\ GivesUp)
     \/ /\ ~params.domain \/ known = "none" \/ faults
        /\ Continue(IF file = "none" THEN "delete" ELSE "unload")
        /\ UNCHANGED known
     \/ params.domain /\ faults /\ GivesUp /\ UNCHANGED known
  /\ UNCHANGED <<setVars, file, running, enabled, changed, before>>

LegacyUnload ==
  /\ At("unload")
  /\ \/ known' = "none" /\ Continue("delete")
     \/ (known = "none" \/ faults) /\ GivesUp /\ known' \in {known, "none"}
  /\ UNCHANGED <<setVars, file, running, enabled, changed, before>>

DeletePlist ==
  /\ At("delete") /\ Darwin
  /\ \/ file = "none" /\ Undone("node", "SKIPPED") /\ UNCHANGED file
     \/ file # "none" /\ file' = "none" /\ Undone("node", "SUCCESS")
     \/ faults /\ GivesUp /\ UNCHANGED file
  /\ UNCHANGED <<setVars, known, running, enabled, changed, before>>

Next ==
  \/ Crash \/ StartAgain \/ AssessState
  \/ WriteUnit \/ DaemonReload \/ ApplyEnabled \/ ApplyStarted
  \/ RollbackStop \/ RollbackDisable \/ DeleteUnit \/ RollbackReload
  \/ WritePlist \/ Bootstrap \/ LegacyLoad
  \/ Bootout \/ LegacyUnload \/ DeletePlist

Spec == Init /\ [][Next]_vars

-----------------------------------------------------------------------------
(* Properties.                                                              *)

TypeOK ==
  /\ LifeTypeOK
  /\ phase["node"] \in {"assess", "transition", "reload", "enable", "start", "bootstrap",
                        "load", "verify", "rollback", "disable", "delete", "undo_reload",
                        "unload", "done"}
  /\ faults \in BOOLEAN
  /\ platform \in {"linux", "darwin"}
  /\ params \in Params
  /\ nature \in Nature
  /\ {file, known} \subseteq File
  /\ running \in Active
  /\ {enabled, changed} \subseteq BOOLEAN
  /\ runs \in 1 .. MaxRuns
  /\ crashes \in 0 .. MaxCrashes
  /\ before \in [file : File, known : File, running : Active]

\* Without faults, the second assessment confirms the transition.  The exceptions
\* are units of a kind the assessment does not provide for: one that cannot be
\* enabled, one that does not stay active, and one that should be stopped and has
\* died.
EffectConfirmed ==
  ~faults /\ crashes = 0 /\ result["node"] = "MISMATCH" =>
    /\ Linux
    /\ \/ params.enabled /\ ~nature.install
       \/ params.started /\ ~nature.stays
       \/ ~params.started /\ before.running = "failed"

\* A service that should be started and succeeds works in the version that was
\* written, whatever has failed in this run or an earlier one.  The exceptions are
\* services that were active before: the program wants no reload, the unit is one
\* that is reloaded and keeps its process, or a failed run has left the service
\* active and the unit replaced or gone, so that the next one finds no change.  An
\* agent that was loaded in another version stays (nothing unloads it).
UpdateTakesEffect ==
  params.started /\ outcome["node"] = "SUCCESS" /\ crashes = 0 =>
    IF Linux
    THEN \/ running = "new"
         \/ /\ before.running \in Version
            /\ ~params.reload_on_change \/ nature.reloads \/ (faults /\ ~changed)
    ELSE known = "new" \/ before.known \notin {"none", "new"}

\* A rollback that reports success leaves neither the file nor a service the
\* manager still knows, whichever of its commands have failed on the way.
NothingLeftLoaded ==
  undo["node"] = "SUCCESS" => file = "none" /\ known = "none"
=============================================================================
